----------------------------- MODULE Connection -----------------------------
(***************************************************************************)
(* The life of the radio's connections: the shoutcast task, the netconn it *)
(* works with, and lwIP's control blocks (pcbs) behind it, the ones of     *)
(* earlier connections among them.                                         *)
(*                                                                         *)
(* A netconn knows its pcb and a pcb its netconn, and either may go first: *)
(* a reset or a timer frees the pcb, netconn_close hands it to TCP, which  *)
(* keeps it until the other side has closed, too.  All connections leave   *)
(* from port 3250, so netconn_bind fails until TCP has let go of the last. *)
(* Data that recvmbox has no room for stays at the pcb (refused_data) and  *)
(* is offered again; a FIN that it has no room for is forgotten.           *)
(*                                                                         *)
(* The functions of tcpip_thread are one step each: its priority is above  *)
(* the task's, and it does not wait.  A call that must wait is answered by *)
(* a later step of the thread, through op_completed.                       *)
(***************************************************************************)
EXTENDS Naturals, FiniteSets, Sequences

CONSTANTS
    NPCB,               \* MEMP_NUM_TCP_PCB
    MBOX,               \* DEFAULT_TCP_RECVMBOX_SIZE
    MAXSEG,             \* bound: segments of data in a connection
    MAXNOMEM            \* bound: failures for want of memory or of a route

ASSUME ConnectionAssumption ==
    /\ NPCB \in Nat \ {0} /\ MBOX \in Nat \ {0}
    /\ MAXSEG \in Nat /\ MAXNOMEM \in Nat

VARIABLES
    task,               \* shoutcast: the call it is in or about to make
    header,             \* it reads the header of the stream
    read,               \* the last segment it was given
    conn,               \* NetConn: pcb, state, fatal last_err, recvmbox
    answer,             \* op_completed: "none", or the result of the call
    pcbs,               \* the control blocks
    nomem               \* failures so far

vars == << task, header, read, conn, answer, pcbs, nomem >>

Pcb == 1 .. NPCB
Eof == 0                \* the NULL message; data are the segments 1, 2, ...

(* cb: callback_arg is the netconn, and errf, poll and sent are set; recv  *)
(* is set unless rxclosed is.  bound: local_port is 3250.  kept: no timer  *)
(* ends it, since the server shows no window and answers the probes, or    *)
(* sends a segment (pcb->tmr) before each limit is over.                   *)
Free == [state |-> "free", bound |-> FALSE, cb |-> FALSE, rxclosed |-> FALSE,
         unacked |-> FALSE, kept |-> FALSE, got |-> 0, refused |-> 0]
TimeWait == [Free EXCEPT !.state = "TIME_WAIT", !.bound = TRUE, !.rxclosed = TRUE]
NoConn == [pcb |-> 0, state |-> "NONE", fatal |-> FALSE, mbox |-> << >>, valid |-> FALSE]

In(states) == { p \in Pcb : pcbs[p].state \in states }
Active == In({"SYN_SENT", "ESTABLISHED", "CLOSE_WAIT", "FIN_WAIT_1", "FIN_WAIT_2",
              "CLOSING", "LAST_ACK"})
Put(p, pcb) == pcbs' = [pcbs EXCEPT ![p] = pcb]

Init ==
    /\ task = "new" /\ header = TRUE /\ read = 0
    /\ conn = NoConn /\ answer = "none"
    /\ pcbs = [p \in Pcb |-> Free] /\ nomem = 0

(* A pool is empty, or the route is gone.                                  *)
NoMem == nomem < MAXNOMEM /\ nomem' = nomem + 1

(***************************************************************************)
(* Callbacks of the pcbs.                                                  *)
(***************************************************************************)
(* sys_mbox_trypost to recvmbox.                                           *)
TryPost(c, message) ==
    IF c.valid /\ Len(c.mbox) < MBOX THEN [c EXCEPT !.mbox = Append(@, message)] ELSE c

(* refused_data is offered again: the netconn and the pcb after it.        *)
Offered(p) == IF pcbs[p].refused = 0 THEN conn ELSE TryPost(conn, pcbs[p].refused)
Accepted(p) == pcbs[p].refused = 0 \/ Offered(p) # conn
Rest(p) == IF Accepted(p) THEN [pcbs[p] EXCEPT !.refused = 0] ELSE pcbs[p]

(* Mutant: conn->pcb.tcp is not set to NULL.                               *)
MutantPcbKept(c) ==
    /\ conn' = [TryPost(c, Eof) EXCEPT !.fatal = TRUE, !.state = "NONE"]
    /\ answer' = IF c.state = "NONE" THEN answer ELSE "error"

(* err_tcp: the pcb is gone, and a call that waits for it is answered.     *)
err_tcp(c) ==
    /\ conn' = [TryPost(c, Eof) EXCEPT !.pcb = 0, !.fatal = TRUE, !.state = "NONE"]
    /\ answer' = IF c.state = "NONE" THEN answer ELSE "error"

(* errf is called and the pcb is freed.                                    *)
Lost(p, c) ==
    /\ Put(p, Free)
    /\ IF pcbs[p].cb THEN err_tcp(c) ELSE conn' = c /\ UNCHANGED answer

do_writemore(p, c, pcb) ==
    \/ /\ Put(p, [pcb EXCEPT !.unacked = TRUE])
       /\ conn' = [c EXCEPT !.state = "NONE"] /\ answer' = "ok"
       /\ UNCHANGED nomem
    \/ /\ NoMem
       /\ Put(p, pcb) /\ conn' = [c EXCEPT !.state = "WRITE"]
       /\ UNCHANGED answer

(* Callbacks are taken back and tcp_close is called.  Data the netconn did *)
(* not get end the connection with a reset.                                *)
Closed(c) == conn' = [c EXCEPT !.pcb = 0, !.state = "NONE"] /\ answer' = "ok"

CloseDone(p, c, pcb) ==
    /\ Closed(c)
    /\ \/ pcb.refused # 0 /\ Put(p, TimeWait)
       \/ pcb.refused = 0 /\ pcb.state = "CLOSED" /\ Put(p, Free)
       \/ /\ pcb.refused = 0 /\ pcb.state \in {"ESTABLISHED", "CLOSE_WAIT"}
          /\ Put(p, [pcb EXCEPT !.cb = FALSE, !.rxclosed = TRUE, !.unacked = FALSE,
                        !.state = IF @ = "ESTABLISHED" THEN "FIN_WAIT_1" ELSE "LAST_ACK"])
    /\ UNCHANGED nomem

(* tcp_send_fin has failed: the callbacks are set again, but for recv.     *)
CloseFails(p, c, pcb) ==
    /\ NoMem
    /\ pcb.refused = 0 /\ pcb.state \in {"ESTABLISHED", "CLOSE_WAIT"}
    /\ Put(p, [pcb EXCEPT !.cb = TRUE, !.rxclosed = TRUE])
    /\ conn' = [c EXCEPT !.state = "CLOSE"] /\ UNCHANGED answer

do_close_internal(p, c, pcb) == CloseDone(p, c, pcb) \/ CloseFails(p, c, pcb)

(* Mutant: only a write is taken up again.                                 *)
MutantNoClose(p, c, pcb) ==
    IF pcb.cb /\ c.state = "WRITE" THEN do_writemore(p, c, pcb)
    ELSE Put(p, pcb) /\ conn' = c /\ UNCHANGED << answer, nomem >>

(* poll_tcp and sent_tcp: a call that waits is taken up again.             *)
TakeUp(p, c, pcb) ==
    CASE pcb.cb /\ c.state = "WRITE" -> do_writemore(p, c, pcb)
      [] pcb.cb /\ c.state = "CLOSE" -> do_close_internal(p, c, pcb)
      [] OTHER -> Put(p, pcb) /\ conn' = c /\ UNCHANGED << answer, nomem >>

(***************************************************************************)
(* The calls of the shoutcast task.                                        *)
(***************************************************************************)
(* A pcb for netconn_new; connections in TIME_WAIT, and then active ones,  *)
(* make place for it.                                                      *)
tcp_alloc ==
    IF In({"free"}) # {} THEN In({"free"})
    ELSE IF In({"TIME_WAIT"}) # {} THEN In({"TIME_WAIT"}) ELSE Active

(* There may be no netconn, semaphore or mailbox for it.                   *)
S_New ==
    /\ task = "new"
    /\ \/ \E p \in tcp_alloc :
          /\ task' = "bind"
          /\ Put(p, [Free EXCEPT !.state = "CLOSED", !.cb = TRUE])
          /\ conn' = [NoConn EXCEPT !.pcb = p, !.valid = TRUE]
          /\ UNCHANGED nomem
       \/ NoMem /\ task' = "null" /\ conn' = NoConn /\ UNCHANGED pcbs
    /\ header' = TRUE /\ read' = 0
    /\ UNCHANGED answer

(* The time-out is set through NULL, which may stop the system; if it does *)
(* not, netconn_bind fails every 10 s.                                     *)
S_NullBind == task = "null" /\ UNCHANGED vars

(* Mutant: connections in TIME_WAIT are not looked at, as with SO_REUSE.   *)
MutantNotTimeWait == \E p \in Pcb : pcbs[p].bound /\ pcbs[p].state # "TIME_WAIT"

(* tcp_bind finds the port in use; try again in 10 s.                      *)
PortInUse == \E p \in Pcb : pcbs[p].bound

S_Bind ==
    /\ task = "bind" /\ ~PortInUse
    /\ task' = "connect"
    /\ Put(conn.pcb, [pcbs[conn.pcb] EXCEPT !.bound = TRUE])
    /\ UNCHANGED << header, read, conn, answer, nomem >>

(* A pcb that is not CLOSED cannot be connected, and after an error there  *)
(* is none: so ends the connection that has timed out.                     *)
Connectable == { p \in Pcb : p = conn.pcb /\ pcbs[p].state = "CLOSED" }

S_Connect ==
    /\ task = "connect"
    /\ \/ /\ IF Connectable = {} THEN UNCHANGED nomem ELSE NoMem
          /\ task' = "delete" /\ UNCHANGED << conn, pcbs >>
       \/ \E p \in Connectable :
          /\ Put(p, [pcbs[p] EXCEPT !.state = "SYN_SENT"])
          /\ conn' = [conn EXCEPT !.state = "CONNECT"]
          /\ task' = "connecting" /\ UNCHANGED nomem
    /\ UNCHANGED << header, read, answer >>

(* The request; its result is only printed.                                *)
S_Write ==
    /\ task = "write"
    /\ IF conn.fatal THEN task' = "recv" /\ UNCHANGED << conn, pcbs, answer, nomem >>
       ELSE task' = "writing" /\ do_writemore(conn.pcb, conn, pcbs[conn.pcb])
    /\ UNCHANGED << header, read >>

(* netconn_recv does not wait after a fatal error, nor without a netbuf.   *)
Failed(timeout) ==
    /\ task' = IF header THEN "recv" ELSE IF timeout THEN "connect" ELSE "close"
    /\ header' = FALSE

S_Recv ==
    /\ task = "recv"
    /\ \/ NoMem /\ Failed(FALSE)
       \/ conn.fatal /\ Failed(FALSE) /\ UNCHANGED nomem
       \/ ~conn.fatal /\ task' = "fetch" /\ UNCHANGED << header, nomem >>
    /\ UNCHANGED << read, conn, answer, pcbs >>

S_Fetch ==
    /\ task = "fetch" /\ conn.mbox # << >>
    /\ LET message == Head(conn.mbox) IN
       \/ /\ message = Eof
          /\ conn' = [conn EXCEPT !.mbox = Tail(@), !.fatal = TRUE]
          /\ Failed(FALSE) /\ UNCHANGED read
       \/ /\ message # Eof
          /\ conn' = [conn EXCEPT !.mbox = Tail(@)]
          /\ read' = message
          /\ task' = "recv" /\ header' \in {header, FALSE}
    /\ UNCHANGED << answer, pcbs, nomem >>

(* Mutant: netconn_set_recvtimeout is not called.                          *)
MutantNoTimeout == FALSE /\ UNCHANGED vars

(* 30 s have passed.                                                       *)
S_FetchTimeout ==
    /\ task = "fetch" /\ conn.mbox = << >>
    /\ Failed(TRUE)
    /\ UNCHANGED << read, conn, answer, pcbs, nomem >>

Drained == [conn EXCEPT !.mbox = << >>, !.valid = FALSE]

S_Close ==
    /\ task = "close"
    /\ IF conn.pcb = 0
       THEN task' = "delete" /\ UNCHANGED << conn, answer, pcbs, nomem >>
       ELSE /\ task' = "closing"
            /\ do_close_internal(conn.pcb, Drained, pcbs[conn.pcb])
    /\ UNCHANGED << header, read >>

S_Delete ==
    /\ task = "delete"
    /\ IF conn.pcb = 0
       THEN task' = "new" /\ conn' = NoConn /\ UNCHANGED << answer, pcbs, nomem >>
       ELSE /\ task' = "deleting"
            /\ do_close_internal(conn.pcb, Drained, pcbs[conn.pcb])
    /\ UNCHANGED << header, read >>

(* The call that has waited for op_completed returns.                      *)
S_Answered ==
    /\ answer # "none" /\ answer' = "none"
    /\ task' = CASE task = "connecting" -> IF answer = "ok" THEN "write" ELSE "delete"
                 [] task = "writing" -> "recv"
                 [] task = "closing" -> "delete"
                 [] task = "deleting" -> "new"
    /\ conn' = IF task = "deleting" THEN NoConn ELSE conn
    /\ UNCHANGED << header, read, pcbs, nomem >>

Shoutcast ==
    \/ S_New \/ S_NullBind \/ S_Bind \/ S_Connect \/ S_Write \/ S_Recv \/ S_Fetch
    \/ S_FetchTimeout \/ S_Close \/ S_Delete \/ S_Answered

(***************************************************************************)
(* Segments from the network.                                              *)
(***************************************************************************)
(* do_connected.                                                           *)
N_SynAck(p) ==
    /\ pcbs[p].state = "SYN_SENT"
    /\ Put(p, [pcbs[p] EXCEPT !.state = "ESTABLISHED"])
    /\ conn' = [conn EXCEPT !.state = "NONE"] /\ answer' = "ok"
    /\ UNCHANGED << task, header, read, nomem >>

N_Reset(p) ==
    /\ p \in Active
    /\ Lost(p, Offered(p))
    /\ UNCHANGED << task, header, read, nomem >>

N_AckData(p) ==
    /\ pcbs[p].unacked
    /\ TakeUp(p, Offered(p), [Rest(p) EXCEPT !.unacked = FALSE, !.kept = FALSE])
    /\ UNCHANGED << task, header, read >>

N_AckFin(p) ==
    /\ pcbs[p].state \in {"FIN_WAIT_1", "CLOSING", "LAST_ACK"}
    /\ Put(p, CASE pcbs[p].state = "FIN_WAIT_1" -> [pcbs[p] EXCEPT !.state = "FIN_WAIT_2"]
                [] pcbs[p].state = "CLOSING" -> TimeWait
                [] pcbs[p].state = "LAST_ACK" -> Free)
    /\ UNCHANGED << task, header, read, conn, answer, nomem >>

(* The states of tcp_process after a FIN.                                  *)
AfterFin(state) ==
    CASE state = "ESTABLISHED" -> {"CLOSE_WAIT"}
      [] state = "FIN_WAIT_1" -> {"CLOSING", "TIME_WAIT"}
      [] state = "FIN_WAIT_2" -> {"TIME_WAIT"}

(* A segment with data, a FIN, or both, unless refused data are in the way.*)
Receives(p) == pcbs[p].state \in {"ESTABLISHED", "FIN_WAIT_1", "FIN_WAIT_2"} /\ Accepted(p)

(* Data after the close: tcp_abort.                                        *)
N_DataAfterClose(p) ==
    /\ Receives(p) /\ pcbs[p].rxclosed
    /\ Lost(p, conn)
    /\ UNCHANGED << task, header, read, nomem >>

(* recv_tcp takes the segment or refuses it, and then the FIN.             *)
WithData(c, pcb) == TryPost(c, pcb.got + 1)
(* Mutant: what recvmbox has no room for is freed, as in recv_udp.         *)
MutantFreed(c, pcb) == [pcb EXCEPT !.got = @ + 1]

Got(c, pcb) ==
    [pcb EXCEPT !.got = @ + 1, !.refused = IF WithData(c, pcb) = c THEN pcb.got + 1 ELSE 0]

N_Data(p) ==
    /\ Receives(p) /\ ~pcbs[p].rxclosed /\ pcbs[p].got < MAXSEG
    /\ Put(p, Got(Offered(p), Rest(p)))
    /\ conn' = WithData(Offered(p), Rest(p))
    /\ UNCHANGED << task, header, read, answer, nomem >>

N_Fin(p) ==
    /\ Receives(p)
    /\ \E state \in AfterFin(pcbs[p].state), data \in BOOLEAN :
        /\ data => ~pcbs[p].rxclosed /\ pcbs[p].got < MAXSEG
        /\ LET c == IF data THEN WithData(Offered(p), Rest(p)) ELSE Offered(p)
               pcb == IF data THEN Got(Offered(p), Rest(p)) ELSE Rest(p)
           IN /\ Put(p, IF state = "TIME_WAIT" THEN TimeWait
                        ELSE [pcb EXCEPT !.state = state])
              /\ conn' = IF pcb.rxclosed THEN c ELSE TryPost(c, Eof)
    /\ UNCHANGED << task, header, read, answer, nomem >>

(***************************************************************************)
(* tcp_slowtmr and tcp_fasttmr.                                            *)
(***************************************************************************)
(* A timer runs that may end it.                                           *)
Expires(p) ==
    \/ pcbs[p].unacked
    \/ pcbs[p].state \in {"SYN_SENT", "FIN_WAIT_1", "FIN_WAIT_2", "CLOSING", "LAST_ACK",
                          "TIME_WAIT"}

(* The persist timer, which has no limit, takes the place of the           *)
(* retransmissions, or pcb->tmr is set again; or neither any more.  What   *)
(* is left to send after a close is not tracked: any FIN may be kept.  The *)
(* tries for a SYN are counted whatever the server sends.                  *)
N_Keeps(p) ==
    /\ Expires(p) /\ pcbs[p].state # "SYN_SENT"
    /\ Put(p, [pcbs[p] EXCEPT !.kept = ~@])
    /\ UNCHANGED << task, header, read, conn, answer, nomem >>

(* Mutant: there is no limit for FIN_WAIT_2.                               *)
MutantNoLimit(p) ==
    /\ Expires(p) /\ ~pcbs[p].kept /\ pcbs[p].state # "FIN_WAIT_2"
    /\ Lost(p, conn)
    /\ UNCHANGED << task, header, read, nomem >>

(* No answer for too long: the tries are used up, or 2 MSL are over.       *)
N_GivenUp(p) ==
    /\ Expires(p) /\ ~pcbs[p].kept
    /\ Lost(p, conn)
    /\ UNCHANGED << task, header, read, nomem >>

N_Poll(p) ==
    /\ p \in Active /\ pcbs[p].cb /\ conn.state \in {"WRITE", "CLOSE"}
    /\ TakeUp(p, conn, pcbs[p])
    /\ UNCHANGED << task, header, read >>

N_Refused(p) ==
    /\ pcbs[p].refused # 0 /\ Accepted(p)
    /\ Put(p, Rest(p)) /\ conn' = Offered(p)
    /\ UNCHANGED << task, header, read, answer, nomem >>

Net(p) ==
    \/ N_SynAck(p) \/ N_Reset(p) \/ N_AckData(p) \/ N_AckFin(p)
    \/ N_DataAfterClose(p) \/ N_Data(p) \/ N_Fin(p)
    \/ N_Keeps(p) \/ N_GivenUp(p) \/ N_Poll(p) \/ N_Refused(p)

Next == Shoutcast \/ \E p \in Pcb : Net(p)

Spec == Init /\ [][Next]_vars

(* Fairness: the task runs, and so do lwIP's timers.  Nothing is asked of  *)
(* the server.  It is strong for N_GivenUp: who keeps a pcb with one       *)
(* segment before each limit keeps it all the time, and each time a closed *)
(* window stops the retransmissions a try has been used (nrtx), so a pcb   *)
(* that is left to its timers again and again is given up.                 *)
LiveSpec ==
    /\ Spec
    /\ WF_vars(Shoutcast)
    /\ \A p \in Pcb : SF_vars(N_GivenUp(p)) /\ WF_vars(N_Poll(p)) /\ WF_vars(N_Refused(p))

-----------------------------------------------------------------------------
States == {"free", "CLOSED", "SYN_SENT", "ESTABLISHED", "CLOSE_WAIT", "FIN_WAIT_1",
           "FIN_WAIT_2", "CLOSING", "LAST_ACK", "TIME_WAIT"}
Block == [state : States, bound : BOOLEAN, cb : BOOLEAN, rxclosed : BOOLEAN,
          unacked : BOOLEAN, kept : BOOLEAN, got : Nat, refused : Nat]
Netconn == [pcb : 0 .. NPCB, state : {"NONE", "CONNECT", "WRITE", "CLOSE"},
            fatal : BOOLEAN, mbox : Seq(Nat), valid : BOOLEAN]

(* Ready: the task is not in a call that waits for op_completed.           *)
Ready == {"new", "null", "bind", "connect", "write", "recv", "fetch", "close", "delete"}

TypeOK ==
    /\ task \in Ready \cup {"connecting", "writing", "closing", "deleting"}
    /\ header \in BOOLEAN /\ read \in Nat
    /\ conn \in Netconn /\ Len(conn.mbox) <= MBOX
    /\ answer \in {"none", "ok", "error"}
    /\ pcbs \in [Pcb -> Block]
    /\ nomem \in 0 .. MAXNOMEM

(* Of the earlier connections at most one is left, so there is always a    *)
(* pcb for netconn_new, and no connection is killed for it: for want of a  *)
(* pcb it does not return the NULL that the task would use.                *)
OneIsLeft == Cardinality({ p \in Pcb : pcbs[p].state # "free" } \ {conn.pcb}) <= 1

(* Netconn and pcb know each other: no callback comes for a netconn that   *)
(* was deleted, and the netconn does not use a pcb that was freed.         *)
CallbacksReachConn ==
    \A p \in Pcb : pcbs[p].cb <=> conn.pcb = p

(* The segments TCP has acknowledged are read, in recvmbox or refused, in  *)
(* this order, and the end of the stream comes behind them.                *)
StreamIsWhole ==
    /\ \A k \in DOMAIN conn.mbox : conn.mbox[k] # Eof => conn.mbox[k] = read + k
    /\ conn.pcb # 0 /\ conn.valid =>
        LET data == { k \in DOMAIN conn.mbox : conn.mbox[k] # Eof }
            pcb == pcbs[conn.pcb]
        IN pcb.got = read + Cardinality(data) + (IF pcb.refused = 0 THEN 0 ELSE 1)

(* A call that waits for TCP returns.                                      *)
CallsReturn == conn.state # "NONE" ~> conn.state = "NONE"

(* When the server has closed, the task takes a new connection, also when  *)
(* the message of it had no room in recvmbox.                              *)
EndIsNoticed ==
    (\E p \in Pcb : p = conn.pcb /\ pcbs[p].state = "CLOSE_WAIT") ~> task = "new"

(* netconn_bind fails for ever only while a server keeps the earlier       *)
(* connection: its window stays closed while it answers the probes, or it  *)
(* goes on sending.                                                        *)
PortComesFree ==
    []<>(\A p \in Pcb : ~(pcbs[p].bound /\ pcbs[p].kept))
        => (task = "bind" ~> task = "connect")
=============================================================================
