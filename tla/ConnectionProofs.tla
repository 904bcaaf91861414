-------------------------- MODULE ConnectionProofs --------------------------
(***************************************************************************)
(* Netconns and pcbs for any number of pcbs, any recvmbox and any bounds:  *)
(* who has which, what is called with what, and that what TCP has          *)
(* acknowledged reaches the task whole and in order.                       *)
(***************************************************************************)
EXTENDS Connection, FiniteSetTheorems, TLAPS

(* A pcb p with contents b, while the task t uses netconn c.  One that     *)
(* knows the netconn was not closed yet and keeps what was refused; one    *)
(* that does not takes no more data, and has the port until it is freed.   *)
PcbInv(p, b, c, t) ==
    /\ b.cb <=> c.pcb = p
    /\ b.cb => b.state \in {"CLOSED", "SYN_SENT", "ESTABLISHED", "CLOSE_WAIT"}
    /\ b.cb /\ t # "bind" => b.bound
    /\ b.refused # 0 => b.cb /\ b.bound
    /\ b.state = "CLOSED" => b.cb
    /\ b.state # "free" => b.cb \/ b.rxclosed
    /\ b.state \notin {"free", "CLOSED"} => b.bound
    /\ b.state = "SYN_SENT" => b.cb /\ t = "connecting" /\ c.state = "CONNECT"

(* What TCP does for the task t: nothing, or what its call asked for, and  *)
(* then it gives one answer.  A pcb that went on its own left an error.    *)
CallInv(c, t, a) ==
    /\ t \in Ready => c.state = "NONE" /\ a = "none"
    /\ c.state # "NONE" => a = "none"
    /\ c.state = "WRITE" => t = "writing"
    /\ c.state = "CLOSE" => t \in {"closing", "deleting"}
    /\ t = "new" \/ (t = "deleting" /\ a # "none") => c.pcb = 0
    /\ c.pcb = 0 => \/ c.fatal
                  \/ t \in {"new", "null", "close", "closing", "delete", "deleting"}

OnePort == \A p, q \in Pcb : pcbs[p].bound /\ pcbs[q].bound => p = q

IInv ==
    /\ TypeOK
    /\ \A p \in Pcb : PcbInv(p, pcbs[p], conn, task)
    /\ CallInv(conn, task, answer)
    /\ OnePort

-----------------------------------------------------------------------------
(* sys_mbox_trypost changes recvmbox only.                                 *)
Same(c, d) ==
    /\ d \in Netconn /\ Len(d.mbox) <= MBOX
    /\ d.pcb = c.pcb /\ d.state = c.state /\ d.fatal = c.fatal

(* A message in recvmbox changes nothing else.                             *)
LEMMA PostKeeps ==
    ASSUME NEW c \in Netconn, Len(c.mbox) <= MBOX, NEW message \in Nat
    PROVE  Same(c, TryPost(c, message))
<1>1. CASE c.valid /\ Len(c.mbox) < MBOX
  <2>1. c.mbox \in Seq(Nat)
    BY DEF Netconn
  <2>2. /\ Append(c.mbox, message) \in Seq(Nat)
        /\ Len(Append(c.mbox, message)) = Len(c.mbox) + 1
    BY <2>1
  <2>3. Len(c.mbox) + 1 <= MBOX
    BY <1>1, <2>1, ConnectionAssumption
  <2> DEFINE s == Append(c.mbox, message)
  <2>4. TryPost(c, message) = [c EXCEPT !.mbox = s]
    BY <1>1 DEF TryPost
  <2> HIDE DEF s
  <2>5. s \in Seq(Nat) /\ Len(s) <= MBOX
    BY <2>2, <2>3 DEF s
  <2>6. Same(c, [c EXCEPT !.mbox = s])
    BY <2>5 DEF Same, Netconn
  <2> QED
    BY <2>4, <2>6
<1>2. CASE ~(c.valid /\ Len(c.mbox) < MBOX)
  BY <1>2 DEF TryPost, Same
<1> QED
  BY <1>1, <1>2

(* So does netconn_drain.                                                  *)
LEMMA DrainKeeps == ASSUME TypeOK PROVE Same(conn, Drained)
<1>1. << >> \in Seq(Nat) /\ Len(<< >>) <= MBOX
  BY ConnectionAssumption
<1> DEFINE e == << >>
           d == [conn EXCEPT !.mbox = e, !.valid = FALSE]
<1>2. e \in Seq(Nat) /\ Len(e) <= MBOX /\ d = Drained
  BY <1>1 DEF Drained
<1> HIDE DEF e
<1>3. Same(conn, d)
  BY <1>2 DEF TypeOK, Same, Netconn
<1> QED
  BY <1>2, <1>3

(* Offering refused data again changes recvmbox and refused_data only.     *)
LEMMA OfferKeeps ==
    ASSUME TypeOK, NEW p \in Pcb
    PROVE  /\ Same(conn, Offered(p))
           /\ Rest(p) \in Block
           /\ \E r \in {0, pcbs[p].refused} : Rest(p) = [pcbs[p] EXCEPT !.refused = r]
<1>1. conn \in Netconn /\ Len(conn.mbox) <= MBOX /\ pcbs[p] \in Block
  BY DEF TypeOK
<1>2. pcbs[p].refused \in Nat
  BY <1>1 DEF Block
<1>3. Same(conn, Offered(p))
  BY <1>1, <1>2, PostKeeps DEF Offered, Same
<1>4. \E r \in {0, pcbs[p].refused} : Rest(p) = [pcbs[p] EXCEPT !.refused = r]
  BY <1>1 DEF Rest, Block
<1>5. Rest(p) \in Block
  BY <1>1 DEF Rest, Block
<1> QED
  BY <1>3, <1>4, <1>5

(* TypeOK without the pcbs.                                                *)
Typed ==
    /\ task \in Ready \cup {"connecting", "writing", "closing", "deleting"}
    /\ header \in BOOLEAN /\ read \in Nat
    /\ conn \in Netconn /\ Len(conn.mbox) <= MBOX
    /\ answer \in {"none", "ok", "error"}
    /\ nomem \in 0 .. MAXNOMEM

(* A step that touches one pcb.                                            *)
LEMMA Update ==
    ASSUME IInv, NEW p \in Pcb, NEW b \in Block, Put(p, b), Typed',
           PcbInv(p, b, conn', task'), CallInv(conn', task', answer'),
           \A q \in Pcb \ {p} : PcbInv(q, pcbs[q], conn', task'),
           b.bound => pcbs[p].bound \/ ~PortInUse
    PROVE  IInv'
<1>1. pcbs' \in [Pcb -> Block]
  BY DEF IInv, TypeOK, Put
<1>2. \A q \in Pcb : pcbs'[q] = IF q = p THEN b ELSE pcbs[q]
  BY DEF IInv, TypeOK, Put
<1>3. TypeOK'
  BY <1>1 DEF TypeOK, Typed
<1>4. \A q \in Pcb : PcbInv(q, pcbs'[q], conn', task')
  BY <1>2
<1>5. OnePort'
  BY <1>2 DEF IInv, OnePort, PortInUse
<1> QED
  BY <1>3, <1>4, <1>5 DEF IInv

(* The other pcbs do not notice it if the netconn keeps its pcb or had     *)
(* this one, or none.                                                      *)
LEMMA Others ==
    ASSUME IInv, NEW p \in Pcb, NEW c \in Netconn, NEW t,
           \/ c.pcb = conn.pcb
           \/ conn.pcb \in {0, p} /\ c.pcb \in {0, p},
           \/ t = task /\ c.state = conn.state
           \/ conn.pcb \in {0, p}
    PROVE  \A q \in Pcb \ {p} : PcbInv(q, pcbs[q], c, t)
<1> SUFFICES ASSUME NEW q \in Pcb \ {p} PROVE PcbInv(q, pcbs[q], c, t)
  OBVIOUS
<1>1. PcbInv(q, pcbs[q], conn, task) /\ q # 0
  BY DEF IInv, Pcb
<1> QED
  BY <1>1 DEF PcbInv

-----------------------------------------------------------------------------
(* errf and memp_free.                                                     *)
LEMMA LostKeeps ==
    ASSUME IInv, NEW p \in Pcb, NEW c, Same(conn, c), Lost(p, c),
           UNCHANGED << task, header, read, nomem >>
    PROVE  IInv'
<1>1. /\ PcbInv(p, pcbs[p], conn, task) /\ CallInv(conn, task, answer) /\ pcbs[p] \in Block
      /\ TypeOK /\ Typed
  BY DEF IInv, TypeOK, Typed
<1>2. Free \in Block
  BY DEF Free, Block, States
<1>3. Put(p, Free)
  BY DEF Lost
<1>4. CASE pcbs[p].cb
  <2>1. conn.pcb = p
    BY <1>1, <1>4 DEF PcbInv
  <2> DEFINE d == TryPost(c, Eof)
  <2>2. Same(c, d)
    BY PostKeeps DEF Same, Eof
  <2>3. /\ conn' = [d EXCEPT !.pcb = 0, !.fatal = TRUE, !.state = "NONE"]
        /\ answer' = IF conn.state = "NONE" THEN answer ELSE "error"
    BY <1>4 DEF Lost, err_tcp, Same
  <2> HIDE DEF d
  <2>10. conn' = [pcb |-> 0, state |-> "NONE", fatal |-> TRUE,
                  mbox |-> d.mbox, valid |-> d.valid]
    BY <2>2, <2>3 DEF Same, Netconn
  <2>11. d.mbox \in Seq(Nat) /\ Len(d.mbox) <= MBOX /\ d.valid \in BOOLEAN
    BY <2>2 DEF Same, Netconn
  <2>4. /\ conn' \in Netconn /\ Len(conn'.mbox) <= MBOX
        /\ conn'.pcb = 0 /\ conn'.state = "NONE" /\ conn'.fatal
    BY <2>10, <2>11, ConnectionAssumption DEF Netconn
  <2>9. answer' \in {"none", "ok", "error"}
    BY <1>1, <2>3 DEF Typed
  <2>5. Typed'
    BY <1>1, <2>9, <2>4 DEF Typed
  <2>6. PcbInv(p, Free, conn', task')
    BY <2>4 DEF PcbInv, Free, Pcb
  <2>7. CallInv(conn', task', answer')
    BY <1>1, <2>3, <2>4 DEF CallInv
  <2>8. \A q \in Pcb \ {p} : PcbInv(q, pcbs[q], conn', task')
    BY <2>1, <2>4, Others
  <2> QED
    BY <1>2, <1>3, <2>5, <2>6, <2>7, <2>8, Update DEF Free
<1>5. CASE ~pcbs[p].cb
  <2>1. conn.pcb # p /\ conn' = c /\ answer' = answer
    BY <1>1, <1>5 DEF PcbInv, Lost
  <2>2. /\ conn' \in Netconn /\ Len(conn'.mbox) <= MBOX
        /\ conn'.pcb = conn.pcb /\ conn'.state = conn.state /\ conn'.fatal = conn.fatal
    BY <2>1 DEF Same
  <2>3. Typed'
    BY <1>1, <2>1, <2>2 DEF Typed
  <2>4. PcbInv(p, Free, conn', task') /\ CallInv(conn', task', answer')
    BY <1>1, <2>1, <2>2 DEF PcbInv, CallInv, Free
  <2>5. \A q \in Pcb \ {p} : PcbInv(q, pcbs[q], conn', task')
    BY <2>2, Others
  <2> QED
    BY <1>2, <1>3, <2>3, <2>4, <2>5, Update DEF Free
<1> QED
  BY <1>4, <1>5

(* What a function of the thread may do to pcb p of the netconn while a    *)
(* call waits: nothing else changes.                                       *)
LEMMA OwnPcbKeeps ==
    ASSUME IInv, NEW p \in Pcb, conn.pcb = p, NEW b \in Block, Put(p, b),
           Typed', conn'.pcb \in {0, p},
           PcbInv(p, b, conn', task'), CallInv(conn', task', answer'),
           b.bound => pcbs[p].bound
    PROVE  IInv'
<1>1. conn' \in Netconn
  BY DEF Typed
<1>2. \A q \in Pcb \ {p} : PcbInv(q, pcbs[q], conn', task')
  BY <1>1, Others
<1> QED
  BY <1>2, Update

(* The request is sent, or do_writemore waits for poll_tcp.                *)
LEMMA WriteKeeps ==
    ASSUME IInv, NEW p \in Pcb, conn.pcb = p, answer = "none",
           NEW c, Same(conn, c), NEW pcb \in Block, PcbInv(p, pcb, conn, task),
           pcb.state # "SYN_SENT", pcb.bound => pcbs[p].bound, task # "bind",
           task' = "writing", do_writemore(p, c, pcb), UNCHANGED << header, read >>
    PROVE  IInv'
<1>1. TypeOK /\ Typed
  BY DEF IInv, TypeOK, Typed
<1>2. PICK b \in Block :
        Put(p, b) /\ \E u \in BOOLEAN : b = [pcb EXCEPT !.unacked = u]
  <2>1. pcb = [pcb EXCEPT !.unacked = pcb.unacked] /\ pcb.unacked \in BOOLEAN
    BY DEF Block
  <2>2. [pcb EXCEPT !.unacked = TRUE] \in Block
    BY DEF Block
  <2> QED
    BY <2>1, <2>2 DEF do_writemore
<1>3. PICK s \in {"NONE", "WRITE"} :
        /\ conn' = [c EXCEPT !.state = s]
        /\ answer' = IF s = "NONE" THEN "ok" ELSE answer
        /\ nomem' \in 0 .. MAXNOMEM
  BY <1>1, ConnectionAssumption DEF Typed, do_writemore, NoMem
<1>4. /\ conn' \in Netconn /\ Len(conn'.mbox) <= MBOX /\ conn'.pcb = p /\ conn'.state = s
  BY <1>3 DEF Same, Netconn
<1>5. Typed'
  BY <1>1, <1>3, <1>4 DEF Typed
<1>6. /\ b.cb = pcb.cb /\ b.bound = pcb.bound /\ b.state = pcb.state
      /\ b.refused = pcb.refused /\ b.rxclosed = pcb.rxclosed
  BY <1>2 DEF Block
<1>7. PcbInv(p, b, conn', task')
  BY <1>4, <1>6 DEF PcbInv
<1>8. CallInv(conn', task', answer')
  BY <1>3, <1>4 DEF CallInv, Ready, Pcb
<1> QED
  BY <1>2, <1>4, <1>5, <1>6, <1>7, <1>8, OwnPcbKeeps

(* The pcb goes its own way, or do_close_internal waits for poll_tcp.      *)
LEMMA CloseKeeps ==
    ASSUME IInv, NEW p \in Pcb, conn.pcb = p, answer = "none",
           NEW c, Same(conn, c), NEW pcb \in Block, PcbInv(p, pcb, conn, task),
           pcb.state # "SYN_SENT", pcb.bound => pcbs[p].bound, task # "bind",
           task' \in {"closing", "deleting"},
           do_close_internal(p, c, pcb), UNCHANGED << header, read >>
    PROVE  IInv'
<1>1. TypeOK /\ Typed
  BY DEF IInv, TypeOK, Typed
<1>2. CASE CloseDone(p, c, pcb)
  <2>7. conn' = [pcb |-> 0, state |-> "NONE", fatal |-> c.fatal,
                 mbox |-> c.mbox, valid |-> c.valid]
    BY <1>2 DEF CloseDone, Closed, Same, Netconn
  <2>8. /\ c.mbox \in Seq(Nat) /\ Len(c.mbox) <= MBOX
        /\ c.valid \in BOOLEAN /\ c.fatal \in BOOLEAN
    BY DEF Same, Netconn
  <2>1. /\ conn' \in Netconn /\ Len(conn'.mbox) <= MBOX
        /\ conn'.pcb = 0 /\ conn'.state = "NONE"
    BY <2>7, <2>8, ConnectionAssumption DEF Netconn
  <2>2. answer' = "ok" /\ nomem' = nomem
    BY <1>2 DEF CloseDone, Closed
  <2>3. Typed'
    BY <1>1, <2>1, <2>2 DEF Typed
  <2>4. CallInv(conn', task', answer')
    BY <2>1 DEF CallInv, Ready
  <2>5. PICK b \in Block :
          /\ Put(p, b)
          /\ ~b.cb /\ b.refused = 0 /\ b.state \notin {"CLOSED", "SYN_SENT"}
          /\ b.bound <=> b.state # "free"
          /\ b.bound => pcb.bound
          /\ b.state # "free" => b.rxclosed
    <3>1. Free \in Block /\ TimeWait \in Block
      BY DEF Free, TimeWait, Block, States
    <3>2. CASE pcb.refused # 0 /\ Put(p, TimeWait)
      BY <3>1, <3>2 DEF PcbInv, TimeWait, Free
    <3>3. CASE pcb.refused = 0 /\ pcb.state = "CLOSED" /\ Put(p, Free)
      BY <3>1, <3>3 DEF Free
    <3>4. CASE /\ pcb.refused = 0 /\ pcb.state \in {"ESTABLISHED", "CLOSE_WAIT"}
               /\ Put(p, [pcb EXCEPT !.cb = FALSE, !.rxclosed = TRUE, !.unacked = FALSE,
                        !.state = IF @ = "ESTABLISHED" THEN "FIN_WAIT_1" ELSE "LAST_ACK"])
      <4> DEFINE b == [pcb EXCEPT !.cb = FALSE, !.rxclosed = TRUE, !.unacked = FALSE,
                        !.state = IF @ = "ESTABLISHED" THEN "FIN_WAIT_1" ELSE "LAST_ACK"]
      <4>1. b \in Block /\ b.cb = FALSE /\ b.refused = 0 /\ b.bound = pcb.bound
        BY <3>4 DEF Block, States
      <4>2. b.state \in {"FIN_WAIT_1", "LAST_ACK"} /\ b.rxclosed = TRUE
        BY DEF Block
      <4>3. pcb.bound
        BY <3>4 DEF PcbInv
      <4> QED
        BY <3>4, <4>1, <4>2, <4>3
    <3> QED
      BY <1>2, <3>2, <3>3, <3>4 DEF CloseDone
  <2>6. PcbInv(p, b, conn', task')
    BY <2>1, <2>5 DEF PcbInv, Pcb
  <2> QED
    BY <2>1, <2>3, <2>4, <2>5, <2>6, OwnPcbKeeps
<1>3. CASE CloseFails(p, c, pcb)
  <2> DEFINE b == [pcb EXCEPT !.cb = TRUE, !.rxclosed = TRUE]
  <2>1. /\ conn' \in Netconn /\ Len(conn'.mbox) <= MBOX
        /\ conn'.pcb = p /\ conn'.state = "CLOSE"
    BY <1>3 DEF CloseFails, Same, Netconn
  <2>2. answer' = "none" /\ nomem' \in 0 .. MAXNOMEM
    BY <1>1, <1>3, ConnectionAssumption DEF CloseFails, NoMem, Typed
  <2>3. Typed'
    BY <1>1, <2>1, <2>2 DEF Typed
  <2>4. CallInv(conn', task', answer')
    BY <2>1, <2>2 DEF CallInv, Ready
  <2>5. /\ b \in Block /\ b.cb = TRUE /\ b.bound = pcb.bound /\ b.state = pcb.state
        /\ b.refused = pcb.refused
    BY DEF Block
  <2>6. PcbInv(p, b, conn', task')
    BY <1>3, <2>1, <2>5 DEF PcbInv, CloseFails
  <2>7. Put(p, b)
    BY <1>3 DEF CloseFails
  <2> QED
    BY <2>1, <2>3, <2>4, <2>5, <2>6, <2>7, OwnPcbKeeps
<1> QED
  BY <1>2, <1>3 DEF do_close_internal

(* poll_tcp and sent_tcp.                                                  *)
LEMMA TakeUpKeeps ==
    ASSUME IInv, NEW p \in Pcb, NEW c, Same(conn, c),
           NEW pcb \in Block, PcbInv(p, pcb, conn, task),
           pcb.bound => pcbs[p].bound,
           TakeUp(p, c, pcb), UNCHANGED << task, header, read >>
    PROVE  IInv'
<1>1. TypeOK /\ Typed /\ CallInv(conn, task, answer) /\ c.state = conn.state
  BY DEF IInv, TypeOK, Typed, Same
<1>2. CASE pcb.cb /\ c.state = "WRITE"
  <2>1. task = "writing" /\ answer = "none" /\ conn.pcb = p /\ pcb.state # "SYN_SENT"
    BY <1>1, <1>2 DEF CallInv, PcbInv
  <2> QED
    BY <1>2, <2>1, WriteKeeps DEF TakeUp
<1>3. CASE pcb.cb /\ c.state = "CLOSE"
  <2>1. /\ task \in {"closing", "deleting"} /\ answer = "none" /\ conn.pcb = p
        /\ pcb.state # "SYN_SENT"
    BY <1>1, <1>3 DEF CallInv, PcbInv
  <2> QED
    BY <1>3, <2>1, CloseKeeps DEF TakeUp
<1>4. CASE ~(pcb.cb /\ c.state \in {"WRITE", "CLOSE"})
  <2>1. Put(p, pcb) /\ conn' = c /\ UNCHANGED << answer, nomem >>
    BY <1>4 DEF TakeUp
  <2>2. /\ conn' \in Netconn /\ Len(conn'.mbox) <= MBOX
        /\ conn'.pcb = conn.pcb /\ conn'.state = conn.state /\ conn'.fatal = conn.fatal
    BY <2>1 DEF Same
  <2>3. Typed'
    BY <1>1, <2>1, <2>2 DEF Typed
  <2>4. PcbInv(p, pcb, conn', task') /\ CallInv(conn', task', answer')
    BY <1>1, <2>1, <2>2 DEF PcbInv, CallInv
  <2>5. \A q \in Pcb \ {p} : PcbInv(q, pcbs[q], conn', task')
    BY <2>2, Others
  <2> QED
    BY <2>1, <2>3, <2>4, <2>5, Update
<1> QED
  BY <1>2, <1>3, <1>4

-----------------------------------------------------------------------------
(* The task goes on and leaves the pcbs alone.                             *)
LEMMA TaskKeeps ==
    ASSUME IInv, UNCHANGED pcbs, Typed', task # "bind",
           conn.state = "NONE", conn'.pcb = conn.pcb, conn'.state = "NONE",
           CallInv(conn', task', answer')
    PROVE  IInv'
<1>1. TypeOK'
  BY DEF IInv, TypeOK, Typed
<1>2. \A p \in Pcb : PcbInv(p, pcbs'[p], conn', task')
  BY DEF IInv, PcbInv
<1> QED
  BY <1>1, <1>2 DEF IInv, OnePort

(* Every call of the shoutcast task.                                       *)
LEMMA ShoutcastKeeps == IInv /\ Shoutcast => IInv'
<1> SUFFICES ASSUME IInv, Shoutcast PROVE IInv'
  OBVIOUS
<1>1. /\ TypeOK /\ Typed /\ CallInv(conn, task, answer)
      /\ \A p \in Pcb : PcbInv(p, pcbs[p], conn, task)
  BY DEF IInv, TypeOK, Typed
<1>2. conn.mbox \in Seq(Nat) /\ conn.pcb \in 0 .. NPCB
  BY <1>1 DEF Typed, Netconn
<1>3. conn.pcb # 0 => conn.pcb \in Pcb /\ pcbs[conn.pcb] \in Block
  BY <1>1, <1>2, ConnectionAssumption DEF Pcb, TypeOK
<1>4. Same(conn, conn) /\ Same(conn, Drained)
  BY <1>1, DrainKeeps DEF Typed, Same
<1>5. /\ NoConn \in Netconn /\ Len(NoConn.mbox) <= MBOX
      /\ NoConn.pcb = 0 /\ NoConn.state = "NONE"
  BY ConnectionAssumption DEF NoConn, Netconn
<1>6. CASE S_New /\ task' = "bind"
  <2>1. task = "new" /\ conn.pcb = 0 /\ conn.state = "NONE" /\ answer = "none"
    BY <1>1, <1>6 DEF S_New, CallInv, Ready
  <2>2. PICK p \in Pcb :
          /\ Put(p, [Free EXCEPT !.state = "CLOSED", !.cb = TRUE])
          /\ conn' = [NoConn EXCEPT !.pcb = p, !.valid = TRUE]
    BY <1>6 DEF S_New, tcp_alloc, In, Active
  <2> DEFINE b == [Free EXCEPT !.state = "CLOSED", !.cb = TRUE]
  <2>3. /\ b \in Block /\ b.cb = TRUE /\ b.state = "CLOSED" /\ b.bound = FALSE
        /\ b.refused = 0
    BY DEF Free, Block, States
  <2>4. /\ conn' \in Netconn /\ Len(conn'.mbox) <= MBOX /\ conn'.pcb = p
        /\ conn'.state = "NONE"
    <3>1. conn' = [pcb |-> p, state |-> "NONE", fatal |-> FALSE,
                   mbox |-> << >>, valid |-> TRUE]
      BY <2>2 DEF NoConn
    <3>2. << >> \in Seq(Nat) /\ Len(<< >>) <= MBOX
      BY ConnectionAssumption
    <3> QED
      BY <3>1, <3>2, ConnectionAssumption DEF Netconn, Pcb
  <2>5. Typed' /\ task' = "bind" /\ answer' = "none"
    BY <1>1, <1>6, <2>1, <2>4 DEF S_New, Typed, Ready
  <2>6. PcbInv(p, b, conn', task') /\ CallInv(conn', task', answer')
    BY <2>3, <2>4, <2>5 DEF PcbInv, CallInv, Ready, Pcb
  <2>7. \A q \in Pcb \ {p} : PcbInv(q, pcbs[q], conn', task')
    BY <2>1, <2>4, Others
  <2> HIDE DEF b
  <2> QED
    BY <2>2, <2>3, <2>5, <2>6, <2>7, Update DEF b
<1>16. CASE S_New /\ task' = "null"
  <2>1. /\ task = "new" /\ conn.pcb = 0 /\ conn.state = "NONE" /\ answer = "none"
        /\ conn' = NoConn /\ header' = TRUE /\ read' = 0
        /\ nomem' \in 0 .. MAXNOMEM /\ UNCHANGED << answer, pcbs >>
    BY <1>1, <1>16, ConnectionAssumption DEF S_New, CallInv, Ready, NoMem, Typed
  <2>2. Typed' /\ CallInv(conn', task', answer')
    BY <1>1, <1>5, <1>16, <2>1 DEF Typed, CallInv, Ready
  <2> QED
    BY <1>5, <2>1, <2>2, TaskKeeps
<1>17. CASE S_NullBind
  BY <1>17 DEF S_NullBind, vars, IInv, TypeOK, OnePort
<1>7. CASE S_Bind
  <2>1. /\ task = "bind" /\ task' = "connect" /\ conn.state = "NONE" /\ answer = "none"
        /\ UNCHANGED << header, read, conn, answer, nomem >>
    BY <1>1, <1>7 DEF S_Bind, CallInv, Ready
  <2>2. Typed'
    BY <1>1, <2>1 DEF Typed, Ready
  <2>3. CallInv(conn', task', answer')
    BY <1>1, <2>1 DEF CallInv, Ready
  <2>4. CASE conn.pcb = 0
    <3>1. pcbs' = pcbs
      BY <1>1, <1>7, <2>4 DEF S_Bind, Put, Pcb, TypeOK
    <3>2. \A p \in Pcb : PcbInv(p, pcbs'[p], conn', task')
      BY <1>1, <2>1, <2>4, <3>1 DEF PcbInv, Pcb
    <3> QED
      BY <2>2, <2>3, <3>1, <3>2 DEF IInv, TypeOK, Typed, OnePort
  <2>5. CASE conn.pcb # 0
    <3> DEFINE p == conn.pcb
               b == [pcbs[p] EXCEPT !.bound = TRUE]
    <3>1. p \in Pcb /\ b \in Block /\ Put(p, b) /\ ~PortInUse
      BY <1>3, <1>7, <2>5 DEF S_Bind, Block
    <3>2. /\ b.bound = TRUE /\ b.cb = pcbs[p].cb
          /\ b.state = pcbs[p].state /\ b.refused = pcbs[p].refused
      BY <1>3, <2>5 DEF Block
    <3>3. PcbInv(p, b, conn', task')
      BY <1>1, <2>1, <3>1, <3>2 DEF PcbInv
    <3>4. \A q \in Pcb \ {p} : PcbInv(q, pcbs[q], conn', task')
      BY <2>1, <2>2, <3>1, Others DEF Typed
    <3> HIDE DEF p, b
    <3> QED
      BY <2>2, <2>3, <3>1, <3>3, <3>4, Update
  <2> QED
    BY <2>4, <2>5
<1>8. CASE S_Connect
  <2>1. /\ task = "connect" /\ conn.state = "NONE" /\ answer = "none"
        /\ UNCHANGED << header, read, answer >>
    BY <1>1, <1>8 DEF S_Connect, CallInv, Ready
  <2>2. CASE /\ IF Connectable = {} THEN UNCHANGED nomem ELSE NoMem
             /\ task' = "delete" /\ UNCHANGED << conn, pcbs >>
    <3>1. nomem' \in 0 .. MAXNOMEM
      BY <1>1, <2>2, ConnectionAssumption DEF Typed, NoMem
    <3>2. Typed' /\ CallInv(conn', task', answer')
      BY <1>1, <2>1, <2>2, <3>1 DEF Typed, CallInv, Ready
    <3> QED
      BY <2>1, <2>2, <3>2, TaskKeeps
  <2>3. CASE \E p \in Connectable :
               /\ Put(p, [pcbs[p] EXCEPT !.state = "SYN_SENT"])
               /\ conn' = [conn EXCEPT !.state = "CONNECT"]
               /\ task' = "connecting" /\ UNCHANGED nomem
    <3>1. PICK p \in Connectable :
               /\ Put(p, [pcbs[p] EXCEPT !.state = "SYN_SENT"])
               /\ conn' = [conn EXCEPT !.state = "CONNECT"]
               /\ task' = "connecting" /\ UNCHANGED nomem
      BY <2>3
    <3> DEFINE b == [pcbs[p] EXCEPT !.state = "SYN_SENT"]
    <3>2. p \in Pcb /\ p = conn.pcb /\ pcbs[p].state = "CLOSED" /\ pcbs[p] \in Block
      BY <1>1 DEF Connectable, TypeOK
    <3>3. /\ b \in Block /\ b.state = "SYN_SENT" /\ b.cb = pcbs[p].cb
          /\ b.bound = pcbs[p].bound /\ b.refused = pcbs[p].refused
      BY <3>2 DEF Block, States
    <3>4. /\ conn' \in Netconn /\ Len(conn'.mbox) <= MBOX /\ conn'.pcb = conn.pcb
          /\ conn'.state = "CONNECT" /\ conn'.fatal = conn.fatal
      BY <1>1, <3>1 DEF Typed, Netconn
    <3>5. Typed' /\ CallInv(conn', task', answer')
      BY <1>1, <2>1, <3>1, <3>4 DEF Typed, CallInv, Ready
    <3>6. PcbInv(p, b, conn', task')
      BY <1>1, <2>1, <3>1, <3>2, <3>3, <3>4 DEF PcbInv
    <3> HIDE DEF b
    <3> QED
      BY <3>1, <3>2, <3>3, <3>4, <3>5, <3>6, OwnPcbKeeps DEF b
  <2> QED
    BY <1>8, <2>2, <2>3 DEF S_Connect
<1>9. CASE S_Write
  <2>1. /\ task = "write" /\ conn.state = "NONE" /\ answer = "none"
        /\ UNCHANGED << header, read >>
    BY <1>1, <1>9 DEF S_Write, CallInv, Ready
  <2>2. CASE conn.fatal
    <3>1. task' = "recv" /\ UNCHANGED << conn, pcbs, answer, nomem >>
      BY <1>9, <2>2 DEF S_Write
    <3>2. Typed' /\ CallInv(conn', task', answer')
      BY <1>1, <2>1, <3>1 DEF Typed, CallInv, Ready
    <3> QED
      BY <2>1, <3>1, <3>2, TaskKeeps
  <2>3. CASE ~conn.fatal
    <3>3. conn.pcb # 0
      BY <1>1, <2>1, <2>3 DEF CallInv
    <3>1. task' = "writing" /\ do_writemore(conn.pcb, conn, pcbs[conn.pcb])
      BY <1>9, <2>3 DEF S_Write
    <3>2. pcbs[conn.pcb].state # "SYN_SENT"
      BY <1>1, <1>3, <2>1, <3>3 DEF PcbInv
    <3> QED
      BY <1>1, <1>3, <1>4, <2>1, <3>1, <3>2, <3>3, WriteKeeps
  <2> QED
    BY <2>2, <2>3
<1>10. CASE S_Recv
  <2>1. /\ task = "recv" /\ conn.state = "NONE" /\ answer = "none"
        /\ task' \in {"recv", "connect", "close", "fetch"} /\ header' \in BOOLEAN
        /\ task' = "connect" => conn.fatal \/ conn.pcb # 0
        /\ UNCHANGED << read, conn, answer, pcbs >>
    BY <1>1, <1>10 DEF S_Recv, Failed, CallInv, Ready, Typed
  <2>3. nomem' \in 0 .. MAXNOMEM
    <3>1. nomem' = nomem \/ (nomem < MAXNOMEM /\ nomem' = nomem + 1)
      BY <1>10 DEF S_Recv, NoMem
    <3> QED
      BY <1>1, <3>1, ConnectionAssumption DEF Typed
  <2>2. Typed' /\ CallInv(conn', task', answer')
    BY <1>1, <2>1, <2>3 DEF Typed, CallInv, Ready
  <2> QED
    BY <2>1, <2>2, TaskKeeps
<1>11. CASE S_Fetch
  <2>1. /\ task = "fetch" /\ conn.state = "NONE" /\ answer = "none"
        /\ task' \in {"recv", "connect", "close"} /\ header' \in BOOLEAN
        /\ UNCHANGED << answer, pcbs, nomem >> /\ conn.mbox # << >>
    BY <1>1, <1>11 DEF S_Fetch, Failed, CallInv, Ready, Typed
  <2>2. /\ Head(conn.mbox) \in Nat /\ Tail(conn.mbox) \in Seq(Nat)
        /\ Len(Tail(conn.mbox)) <= MBOX
    BY <1>1, <1>2, <2>1, ConnectionAssumption DEF Typed
  <2>3. read' \in Nat
    BY <1>1, <1>11, <2>2 DEF S_Fetch, Typed
  <2>4. /\ conn' \in Netconn /\ Len(conn'.mbox) <= MBOX /\ conn'.pcb = conn.pcb
        /\ conn'.state = "NONE" /\ (conn.fatal => conn'.fatal)
    <3> DEFINE s == Tail(conn.mbox)
    <3>1. \/ conn' = [conn EXCEPT !.mbox = s, !.fatal = TRUE]
          \/ conn' = [conn EXCEPT !.mbox = s]
      BY <1>11 DEF S_Fetch
    <3>2. s \in Seq(Nat) /\ Len(s) <= MBOX
      BY <2>2
    <3> HIDE DEF s
    <3> QED
      BY <1>1, <2>1, <3>1, <3>2 DEF Typed, Netconn
  <2>5. Typed' /\ CallInv(conn', task', answer')
    BY <1>1, <2>1, <2>3, <2>4 DEF Typed, CallInv, Ready
  <2> QED
    BY <2>1, <2>4, <2>5, TaskKeeps
<1>12. CASE S_FetchTimeout
  <2>1. /\ task = "fetch" /\ conn.state = "NONE" /\ answer = "none"
        /\ task' \in {"recv", "connect", "close"} /\ header' \in BOOLEAN
        /\ UNCHANGED << read, conn, answer, pcbs, nomem >>
    BY <1>1, <1>12 DEF S_FetchTimeout, Failed, CallInv, Ready, Typed
  <2>2. Typed' /\ CallInv(conn', task', answer')
    BY <1>1, <2>1 DEF Typed, CallInv, Ready
  <2> QED
    BY <2>1, <2>2, TaskKeeps
<1>13. CASE S_Close
  <2>1. /\ task = "close" /\ conn.state = "NONE" /\ answer = "none"
        /\ UNCHANGED << header, read >>
    BY <1>1, <1>13 DEF S_Close, CallInv, Ready
  <2>2. CASE conn.pcb = 0
    <3>1. task' = "delete" /\ UNCHANGED << conn, answer, pcbs, nomem >>
      BY <1>13, <2>2 DEF S_Close
    <3>2. Typed' /\ CallInv(conn', task', answer')
      BY <1>1, <2>1, <3>1 DEF Typed, CallInv, Ready
    <3> QED
      BY <2>1, <3>1, <3>2, TaskKeeps
  <2>3. CASE conn.pcb # 0
    <3>1. task' = "closing" /\ do_close_internal(conn.pcb, Drained, pcbs[conn.pcb])
      BY <1>13, <2>3 DEF S_Close
    <3>2. pcbs[conn.pcb].state # "SYN_SENT"
      BY <1>1, <1>3, <2>1, <2>3 DEF PcbInv
    <3> QED
      BY <1>1, <1>3, <1>4, <2>1, <2>3, <3>1, <3>2, CloseKeeps
  <2> QED
    BY <2>2, <2>3
<1>14. CASE S_Delete
  <2>1. /\ task = "delete" /\ conn.state = "NONE" /\ answer = "none"
        /\ UNCHANGED << header, read >>
    BY <1>1, <1>14 DEF S_Delete, CallInv, Ready
  <2>2. CASE conn.pcb = 0
    <3>1. task' = "new" /\ conn' = NoConn /\ UNCHANGED << answer, pcbs, nomem >>
      BY <1>14, <2>2 DEF S_Delete
    <3>2. Typed' /\ CallInv(conn', task', answer')
      BY <1>1, <1>5, <2>1, <3>1 DEF Typed, CallInv, Ready
    <3> QED
      BY <1>5, <2>1, <2>2, <3>1, <3>2, TaskKeeps
  <2>3. CASE conn.pcb # 0
    <3>1. task' = "deleting" /\ do_close_internal(conn.pcb, Drained, pcbs[conn.pcb])
      BY <1>14, <2>3 DEF S_Delete
    <3>2. pcbs[conn.pcb].state # "SYN_SENT"
      BY <1>1, <1>3, <2>1, <2>3 DEF PcbInv
    <3> QED
      BY <1>1, <1>3, <1>4, <2>1, <2>3, <3>1, <3>2, CloseKeeps
  <2> QED
    BY <2>2, <2>3
<1>15. CASE S_Answered
  <2>1. /\ answer # "none" /\ answer' = "none" /\ conn.state = "NONE"
        /\ task \in {"connecting", "writing", "closing", "deleting"}
        /\ UNCHANGED << header, read, pcbs, nomem >>
    BY <1>1, <1>15 DEF S_Answered, CallInv, Typed
  <2>2. /\ task' \in {"write", "delete", "recv", "new"}
        /\ task' = "new" <=> task = "deleting"
        /\ task = "closing" => task' = "delete"
        /\ conn' = IF task = "deleting" THEN NoConn ELSE conn
    BY <1>15, <2>1 DEF S_Answered
  <2>3. /\ conn'.pcb = conn.pcb /\ conn'.state = "NONE"
        /\ task' # "new" => conn'.fatal = conn.fatal
        /\ conn' \in Netconn /\ Len(conn'.mbox) <= MBOX
    BY <1>1, <1>5, <2>1, <2>2 DEF CallInv, Typed
  <2>4. task' = "new" => conn'.pcb = 0
    BY <1>5, <2>2
  <2>5. Typed' /\ CallInv(conn', task', answer')
    BY <1>1, <2>1, <2>2, <2>3, <2>4 DEF Typed, CallInv, Ready
  <2> QED
    BY <2>1, <2>3, <2>5, TaskKeeps
<1>18. S_New => task' = "bind" \/ task' = "null"
  BY DEF S_New
<1> QED
  BY <1>6, <1>7, <1>8, <1>9, <1>10, <1>11, <1>12, <1>13, <1>14, <1>15, <1>16, <1>17, <1>18
     DEF Shoutcast

-----------------------------------------------------------------------------
(* A segment or a timer changes pcb p and the netconn's recvmbox.          *)
LEMMA NetStep ==
    ASSUME IInv, NEW p \in Pcb, NEW c, Same(conn, c), conn' = c,
           NEW b \in Block, Put(p, b), PcbInv(p, b, conn, task),
           b.bound => pcbs[p].bound, UNCHANGED << task, header, read, answer, nomem >>
    PROVE  IInv'
<1>1. Typed /\ CallInv(conn, task, answer)
  BY DEF IInv, TypeOK, Typed
<1>2. Typed' /\ CallInv(conn', task', answer')
  BY <1>1 DEF Typed, CallInv, Same
<1>3. PcbInv(p, b, conn', task') /\ conn' \in Netconn
  BY DEF PcbInv, Same
<1>4. \A q \in Pcb \ {p} : PcbInv(q, pcbs[q], conn', task')
  BY <1>3, Others DEF Same
<1> QED
  BY <1>2, <1>3, <1>4, Update

(* Every segment and timer.                                                *)
LEMMA NetKeeps == ASSUME IInv, NEW p \in Pcb, Net(p) PROVE IInv'
<1>1. /\ TypeOK /\ Typed /\ CallInv(conn, task, answer) /\ PcbInv(p, pcbs[p], conn, task)
      /\ pcbs[p] \in Block /\ Same(conn, conn) /\ TimeWait \in Block /\ Free \in Block
  BY DEF IInv, TypeOK, Typed, Same, TimeWait, Free, Block, States
<1>2. Same(conn, Offered(p))
  BY <1>1, OfferKeeps
<1>3. /\ Rest(p) \in Block /\ Rest(p).state = pcbs[p].state /\ Rest(p).cb = pcbs[p].cb
      /\ Rest(p).bound = pcbs[p].bound /\ Rest(p).refused \in {0, pcbs[p].refused}
      /\ Rest(p).rxclosed = pcbs[p].rxclosed /\ Rest(p).got = pcbs[p].got
  BY <1>1, OfferKeeps DEF Block
<1>4. PcbInv(p, Rest(p), conn, task)
  BY <1>1, <1>3 DEF PcbInv
<1>5. CASE N_SynAck(p)
  <2> DEFINE b == [pcbs[p] EXCEPT !.state = "ESTABLISHED"]
  <2>1. /\ b \in Block /\ b.state = "ESTABLISHED" /\ b.cb = pcbs[p].cb
        /\ b.bound = pcbs[p].bound /\ b.refused = pcbs[p].refused
    BY <1>1 DEF Block, States
  <2>2. /\ task = "connecting" /\ conn.pcb = p /\ Put(p, b)
        /\ conn' = [conn EXCEPT !.state = "NONE"] /\ answer' = "ok"
        /\ UNCHANGED << task, header, read, nomem >>
    BY <1>1, <1>5 DEF N_SynAck, PcbInv
  <2>3. /\ conn' \in Netconn /\ Len(conn'.mbox) <= MBOX /\ conn'.pcb = p
        /\ conn'.state = "NONE"
    BY <1>1, <2>2 DEF Typed, Netconn
  <2>4. Typed' /\ CallInv(conn', task', answer')
    BY <1>1, <2>2, <2>3 DEF Typed, CallInv, Ready, Pcb
  <2>5. PcbInv(p, b, conn', task')
    BY <1>1, <1>5, <2>1, <2>2, <2>3 DEF PcbInv, N_SynAck
  <2> HIDE DEF b
  <2> QED
    BY <2>1, <2>2, <2>3, <2>4, <2>5, OwnPcbKeeps
<1>6. CASE N_Reset(p)
  BY <1>2, <1>6, LostKeeps DEF N_Reset
<1>7. CASE N_AckData(p)
  <2> DEFINE b == [Rest(p) EXCEPT !.unacked = FALSE, !.kept = FALSE]
  <2>1. /\ b \in Block /\ b.state = pcbs[p].state /\ b.cb = pcbs[p].cb
        /\ b.bound = pcbs[p].bound /\ b.refused \in {0, pcbs[p].refused}
        /\ b.rxclosed = pcbs[p].rxclosed
    BY <1>3 DEF Block
  <2>2. PcbInv(p, b, conn, task)
    BY <1>1, <2>1 DEF PcbInv
  <2>3. TakeUp(p, Offered(p), b) /\ UNCHANGED << task, header, read >>
    BY <1>7 DEF N_AckData
  <2> HIDE DEF b
  <2> QED
    BY <1>2, <2>1, <2>2, <2>3, TakeUpKeeps
<1>8. CASE N_AckFin(p)
  <2>1. /\ ~pcbs[p].cb /\ pcbs[p].bound /\ pcbs[p].refused = 0 /\ conn.pcb # p
        /\ pcbs[p].rxclosed
    BY <1>1, <1>8 DEF N_AckFin, PcbInv
  <2>2. UNCHANGED << task, header, read, conn, answer, nomem >>
    BY <1>8 DEF N_AckFin
  <2>3. CASE Put(p, [pcbs[p] EXCEPT !.state = "FIN_WAIT_2"])
    <3> DEFINE b == [pcbs[p] EXCEPT !.state = "FIN_WAIT_2"]
    <3>1. /\ b \in Block /\ b.state = "FIN_WAIT_2" /\ b.cb = pcbs[p].cb
          /\ b.bound = pcbs[p].bound /\ b.refused = pcbs[p].refused
          /\ b.rxclosed = pcbs[p].rxclosed
      BY <1>1 DEF Block, States
    <3>2. PcbInv(p, b, conn, task)
      BY <1>1, <2>1, <3>1 DEF PcbInv
    <3> HIDE DEF b
    <3> QED
      BY <1>1, <2>2, <2>3, <3>1, <3>2, NetStep DEF b
  <2>4. CASE Put(p, TimeWait) \/ Put(p, Free)
    <3>1. PcbInv(p, TimeWait, conn, task) /\ PcbInv(p, Free, conn, task)
      BY <1>1, <2>1 DEF PcbInv, TimeWait, Free
    <3>2. ~Free.bound
      BY DEF Free
    <3> QED
      BY <1>1, <2>1, <2>2, <2>4, <3>1, <3>2, NetStep
  <2>5. CASE pcbs[p].state = "FIN_WAIT_1"
    BY <1>8, <2>3, <2>5 DEF N_AckFin
  <2>6. CASE pcbs[p].state = "CLOSING"
    BY <1>8, <2>4, <2>6 DEF N_AckFin
  <2>7. CASE pcbs[p].state = "LAST_ACK"
    BY <1>8, <2>4, <2>7 DEF N_AckFin
  <2> QED
    BY <1>8, <2>5, <2>6, <2>7 DEF N_AckFin
<1>9. CASE N_DataAfterClose(p)
  BY <1>1, <1>9, LostKeeps DEF N_DataAfterClose
<1> DEFINE new == Got(Offered(p), Rest(p))
           with == WithData(Offered(p), Rest(p))
<1>10. /\ new \in Block /\ new.state = pcbs[p].state /\ new.cb = pcbs[p].cb
       /\ new.bound = pcbs[p].bound /\ new.rxclosed = pcbs[p].rxclosed
  <2> DEFINE g == Rest(p).got + 1
             r == IF WithData(Offered(p), Rest(p)) = Offered(p) THEN g ELSE 0
  <2>1. g \in Nat /\ r \in Nat
    BY <1>3 DEF Block
  <2>2. new = [Rest(p) EXCEPT !.got = g, !.refused = r]
    BY <1>3 DEF Got, Block
  <2> HIDE DEF g, r, new
  <2> QED
    BY <1>3, <2>1, <2>2 DEF Block
<1>14. Same(conn, with)
  <2>1. Rest(p).got + 1 \in Nat
    BY <1>3 DEF Block
  <2> QED
    BY <1>2, <2>1, PostKeeps DEF WithData, Same
<1>15. Receives(p) /\ ~pcbs[p].rxclosed => pcbs[p].cb /\ pcbs[p].bound
  BY <1>1 DEF Receives, PcbInv
<1> HIDE DEF new, with
<1>16. CASE N_Data(p)
  <2>1. /\ Receives(p) /\ ~pcbs[p].rxclosed /\ Put(p, new) /\ conn' = with
        /\ UNCHANGED << task, header, read, answer, nomem >>
    BY <1>16 DEF N_Data, new, with
  <2>2. PcbInv(p, new, conn, task)
    BY <1>1, <1>10, <1>15, <2>1 DEF PcbInv
  <2> QED
    BY <1>10, <1>14, <2>1, <2>2, NetStep
<1>17. CASE N_Fin(p)
  <2>1. PICK state \in AfterFin(pcbs[p].state), data \in BOOLEAN :
          /\ data => ~pcbs[p].rxclosed
          /\ LET c == IF data THEN with ELSE Offered(p)
                 pcb == IF data THEN new ELSE Rest(p)
             IN /\ Put(p, IF state = "TIME_WAIT" THEN TimeWait
                          ELSE [pcb EXCEPT !.state = state])
                /\ conn' = IF pcb.rxclosed THEN c ELSE TryPost(c, Eof)
    BY <1>17 DEF N_Fin, new, with
  <2>2. Receives(p) /\ UNCHANGED << task, header, read, answer, nomem >>
    BY <1>17 DEF N_Fin
  <2> DEFINE c == IF data THEN with ELSE Offered(p)
             pcb == IF data THEN new ELSE Rest(p)
             b == IF state = "TIME_WAIT" THEN TimeWait ELSE [pcb EXCEPT !.state = state]
  <2>3. Same(conn, c)
    BY <1>2, <1>14
  <2>4. /\ pcb \in Block /\ pcb.cb = pcbs[p].cb /\ pcb.bound = pcbs[p].bound
        /\ pcb.rxclosed = pcbs[p].rxclosed
        /\ pcb.refused # 0 => pcbs[p].cb
    BY <1>1, <1>3, <1>10, <1>15, <2>1, <2>2 DEF PcbInv
  <2>5. pcbs[p].bound
    BY <1>1, <2>2 DEF PcbInv, Receives
  <2>6. /\ pcbs[p].state = "ESTABLISHED" => state = "CLOSE_WAIT"
        /\ pcbs[p].state # "ESTABLISHED" =>
             state \in {"CLOSING", "TIME_WAIT"} /\ ~pcbs[p].cb
    BY <1>1, <2>1, <2>2 DEF PcbInv, Receives, AfterFin
  <2> HIDE DEF c, pcb
  <2>7. b \in Block /\ PcbInv(p, b, conn, task) /\ (b.bound => pcbs[p].bound)
    <3>1. CASE state = "TIME_WAIT"
      <4>1. ~pcbs[p].cb
        BY <2>6, <3>1
      <4> QED
        BY <1>1, <2>5, <3>1, <4>1 DEF PcbInv, TimeWait, Free
    <3>2. CASE state # "TIME_WAIT"
      <4>1. state \in {"CLOSE_WAIT", "CLOSING"}
        BY <2>6, <3>2
      <4>2. /\ b \in Block /\ b.state = state /\ b.cb = pcb.cb /\ b.bound = pcb.bound
            /\ b.rxclosed = pcb.rxclosed /\ b.refused = pcb.refused
        BY <2>4, <3>2, <4>1 DEF Block, States
      <4> HIDE DEF b
      <4> QED
        BY <1>1, <2>2, <2>4, <2>5, <2>6, <4>1, <4>2 DEF PcbInv, Receives
    <3> QED
      BY <3>1, <3>2
  <2>8. Put(p, b) /\ (conn' = c \/ conn' = TryPost(c, Eof))
    BY <2>1 DEF c, pcb
  <2> HIDE DEF b
  <2>9. Same(conn, conn')
    BY <2>3, <2>8, PostKeeps DEF Same, Eof
  <2> QED
    BY <2>2, <2>7, <2>8, <2>9, NetStep
<1>18. CASE N_Keeps(p)
  <2> DEFINE k == ~pcbs[p].kept
             b == [pcbs[p] EXCEPT !.kept = k]
  <2>1. Put(p, b) /\ UNCHANGED << task, header, read, conn, answer, nomem >>
    BY <1>18 DEF N_Keeps
  <2> HIDE DEF k
  <2>2. k \in BOOLEAN
    BY DEF k
  <2>3. /\ b \in Block /\ b.state = pcbs[p].state /\ b.cb = pcbs[p].cb
        /\ b.bound = pcbs[p].bound /\ b.refused = pcbs[p].refused
        /\ b.rxclosed = pcbs[p].rxclosed
    BY <1>1, <2>2 DEF Block
  <2> HIDE DEF b
  <2>4. PcbInv(p, b, conn, task)
    BY <1>1, <2>3 DEF PcbInv
  <2> QED
    BY <1>1, <2>1, <2>3, <2>4, NetStep
<1>11. CASE N_GivenUp(p)
  BY <1>1, <1>11, LostKeeps DEF N_GivenUp
<1>12. CASE N_Poll(p)
  BY <1>1, <1>12, TakeUpKeeps DEF N_Poll
<1>13. CASE N_Refused(p)
  BY <1>2, <1>3, <1>4, <1>13, NetStep DEF N_Refused
<1> QED
  BY <1>5, <1>6, <1>7, <1>8, <1>9, <1>11, <1>12, <1>13, <1>16, <1>17, <1>18 DEF Net

-----------------------------------------------------------------------------
(* It holds from the start, for every step keeps it.                       *)
LEMMA Invariant == Spec => []IInv
<1>1. Init => IInv
  <2>1. << >> \in Seq(Nat) /\ Len(<< >>) <= MBOX
    BY ConnectionAssumption
  <2>2. NoConn \in Netconn /\ Free \in Block
    BY <2>1, ConnectionAssumption DEF NoConn, Netconn, Free, Block, States
  <2> SUFFICES ASSUME Init PROVE IInv
    OBVIOUS
  <2>3. TypeOK
    BY <2>1, <2>2, ConnectionAssumption DEF Init, TypeOK, Ready, NoConn
  <2>4. \A p \in Pcb : PcbInv(p, pcbs[p], conn, task)
    BY DEF Init, PcbInv, Free, NoConn, Pcb
  <2>5. CallInv(conn, task, answer) /\ OnePort
    BY DEF Init, CallInv, OnePort, NoConn, Free
  <2> QED
    BY <2>3, <2>4, <2>5 DEF IInv
<1>2. IInv /\ [Next]_vars => IInv'
  <2>1. IInv /\ UNCHANGED vars => IInv'
    BY DEF vars, IInv, TypeOK, OnePort
  <2> QED
    BY <2>1, ShoutcastKeeps, NetKeeps DEF Next
<1> QED
  BY <1>1, <1>2, PTL DEF Spec

(* Netconn, pcbs and calls keep their ranges, recvmbox its size.           *)
THEOREM ConnectionTypes == Spec => []TypeOK
<1>1. IInv => TypeOK
  BY DEF IInv
<1> QED
  BY <1>1, Invariant, PTL

(* A pcb has the netconn's callbacks exactly while it is the netconn's:    *)
(* err_tcp, recv_tcp and poll_tcp never run for a netconn that is gone,    *)
(* and the netconn never uses a pcb that lwIP has freed.                   *)
THEOREM NoStaleCallback == Spec => []CallbacksReachConn
<1>1. IInv => CallbacksReachConn
  BY DEF IInv, PcbInv, CallbacksReachConn
<1> QED
  BY <1>1, Invariant, PTL

(* However often the task reconnects, one earlier connection at most still *)
(* has a pcb: the port it shares with the next one sees to it.             *)
THEOREM OneEarlierConnection == Spec => []OneIsLeft
<1>1. ASSUME IInv PROVE OneIsLeft
  <2> DEFINE Earlier == { p \in Pcb : pcbs[p].state # "free" } \ {conn.pcb}
  <2>1. ASSUME NEW p \in Earlier, NEW q \in Earlier PROVE p = q
    <3>1. /\ PcbInv(p, pcbs[p], conn, task) /\ PcbInv(q, pcbs[q], conn, task)
          /\ p \in Pcb /\ q \in Pcb /\ pcbs[p].state # "free" /\ pcbs[q].state # "free"
          /\ p # conn.pcb /\ q # conn.pcb
      BY <1>1 DEF IInv
    <3>2. pcbs[p].bound /\ pcbs[q].bound
      BY <3>1 DEF PcbInv
    <3> QED
      BY <1>1, <3>1, <3>2 DEF IInv, OnePort
  <2>2. CASE Earlier = {}
    BY <2>2, FS_EmptySet DEF OneIsLeft
  <2>3. CASE Earlier # {}
    <3>1. PICK p \in Earlier : TRUE
      BY <2>3
    <3>2. Earlier = {p}
      BY <2>1, <3>1
    <3> QED
      BY <3>2, FS_Singleton DEF OneIsLeft
  <2> QED
    BY <2>2, <2>3
<1> QED
  BY <1>1, Invariant, PTL

-----------------------------------------------------------------------------
(***************************************************************************)
(* What TCP has acknowledged, for any number of segments.                  *)
(***************************************************************************)
(* recvmbox of c holds the n segments after rd, and then the end.          *)
HoldsStream(c, rd, n) ==
    /\ n \in 0 .. Len(c.mbox)
    /\ \A k \in 1 .. Len(c.mbox) : c.mbox[k] = IF k <= n THEN rd + k ELSE Eof

(* b: the pcb; at most the last segment is refused, and before the end.    *)
Tracks(c, rd, n, b) ==
    /\ c.valid => b.got = rd + n + (IF b.refused = 0 THEN 0 ELSE 1)
    /\ b.refused # 0 => b.refused = b.got
    /\ n < Len(c.mbox) => b.refused = 0 /\ b.state = "CLOSE_WAIT"

InOrder(c, rd) == \E n \in Nat : HoldsStream(c, rd, n)
StreamOf(c, rd, b) == \E n \in Nat : HoldsStream(c, rd, n) /\ Tracks(c, rd, n, b)

StreamInv ==
    /\ InOrder(conn, read)
    /\ \A p \in Pcb : conn.pcb = p => StreamOf(conn, read, pcbs[p])

-----------------------------------------------------------------------------
(* recvmbox takes the message exactly if it is valid and has room.         *)
LEMMA PostCases ==
    ASSUME NEW c \in Netconn, NEW message \in Nat
    PROVE  \/ TryPost(c, message) = c /\ ~(c.valid /\ Len(c.mbox) < MBOX)
           \/ /\ TryPost(c, message) # c /\ c.valid
              /\ TryPost(c, message).mbox = Append(c.mbox, message)
              /\ TryPost(c, message).valid
<1>1. c.mbox \in Seq(Nat)
  BY DEF Netconn
<1>2. CASE c.valid /\ Len(c.mbox) < MBOX
  <2> DEFINE s == Append(c.mbox, message)
  <2>1. s # c.mbox
    <3>1. Len(s) = Len(c.mbox) + 1 /\ Len(c.mbox) \in Nat
      BY <1>1
    <3> QED
      BY <3>1
  <2>2. TryPost(c, message) = [c EXCEPT !.mbox = s]
    BY <1>2 DEF TryPost
  <2> HIDE DEF s
  <2>3. [c EXCEPT !.mbox = s].mbox = s /\ [c EXCEPT !.mbox = s].valid = c.valid
    BY DEF Netconn
  <2> QED
    BY <1>2, <2>1, <2>2, <2>3 DEF s
<1>3. CASE ~(c.valid /\ Len(c.mbox) < MBOX)
  BY <1>3 DEF TryPost
<1> QED
  BY <1>2, <1>3

(* What posting leaves is a netconn.                                       *)
LEMMA PostNetconn ==
    ASSUME NEW c \in Netconn, NEW message \in Nat
    PROVE  TryPost(c, message) \in Netconn
<1> DEFINE s == Append(c.mbox, message)
<1>1. s \in Seq(Nat)
  BY DEF Netconn
<1>2. TryPost(c, message) \in {c, [c EXCEPT !.mbox = s]}
  BY DEF TryPost
<1> HIDE DEF s
<1> QED
  BY <1>1, <1>2 DEF Netconn

(* Posting leaves the netconn its pcb.                                     *)
LEMMA PostPcb ==
    ASSUME NEW c \in Netconn, NEW message \in Nat
    PROVE  TryPost(c, message).pcb = c.pcb
<1> DEFINE s == Append(c.mbox, message)
<1>1. TryPost(c, message) \in {c, [c EXCEPT !.mbox = s]}
  BY DEF TryPost
<1> HIDE DEF s
<1> QED
  BY <1>1 DEF Netconn

(* The next segment is posted.                                             *)
LEMMA DataInOrder ==
    ASSUME NEW c \in Netconn, NEW d, NEW rd \in Nat, NEW n \in Nat,
           HoldsStream(c, rd, n), n = Len(c.mbox), d.mbox = Append(c.mbox, rd + n + 1)
    PROVE  HoldsStream(d, rd, n + 1) /\ n + 1 = Len(d.mbox)
<1>1. c.mbox \in Seq(Nat) /\ rd + n + 1 \in Nat
  BY DEF Netconn
<1>2. /\ Len(d.mbox) = n + 1
      /\ \A k \in 1 .. n : d.mbox[k] = c.mbox[k]
      /\ d.mbox[n + 1] = rd + n + 1
  BY <1>1
<1>3. ASSUME NEW k \in 1 .. n + 1 PROVE d.mbox[k] = rd + k
  <2>1. CASE k = n + 1
    BY <1>2, <2>1
  <2>2. CASE k \in 1 .. n
    BY <1>2, <2>2 DEF HoldsStream
  <2> QED
    BY <2>1, <2>2
<1> QED
  BY <1>2, <1>3 DEF HoldsStream

(* The end of the stream is posted.                                        *)
LEMMA EndInOrder ==
    ASSUME NEW c \in Netconn, NEW rd \in Nat, NEW n \in Nat, HoldsStream(c, rd, n)
    PROVE  HoldsStream(TryPost(c, Eof), rd, n)
<1> DEFINE d == TryPost(c, Eof)
<1>1. c.mbox \in Seq(Nat) /\ Eof \in Nat
  BY DEF Netconn, Eof
<1>2. CASE d = c
  BY <1>2
<1>3. CASE d.mbox = Append(c.mbox, Eof)
  <2> HIDE DEF d
  <2> DEFINE l == Len(c.mbox)
  <2>1. /\ l \in Nat /\ Len(d.mbox) = l + 1 /\ d.mbox[l + 1] = Eof
        /\ \A k \in 1 .. l : d.mbox[k] = c.mbox[k]
    BY <1>1, <1>3
  <2>2. n <= l
    BY DEF HoldsStream
  <2>3. ASSUME NEW k \in 1 .. l + 1 PROVE d.mbox[k] = IF k <= n THEN rd + k ELSE Eof
    <3>1. CASE k = l + 1
      BY <2>1, <2>2, <3>1
    <3>2. CASE k \in 1 .. l
      BY <2>1, <3>2 DEF HoldsStream
    <3> QED
      BY <2>1, <3>1, <3>2
  <2> QED
    BY <2>1, <2>2, <2>3 DEF HoldsStream, d
<1> QED
  BY <1>1, <1>2, <1>3, PostCases

-----------------------------------------------------------------------------
(* Refused data are offered again.                                         *)
LEMMA OfferInOrder ==
    ASSUME IInv, NEW p \in Pcb, conn.pcb = p, StreamOf(conn, read, pcbs[p])
    PROVE  /\ StreamOf(Offered(p), read, Rest(p))
           /\ Offered(p).valid = conn.valid
           /\ Accepted(p) => Rest(p).refused = 0
<1>1. conn \in Netconn /\ read \in Nat /\ pcbs[p] \in Block
  BY DEF IInv, TypeOK
<1>2. CASE pcbs[p].refused = 0
  <2>1. /\ Offered(p) = conn /\ Rest(p).refused = 0
        /\ Rest(p).got = pcbs[p].got /\ Rest(p).state = pcbs[p].state
    BY <1>1, <1>2 DEF Offered, Rest, Accepted, Block
  <2> QED
    BY <1>2, <2>1 DEF StreamOf, Tracks
<1>3. CASE pcbs[p].refused # 0
  <2> DEFINE d == Offered(p)
             m == pcbs[p].refused
  <2>1. d = TryPost(conn, m) /\ m \in Nat /\ (Accepted(p) <=> d # conn)
    BY <1>1, <1>3 DEF Offered, Accepted, Block
  <2>2. CASE d = conn
    BY <1>3, <2>1, <2>2 DEF Rest
  <2>3. CASE d # conn
    <3>1. conn.valid /\ d.valid /\ d.mbox = Append(conn.mbox, m) /\ d \in Netconn
      BY <1>1, <2>1, <2>3, PostCases, OfferKeeps DEF IInv, Same
    <3>2. PICK n \in Nat : HoldsStream(conn, read, n) /\ Tracks(conn, read, n, pcbs[p])
      BY DEF StreamOf
    <3>3. pcbs[p].got \in Nat /\ Len(conn.mbox) \in Nat
      BY <1>1 DEF Block, Netconn
    <3>4. n = Len(conn.mbox) /\ m = read + n + 1 /\ m = pcbs[p].got
      BY <1>1, <1>3, <3>1, <3>2, <3>3 DEF HoldsStream, Tracks
    <3>5. HoldsStream(d, read, n + 1) /\ n + 1 = Len(d.mbox)
      <4>1. d.mbox = Append(conn.mbox, read + n + 1)
        BY <3>1, <3>4
      <4> HIDE DEF d
      <4> QED
        BY <1>1, <3>2, <3>4, <4>1, DataInOrder
    <3>6. Rest(p).refused = 0 /\ Rest(p).got = pcbs[p].got
      BY <1>1, <2>1, <2>3 DEF Rest, Block
    <3>7. Tracks(d, read, n + 1, Rest(p)) /\ n + 1 \in Nat
      BY <1>1, <3>4, <3>5, <3>6 DEF Tracks
    <3> HIDE DEF d
    <3> QED
      BY <3>1, <3>5, <3>6, <3>7 DEF StreamOf, d
  <2> QED
    BY <2>2, <2>3
<1> QED
  BY <1>2, <1>3

(* Nothing is refused at a pcb that is not the netconn's.                  *)
LEMMA NotOffered ==
    ASSUME IInv, NEW p \in Pcb, conn.pcb # p
    PROVE  Offered(p) = conn
  BY DEF IInv, PcbInv, Offered

(* recv_tcp takes a new segment, or refuses it.                            *)
LEMMA NewInOrder ==
    ASSUME NEW c \in Netconn, NEW rd \in Nat, NEW b \in Block, StreamOf(c, rd, b),
           b.refused = 0, b.state # "CLOSE_WAIT"
    PROVE  /\ StreamOf(WithData(c, b), rd, Got(c, b))
           /\ WithData(c, b).valid = c.valid
           /\ \/ Got(c, b).refused = 0
              \/ WithData(c, b) = c /\ ~(c.valid /\ Len(c.mbox) < MBOX)
<1> DEFINE d == WithData(c, b)
           m == b.got + 1
           r == IF d = c THEN m ELSE 0
           g == Got(c, b)
<1>1. m \in Nat /\ b.got \in Nat /\ m = b.got + 1
  BY DEF Block
<1>2. g.got = m /\ g.refused = r /\ d = TryPost(c, m)
  BY DEF Got, Block, WithData
<1>3. PICK n \in Nat : HoldsStream(c, rd, n) /\ Tracks(c, rd, n, b)
  BY DEF StreamOf
<1>4. Len(c.mbox) \in Nat
  BY DEF Netconn
<1>5. n = Len(c.mbox) /\ (c.valid => m = rd + n + 1)
  BY <1>1, <1>3, <1>4 DEF HoldsStream, Tracks
<1>6. r = IF d = c THEN m ELSE 0
  OBVIOUS
<1> HIDE DEF d, m, r, g
<1>7. CASE d = c
  <2>1. Tracks(c, rd, n, g)
    <3>1. g.refused = m /\ g.got = m /\ m # 0 /\ ~(n < Len(c.mbox))
      BY <1>1, <1>2, <1>4, <1>5, <1>6, <1>7
    <3>2. c.valid => m = rd + n + 1
      BY <1>5
    <3> QED
      BY <3>1, <3>2 DEF Tracks
  <2>2. ~(c.valid /\ Len(c.mbox) < MBOX)
    BY <1>1, <1>2, <1>7, PostCases
  <2> QED
    BY <1>3, <1>7, <2>1, <2>2 DEF StreamOf, d, g
<1>8. CASE d # c
  <2>1. c.valid /\ d.valid /\ d.mbox = Append(c.mbox, m)
    BY <1>1, <1>2, <1>8, PostCases
  <2>2. HoldsStream(d, rd, n + 1) /\ n + 1 = Len(d.mbox)
    <3>1. d.mbox = Append(c.mbox, rd + n + 1) /\ n = Len(c.mbox) /\ HoldsStream(c, rd, n)
      BY <1>3, <1>5, <2>1
    <3> QED
      BY <3>1, DataInOrder
  <2>3. Tracks(d, rd, n + 1, g) /\ n + 1 \in Nat
    BY <1>1, <1>2, <1>5, <1>6, <1>8, <2>1, <2>2 DEF Tracks
  <2>4. g.refused = 0
    BY <1>2, <1>6, <1>8
  <2> QED
    BY <2>1, <2>2, <2>3, <2>4 DEF StreamOf, d, g
<1> QED
  BY <1>7, <1>8
-----------------------------------------------------------------------------
(* Only recvmbox, its validity and what the pcb has got matter.            *)
LEMMA SameStream ==
    ASSUME NEW c, NEW rd, NEW b, StreamOf(c, rd, b),
           NEW d, d.mbox = c.mbox, d.valid => c.valid,
           NEW e, e.got = b.got, e.refused = b.refused,
           b.state = "CLOSE_WAIT" => e.state = "CLOSE_WAIT"
    PROVE  StreamOf(d, rd, e)
  BY DEF StreamOf, HoldsStream, Tracks

(* Then the segments in recvmbox are in order.                             *)
LEMMA StreamHolds ==
    ASSUME NEW c, NEW rd, NEW b, StreamOf(c, rd, b)
    PROVE  InOrder(c, rd)
  BY DEF StreamOf, InOrder

(* A step on pcb p.                                                        *)
LEMMA StreamStep ==
    ASSUME IInv, StreamInv, NEW p \in Pcb, NEW b, Put(p, b), UNCHANGED read,
           conn'.pcb \in {0, conn.pcb},
           conn.pcb = p =>
             InOrder(conn', read) /\ (conn'.pcb = p => StreamOf(conn', read, b)),
           conn.pcb # p => conn'.mbox = conn.mbox /\ conn'.valid = conn.valid
    PROVE  StreamInv'
<1>1. \A q \in Pcb : pcbs'[q] = IF q = p THEN b ELSE pcbs[q]
  BY DEF IInv, TypeOK, Put
<1>2. InOrder(conn', read)
  BY DEF StreamInv, InOrder, HoldsStream
<1>3. ASSUME NEW q \in Pcb, conn'.pcb = q PROVE StreamOf(conn', read, pcbs'[q])
  <2>1. conn.pcb = q
    BY <1>3 DEF Pcb
  <2>2. CASE q = p
    BY <1>1, <1>3, <2>1, <2>2
  <2>3. CASE q # p
    <3>1. StreamOf(conn, read, pcbs[q]) /\ pcbs'[q] = pcbs[q]
      BY <1>1, <2>1, <2>3 DEF StreamInv
    <3> QED
      BY <2>1, <2>3, <3>1, SameStream
  <2> QED
    BY <2>2, <2>3
<1> QED
  BY <1>2, <1>3 DEF StreamInv

(* A step that leaves the pcbs and recvmbox alone.                         *)
LEMMA StreamStays ==
    ASSUME StreamInv, UNCHANGED << pcbs, read >>,
           conn'.mbox = conn.mbox, conn'.valid = conn.valid, conn'.pcb = conn.pcb
    PROVE  StreamInv'
<1>1. InOrder(conn', read)
  BY DEF StreamInv, InOrder, HoldsStream
<1>2. ASSUME NEW p \in Pcb, conn'.pcb = p PROVE StreamOf(conn', read, pcbs[p])
  BY <1>2, SameStream DEF StreamInv
<1> QED
  BY <1>1, <1>2 DEF StreamInv

(* A netconn with nothing in recvmbox.                                     *)
LEMMA EmptyInOrder ==
    ASSUME NEW c, c.mbox = << >>, NEW rd \in Nat
    PROVE  /\ InOrder(c, rd)
           /\ \A b : ~c.valid /\ b.refused = 0 => StreamOf(c, rd, b)
<1>1. HoldsStream(c, rd, 0) /\ Len(c.mbox) = 0
  BY DEF HoldsStream
<1> QED
  BY <1>1 DEF InOrder, StreamOf, Tracks

(* The pcb is freed, and with it what it had refused.                      *)
LEMMA LostInOrder ==
    ASSUME IInv, StreamInv, NEW p \in Pcb, NEW c \in Netconn, Lost(p, c), UNCHANGED read,
           c.pcb = conn.pcb,
           IF conn.pcb = p THEN InOrder(c, read) ELSE c = conn
    PROVE  StreamInv'
<1>1. /\ PcbInv(p, pcbs[p], conn, task) /\ read \in Nat /\ Put(p, Free)
  BY DEF IInv, TypeOK, Lost
<1>2. CASE pcbs[p].cb
  <2>1. conn.pcb = p /\ InOrder(c, read)
    BY <1>1, <1>2 DEF PcbInv
  <2> DEFINE d == TryPost(c, Eof)
  <2>2. InOrder(d, read)
    BY <1>1, <2>1, EndInOrder DEF InOrder
  <2>3. d \in Netconn
    BY PostNetconn DEF Eof
  <2>4. conn' = [d EXCEPT !.pcb = 0, !.fatal = TRUE, !.state = "NONE"]
    BY <1>2 DEF Lost, err_tcp
  <2> HIDE DEF d
  <2>5. conn'.pcb = 0 /\ conn'.mbox = d.mbox
    BY <2>3, <2>4 DEF Netconn
  <2>6. InOrder(conn', read)
    BY <2>2, <2>5 DEF InOrder, HoldsStream
  <2> QED
    BY <1>1, <2>1, <2>5, <2>6, StreamStep DEF Pcb
<1>3. CASE ~pcbs[p].cb
  <2>1. conn.pcb # p /\ conn' = conn
    BY <1>1, <1>3 DEF PcbInv, Lost
  <2> QED
    BY <1>1, <2>1, StreamStep
<1> QED
  BY <1>2, <1>3

(* tcp_write for the netconn's pcb.                                        *)
LEMMA WriteInOrder ==
    ASSUME IInv, StreamInv, NEW p \in Pcb, conn.pcb = p, NEW c \in Netconn, c.pcb = p,
           NEW pcb \in Block, StreamOf(c, read, pcb),
           do_writemore(p, c, pcb), UNCHANGED read
    PROVE  StreamInv'
<1>1. PICK b \in {pcb, [pcb EXCEPT !.unacked = TRUE]} : Put(p, b)
  BY DEF do_writemore
<1>2. b.got = pcb.got /\ b.refused = pcb.refused /\ b.state = pcb.state
  BY DEF Block
<1>3. conn' \in {[c EXCEPT !.state = "NONE"], [c EXCEPT !.state = "WRITE"]}
  BY DEF do_writemore
<1>4. conn'.mbox = c.mbox /\ conn'.valid = c.valid /\ conn'.pcb = p
  BY <1>3 DEF Netconn
<1>5. StreamOf(conn', read, b)
  BY <1>2, <1>4, SameStream
<1> QED
  BY <1>1, <1>4, <1>5, StreamStep, StreamHolds

(* tcp_close for the netconn's pcb: done, or tried again later.            *)
LEMMA CloseInOrder ==
    ASSUME IInv, StreamInv, NEW p \in Pcb, conn.pcb = p, NEW c \in Netconn, c.pcb = p,
           NEW pcb \in Block, InOrder(c, read), pcb.refused = 0 => StreamOf(c, read, pcb),
           do_close_internal(p, c, pcb), UNCHANGED read
    PROVE  StreamInv'
<1>1. CASE CloseDone(p, c, pcb)
  <2>1. PICK b : Put(p, b)
    BY <1>1 DEF CloseDone
  <2>2. conn' = [c EXCEPT !.pcb = 0, !.state = "NONE"]
    BY <1>1 DEF CloseDone, Closed
  <2>3. conn'.pcb = 0 /\ conn'.mbox = c.mbox
    BY <2>2 DEF Netconn
  <2>4. InOrder(conn', read)
    BY <2>3 DEF InOrder, HoldsStream
  <2> QED
    BY <2>1, <2>3, <2>4, StreamStep DEF Pcb
<1>2. CASE CloseFails(p, c, pcb)
  <2> DEFINE b == [pcb EXCEPT !.cb = TRUE, !.rxclosed = TRUE]
  <2>1. b.got = pcb.got /\ b.refused = pcb.refused /\ b.state = pcb.state
    BY DEF Block
  <2>2. Put(p, b) /\ conn' = [c EXCEPT !.state = "CLOSE"] /\ pcb.refused = 0
    BY <1>2 DEF CloseFails
  <2> HIDE DEF b
  <2>3. conn'.mbox = c.mbox /\ conn'.valid = c.valid /\ conn'.pcb = p
    BY <2>2 DEF Netconn
  <2>4. StreamOf(conn', read, b)
    BY <2>1, <2>2, <2>3, SameStream
  <2> QED
    BY <2>2, <2>3, <2>4, StreamStep, StreamHolds
<1> QED
  BY <1>1, <1>2 DEF do_close_internal

(* poll_tcp and sent_tcp.                                                  *)
LEMMA TakeUpInOrder ==
    ASSUME IInv, StreamInv, NEW p \in Pcb, NEW c \in Netconn, c.pcb = conn.pcb,
           NEW pcb \in Block, pcb.cb <=> conn.pcb = p,
           IF conn.pcb = p THEN StreamOf(c, read, pcb) ELSE c = conn,
           TakeUp(p, c, pcb), UNCHANGED read
    PROVE  StreamInv'
<1>1. CASE pcb.cb /\ c.state = "WRITE"
  BY <1>1, WriteInOrder DEF TakeUp
<1>2. CASE pcb.cb /\ c.state = "CLOSE"
  BY <1>2, CloseInOrder, StreamHolds DEF TakeUp
<1>3. CASE ~(pcb.cb /\ c.state \in {"WRITE", "CLOSE"})
  <2>1. Put(p, pcb) /\ conn' = c
    BY <1>3 DEF TakeUp
  <2> QED
    BY <2>1, StreamStep, StreamHolds
<1> QED
  BY <1>1, <1>2, <1>3

-----------------------------------------------------------------------------
(* The task takes the first message of recvmbox.                           *)
LEMMA FetchInOrder == IInv /\ StreamInv /\ S_Fetch => StreamInv'
<1> SUFFICES ASSUME IInv, StreamInv, S_Fetch PROVE StreamInv'
  OBVIOUS
<1>1. conn \in Netconn /\ conn.mbox \in Seq(Nat) /\ conn.mbox # << >> /\ read \in Nat
  BY DEF IInv, TypeOK, Netconn, S_Fetch
<1> DEFINE s == conn.mbox
           t == Tail(s)
<1>2. /\ Len(s) \in Nat /\ Len(s) >= 1 /\ Len(t) = Len(s) - 1
      /\ \A k \in 1 .. Len(t) : t[k] = s[k + 1]
      /\ Head(s) = s[1]
  BY <1>1
<1> HIDE DEF t
<1>3. \/ conn' = [conn EXCEPT !.mbox = t, !.fatal = TRUE] /\ Head(s) = Eof /\ read' = read
      \/ conn' = [conn EXCEPT !.mbox = t] /\ Head(s) # Eof /\ read' = Head(s)
  BY DEF S_Fetch, t
<1>4. conn'.mbox = t /\ conn'.valid = conn.valid /\ conn'.pcb = conn.pcb /\ pcbs' = pcbs
  BY <1>1, <1>3 DEF Netconn, S_Fetch
<1>5. ASSUME NEW n \in Nat, HoldsStream(conn, read, n)
      PROVE  \E m \in Nat : /\ HoldsStream(conn', read', m) /\ read' + m = read + n
                            /\ m < Len(conn'.mbox) => n < Len(s)
  <2>1. s[1] = IF 1 <= n THEN read + 1 ELSE Eof
    BY <1>2, <1>5 DEF HoldsStream
  <2>2. CASE n = 0
    <3>1. read' = read
      BY <1>2, <1>3, <2>1, <2>2
    <3>2. HoldsStream(conn', read', 0)
      BY <1>2, <1>4, <1>5, <2>2 DEF HoldsStream
    <3> QED
      BY <1>1, <1>2, <2>2, <3>1, <3>2
  <2>3. CASE n # 0
    <3>1. read' = read + 1
      BY <1>1, <1>2, <1>3, <2>1, <2>3 DEF Eof
    <3>2. \A k \in 1 .. Len(t) : t[k] = IF k <= n - 1 THEN read + 1 + k ELSE Eof
      <4>1. \A k \in 1 .. Len(t) : k + 1 \in 1 .. Len(s)
        BY <1>2
      <4>2. \A k \in 1 .. Len(t) : s[k + 1] = IF k + 1 <= n THEN read + (k + 1) ELSE Eof
        BY <1>5, <4>1 DEF HoldsStream
      <4> QED
        BY <1>1, <1>2, <4>2
    <3>3. n - 1 \in 0 .. Len(t)
      BY <1>2, <1>5, <2>3 DEF HoldsStream
    <3>4. HoldsStream(conn', read', n - 1)
      BY <1>4, <3>1, <3>2, <3>3 DEF HoldsStream
    <3>5. read' + (n - 1) = read + n /\ n - 1 \in Nat /\ (n - 1 < Len(t) => n < Len(s))
      BY <1>1, <1>2, <2>3, <3>1
    <3> QED
      BY <1>4, <3>4, <3>5
  <2> QED
    BY <2>2, <2>3
<1>6. InOrder(conn', read')
  BY <1>5 DEF StreamInv, InOrder
<1>7. ASSUME NEW p \in Pcb, conn.pcb = p PROVE StreamOf(conn', read', pcbs[p])
  <2>1. PICK n \in Nat : HoldsStream(conn, read, n) /\ Tracks(conn, read, n, pcbs[p])
    BY <1>7 DEF StreamInv, StreamOf
  <2>2. PICK m \in Nat : /\ HoldsStream(conn', read', m) /\ read' + m = read + n
                         /\ m < Len(conn'.mbox) => n < Len(s)
    BY <1>5, <2>1
  <2>3. Tracks(conn', read', m, pcbs[p])
    BY <1>4, <2>1, <2>2 DEF Tracks
  <2> QED
    BY <2>2, <2>3 DEF StreamOf
<1> QED
  BY <1>4, <1>6, <1>7 DEF StreamInv

(* Every call of the shoutcast task.                                       *)
LEMMA ShoutcastInOrder == IInv /\ StreamInv /\ Shoutcast => StreamInv'
<1> SUFFICES ASSUME IInv, StreamInv, Shoutcast PROVE StreamInv'
  OBVIOUS
<1>1. conn \in Netconn /\ read \in Nat /\ TypeOK /\ CallInv(conn, task, answer)
  BY DEF IInv, TypeOK
<1>2. conn.pcb \in Pcb \/ conn.pcb = 0
  BY <1>1 DEF Netconn, Pcb
<1>3. ASSUME NEW p \in Pcb PROVE pcbs[p] \in Block
  BY <1>1 DEF TypeOK
<1>4. /\ Drained \in Netconn /\ Drained.pcb = conn.pcb
      /\ Drained.mbox = << >> /\ ~Drained.valid
  <2> DEFINE e == << >>
  <2>1. e \in Seq(Nat) /\ Drained = [conn EXCEPT !.mbox = e, !.valid = FALSE]
    BY DEF Drained
  <2> HIDE DEF e
  <2> QED
    BY <1>1, <2>1 DEF Netconn, e
<1>5. NoConn.mbox = << >> /\ NoConn.pcb = 0
  BY DEF NoConn
<1>6. CASE S_New /\ task' = "bind"
  <2>1. PICK p \in Pcb :
          /\ Put(p, [Free EXCEPT !.state = "CLOSED", !.cb = TRUE])
          /\ conn' = [NoConn EXCEPT !.pcb = p, !.valid = TRUE]
    BY <1>6 DEF S_New, tcp_alloc, In, Active
  <2> DEFINE b == [Free EXCEPT !.state = "CLOSED", !.cb = TRUE]
  <2>2. b.got = 0 /\ b.refused = 0
    BY DEF Free
  <2>3. conn'.mbox = << >> /\ conn'.pcb = p /\ read' = 0
    BY <1>6, <2>1 DEF NoConn, S_New
  <2>4. pcbs'[p] = b
    BY <1>1, <2>1 DEF TypeOK, Put
  <2> HIDE DEF b
  <2>5. HoldsStream(conn', read', 0) /\ Tracks(conn', read', 0, b)
    BY <2>2, <2>3 DEF HoldsStream, Tracks
  <2> QED
    BY <2>3, <2>4, <2>5 DEF StreamInv, StreamOf, InOrder
<1>7. CASE S_Bind
  <2> DEFINE p == conn.pcb
             b == [pcbs[p] EXCEPT !.bound = TRUE]
  <2>1. Put(p, b) /\ UNCHANGED << conn, read >>
    BY <1>7 DEF S_Bind
  <2>2. CASE p \in Pcb
    <3>1. b.got = pcbs[p].got /\ b.refused = pcbs[p].refused /\ b.state = pcbs[p].state
      BY <1>3, <2>2 DEF Block
    <3>2. StreamOf(conn, read, pcbs[p])
      BY <2>2 DEF StreamInv
    <3> HIDE DEF b
    <3>3. StreamOf(conn', read, b)
      BY <2>1, <3>1, <3>2, SameStream
    <3> QED
      BY <2>1, <2>2, <3>3, StreamStep, StreamHolds
  <2>3. CASE p \notin Pcb
    <3>1. pcbs' = pcbs
      BY <1>1, <2>1, <2>3 DEF TypeOK, Put
    <3> QED
      BY <2>1, <3>1, StreamStays
  <2> QED
    BY <2>2, <2>3
<1>8. CASE S_Connect
  <2>1. UNCHANGED read
    BY <1>8 DEF S_Connect
  <2>2. CASE UNCHANGED << conn, pcbs >>
    BY <2>1, <2>2, StreamStays
  <2>3. CASE \E p \in Connectable :
               /\ Put(p, [pcbs[p] EXCEPT !.state = "SYN_SENT"])
               /\ conn' = [conn EXCEPT !.state = "CONNECT"]
    <3>1. PICK p \in Pcb : /\ Put(p, [pcbs[p] EXCEPT !.state = "SYN_SENT"])
                           /\ conn' = [conn EXCEPT !.state = "CONNECT"]
                           /\ p = conn.pcb /\ pcbs[p].state = "CLOSED"
      BY <2>3 DEF Connectable
    <3> DEFINE b == [pcbs[p] EXCEPT !.state = "SYN_SENT"]
    <3>2. b.got = pcbs[p].got /\ b.refused = pcbs[p].refused
      BY <1>3 DEF Block
    <3>3. conn'.mbox = conn.mbox /\ conn'.valid = conn.valid /\ conn'.pcb = conn.pcb
      BY <1>1, <3>1 DEF Netconn
    <3>4. StreamOf(conn, read, pcbs[p])
      BY <3>1 DEF StreamInv
    <3> HIDE DEF b
    <3>5. StreamOf(conn', read, b)
      BY <3>1, <3>2, <3>3, <3>4, SameStream
    <3> QED
      BY <2>1, <3>1, <3>3, <3>5, StreamStep, StreamHolds DEF b
  <2> QED
    BY <1>8, <2>2, <2>3 DEF S_Connect
<1>9. CASE S_Write
  <2>1. CASE conn.fatal
    BY <1>9, <2>1, StreamStays DEF S_Write
  <2>2. CASE ~conn.fatal
    <3>1. conn.pcb \in Pcb
      BY <1>1, <1>2, <1>9, <2>2 DEF CallInv, S_Write
    <3>2. StreamOf(conn, read, pcbs[conn.pcb])
      BY <3>1 DEF StreamInv
    <3> QED
      BY <1>1, <1>3, <1>9, <2>2, <3>1, <3>2, WriteInOrder DEF S_Write
  <2> QED
    BY <2>1, <2>2
<1>10. CASE S_Recv \/ S_FetchTimeout \/ S_NullBind
  BY <1>10, StreamStays DEF S_Recv, S_FetchTimeout, S_NullBind, vars
<1>11. CASE S_Fetch
  BY <1>11, FetchInOrder
<1>12. ASSUME conn.pcb # 0, do_close_internal(conn.pcb, Drained, pcbs[conn.pcb]),
              UNCHANGED read
       PROVE  StreamInv'
  <2>1. InOrder(Drained, read)
    BY <1>1, <1>4, EmptyInOrder
  <2>2. pcbs[conn.pcb].refused = 0 => StreamOf(Drained, read, pcbs[conn.pcb])
    BY <1>1, <1>4, EmptyInOrder
  <2> QED
    BY <1>2, <1>3, <1>4, <1>12, <2>1, <2>2, CloseInOrder
<1>13. CASE S_Close
  BY <1>12, <1>13, StreamStays DEF S_Close
<1>14. ASSUME conn' = NoConn, UNCHANGED pcbs, read' \in Nat PROVE StreamInv'
  BY <1>1, <1>5, <1>14, EmptyInOrder DEF StreamInv, Pcb
<1>17. CASE S_New /\ task' = "null"
  BY <1>14, <1>17 DEF S_New
<1>15. CASE S_Delete
  BY <1>1, <1>12, <1>14, <1>15 DEF S_Delete
<1>16. CASE S_Answered
  BY <1>1, <1>14, <1>16, StreamStays DEF S_Answered
<1>18. S_New => task' = "bind" \/ task' = "null"
  BY DEF S_New
<1> QED
  BY <1>6, <1>7, <1>8, <1>9, <1>10, <1>11, <1>13, <1>15, <1>16, <1>17, <1>18 DEF Shoutcast

-----------------------------------------------------------------------------
(* A segment with data, or with data and a FIN.                            *)
LEMMA ReceivedInOrder ==
    ASSUME IInv, StreamInv, NEW p \in Pcb, conn.pcb = p, Receives(p),
           NEW c \in Netconn, NEW b \in Block, NEW data \in BOOLEAN,
           c = IF data THEN WithData(Offered(p), Rest(p)) ELSE Offered(p),
           b = IF data THEN Got(Offered(p), Rest(p)) ELSE Rest(p)
    PROVE  /\ StreamOf(c, read, b)
           /\ StreamOf(TryPost(c, Eof), read, [b EXCEPT !.state = "CLOSE_WAIT"])
<1>1. /\ Offered(p) \in Netconn /\ Rest(p) \in Block /\ read \in Nat
      /\ Rest(p).state = pcbs[p].state /\ pcbs[p].state # "CLOSE_WAIT"
  <2>1. pcbs[p] \in Block
    BY DEF IInv, TypeOK
  <2> QED
    BY <2>1, OfferKeeps DEF IInv, Same, TypeOK, Receives, Block
<1>2. StreamOf(Offered(p), read, Rest(p)) /\ Rest(p).refused = 0
  BY OfferInOrder DEF StreamInv, Receives
<1>3. /\ StreamOf(c, read, b)
      /\ b.refused = 0 \/ ~(c.valid /\ Len(c.mbox) < MBOX)
  BY <1>1, <1>2, NewInOrder
<1> DEFINE d == TryPost(c, Eof)
           e == [b EXCEPT !.state = "CLOSE_WAIT"]
<1>4. e.got = b.got /\ e.refused = b.refused /\ e.state = "CLOSE_WAIT"
  BY DEF Block
<1>5. PICK n \in Nat : HoldsStream(c, read, n) /\ Tracks(c, read, n, b)
  BY <1>3 DEF StreamOf
<1>6. HoldsStream(d, read, n)
  BY <1>1, <1>5, EndInOrder
<1>7. d = c \/ (c.valid /\ b.refused = 0)
  BY <1>3 DEF TryPost
<1> HIDE DEF d, e
<1>8. Tracks(d, read, n, e)
  BY <1>4, <1>5, <1>7 DEF Tracks
<1> QED
  BY <1>3, <1>6, <1>8 DEF StreamOf, d, e

(* Every segment and timer.                                                *)
LEMMA NetInOrder == ASSUME IInv, StreamInv, NEW p \in Pcb, Net(p) PROVE StreamInv'
<1>1. /\ conn \in Netconn /\ pcbs[p] \in Block /\ read \in Nat /\ TypeOK
      /\ PcbInv(p, pcbs[p], conn, task) /\ CallInv(conn, task, answer)
  BY DEF IInv, TypeOK
<1>2. /\ Offered(p) \in Netconn /\ Offered(p).pcb = conn.pcb
      /\ Rest(p) \in Block /\ Rest(p).state = pcbs[p].state /\ Rest(p).cb = pcbs[p].cb
      /\ Rest(p).rxclosed = pcbs[p].rxclosed
  BY <1>1, OfferKeeps DEF Same, Block
<1>3. /\ conn.pcb = p => StreamOf(conn, read, pcbs[p])
      /\ IF conn.pcb = p THEN StreamOf(Offered(p), read, Rest(p)) ELSE Offered(p) = conn
  BY <1>1, OfferInOrder, NotOffered DEF StreamInv
<1>4. ASSUME Lost(p, conn) \/ Lost(p, Offered(p)), UNCHANGED read PROVE StreamInv'
  BY <1>1, <1>2, <1>3, <1>4, LostInOrder, StreamHolds
<1>5. CASE N_SynAck(p)
  <2> DEFINE b == [pcbs[p] EXCEPT !.state = "ESTABLISHED"]
  <2>1. b.got = pcbs[p].got /\ b.refused = pcbs[p].refused /\ pcbs[p].state = "SYN_SENT"
    BY <1>1, <1>5 DEF Block, N_SynAck
  <2>2. Put(p, b) /\ conn' = [conn EXCEPT !.state = "NONE"] /\ UNCHANGED read
    BY <1>5 DEF N_SynAck
  <2>3. conn'.mbox = conn.mbox /\ conn'.valid = conn.valid /\ conn'.pcb = conn.pcb
    BY <1>1, <2>2 DEF Netconn
  <2>4. conn.pcb = p
    BY <1>1, <2>1 DEF PcbInv
  <2> HIDE DEF b
  <2>5. StreamOf(conn', read, b)
    BY <1>3, <2>1, <2>3, <2>4, SameStream
  <2> QED
    BY <2>2, <2>3, <2>4, <2>5, StreamStep, StreamHolds
<1>6. CASE N_Reset(p) \/ N_DataAfterClose(p) \/ N_GivenUp(p)
  BY <1>4, <1>6 DEF N_Reset, N_DataAfterClose, N_GivenUp
<1>7. CASE N_AckData(p)
  <2> DEFINE b == [Rest(p) EXCEPT !.unacked = FALSE, !.kept = FALSE]
  <2>1. /\ b \in Block /\ b.got = Rest(p).got /\ b.refused = Rest(p).refused
        /\ b.state = Rest(p).state /\ b.cb = pcbs[p].cb
    BY <1>2 DEF Block
  <2>2. TakeUp(p, Offered(p), b) /\ UNCHANGED read
    BY <1>7 DEF N_AckData
  <2> HIDE DEF b
  <2>3. IF conn.pcb = p THEN StreamOf(Offered(p), read, b) ELSE Offered(p) = conn
    BY <1>3, <2>1, SameStream
  <2>4. b.cb <=> conn.pcb = p
    BY <1>1, <2>1 DEF PcbInv
  <2> QED
    BY <1>2, <2>1, <2>2, <2>3, <2>4, TakeUpInOrder
<1>8. CASE N_AckFin(p)
  <2>1. conn.pcb # p /\ UNCHANGED << read, conn >> /\ \E b : Put(p, b)
    BY <1>1, <1>8 DEF N_AckFin, PcbInv
  <2> QED
    BY <2>1, StreamStep
<1>9. ASSUME Receives(p), NEW data \in BOOLEAN,
             data => ~pcbs[p].rxclosed, UNCHANGED read
      PROVE  LET c == IF data THEN WithData(Offered(p), Rest(p)) ELSE Offered(p)
                 b == IF data THEN Got(Offered(p), Rest(p)) ELSE Rest(p)
             IN /\ conn' = c /\ Put(p, b) => StreamInv'
                /\ \A e : /\ conn' = IF b.rxclosed THEN c ELSE TryPost(c, Eof)
                          /\ Put(p, e)
                          /\ pcbs[p].cb => e = [b EXCEPT !.state = "CLOSE_WAIT"]
                          => StreamInv'
  <2> DEFINE c == IF data THEN WithData(Offered(p), Rest(p)) ELSE Offered(p)
             b == IF data THEN Got(Offered(p), Rest(p)) ELSE Rest(p)
             f == [b EXCEPT !.state = "CLOSE_WAIT"]
  <2>1. /\ c \in Netconn /\ c.pcb = conn.pcb
        /\ b \in Block /\ b.rxclosed = pcbs[p].rxclosed
    <3> DEFINE m == Rest(p).got + 1
               r == IF WithData(Offered(p), Rest(p)) = Offered(p) THEN m ELSE 0
    <3>1. m \in Nat /\ r \in Nat
      BY <1>2 DEF Block
    <3>2. Got(Offered(p), Rest(p)) = [Rest(p) EXCEPT !.got = m, !.refused = r]
      BY <1>2 DEF Got, Block
    <3>3. WithData(Offered(p), Rest(p)) = TryPost(Offered(p), m)
      BY DEF WithData
    <3> HIDE DEF m, r
    <3>4. /\ Got(Offered(p), Rest(p)) \in Block
          /\ Got(Offered(p), Rest(p)).rxclosed = pcbs[p].rxclosed
      BY <1>2, <3>1, <3>2 DEF Block
    <3>5. /\ WithData(Offered(p), Rest(p)) \in Netconn
          /\ WithData(Offered(p), Rest(p)).pcb = conn.pcb
      BY <1>2, <3>1, <3>3, PostNetconn, PostPcb
    <3> QED
      BY <1>2, <3>4, <3>5
  <2>2. TryPost(c, Eof).pcb = conn.pcb
    BY <2>1, PostPcb DEF Eof
  <2>3. CASE conn.pcb = p
    <3>1. StreamOf(c, read, b) /\ StreamOf(TryPost(c, Eof), read, f)
      BY <1>9, <2>1, <2>3, ReceivedInOrder
    <3>2. pcbs[p].cb
      BY <1>1, <2>3 DEF PcbInv
    <3> HIDE DEF c, b
    <3>3. conn' = c /\ Put(p, b) => StreamInv'
      BY <1>9, <2>1, <2>3, <3>1, StreamStep, StreamHolds
    <3>4. ASSUME NEW e, conn' = IF b.rxclosed THEN c ELSE TryPost(c, Eof), Put(p, e),
                 e = f
          PROVE  StreamInv'
      <4>1. StreamOf(c, read, f)
        <5>1. f.got = b.got /\ f.refused = b.refused /\ f.state = "CLOSE_WAIT"
          BY <2>1 DEF Block
        <5> QED
          BY <3>1, <5>1, SameStream
      <4> QED
        BY <1>9, <2>1, <2>2, <2>3, <3>1, <3>4, <4>1, StreamStep, StreamHolds
    <3> QED
      BY <3>2, <3>3, <3>4 DEF c, b
  <2>4. CASE conn.pcb # p
    <3>1. ~pcbs[p].cb /\ pcbs[p].rxclosed /\ ~data
      BY <1>1, <1>9, <2>4 DEF PcbInv, Receives
    <3>2. c = conn /\ b.rxclosed
      BY <1>3, <2>1, <2>4, <3>1
    <3> HIDE DEF c, b
    <3> QED
      BY <1>9, <2>4, <3>2, StreamStep DEF c, b
  <2> QED
    BY <2>3, <2>4
<1>10. CASE N_Data(p)
  <2>1. /\ Receives(p) /\ ~pcbs[p].rxclosed /\ UNCHANGED read
        /\ Put(p, Got(Offered(p), Rest(p))) /\ conn' = WithData(Offered(p), Rest(p))
    BY <1>10 DEF N_Data
  <2> QED
    BY <1>9, <2>1
<1>11. CASE N_Fin(p)
  <2>1. PICK state \in AfterFin(pcbs[p].state), data \in BOOLEAN :
          /\ data => ~pcbs[p].rxclosed
          /\ LET c == IF data THEN WithData(Offered(p), Rest(p)) ELSE Offered(p)
                 b == IF data THEN Got(Offered(p), Rest(p)) ELSE Rest(p)
             IN /\ Put(p, IF state = "TIME_WAIT" THEN TimeWait
                          ELSE [b EXCEPT !.state = state])
                /\ conn' = IF b.rxclosed THEN c ELSE TryPost(c, Eof)
    BY <1>11 DEF N_Fin
  <2>2. Receives(p) /\ UNCHANGED read
    BY <1>11 DEF N_Fin
  <2>3. pcbs[p].cb => state = "CLOSE_WAIT"
    BY <1>1, <2>1, <2>2 DEF PcbInv, Receives, AfterFin
  <2> QED
    BY <1>9, <2>1, <2>2, <2>3
<1>14. CASE N_Keeps(p)
  <2> DEFINE b == [pcbs[p] EXCEPT !.kept = ~@]
  <2>1. Put(p, b) /\ UNCHANGED << read, conn >>
    BY <1>14 DEF N_Keeps
  <2>2. b.got = pcbs[p].got /\ b.refused = pcbs[p].refused /\ b.state = pcbs[p].state
    BY <1>1 DEF Block
  <2> HIDE DEF b
  <2>3. conn.pcb = p => StreamOf(conn, read, b)
    BY <1>3, <2>2, SameStream
  <2> QED
    BY <2>1, <2>3, StreamStep, StreamHolds
<1>12. CASE N_Poll(p)
  BY <1>1, <1>3, <1>12, TakeUpInOrder DEF N_Poll, PcbInv
<1>13. CASE N_Refused(p)
  BY <1>2, <1>3, <1>13, StreamStep, StreamHolds DEF N_Refused
<1> QED
  BY <1>5, <1>6, <1>7, <1>8, <1>10, <1>11, <1>12, <1>13, <1>14 DEF Net

-----------------------------------------------------------------------------
(* It holds from the start, for every step keeps it.                       *)
LEMMA StreamInvariant == Spec => []StreamInv
<1>1. Init => StreamInv
  BY EmptyInOrder DEF Init, NoConn, StreamInv, Pcb
<1>2. IInv /\ StreamInv /\ [Next]_vars => StreamInv'
  <2>1. IInv /\ StreamInv /\ UNCHANGED vars => StreamInv'
    BY StreamStays DEF vars
  <2> QED
    BY <2>1, ShoutcastInOrder, NetInOrder DEF Next
<1> QED
  BY <1>1, <1>2, Invariant, PTL DEF Spec

(* What TCP has acknowledged reaches the task whole, once and in order,    *)
(* whatever recvmbox had no room for on the way.                           *)
THEOREM WholeStream == Spec => []StreamIsWhole
<1>1. ASSUME IInv, StreamInv PROVE StreamIsWhole
  <2>1. PICK n \in Nat : HoldsStream(conn, read, n)
    BY <1>1 DEF StreamInv, InOrder
  <2>2. /\ conn.mbox \in Seq(Nat) /\ read \in Nat
        /\ DOMAIN conn.mbox = 1 .. Len(conn.mbox) /\ Len(conn.mbox) \in Nat
    BY <1>1 DEF IInv, TypeOK, Netconn
  <2>3. \A k \in DOMAIN conn.mbox : conn.mbox[k] # Eof => conn.mbox[k] = read + k
    BY <2>1, <2>2 DEF HoldsStream
  <2>4. ASSUME conn.pcb # 0, conn.valid
        PROVE  pcbs[conn.pcb].got =
                 read + Cardinality({ k \in DOMAIN conn.mbox : conn.mbox[k] # Eof })
                      + (IF pcbs[conn.pcb].refused = 0 THEN 0 ELSE 1)
    <3>1. conn.pcb \in Pcb
      BY <1>1, <2>4 DEF IInv, TypeOK, Netconn, Pcb
    <3>2. PICK m \in Nat :
            HoldsStream(conn, read, m) /\ Tracks(conn, read, m, pcbs[conn.pcb])
      BY <1>1, <3>1 DEF StreamInv, StreamOf
    <3>3. { k \in DOMAIN conn.mbox : conn.mbox[k] # Eof } = 1 .. m
      BY <2>2, <3>2 DEF HoldsStream, Eof
    <3>4. Cardinality(1 .. m) = m
      BY <3>2, FS_Interval
    <3> QED
      BY <2>4, <3>2, <3>3, <3>4 DEF Tracks
  <2> QED
    BY <2>3, <2>4 DEF StreamIsWhole
<1> QED
  BY <1>1, Invariant, StreamInvariant, PTL
-----------------------------------------------------------------------------
(***************************************************************************)
(* What CallsReturn and PortComesFree rest on, besides fairness: a call    *)
(* that waits is known to a pcb that a timer of TCP comes to, and a pcb    *)
(* that keeps the port from netconn_bind is on its way out.                *)
(***************************************************************************)
Up == {"ESTABLISHED", "CLOSE_WAIT"}
Leaving == {"FIN_WAIT_1", "FIN_WAIT_2", "CLOSING", "LAST_ACK", "TIME_WAIT"}

(* Where a pcb with contents b is, while the task t uses netconn c.  One   *)
(* that the netconn has left is leaving; its own one is as its call needs  *)
(* it.                                                                     *)
WayOf(b, c, t, a) ==
    /\ ~ b.cb => /\ b.state \in Leaving \cup {"free"} /\ ~ b.unacked
                 /\ b.state = "free" => ~ b.bound
    /\ b.cb /\ t = "bind" => b.state = "CLOSED" /\ ~ b.bound /\ ~ b.unacked
    /\ b.cb /\ c.state = "CONNECT" => b.state = "SYN_SENT"
    /\ b.cb /\ c.state \in {"WRITE", "CLOSE"} => b.state \in Up
    /\ b.cb /\ (t \in {"write", "writing"} \/ (t = "connecting" /\ a = "ok"))
           => b.state \in Up

(* A call in progress is answered, or the netconn says what it waits for.  *)
CallWaits(c, t, a) ==
    /\ t \notin Ready /\ c.state = "NONE" => a # "none"
    /\ c.state # "NONE" => c.pcb # 0

WayInv ==
    /\ \A p \in Pcb : WayOf(pcbs[p], conn, task, answer)
    /\ CallWaits(conn, task, answer)

(* A step that touches one pcb.                                            *)
LEMMA WayUpdate ==
    ASSUME IInv, NEW p \in Pcb, NEW b, Put(p, b),
           WayOf(b, conn', task', answer'), CallWaits(conn', task', answer'),
           \A q \in Pcb \ {p} : WayOf(pcbs[q], conn', task', answer')
    PROVE  WayInv'
<1>1. \A q \in Pcb : pcbs'[q] = IF q = p THEN b ELSE pcbs[q]
  BY DEF IInv, TypeOK, Put
<1> QED
  BY <1>1 DEF WayInv

(* The netconn's own pcb, or one while it has none.                        *)
LEMMA OwnWay ==
    ASSUME IInv, WayInv, NEW p \in Pcb, conn.pcb \in {0, p}, NEW b, Put(p, b),
           WayOf(b, conn', task', answer'), CallWaits(conn', task', answer')
    PROVE  WayInv'
<1>1. ASSUME NEW q \in Pcb \ {p} PROVE WayOf(pcbs[q], conn', task', answer')
  <2>1. ~ pcbs[q].cb
    BY DEF IInv, PcbInv, Pcb
  <2> QED
    BY <2>1 DEF WayInv, WayOf
<1> QED
  BY <1>1, WayUpdate

(* Any pcb, in a step that changes of the netconn its recvmbox only.       *)
LEMMA NetWay ==
    ASSUME IInv, WayInv, NEW p \in Pcb, NEW b, Put(p, b), Same(conn, conn'),
           UNCHANGED << task, answer >>, WayOf(b, conn, task, answer)
    PROVE  WayInv'
<1>1. CallWaits(conn', task', answer') /\ WayOf(b, conn', task', answer')
  BY DEF WayInv, CallWaits, WayOf, Same
<1>2. \A q \in Pcb \ {p} : WayOf(pcbs[q], conn', task', answer')
  BY DEF WayInv, WayOf, Same
<1> QED
  BY <1>1, <1>2, WayUpdate

(* errf and memp_free.                                                     *)
LEMMA LostWay ==
    ASSUME IInv, WayInv, NEW p \in Pcb, NEW c, Same(conn, c), Lost(p, c), UNCHANGED task
    PROVE  WayInv'
<1>1. Put(p, Free) /\ Free.state = "free" /\ ~ Free.cb /\ ~ Free.unacked /\ ~ Free.bound
  BY DEF Lost, Free
<1>2. CASE pcbs[p].cb
  <2> DEFINE d == TryPost(c, Eof)
  <2>1. Same(c, d)
    BY PostKeeps DEF Same, Eof
  <2>2. /\ conn' = [d EXCEPT !.pcb = 0, !.fatal = TRUE, !.state = "NONE"]
        /\ answer' = IF conn.state = "NONE" THEN answer ELSE "error"
    BY <1>2 DEF Lost, err_tcp, Same
  <2> HIDE DEF d
  <2>3. conn'.pcb = 0 /\ conn'.state = "NONE"
    BY <2>1, <2>2 DEF Same, Netconn
  <2>4. WayOf(Free, conn', task', answer') /\ CallWaits(conn', task', answer')
    BY <1>1, <2>2, <2>3 DEF WayInv, WayOf, CallWaits
  <2>5. conn.pcb = p
    BY <1>2 DEF IInv, PcbInv
  <2> QED
    BY <1>1, <2>4, <2>5, OwnWay
<1>3. CASE ~ pcbs[p].cb
  <2>1. conn' = c /\ answer' = answer /\ WayOf(Free, conn, task, answer)
    BY <1>1, <1>3 DEF Lost, WayOf
  <2> QED
    BY <1>1, <2>1, NetWay
<1> QED
  BY <1>2, <1>3

(* A write goes through, or waits for poll_tcp with a pcb that has one.    *)
LEMMA WriteWay ==
    ASSUME IInv, WayInv, NEW p \in Pcb, conn.pcb = p, NEW c, Same(conn, c),
           NEW pcb \in Block, pcb.cb, pcb.state \in Up,
           task' = "writing", do_writemore(p, c, pcb)
    PROVE  WayInv'
<1>1. CASE /\ Put(p, [pcb EXCEPT !.unacked = TRUE])
           /\ conn' = [c EXCEPT !.state = "NONE"] /\ answer' = "ok"
  <2> DEFINE b == [pcb EXCEPT !.unacked = TRUE]
  <2>1. b.cb /\ b.state \in Up
    BY DEF Block
  <2>2. conn'.state = "NONE"
    BY <1>1 DEF Same, Netconn
  <2>3. WayOf(b, conn', task', answer') /\ CallWaits(conn', task', answer')
    BY <1>1, <2>1, <2>2 DEF WayOf, CallWaits
  <2> HIDE DEF b
  <2> QED
    BY <1>1, <2>3, OwnWay DEF b
<1>2. CASE Put(p, pcb) /\ conn' = [c EXCEPT !.state = "WRITE"]
  <2>1. conn'.state = "WRITE" /\ conn'.pcb = p /\ p # 0
    BY <1>2 DEF Same, Netconn, Pcb
  <2>2. WayOf(pcb, conn', task', answer') /\ CallWaits(conn', task', answer')
    BY <2>1 DEF WayOf, CallWaits
  <2> QED
    BY <1>2, <2>2, OwnWay
<1> QED
  BY <1>1, <1>2 DEF do_writemore

(* So does a close.                                                        *)
LEMMA CloseWay ==
    ASSUME IInv, WayInv, NEW p \in Pcb, conn.pcb = p, NEW c, Same(conn, c),
           NEW pcb \in Block, task' \in {"closing", "deleting"},
           do_close_internal(p, c, pcb)
    PROVE  WayInv'
<1>1. CASE CloseDone(p, c, pcb)
  <2>1. conn'.state = "NONE" /\ answer' = "ok"
    BY <1>1 DEF CloseDone, Closed, Same, Netconn
  <2>2. PICK b : /\ Put(p, b) /\ ~ b.cb /\ ~ b.unacked
                 /\ b.state \in Leaving \cup {"free"} /\ (b.state = "free" => ~ b.bound)
    <3>1. CASE Put(p, TimeWait)
      <4>1. TimeWait.state = "TIME_WAIT" /\ ~ TimeWait.cb /\ ~ TimeWait.unacked
        BY DEF TimeWait, Free
      <4> QED
        BY <3>1, <4>1 DEF Leaving
    <3>2. CASE Put(p, Free)
      BY <3>2 DEF Free
    <3>3. CASE /\ pcb.state \in {"ESTABLISHED", "CLOSE_WAIT"}
               /\ Put(p, [pcb EXCEPT !.cb = FALSE, !.rxclosed = TRUE, !.unacked = FALSE,
                        !.state = IF @ = "ESTABLISHED" THEN "FIN_WAIT_1" ELSE "LAST_ACK"])
      <4> DEFINE b == [pcb EXCEPT !.cb = FALSE, !.rxclosed = TRUE, !.unacked = FALSE,
                        !.state = IF @ = "ESTABLISHED" THEN "FIN_WAIT_1" ELSE "LAST_ACK"]
      <4>1. b.cb = FALSE /\ b.unacked = FALSE /\ b.state \in {"FIN_WAIT_1", "LAST_ACK"}
        BY DEF Block
      <4> QED
        BY <3>3, <4>1 DEF Leaving
    <3> QED
      BY <1>1, <3>1, <3>2, <3>3 DEF CloseDone
  <2>3. WayOf(b, conn', task', answer') /\ CallWaits(conn', task', answer')
    BY <2>1, <2>2 DEF WayOf, CallWaits
  <2> QED
    BY <2>2, <2>3, OwnWay
<1>2. CASE CloseFails(p, c, pcb)
  <2> DEFINE b == [pcb EXCEPT !.cb = TRUE, !.rxclosed = TRUE]
  <2>1. b.cb = TRUE /\ b.state \in Up /\ Put(p, b)
    BY <1>2 DEF CloseFails, Block, Up
  <2>2. conn'.state = "CLOSE" /\ conn'.pcb = p /\ p # 0
    BY <1>2 DEF CloseFails, Same, Netconn, Pcb
  <2>3. WayOf(b, conn', task', answer') /\ CallWaits(conn', task', answer')
    BY <2>1, <2>2 DEF WayOf, CallWaits
  <2> QED
    BY <2>1, <2>3, OwnWay
<1> QED
  BY <1>1, <1>2 DEF do_close_internal

(* poll_tcp and sent_tcp.                                                  *)
LEMMA TakeUpWay ==
    ASSUME IInv, WayInv, NEW p \in Pcb, NEW c, Same(conn, c),
           NEW pcb \in Block, pcb.cb = pcbs[p].cb, WayOf(pcb, conn, task, answer),
           TakeUp(p, c, pcb), UNCHANGED task
    PROVE  WayInv'
<1>1. /\ pcb.cb => conn.pcb = p
      /\ c.state = conn.state /\ CallInv(conn, task, answer)
  BY DEF IInv, PcbInv, Same
<1>2. CASE pcb.cb /\ c.state = "WRITE"
  <2>1. task' = "writing" /\ pcb.state \in Up /\ do_writemore(p, c, pcb)
    BY <1>1, <1>2 DEF CallInv, WayOf, TakeUp
  <2> QED
    BY <1>1, <1>2, <2>1, WriteWay
<1>3. CASE pcb.cb /\ c.state = "CLOSE"
  <2>1. task' \in {"closing", "deleting"} /\ do_close_internal(p, c, pcb)
    BY <1>1, <1>3 DEF CallInv, TakeUp
  <2> QED
    BY <1>1, <1>3, <2>1, CloseWay
<1>4. CASE ~ (pcb.cb /\ c.state \in {"WRITE", "CLOSE"})
  <2>1. Put(p, pcb) /\ conn' = c /\ answer' = answer
    BY <1>4 DEF TakeUp
  <2> QED
    BY <2>1, NetWay
<1> QED
  BY <1>2, <1>3, <1>4
(* The task goes on without a call to TCP.                                 *)
LEMMA TaskWay ==
    ASSUME WayInv, UNCHANGED pcbs, conn'.state = "NONE", task' \in Ready \ {"bind"},
           task' = "write" => task = "connecting" /\ answer = "ok"
    PROVE  WayInv'
<1>1. CallWaits(conn', task', answer')
  BY DEF CallWaits
<1>2. ASSUME NEW p \in Pcb PROVE WayOf(pcbs'[p], conn', task', answer')
  BY DEF WayInv, WayOf, Ready
<1> QED
  BY <1>1, <1>2 DEF WayInv

(* Every call of the shoutcast task.                                       *)
LEMMA ShoutcastWay == IInv /\ WayInv /\ Shoutcast => WayInv'
<1> SUFFICES ASSUME IInv, WayInv, Shoutcast PROVE WayInv'
  OBVIOUS
<1>1. /\ CallInv(conn, task, answer) /\ conn \in Netconn /\ TypeOK
      /\ Same(conn, conn) /\ Same(conn, Drained)
  BY DrainKeeps DEF IInv, TypeOK, Same
<1>2. conn.pcb # 0 => /\ conn.pcb \in Pcb /\ pcbs[conn.pcb] \in Block
                      /\ pcbs[conn.pcb].cb
  BY <1>1, ConnectionAssumption DEF Pcb, TypeOK, Netconn, IInv, PcbInv
<1>3. NoConn.pcb = 0 /\ NoConn.state = "NONE"
  BY DEF NoConn
<1>4. CASE S_New /\ task' = "bind"
  <2>1. PICK p \in Pcb :
          /\ Put(p, [Free EXCEPT !.state = "CLOSED", !.cb = TRUE])
          /\ conn' = [NoConn EXCEPT !.pcb = p, !.valid = TRUE]
    BY <1>4 DEF S_New, tcp_alloc, In, Active
  <2> DEFINE b == [Free EXCEPT !.state = "CLOSED", !.cb = TRUE]
  <2>2. b.state = "CLOSED" /\ b.cb = TRUE /\ b.bound = FALSE /\ b.unacked = FALSE
    BY DEF Free
  <2>3. conn'.state = "NONE" /\ task' = "bind" /\ conn.pcb = 0
    BY <1>1, <1>4, <2>1 DEF S_New, NoConn, CallInv
  <2>4. WayOf(b, conn', task', answer') /\ CallWaits(conn', task', answer')
    BY <2>2, <2>3 DEF WayOf, CallWaits, Ready
  <2> HIDE DEF b
  <2> QED
    BY <2>1, <2>3, <2>4, OwnWay DEF b
<1>5. CASE S_Bind
  <2>1. task' = "connect" /\ UNCHANGED << conn, answer >> /\ conn.state = "NONE"
    BY <1>1, <1>5 DEF S_Bind, CallInv, Ready
  <2>2. CASE conn.pcb = 0
    <3>1. pcbs' = pcbs
      BY <1>1, <1>5, <2>2 DEF S_Bind, Put, Pcb, TypeOK
    <3> QED
      BY <2>1, <3>1, TaskWay DEF Ready
  <2>3. CASE conn.pcb # 0
    <3> DEFINE b == [pcbs[conn.pcb] EXCEPT !.bound = TRUE]
    <3>1. b.cb = TRUE /\ Put(conn.pcb, b)
      BY <1>2, <1>5, <2>3 DEF S_Bind, Block
    <3>2. WayOf(b, conn', task', answer') /\ CallWaits(conn', task', answer')
      BY <2>1, <3>1 DEF WayOf, CallWaits, Ready
    <3> HIDE DEF b
    <3> QED
      BY <1>2, <2>3, <3>1, <3>2, OwnWay
  <2> QED
    BY <2>2, <2>3
<1>6. CASE S_Connect
  <2>1. conn.state = "NONE" /\ answer = "none" /\ UNCHANGED answer
    BY <1>1, <1>6 DEF S_Connect, CallInv, Ready
  <2>2. CASE task' = "delete" /\ UNCHANGED << conn, pcbs >>
    BY <2>1, <2>2, TaskWay DEF Ready
  <2>3. ASSUME NEW p \in Connectable, Put(p, [pcbs[p] EXCEPT !.state = "SYN_SENT"]),
               conn' = [conn EXCEPT !.state = "CONNECT"], task' = "connecting"
        PROVE  WayInv'
    <3> DEFINE b == [pcbs[p] EXCEPT !.state = "SYN_SENT"]
    <3>1. p \in Pcb /\ p = conn.pcb /\ pcbs[p] \in Block /\ pcbs[p].cb /\ p # 0
      BY <1>2 DEF Connectable, Pcb
    <3>2. b.state = "SYN_SENT" /\ b.cb = pcbs[p].cb
      BY <3>1 DEF Block
    <3>3. conn'.state = "CONNECT" /\ conn'.pcb = p
      BY <1>1, <2>3, <3>1 DEF Netconn
    <3>4. WayOf(b, conn', task', answer') /\ CallWaits(conn', task', answer')
      BY <2>1, <2>3, <3>1, <3>2, <3>3 DEF WayOf, CallWaits
    <3> HIDE DEF b
    <3> QED
      BY <2>3, <3>1, <3>4, OwnWay DEF b
  <2> QED
    BY <1>6, <2>2, <2>3 DEF S_Connect
<1>7. CASE S_Write
  <2>1. task = "write" /\ conn.state = "NONE"
    BY <1>1, <1>7 DEF S_Write, CallInv, Ready
  <2>2. CASE conn.fatal
    <3>1. task' = "recv" /\ UNCHANGED << conn, pcbs >>
      BY <1>7, <2>2 DEF S_Write
    <3> QED
      BY <2>1, <3>1, TaskWay DEF Ready
  <2>3. CASE ~ conn.fatal
    <3>1. conn.pcb # 0
      BY <1>1, <2>1, <2>3 DEF CallInv
    <3>2. task' = "writing" /\ do_writemore(conn.pcb, conn, pcbs[conn.pcb])
      BY <1>7, <2>3 DEF S_Write
    <3>3. pcbs[conn.pcb].state \in Up
      BY <1>2, <2>1, <3>1 DEF WayInv, WayOf
    <3> QED
      BY <1>1, <1>2, <3>1, <3>2, <3>3, WriteWay
  <2> QED
    BY <2>2, <2>3
<1>12. CASE S_New /\ task' = "null"
  BY <1>3, <1>12, TaskWay DEF S_New, Ready
<1>13. CASE S_NullBind
  BY <1>13 DEF S_NullBind, vars, WayInv
<1>8. CASE S_Recv \/ S_FetchTimeout
  <2>1. /\ task' \in {"recv", "connect", "close", "fetch"}
        /\ conn.state = "NONE" /\ UNCHANGED << conn, pcbs >>
    BY <1>1, <1>8 DEF S_Recv, S_FetchTimeout, Failed, CallInv, Ready
  <2> QED
    BY <2>1, TaskWay DEF Ready
<1>9. CASE S_Fetch
  <2>1. /\ task' \in {"recv", "connect", "close"} /\ conn.state = "NONE"
        /\ UNCHANGED pcbs
    BY <1>1, <1>9 DEF S_Fetch, Failed, CallInv, Ready
  <2>2. conn'.state = "NONE"
    <3> DEFINE s == Tail(conn.mbox)
    <3>1. \/ conn' = [conn EXCEPT !.mbox = s, !.fatal = TRUE]
          \/ conn' = [conn EXCEPT !.mbox = s]
      BY <1>9 DEF S_Fetch
    <3> HIDE DEF s
    <3> QED
      BY <1>1, <2>1, <3>1 DEF Netconn
  <2> QED
    BY <2>1, <2>2, TaskWay DEF Ready
<1>10. CASE S_Close \/ S_Delete
  <2>1. conn.state = "NONE"
    BY <1>1, <1>10 DEF S_Close, S_Delete, CallInv, Ready
  <2>2. CASE conn.pcb = 0
    <3>1. task' \in {"delete", "new"} /\ conn' \in {conn, NoConn} /\ UNCHANGED pcbs
      BY <1>10, <2>2 DEF S_Close, S_Delete
    <3> QED
      BY <1>3, <2>1, <3>1, TaskWay DEF Ready
  <2>3. CASE conn.pcb # 0
    <3>1. /\ task' \in {"closing", "deleting"}
          /\ do_close_internal(conn.pcb, Drained, pcbs[conn.pcb])
      BY <1>10, <2>3 DEF S_Close, S_Delete
    <3> QED
      BY <1>1, <1>2, <2>3, <3>1, CloseWay
  <2> QED
    BY <2>2, <2>3
<1>11. CASE S_Answered
  <2>1. /\ answer # "none" /\ conn.state = "NONE" /\ UNCHANGED pcbs
        /\ task \in {"connecting", "writing", "closing", "deleting"}
    BY <1>1, <1>11 DEF S_Answered, CallInv, TypeOK
  <2>2. /\ task' \in {"write", "delete", "recv", "new"}
        /\ task' = "write" => task = "connecting" /\ answer = "ok"
        /\ conn' \in {conn, NoConn}
    BY <1>11, <2>1 DEF S_Answered
  <2> QED
    BY <1>3, <2>1, <2>2, TaskWay DEF Ready
<1>14. S_New => task' = "bind" \/ task' = "null"
  BY DEF S_New
<1> QED
  BY <1>4, <1>5, <1>6, <1>7, <1>8, <1>9, <1>10, <1>11, <1>12, <1>13, <1>14 DEF Shoutcast

(* Every segment and timer.                                                *)
LEMMA NetWayStep == ASSUME IInv, WayInv, NEW p \in Pcb, Net(p) PROVE WayInv'
<1>1. /\ TypeOK /\ CallInv(conn, task, answer) /\ PcbInv(p, pcbs[p], conn, task)
      /\ pcbs[p] \in Block /\ conn \in Netconn /\ Same(conn, conn)
      /\ WayOf(pcbs[p], conn, task, answer)
  BY DEF IInv, TypeOK, Same, WayInv
<1>2. Same(conn, Offered(p))
  BY <1>1, OfferKeeps
<1>3. /\ Rest(p) \in Block /\ Rest(p).state = pcbs[p].state /\ Rest(p).cb = pcbs[p].cb
      /\ Rest(p).bound = pcbs[p].bound /\ Rest(p).rxclosed = pcbs[p].rxclosed
      /\ Rest(p).unacked = pcbs[p].unacked /\ Rest(p).got = pcbs[p].got
  BY <1>1, OfferKeeps DEF Block
<1>4. WayOf(Rest(p), conn, task, answer)
  BY <1>1, <1>3 DEF WayOf
<1>5. CASE N_SynAck(p)
  <2> DEFINE b == [pcbs[p] EXCEPT !.state = "ESTABLISHED"]
  <2>1. b.state = "ESTABLISHED" /\ b.cb = pcbs[p].cb
    BY <1>1 DEF Block
  <2>2. /\ task = "connecting" /\ conn.pcb = p /\ Put(p, b) /\ pcbs[p].cb
        /\ conn' = [conn EXCEPT !.state = "NONE"] /\ answer' = "ok" /\ UNCHANGED task
    BY <1>1, <1>5 DEF N_SynAck, PcbInv
  <2>3. conn'.state = "NONE"
    BY <1>1, <2>2 DEF Netconn
  <2>4. WayOf(b, conn', task', answer') /\ CallWaits(conn', task', answer')
    BY <2>1, <2>2, <2>3 DEF WayOf, CallWaits, Up
  <2> HIDE DEF b
  <2> QED
    BY <2>2, <2>4, OwnWay
<1>6. CASE N_Reset(p)
  BY <1>2, <1>6, LostWay DEF N_Reset
<1>7. CASE N_AckData(p)
  <2> DEFINE b == [Rest(p) EXCEPT !.unacked = FALSE, !.kept = FALSE]
  <2>1. /\ b \in Block /\ b.state = pcbs[p].state /\ b.cb = pcbs[p].cb
        /\ b.bound = pcbs[p].bound /\ b.unacked = FALSE
    BY <1>3 DEF Block
  <2>2. WayOf(b, conn, task, answer)
    BY <1>1, <2>1 DEF WayOf
  <2>3. TakeUp(p, Offered(p), b) /\ UNCHANGED task
    BY <1>7 DEF N_AckData
  <2> HIDE DEF b
  <2> QED
    BY <1>2, <2>1, <2>2, <2>3, TakeUpWay
<1>8. CASE N_AckFin(p)
  <2>1. ~ pcbs[p].cb /\ ~ pcbs[p].unacked /\ UNCHANGED << task, conn, answer >>
    BY <1>1, <1>8 DEF N_AckFin, PcbInv, WayOf
  <2>2. PICK b : /\ Put(p, b) /\ ~ b.cb /\ ~ b.unacked
                 /\ b.state \in Leaving \cup {"free"} /\ (b.state = "free" => ~ b.bound)
    <3>1. CASE pcbs[p].state = "FIN_WAIT_1"
      <4> DEFINE b == [pcbs[p] EXCEPT !.state = "FIN_WAIT_2"]
      <4>1. b.state = "FIN_WAIT_2" /\ b.cb = pcbs[p].cb /\ b.unacked = pcbs[p].unacked
        BY <1>1 DEF Block
      <4>2. Put(p, b)
        BY <1>8, <3>1 DEF N_AckFin
      <4> HIDE DEF b
      <4> QED
        BY <2>1, <4>1, <4>2 DEF Leaving
    <3>2. CASE pcbs[p].state = "CLOSING"
      <4>1. TimeWait.state = "TIME_WAIT" /\ ~ TimeWait.cb /\ ~ TimeWait.unacked
        BY DEF TimeWait, Free
      <4>2. Put(p, TimeWait)
        BY <1>8, <3>2 DEF N_AckFin
      <4> QED
        BY <4>1, <4>2 DEF Leaving
    <3>3. CASE pcbs[p].state = "LAST_ACK"
      <4>1. Free.state = "free" /\ ~ Free.cb /\ ~ Free.unacked /\ ~ Free.bound
        BY DEF Free
      <4>2. Put(p, Free)
        BY <1>8, <3>3 DEF N_AckFin
      <4> QED
        BY <4>1, <4>2
    <3> QED
      BY <1>8, <3>1, <3>2, <3>3 DEF N_AckFin
  <2>3. WayOf(b, conn, task, answer)
    BY <2>2 DEF WayOf
  <2> QED
    BY <1>1, <2>1, <2>2, <2>3, NetWay
<1>9. CASE N_DataAfterClose(p)
  BY <1>1, <1>9, LostWay DEF N_DataAfterClose
<1> DEFINE new == Got(Offered(p), Rest(p))
           with == WithData(Offered(p), Rest(p))
<1>10. /\ new \in Block /\ new.state = pcbs[p].state /\ new.cb = pcbs[p].cb
       /\ new.bound = pcbs[p].bound /\ new.rxclosed = pcbs[p].rxclosed
       /\ new.unacked = pcbs[p].unacked
  <2> DEFINE g == Rest(p).got + 1
             r == IF WithData(Offered(p), Rest(p)) = Offered(p) THEN g ELSE 0
  <2>1. g \in Nat /\ r \in Nat
    BY <1>3 DEF Block
  <2>2. new = [Rest(p) EXCEPT !.got = g, !.refused = r]
    BY <1>3 DEF Got, Block
  <2> HIDE DEF g, r, new
  <2> QED
    BY <1>3, <2>1, <2>2 DEF Block
<1>11. Same(conn, with)
  <2>1. Rest(p).got + 1 \in Nat
    BY <1>3 DEF Block
  <2> QED
    BY <1>2, <2>1, PostKeeps DEF WithData, Same
<1>12. WayOf(new, conn, task, answer)
  BY <1>1, <1>10 DEF WayOf
<1> HIDE DEF new, with
<1>13. CASE N_Data(p)
  <2>1. Put(p, new) /\ conn' = with /\ UNCHANGED << task, answer >>
    BY <1>13 DEF N_Data, new, with
  <2> QED
    BY <1>11, <1>12, <2>1, NetWay
<1>14. CASE N_Fin(p)
  <2>1. PICK state \in AfterFin(pcbs[p].state), data \in BOOLEAN :
          LET c == IF data THEN with ELSE Offered(p)
              pcb == IF data THEN new ELSE Rest(p)
          IN /\ Put(p, IF state = "TIME_WAIT" THEN TimeWait
                       ELSE [pcb EXCEPT !.state = state])
             /\ conn' = IF pcb.rxclosed THEN c ELSE TryPost(c, Eof)
    BY <1>14 DEF N_Fin, new, with
  <2>2. Receives(p) /\ UNCHANGED << task, answer >>
    BY <1>14 DEF N_Fin
  <2> DEFINE c == IF data THEN with ELSE Offered(p)
             pcb == IF data THEN new ELSE Rest(p)
             b == IF state = "TIME_WAIT" THEN TimeWait ELSE [pcb EXCEPT !.state = state]
  <2>3. Same(conn, c)
    BY <1>2, <1>11
  <2>4. /\ pcb \in Block /\ pcb.cb = pcbs[p].cb /\ pcb.bound = pcbs[p].bound
        /\ pcb.unacked = pcbs[p].unacked
    BY <1>3, <1>10
  <2>5. /\ pcbs[p].state = "ESTABLISHED" => state = "CLOSE_WAIT" /\ pcbs[p].cb
        /\ pcbs[p].state # "ESTABLISHED" =>
             state \in {"CLOSING", "TIME_WAIT"} /\ ~ pcbs[p].cb
    BY <1>1, <2>1, <2>2 DEF PcbInv, Receives, AfterFin, WayOf, Leaving
  <2> HIDE DEF c, pcb
  <2>6. WayOf(b, conn, task, answer)
    <3>1. CASE state = "TIME_WAIT"
      <4>1. b.state = "TIME_WAIT" /\ ~ b.cb /\ ~ b.unacked
        BY <3>1 DEF TimeWait, Free
      <4> QED
        BY <4>1 DEF WayOf, Leaving
    <3>2. CASE state # "TIME_WAIT"
      <4>1. /\ b.state = state /\ b.cb = pcb.cb /\ b.bound = pcb.bound
            /\ b.unacked = pcb.unacked
        BY <2>4, <3>2 DEF Block
      <4> HIDE DEF b
      <4>2. CASE pcbs[p].state = "ESTABLISHED"
        <5>1. b.state = "CLOSE_WAIT" /\ b.cb
          BY <2>4, <2>5, <4>1, <4>2
        <5>2. task # "bind" /\ conn.state # "CONNECT"
          BY <1>1, <2>5, <4>2 DEF WayOf
        <5> QED
          BY <5>1, <5>2 DEF WayOf, Up
      <4>3. CASE pcbs[p].state # "ESTABLISHED"
        <5>1. b.state = "CLOSING" /\ ~ b.cb
          BY <2>4, <2>5, <3>2, <4>1, <4>3
        <5>2. ~ b.unacked
          BY <1>1, <2>4, <2>5, <4>1, <4>3 DEF WayOf
        <5> QED
          BY <5>1, <5>2 DEF WayOf, Leaving
      <4> QED
        BY <4>2, <4>3
    <3> QED
      BY <3>1, <3>2
  <2>7. Put(p, b) /\ (conn' = c \/ conn' = TryPost(c, Eof))
    BY <2>1 DEF c, pcb
  <2> HIDE DEF b
  <2>8. Same(conn, conn')
    BY <2>3, <2>7, PostKeeps DEF Same, Eof
  <2> QED
    BY <2>2, <2>6, <2>7, <2>8, NetWay
<1>15. CASE N_GivenUp(p)
  BY <1>1, <1>15, LostWay DEF N_GivenUp
<1>18. CASE N_Keeps(p)
  <2> DEFINE b == [pcbs[p] EXCEPT !.kept = ~@]
  <2>1. Put(p, b) /\ UNCHANGED << task, conn, answer >>
    BY <1>18 DEF N_Keeps
  <2>2. /\ b.state = pcbs[p].state /\ b.cb = pcbs[p].cb
        /\ b.bound = pcbs[p].bound /\ b.unacked = pcbs[p].unacked
    BY <1>1 DEF Block
  <2> HIDE DEF b
  <2>3. WayOf(b, conn, task, answer)
    BY <1>1, <2>2 DEF WayOf
  <2> QED
    BY <1>1, <2>1, <2>3, NetWay
<1>16. CASE N_Poll(p)
  BY <1>1, <1>16, TakeUpWay DEF N_Poll
<1>17. CASE N_Refused(p)
  BY <1>2, <1>4, <1>17, NetWay DEF N_Refused
<1> QED
  BY <1>5, <1>6, <1>7, <1>8, <1>9, <1>13, <1>14, <1>15, <1>16, <1>17, <1>18 DEF Net

(* It holds from the start, for every step keeps it.                       *)
LEMMA WayInvariant == Spec => []WayInv
<1>1. Init => WayInv
  <2> SUFFICES ASSUME Init PROVE WayInv
    OBVIOUS
  <2>1. CallWaits(conn, task, answer)
    BY DEF Init, CallWaits, NoConn, Ready
  <2>2. Free.state = "free" /\ ~ Free.cb /\ ~ Free.unacked /\ ~ Free.bound
    BY DEF Free
  <2>3. ASSUME NEW p \in Pcb PROVE WayOf(pcbs[p], conn, task, answer)
    BY <2>2 DEF Init, WayOf
  <2> QED
    BY <2>1, <2>3 DEF WayInv
<1>2. IInv /\ WayInv /\ [Next]_vars => WayInv'
  <2>1. IInv /\ WayInv /\ UNCHANGED vars => WayInv'
    BY DEF vars, WayInv
  <2> QED
    BY <2>1, ShoutcastWay, NetWayStep DEF Next
<1> QED
  BY <1>1, <1>2, Invariant, PTL DEF Spec
(* A call that TCP has not answered yet is one that it knows of: the       *)
(* netconn has a pcb whose errf, poll and sent are set, which waits for    *)
(* the SYN-ACK if the call is netconn_connect, and is connected if         *)
(* poll_tcp has a write or a close to take up.  And op_completed is        *)
(* signalled by the step that takes the call from the netconn, never       *)
(* before and never without it.                                            *)
CallIsKnown ==
    /\ conn.state # "NONE" =>
         \E p \in Pcb :
            /\ p = conn.pcb /\ pcbs[p].cb
            /\ pcbs[p].state \in IF conn.state = "CONNECT" THEN {"SYN_SENT"} ELSE Up
    /\ task \notin Ready => (conn.state = "NONE" <=> answer # "none")

(* No call of the shoutcast task is forgotten: neither api_msg.c nor a     *)
(* reset or a timer of tcp.c leaves it waiting for op_completed behind a   *)
(* pcb that is gone or that nothing comes to any more.                     *)
THEOREM CallsAreKnown == Spec => []CallIsKnown
<1>1. ASSUME IInv, WayInv PROVE CallIsKnown
  <2>1. CallInv(conn, task, answer) /\ CallWaits(conn, task, answer) /\ conn \in Netconn
    BY <1>1 DEF IInv, WayInv, TypeOK
  <2>2. ASSUME conn.state # "NONE"
        PROVE  /\ conn.pcb \in Pcb /\ pcbs[conn.pcb].cb
               /\ pcbs[conn.pcb].state \in
                    IF conn.state = "CONNECT" THEN {"SYN_SENT"} ELSE Up
    <3>1. conn.pcb \in Pcb
      BY <2>1, <2>2, ConnectionAssumption DEF CallWaits, Netconn, Pcb
    <3>2. /\ PcbInv(conn.pcb, pcbs[conn.pcb], conn, task)
          /\ WayOf(pcbs[conn.pcb], conn, task, answer)
      BY <1>1, <3>1 DEF IInv, WayInv
    <3>3. pcbs[conn.pcb].cb
      BY <3>2 DEF PcbInv
    <3>4. conn.state \in {"CONNECT", "WRITE", "CLOSE"}
      BY <2>1, <2>2 DEF Netconn
    <3> QED
      BY <3>1, <3>2, <3>3, <3>4 DEF WayOf
  <2>3. task \notin Ready => (conn.state = "NONE" <=> answer # "none")
    BY <2>1 DEF CallInv, CallWaits
  <2> QED
    BY <2>2, <2>3 DEF CallIsKnown
<1> QED
  BY <1>1, Invariant, WayInvariant, PTL

(* How many segments and timers TCP still has to wait for, at most, until  *)
(* a connection the netconn has left is over.                              *)
Stages(state) ==
    CASE state = "FIN_WAIT_1" -> 3
      [] state \in {"FIN_WAIT_2", "CLOSING", "LAST_ACK"} -> 2
      [] state = "TIME_WAIT" -> 1
      [] OTHER -> 0

(* netconn_bind finds the port in use by connections that are on their way *)
(* out only, each of which a timer of TCP ends unless the server keeps it. *)
KeepersLeave ==
    task = "bind" => \A p \in Pcb : pcbs[p].bound => pcbs[p].state \in Leaving

(* While the task tries netconn_bind again and again, nothing takes the    *)
(* port, and what happens to a pcb that has it brings it nearer its end,   *)
(* but for what the server does to keep it there or to let it go.          *)
Nearer(p) ==
    pcbs'[p].bound => /\ pcbs[p].bound
                      /\ \/ pcbs'[p] = pcbs[p]
                         \/ pcbs'[p] = [pcbs[p] EXCEPT !.kept = ~@]
                         \/ Stages(pcbs'[p].state) < Stages(pcbs[p].state)

KeepersOnlyLeave == [][task = "bind" => task' = "connect" \/ \A p \in Pcb : Nearer(p)]_vars

(* What a segment or a timer does to pcb p while the task is at            *)
(* netconn_bind: of the netconn's own pcb, CLOSED, none does anything.     *)
LEMMA KeeperLeaves ==
    ASSUME IInv, WayInv, task = "bind", NEW p \in Pcb, Net(p)
    PROVE  /\ UNCHANGED task
           /\ \E b : /\ Put(p, b)
                     /\ b.bound => \/ b = [pcbs[p] EXCEPT !.kept = ~@]
                                   \/ Stages(b.state) < Stages(pcbs[p].state)
                     /\ b.bound => pcbs[p].bound
<1>1. /\ PcbInv(p, pcbs[p], conn, task) /\ WayOf(pcbs[p], conn, task, answer)
      /\ CallInv(conn, task, answer) /\ pcbs[p] \in Block /\ TypeOK
  BY DEF IInv, WayInv, TypeOK
<1>2. pcbs[p].refused = 0
  BY <1>1 DEF PcbInv, WayOf
<1>3. pcbs[p].cb => pcbs[p].state = "CLOSED" /\ ~ pcbs[p].unacked
  BY <1>1 DEF WayOf
<1>4. ~ pcbs[p].cb => /\ pcbs[p].state \in Leaving \cup {"free"} /\ ~ pcbs[p].unacked
                      /\ pcbs[p].state # "free" => pcbs[p].rxclosed /\ pcbs[p].bound
  BY <1>1 DEF WayOf, PcbInv, Leaving
<1>5. /\ ~ N_SynAck(p) /\ ~ N_AckData(p) /\ ~ N_Refused(p)
      /\ ~ N_Data(p) /\ ~ N_Poll(p)
  BY <1>2, <1>3, <1>4 DEF N_SynAck, N_AckData, N_Refused, N_Data, N_Poll, Receives,
     Leaving, Active, In
<1>6. CASE N_Reset(p) \/ N_DataAfterClose(p) \/ N_GivenUp(p)
  <2>1. Put(p, Free) /\ ~ Free.bound /\ UNCHANGED task
    BY <1>6 DEF N_Reset, N_DataAfterClose, N_GivenUp, Lost, Free
  <2> QED
    BY <2>1
<1>7. CASE N_AckFin(p)
  <2>1. UNCHANGED task /\ pcbs[p].bound
    BY <1>3, <1>4, <1>7 DEF N_AckFin
  <2>2. CASE pcbs[p].state = "FIN_WAIT_1"
    <3> DEFINE b == [pcbs[p] EXCEPT !.state = "FIN_WAIT_2"]
    <3>1. Put(p, b)
      BY <1>7, <2>2 DEF N_AckFin
    <3>2. b.state = "FIN_WAIT_2"
      BY <1>1 DEF Block
    <3>3. Stages(b.state) < Stages(pcbs[p].state)
      BY <2>2, <3>2 DEF Stages
    <3> HIDE DEF b
    <3> QED
      BY <2>1, <3>1, <3>3
  <2>3. CASE pcbs[p].state = "CLOSING"
    <3>1. Put(p, TimeWait)
      BY <1>7, <2>3 DEF N_AckFin
    <3>2. TimeWait.state = "TIME_WAIT"
      BY DEF TimeWait, Free
    <3>3. Stages(TimeWait.state) < Stages(pcbs[p].state)
      BY <2>3, <3>2 DEF Stages
    <3> QED
      BY <2>1, <3>1, <3>3
  <2>4. CASE pcbs[p].state = "LAST_ACK"
    <3>1. Put(p, Free) /\ ~ Free.bound
      BY <1>7, <2>4 DEF N_AckFin, Free
    <3> QED
      BY <2>1, <3>1
  <2> QED
    BY <1>7, <2>2, <2>3, <2>4 DEF N_AckFin
<1>8. CASE N_Fin(p)
  <2>1. /\ UNCHANGED task /\ pcbs[p].bound /\ pcbs[p].rxclosed
        /\ pcbs[p].state \in {"FIN_WAIT_1", "FIN_WAIT_2"}
    BY <1>3, <1>4, <1>8 DEF N_Fin, Receives, Leaving
  <2>2. PICK state \in AfterFin(pcbs[p].state) :
          Put(p, IF state = "TIME_WAIT" THEN TimeWait ELSE [Rest(p) EXCEPT !.state = state])
    BY <1>8, <2>1 DEF N_Fin
  <2> DEFINE b == IF state = "TIME_WAIT" THEN TimeWait ELSE [Rest(p) EXCEPT !.state = state]
  <2>3. state \in {"CLOSING", "TIME_WAIT"}
    BY <2>1, <2>2 DEF AfterFin
  <2>4. pcbs[p].state = "FIN_WAIT_2" => state = "TIME_WAIT"
    BY <2>2 DEF AfterFin
  <2>5. b.state = state
    BY <1>1, OfferKeeps DEF TimeWait, Free, Block
  <2>6. Stages(b.state) < Stages(pcbs[p].state)
    <3>1. CASE pcbs[p].state = "FIN_WAIT_1"
      BY <2>3, <2>5, <3>1 DEF Stages
    <3>2. CASE pcbs[p].state = "FIN_WAIT_2"
      BY <2>4, <2>5, <3>2 DEF Stages
    <3> QED
      BY <2>1, <3>1, <3>2
  <2> HIDE DEF b
  <2> QED
    BY <2>1, <2>2, <2>6 DEF b
<1>9. CASE N_Keeps(p)
  <2> DEFINE b == [pcbs[p] EXCEPT !.kept = ~@]
  <2>1. Put(p, b) /\ UNCHANGED task
    BY <1>9 DEF N_Keeps
  <2>2. b.bound = pcbs[p].bound
    BY <1>1 DEF Block
  <2> QED
    BY <2>1, <2>2
<1> QED
  BY <1>5, <1>6, <1>7, <1>8, <1>9 DEF Net

(* The radio gets its port again unless the server keeps it away: only     *)
(* connections that are over but for the timers of TCP have it, and while  *)
(* netconn_bind fails a step of one of them that is not the server's       *)
(* keeping it (or ceasing to) takes it further, so there are at most three *)
(* of these until it is gone.                                              *)
THEOREM PortComesNearer == Spec => []KeepersLeave /\ KeepersOnlyLeave
<1>1. IInv /\ WayInv => KeepersLeave
  <2> SUFFICES ASSUME IInv, WayInv, task = "bind", NEW p \in Pcb, pcbs[p].bound
               PROVE  pcbs[p].state \in Leaving
    BY DEF KeepersLeave
  <2> QED
    BY DEF WayInv, WayOf
<1>2. IInv /\ WayInv /\ [Next]_vars
        => [task = "bind" => task' = "connect" \/ \A p \in Pcb : Nearer(p)]_vars
  <2> SUFFICES ASSUME IInv, WayInv, Next, task = "bind", task' # "connect",
                      NEW p \in Pcb
               PROVE  Nearer(p)
    OBVIOUS
  <2>1. answer = "none" /\ pcbs \in [Pcb -> Block]
    BY DEF IInv, CallInv, TypeOK, Ready
  <2>2. ~ Shoutcast
    BY <2>1 DEF Shoutcast, S_New, S_NullBind, S_Bind, S_Connect, S_Write, S_Recv, S_Fetch,
       S_FetchTimeout, S_Close, S_Delete, S_Answered
  <2>3. PICK q \in Pcb : Net(q)
    BY <2>2 DEF Next
  <2>4. PICK b : /\ Put(q, b)
                 /\ b.bound => \/ b = [pcbs[q] EXCEPT !.kept = ~@]
                               \/ Stages(b.state) < Stages(pcbs[q].state)
                 /\ b.bound => pcbs[q].bound
    BY <2>3, KeeperLeaves
  <2>5. pcbs'[p] = IF p = q THEN b ELSE pcbs[p]
    BY <2>1, <2>4 DEF Put
  <2> QED
    BY <2>4, <2>5 DEF Nearer
<1> QED
  BY <1>1, <1>2, Invariant, WayInvariant, PTL DEF Spec, KeepersOnlyLeave
=============================================================================
