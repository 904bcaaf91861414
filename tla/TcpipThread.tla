---------------------------- MODULE TcpipThread ----------------------------
(***************************************************************************)
(* lwIP's thread on top of the port layer: its mailbox, the callers of the *)
(* netconn API, the driver that passes frames in, and the list of timeouts *)
(* that is served while the thread waits for a message.                    *)
(*                                                                         *)
(* The list holds for each timeout the time after the one before it.  It   *)
(* is moved on by what sys_arch_mbox_fetch says it has waited, and by      *)
(* nothing else: the time a message or a handler takes is not counted, and *)
(* a message that was there at once counts as a millisecond, for each      *)
(* Elapsed of 0 is made a 1.  TimeIsAccounted says what this adds up to.   *)
(* The millisecond has a use: a flood of messages cannot keep the timers   *)
(* from being served (TimersAreServed).                                    *)
(***************************************************************************)
EXTENDS Integers, FiniteSets, SequencesExt

CONSTANTS
  Cyclic,               \* timers armed by sys_timeouts_init
  Tcp,                  \* tcpip_tcp_timer, armed when there are connections
  Period,               \* ms to the next call of each timer's handler
  Callers,              \* tasks that call the netconn API
  MBOX_SIZE,            \* TCPIP_MBOX_SIZE
  NUM_INPKT,            \* MEMP_NUM_TCPIP_MSG_INPKT
  MAXLATE               \* bound: ms a timer is kept waiting by other work

Packet == "inpkt"       \* a message of the driver, for any frame

ASSUME TimerAssumption ==
    /\ Tcp \notin Cyclic /\ Cyclic # {}
    /\ Period \in [Cyclic \cup {Tcp} -> Nat \ {0}]
ASSUME SizeAssumption ==
    /\ MBOX_SIZE \in Nat \ {0} /\ NUM_INPKT \in Nat /\ MAXLATE \in Nat
    /\ IsFiniteSet(Callers) /\ Packet \notin Callers

VARIABLES
  list,                 \* next_timeout: [id, time], time counts from the one before
  active, pcbs,         \* tcpip_tcp_timer_active; there are active pcbs
  mbox, pool,           \* the mailbox; messages of the INPKT pool in use
  tpc, hand,            \* tcpip_thread: place; message or timer it works on
  waited,               \* ticks since StartTime
  cpc, sem,             \* callers: place; op_completed of their connections
  deferred,             \* callers whose function will be completed later
  real, early, late     \* history of each armed timer: ticks since sys_timeout,
                        \* ticks counted and not passed, passed and not counted

timers == << list, active, pcbs >>
mail == << mbox, pool >>
thread == << tpc, hand, waited >>
calls == << cpc, sem, deferred >>
clock == << real, early, late >>
vars == << timers, mail, thread, calls, clock >>

Timers == Cyclic \cup {Tcp}
Armed(l) == { l[k].id : k \in DOMAIN l }

(* The time until each timeout.                                            *)
Due(l) ==
    LET due[k \in 0 .. Len(l)] == IF k = 0 THEN 0 ELSE due[k - 1] + l[k].time
    IN  due

(* sys_timeout goes past all timeouts that are due no later.               *)
Behind(l, msecs) ==
    CHOOSE k \in 0 .. Len(l) : /\ Due(l)[k] <= msecs
                               /\ k < Len(l) => Due(l)[k + 1] > msecs

(* Mutant: the entry behind the new one keeps its time.                    *)
MutantNotRelative(l, id) ==
    LET k == Behind(l, Period[id])
        time == Period[id] - Due(l)[k]
    IN InsertAt(l, k + 1, [id |-> id, time |-> time])

(* The new entry gets what is left of its time, and the one behind it what *)
(* is left of its own.                                                     *)
sys_timeout(l, id) ==
    LET k == Behind(l, Period[id])
        time == Period[id] - Due(l)[k]
        rest == [ i \in DOMAIN l |-> IF i = k + 1 THEN [l[i] EXCEPT !.time = @ - time]
                                     ELSE l[i] ]
    IN InsertAt(rest, k + 1, [id |-> id, time |-> time])

Init ==
    /\ list = <<>>
    /\ active = FALSE /\ pcbs = FALSE
    /\ mbox = <<>> /\ pool = 0
    /\ tpc = "boot" /\ hand = Tcp /\ waited = 0
    /\ cpc = [c \in Callers |-> "idle"] /\ sem = {} /\ deferred = {}
    /\ real = [t \in Timers |-> 0]
    /\ early = [t \in Timers |-> 0]
    /\ late = [t \in Timers |-> 0]

(* Another ms for some of the timers in the list.                          *)
Plus(history, n) ==
    [t \in Timers |-> history[t] + (IF t \in Armed(list) THEN n ELSE 0)]

Arm(id) ==
    /\ list' = sys_timeout(list, id)
    /\ real' = [real EXCEPT ![id] = 0]
    /\ early' = [early EXCEPT ![id] = 0]
    /\ late' = [late EXCEPT ![id] = 0]

(* sys_timeouts_init arms the cyclic timers one after the other, in any    *)
(* order here; then tcpip_init makes the mailbox and the thread.           *)
Boot(t) ==
    /\ tpc = "boot" /\ t \notin Armed(list)
    /\ Arm(t)
    /\ tpc' = (IF Cyclic = Armed(list) \cup {t} THEN "again" ELSE "boot")
    /\ UNCHANGED << active, pcbs, mail, hand, waited, calls >>

(***************************************************************************)
(* sys_timeouts_mbox_fetch and sys_arch_mbox_fetch.                        *)
(***************************************************************************)
(* With no timeout in the list the thread waits for ever, and on &mbox in  *)
(* place of the queue (sys_arch.c:229).                                    *)
T_Fetch ==
    /\ tpc = "again"
    /\ list # <<>> => Head(list).time > 0
    /\ tpc' = (IF list = <<>> THEN "forever" ELSE "wait")
    /\ waited' = 0
    /\ UNCHANGED << timers, mail, hand, calls, clock >>

(* SYS_ARCH_TIMEOUT, or a timeout that is due already.                     *)
T_Timeout ==
    /\ \/ tpc = "again" /\ list # <<>> /\ Head(list).time = 0
       \/ tpc = "wait" /\ waited = Head(list).time /\ mbox = <<>>
    /\ hand' = Head(list).id
    /\ list' = Tail(list)
    /\ tpc' = "handler" /\ waited' = 0
    /\ UNCHANGED << active, pcbs, mail, calls, clock >>

T_Receive ==
    /\ tpc = "wait" /\ mbox # <<>>
    /\ hand' = Head(mbox) /\ mbox' = Tail(mbox)
    /\ tpc' = "got"
    /\ UNCHANGED << timers, pool, waited, calls, clock >>

(* Mutant: a message that was there at once has taken no time.             *)
MutantNoTime ==
    /\ tpc = "got" /\ tpc' = "work"
    /\ LET time == Head(list).time
           elapsed == waited
       IN /\ list' = [list EXCEPT ![1].time = IF elapsed < time THEN time - elapsed ELSE 0]
          /\ early' = Plus(early, elapsed - waited)
          /\ late' = Plus(late, IF elapsed < time THEN 0 ELSE elapsed - time)
    /\ waited' = 0
    /\ UNCHANGED << active, pcbs, mail, hand, calls, real >>

(* EndTime is read: the time needed is taken off the first timeout.        *)
T_Account ==
    /\ tpc = "got" /\ tpc' = "work"
    /\ LET time == Head(list).time
           elapsed == IF waited = 0 THEN 1 ELSE waited
       IN /\ list' = [list EXCEPT ![1].time = IF elapsed < time THEN time - elapsed ELSE 0]
          /\ early' = Plus(early, elapsed - waited)
          /\ late' = Plus(late, IF elapsed < time THEN 0 ELSE elapsed - time)
    /\ waited' = 0
    /\ UNCHANGED << active, pcbs, mail, hand, calls, real >>

(***************************************************************************)
(* tcpip_thread: the handlers of timeouts and messages.                    *)
(***************************************************************************)
Done == tpc' = "again" /\ UNCHANGED << hand, waited >>

(* A caller whose connection has got on is signalled.  Its pcb may be gone.*)
MayComplete ==
    \/ UNCHANGED << sem, deferred >> /\ pcbs' \in {pcbs, pcbs /\ deferred # {}}
    \/ \E c \in deferred : /\ sem' = sem \cup {c}
                           /\ deferred' = deferred \ {c}
                           /\ pcbs' \in {pcbs, pcbs /\ deferred' # {}}

(* The handlers arm themselves again, tcpip_tcp_timer only if it is still  *)
(* needed.                                                                 *)
T_Handler ==
    /\ tpc = "handler" /\ Done
    /\ IF hand = Tcp THEN MayComplete ELSE UNCHANGED << pcbs, sem, deferred >>
    /\ IF hand = Tcp /\ ~pcbs'
       THEN active' = FALSE /\ UNCHANGED << list, clock >>
       ELSE Arm(hand) /\ UNCHANGED active
    /\ UNCHANGED << mail, cpc >>

(* TCPIP_MSG_INPKT; the message goes back to its pool.                     *)
T_Packet ==
    /\ tpc = "work" /\ hand = Packet /\ Done
    /\ pool' = pool - 1
    /\ MayComplete
    /\ UNCHANGED << list, active, mbox, cpc, clock >>

(* TCPIP_MSG_API: the function is called, and signals op_completed.        *)
T_Api ==
    /\ tpc = "work" /\ hand \in Callers /\ Done
    /\ sem' = sem \cup {hand}
    /\ pcbs' \in {pcbs, pcbs /\ deferred # {}}
    /\ UNCHANGED << list, active, mail, cpc, deferred, clock >>

(* Mutant: tcp_timer_needed does not look whether the timer runs.          *)
MutantNeededAgain ==
    /\ tpc = "work" /\ hand \in Callers /\ Done
    /\ deferred' = deferred \cup {hand}
    /\ pcbs' = TRUE /\ active' = TRUE
    /\ Arm(Tcp)
    /\ UNCHANGED << mail, cpc, sem >>

(* A connect, a write or a close that is completed later: the pcb is or    *)
(* gets registered, and tcp_timer_needed arms the timer.                   *)
T_ApiLater ==
    /\ tpc = "work" /\ hand \in Callers /\ Done
    /\ deferred' = deferred \cup {hand}
    /\ pcbs' = TRUE /\ active' = TRUE
    /\ IF active THEN UNCHANGED << list, clock >> ELSE Arm(Tcp)
    /\ UNCHANGED << mail, cpc, sem >>

(***************************************************************************)
(* The other tasks, and the clock.                                         *)
(***************************************************************************)
(* Mutant: the messages are not taken from a pool of their own.            *)
MutantNoPool ==
    /\ tpc # "boot"
    /\ Len(mbox) < MBOX_SIZE
    /\ mbox' = Append(mbox, Packet)
    /\ pool' = pool + 1
    /\ UNCHANGED << timers, thread, calls, clock >>

(* tcpip_input: without a message or room in the mailbox the frame is      *)
(* dropped.                                                                *)
Input ==
    /\ tpc # "boot"
    /\ pool < NUM_INPKT /\ Len(mbox) < MBOX_SIZE
    /\ mbox' = Append(mbox, Packet)
    /\ pool' = pool + 1
    /\ UNCHANGED << timers, thread, calls, clock >>

(* tcpip_apimsg: the message is a variable of the caller, who posts it     *)
(* (sys_mbox_post waits for room) and waits for op_completed.              *)
C_Call(c) ==
    /\ tpc # "boot"
    /\ cpc[c] = "idle" /\ cpc' = [cpc EXCEPT ![c] = "post"]
    /\ UNCHANGED << timers, mail, thread, sem, deferred, clock >>

C_Post(c) ==
    /\ cpc[c] = "post" /\ cpc' = [cpc EXCEPT ![c] = "wait"]
    /\ Len(mbox) < MBOX_SIZE
    /\ mbox' = Append(mbox, c)
    /\ UNCHANGED << timers, pool, thread, sem, deferred, clock >>

C_Return(c) ==
    /\ cpc[c] = "wait" /\ cpc' = [cpc EXCEPT ![c] = "idle"]
    /\ c \in sem /\ sem' = sem \ {c}
    /\ UNCHANGED << timers, mail, thread, deferred, clock >>

Tick ==
    /\ real' = Plus(real, 1)
    /\ CASE tpc = "wait" -> /\ waited < Head(list).time /\ mbox = <<>>
                            /\ waited' = waited + 1
                            /\ UNCHANGED late
         [] tpc = "got" -> /\ waited + late[Head(list).id] < Head(list).time + MAXLATE
                           /\ waited' = waited + 1
                           /\ UNCHANGED late
         [] OTHER -> /\ \A t \in Timers : late[t] < MAXLATE
                     /\ late' = Plus(late, 1)
                     /\ UNCHANGED waited
    /\ UNCHANGED << timers, mail, tpc, hand, calls, early >>

Thread == \/ \E t \in Cyclic : Boot(t)
          \/ T_Fetch \/ T_Timeout \/ T_Receive \/ T_Account
          \/ T_Handler \/ T_Packet \/ T_Api \/ T_ApiLater
Next == \/ Thread \/ Input \/ Tick
        \/ \E c \in Callers : C_Call(c) \/ C_Post(c) \/ C_Return(c)

Spec == Init /\ [][Next]_vars

(* The thread has the highest priority; the callers run in turn; a         *)
(* connection gets on, or the TCP timer gives it up, so that a deferred    *)
(* function is completed in the end.                                       *)
Completes(c) == (T_Handler \/ T_Packet) /\ c \in deferred /\ c \notin deferred'
LiveSpec ==
    /\ Spec
    /\ WF_vars(Thread) /\ WF_vars(Tick)
    /\ \A c \in Callers : /\ WF_vars(C_Return(c)) /\ SF_vars(C_Post(c))
                          /\ SF_vars(Completes(c))

-----------------------------------------------------------------------------
TypeOK ==
    /\ list \in Seq([id : Timers, time : Nat])
    /\ active \in BOOLEAN /\ pcbs \in BOOLEAN
    /\ mbox \in Seq(Callers \cup {Packet}) /\ Len(mbox) <= MBOX_SIZE
    /\ pool \in 0 .. NUM_INPKT
    /\ tpc \in {"boot", "again", "wait", "forever", "got", "handler", "work"}
    /\ hand \in Timers \cup Callers \cup {Packet}
    /\ waited \in Nat
    /\ cpc \in [Callers -> {"idle", "post", "wait"}]
    /\ sem \subseteq Callers /\ deferred \subseteq Callers
    /\ {real, early, late} \subseteq [Timers -> Nat]

(* The list tells the time that is left to each timeout, but for the       *)
(* milliseconds counted twice (a message that was there at once) and those *)
(* not counted (while the thread was not waiting): the jitter of a timer   *)
(* is early - late, and nothing is lost or added by the order of the list. *)
TimeIsAccounted ==
    \A k \in DOMAIN list :
        LET t == list[k].id IN
        Due(list)[k] + real[t] + early[t]
            = Period[t] + late[t] + (IF tpc \in {"wait", "got"} THEN waited ELSE 0)

(* Each timer is armed once, or its handler runs; tcpip_tcp_timer when it  *)
(* is marked active, and it is active as long as there is a connection.    *)
(* The list is never empty when the thread waits, so that the wait for     *)
(* ever, on the wrong pointer, is never entered.                           *)
TimersAreArmed ==
    /\ IsInjective([k \in DOMAIN list |-> list[k].id])
    /\ LET running == IF tpc = "handler" THEN {hand} ELSE {} IN
       /\ Armed(list) \cap running = {}
       /\ IF tpc = "boot" THEN Armed(list) \subseteq Cyclic
          ELSE Armed(list) \cup running = Cyclic \cup (IF active THEN {Tcp} ELSE {})
    /\ pcbs => active
    /\ tpc # "forever"

(* Frames can take no more than their pool, so that a caller finds room in *)
(* the mailbox at once.                                                    *)
PostHasRoom == \A c \in Callers : cpc[c] = "post" => Len(mbox) < MBOX_SIZE

(* Also under a flood of messages, which leaves the clock no tick.         *)
TimersAreServed == \A t \in Cyclic : []<>(tpc = "handler" /\ hand = t)
=============================================================================
