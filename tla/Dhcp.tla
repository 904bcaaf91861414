------------------------------- MODULE Dhcp -------------------------------
(***************************************************************************)
(* How the radio gets its address.  lwIP's DHCP client belongs to the      *)
(* tcpip thread, whose timers dhcp_timer_fine and dhcp_timer_coarse call   *)
(* dhcp_fine_tmr and dhcp_coarse_tmr.  main.c calls both once more, from a *)
(* FreeRTOS timer (vDHCP_TimerCallback): a second task of the same         *)
(* priority, on the same data, without a lock.  So the client's clocks run *)
(* twice as fast, and the two tasks meet wherever one is preempted or      *)
(* waits in low_level_output for the transmitter.                          *)
(*                                                                         *)
(* dhcp->p_out belongs to one message between dhcp_create_msg and          *)
(* dhcp_delete_msg.  If the second task creates a message of its own in    *)
(* between, an assertion of dhcp.c fails, and the pbuf of one is freed for *)
(* the other: the model stops there (clash).  What it says otherwise holds *)
(* up to that point.                                                       *)
(***************************************************************************)
EXTENDS Naturals, FiniteSets

CONSTANTS
  Clocks,               \* tasks that call the timer functions: "lwip", "app"
  SELECT_TRIES,         \* 5: requests before the discovery starts again
  REBIND_TRIES,         \* 8
  COARSE,               \* fine periods in a coarse one
  T1, T2,               \* the lease: coarse periods to renewal and rebinding
  U16,                  \* bound: the largest u16_t
  MAXTICKS,             \* bound: longer time-outs are cut to it
  MAXTRIES,             \* bound: more tries are not told apart
  MAXREFUSALS           \* bound: refused requests and addresses in use

ASSUME DhcpAssumption ==
    /\ Clocks \subseteq {"lwip", "app"} /\ "lwip" \in Clocks
    /\ {U16, MAXTRIES} \subseteq Nat
    /\ {SELECT_TRIES, REBIND_TRIES, COARSE, T1, T2, MAXTICKS} \subseteq 1 .. U16
    /\ SELECT_TRIES < MAXTRIES /\ REBIND_TRIES < MAXTRIES /\ MAXREFUSALS \in Nat

VARIABLES
  dhcp,                 \* struct dhcp: state, tries, timeout (request_timeout), t1, t2
  addr,                 \* netif->ip_addr is not 0
  making,               \* tasks between dhcp_create_msg and dhcp_delete_msg
  clash,                \* history: p_out was taken when it was in use
  pc, job,              \* tasks: place, message or call that comes next
  due, phase,           \* timer functions each task is to call; fine period
  out, in,              \* messages with the current xid on their way
  flag, given,          \* dhcpflag; times the two semaphores were given
  since, asked,         \* history: fine periods since the last request, its time-out
  refusals

client == << dhcp, addr, making, clash >>
tasks == << pc, job >>
coming == << due, phase >>
net == << out, in >>
boot == << flag, given >>
waits == << since, asked >>
dhcpVars == << client, tasks, coming, net, boot, waits, refusals >>

Waiting == {"selecting", "requesting", "checking", "renewing", "rebinding", "backing_off"}
Leased == {"bound", "renewing", "rebinding"}

Least(a, b) == IF a < b THEN a ELSE b

(* A u16_t that is counted down, also from 0.                              *)
Less1(n) == IF n = 0 THEN U16 ELSE n - 1

(* The time-out of the tries-th message of a kind, in fine periods.        *)
RequestTimeout(kind, tries) ==
    LET seconds == CASE kind \in {"discover", "select"} -> IF tries < 6 THEN 2 ^ tries ELSE 60
                     [] kind = "renew" -> IF tries < 10 THEN 2 * tries ELSE 20
                     [] kind = "decline" -> 10
                     [] OTHER -> IF tries < 10 THEN tries ELSE 10
    IN Least(2 * seconds, MAXTICKS)

dhcp_set_state(d, s) ==
    IF d.state = s THEN d ELSE [d EXCEPT !.state = s, !.tries = 0, !.timeout = 0]

StateFor(kind) ==
    CASE kind = "discover" -> "selecting" [] kind = "select" -> "requesting"
      [] kind = "renew" -> "renewing" [] kind = "rebind" -> "rebinding"
      [] kind = "decline" -> "backing_off" [] kind = "release" -> "off"

(* dhcp_start has sent the first discovery before the scheduler runs.      *)
DhcpInit ==
    /\ dhcp = [state |-> "selecting", tries |-> 1, t1 |-> 0, t2 |-> 0,
               timeout |-> RequestTimeout("discover", 1)]
    /\ addr = FALSE /\ making = {} /\ clash = FALSE
    /\ pc = [t \in Clocks |-> "idle"] /\ job = [t \in Clocks |-> "none"]
    /\ due = [t \in Clocks |-> {}] /\ phase = 0
    /\ out = {"discover"} /\ in = {}
    /\ flag = FALSE /\ given = 0
    /\ since = 0 /\ asked = dhcp.timeout
    /\ refusals = 0

Go(t, place, next) ==
    pc' = [pc EXCEPT ![t] = place] /\ job' = [job EXCEPT ![t] = next]

(***************************************************************************)
(* dhcp_discover, dhcp_select, dhcp_renew, dhcp_rebind, dhcp_decline and   *)
(* dhcp_release have one shape: set the state, create the message, send    *)
(* it, delete it, set the time-out.                                        *)
(***************************************************************************)
(* d is the client when the function is called.  The first try of a state  *)
(* has a new xid: replies to earlier messages are dropped from then on.    *)
Begin(t, kind, d) ==
    /\ dhcp' = dhcp_set_state(d, StateFor(kind))
    /\ making' = making \cup {t}
    /\ clash' = (making # {})
    /\ IF dhcp'.tries = 0 THEN out' = {} /\ in' = {} ELSE UNCHANGED net
    /\ Go(t, "send", kind)

(* udp_sendto_if returns; msecs and request_timeout.                       *)
Sent(t) ==
    /\ ~clash
    /\ pc[t] = "send"
    /\ making' = making \ {t}
    /\ out' = out \cup (CASE job[t] = "discover" -> {"discover"}
                          [] job[t] \in {"select", "renew", "rebind"} -> {"request"}
                          [] OTHER -> {})
    /\ LET tries == Least(dhcp.tries + 1, MAXTRIES)
           timeout == RequestTimeout(job[t], tries)
       IN /\ dhcp' = [dhcp EXCEPT !.tries = tries, !.timeout = timeout]
          /\ since' = 0 /\ asked' = timeout
    /\ IF job[t] = "release" THEN addr' = FALSE /\ Go(t, "call", "discover")
       ELSE Go(t, "idle", "none") /\ UNCHANGED addr
    /\ UNCHANGED << clash, coming, in, boot, refusals >>

(* dhcp_release is always followed by dhcp_discover.                       *)
Call(t) ==
    /\ ~clash
    /\ pc[t] = "call"
    /\ Begin(t, job[t], dhcp)
    /\ UNCHANGED << addr, coming, boot, waits, refusals >>

(***************************************************************************)
(* dhcp_fine_tmr and dhcp_coarse_tmr.                                      *)
(***************************************************************************)
Ready(t) == ~clash /\ pc[t] = "idle"
Calls(t, function) ==
    /\ Ready(t)
    /\ function \in due[t]
    /\ t = "app" /\ function # "fine" => "fine" \notin due[t]
    /\ t = "app" /\ function = "completed" => "coarse" \notin due[t]
    /\ due' = [due EXCEPT ![t] = @ \ {function}]
    /\ UNCHANGED phase

(* Mutant: < 3 for == 1.                                                   *)
MutantTooEarly(t) ==
    /\ Calls(t, "fine")
    /\ dhcp' = (IF dhcp.timeout > 2 THEN [dhcp EXCEPT !.timeout = @ - 1] ELSE dhcp)
    /\ Go(t, IF dhcp.timeout \in {1, 2} THEN "fire" ELSE "idle", "none")
    /\ UNCHANGED << addr, making, clash, net, boot, waits, refusals >>

Fine(t) ==
    /\ Calls(t, "fine")
    /\ dhcp' = (IF dhcp.timeout > 1 THEN [dhcp EXCEPT !.timeout = @ - 1] ELSE dhcp)
    /\ Go(t, IF dhcp.timeout = 1 THEN "fire" ELSE "idle", "none")
    /\ UNCHANGED << addr, making, clash, net, boot, waits, refusals >>

(* Between the test and this step the other task may have run.             *)
FiredClient == [dhcp EXCEPT !.timeout = Less1(@)]
Fires(t) == ~clash /\ pc[t] = "fire"

(* dhcp_timeout: the message of the state is sent again, or discovery      *)
(* starts again.                                                           *)
F_Again(t) ==
    /\ Fires(t)
    /\ \/ dhcp.state \in {"backing_off", "selecting"} /\ Begin(t, "discover", FiredClient)
       \/ dhcp.state = "requesting" /\ dhcp.tries <= SELECT_TRIES
          /\ Begin(t, "select", FiredClient)
       \/ dhcp.state = "renewing" /\ Begin(t, "renew", FiredClient)
       \/ dhcp.state = "rebinding" /\ dhcp.tries <= REBIND_TRIES
          /\ Begin(t, "rebind", FiredClient)
       \/ dhcp.state = "requesting" /\ dhcp.tries > SELECT_TRIES
          /\ Begin(t, "release", FiredClient)
       \/ dhcp.state = "rebinding" /\ dhcp.tries > REBIND_TRIES
          /\ Begin(t, "release", FiredClient)
    /\ UNCHANGED << addr, coming, boot, waits, refusals >>

(* Mutant: the query is not counted.                                       *)
MutantNotCounted(d) == [dhcp_set_state(d, "checking") EXCEPT !.timeout = 1]

(* dhcp_check: an ARP query, answered within a fine period or not.         *)
dhcp_check(d) ==
    [dhcp_set_state(d, "checking") EXCEPT !.tries = @ + 1, !.timeout = 1]

(* dhcp_bind.                                                              *)
dhcp_bind(d) == [dhcp_set_state(d, "bound") EXCEPT !.t1 = T1, !.t2 = T2]

F_Check(t) ==
    /\ Fires(t)
    /\ dhcp.state = "checking"
    /\ IF dhcp.tries <= 1 THEN dhcp' = dhcp_check(FiredClient) /\ UNCHANGED addr
       ELSE dhcp' = dhcp_bind(FiredClient) /\ addr' = TRUE
    /\ Go(t, "idle", "none")
    /\ UNCHANGED << making, clash, coming, net, boot, waits, refusals >>

(* Nothing to be done in the other states.                                 *)
F_Nothing(t) ==
    /\ Fires(t)
    /\ dhcp.state \in {"bound", "off"}
    /\ dhcp' = FiredClient
    /\ Go(t, "idle", "none")
    /\ UNCHANGED << addr, making, clash, coming, net, boot, waits, refusals >>

(* Both counters are counted down, t1 only when t2 does not fire; neither  *)
(* stops at 0.                                                             *)
Coarse(t) ==
    /\ Calls(t, "coarse")
    /\ LET d2 == [dhcp EXCEPT !.t2 = Less1(@)]
           d1 == [d2 EXCEPT !.t1 = Less1(@)]
           renewable == dhcp.state \in {"requesting", "bound", "renewing"}
           kind == IF dhcp.t2 = 1 THEN "rebind" ELSE "renew"
           d == IF dhcp.t2 = 1 THEN d2 ELSE d1
       IN IF renewable /\ (dhcp.t2 = 1 \/ dhcp.t1 = 1) THEN Begin(t, kind, d)
          ELSE dhcp' = d /\ UNCHANGED << making, clash, tasks, net >>
    /\ UNCHANGED << addr, boot, waits, refusals >>

(* The end of vDHCP_TimerCallback: the GUI task may go on.                 *)
Completed ==
    /\ "app" \in Clocks /\ Calls("app", "completed")
    /\ IF addr /\ ~flag THEN flag' = TRUE /\ given' = given + 1 ELSE UNCHANGED boot
    /\ UNCHANGED << client, tasks, net, waits, refusals >>

(***************************************************************************)
(* dhcp_recv and dhcp_arp_reply, in the tcpip thread.                      *)
(***************************************************************************)
Receives(reply) == Ready("lwip") /\ reply \in in

R_Offer ==
    /\ Receives("offer") /\ dhcp.state = "selecting"
    /\ Begin("lwip", "select", [dhcp EXCEPT !.timeout = 0])
    /\ UNCHANGED << addr, coming, boot, waits, refusals >>

R_Ack ==
    /\ Receives("ack")
    /\ \/ dhcp.state = "requesting" /\ dhcp' = dhcp_check(dhcp) /\ UNCHANGED addr
       \/ /\ dhcp.state \in {"renewing", "rebinding"}
          /\ dhcp' = dhcp_bind(dhcp) /\ addr' = TRUE
    /\ in' = in \ {"ack"}
    /\ UNCHANGED << making, clash, tasks, coming, out, boot, waits, refusals >>

(* Mutant: netif_set_ipaddr is left out.                                   *)
MutantKeepsAddress ==
    /\ Receives("nak") /\ dhcp.state \in {"requesting", "renewing", "rebinding"}
    /\ Begin("lwip", "discover", dhcp_set_state(dhcp, "backing_off"))
    /\ UNCHANGED << addr, coming, boot, waits, refusals >>

(* dhcp_handle_nak: the interface loses its address; discovery starts.     *)
R_Nak ==
    /\ Receives("nak") /\ dhcp.state \in {"requesting", "renewing", "rebinding"}
    /\ addr' = FALSE
    /\ Begin("lwip", "discover", dhcp_set_state(dhcp, "backing_off"))
    /\ UNCHANGED << coming, boot, waits, refusals >>

(* Another host has the address that was offered.                          *)
R_InUse ==
    /\ Ready("lwip") /\ dhcp.state = "checking"
    /\ refusals < MAXREFUSALS /\ refusals' = refusals + 1
    /\ Begin("lwip", "decline", dhcp)
    /\ UNCHANGED << addr, coming, boot, waits >>

(***************************************************************************)
(* The server, and time.  A message may be lost, or answered twice.        *)
(***************************************************************************)
S_Answer(request, reply) ==
    /\ ~clash
    /\ request \in out /\ reply \notin in
    /\ reply = "nak" => refusals < MAXREFUSALS
    /\ refusals' = refusals + (IF reply = "nak" THEN 1 ELSE 0)
    /\ in' = in \cup {reply}
    /\ UNCHANGED << client, tasks, coming, out, boot, waits >>

Functions(t) ==
    {"fine"} \cup (IF phase = COARSE - 1 THEN {"coarse"} ELSE {})
             \cup (IF t = "app" THEN {"completed"} ELSE {})

(* 500 ms: every timer function that is due has been called in time.       *)
DhcpTick ==
    /\ ~clash
    /\ \A t \in Clocks : due[t] = {} /\ pc[t] = "idle"
    /\ due' = [t \in Clocks |-> Functions(t)]
    /\ phase' = (phase + 1) % COARSE
    /\ since' = Least(since + 1, MAXTICKS)
    /\ UNCHANGED << client, tasks, net, boot, asked, refusals >>

TimerStep(t) ==
    Sent(t) \/ Call(t) \/ Fine(t) \/ F_Again(t) \/ F_Check(t) \/ F_Nothing(t) \/ Coarse(t)
Receive == R_Offer \/ R_Ack \/ R_Nak \/ R_InUse
Server == \/ S_Answer("discover", "offer") \/ S_Answer("request", "ack")
          \/ S_Answer("request", "nak")
DhcpNext == (\E t \in Clocks : TimerStep(t)) \/ Completed \/ Receive \/ Server \/ DhcpTick

DhcpSpec == DhcpInit /\ [][DhcpNext]_dhcpVars

(* An answer that comes before the thread has found that it is too late.   *)
InTime(request, reply) == Ready("lwip") /\ S_Answer(request, reply)

(* Both tasks and the clock run; a server that is asked again and again    *)
(* answers once in time, and of such answers one is not lost.              *)
DhcpLiveSpec ==
    /\ DhcpSpec
    /\ \A t \in Clocks : WF_dhcpVars(TimerStep(t))
    /\ WF_dhcpVars(Completed) /\ WF_dhcpVars(DhcpTick)
    /\ SF_dhcpVars(InTime("discover", "offer")) /\ SF_dhcpVars(InTime("request", "ack"))
    /\ SF_dhcpVars(R_Offer) /\ SF_dhcpVars(R_Ack)

-----------------------------------------------------------------------------
DhcpTypeOK ==
    /\ dhcp \in [state : Waiting \cup {"bound", "off"}, tries : 0 .. MAXTRIES,
                 timeout : 0 .. U16, t1 : 0 .. U16, t2 : 0 .. U16]
    /\ addr \in BOOLEAN /\ making \subseteq Clocks /\ clash \in BOOLEAN
    /\ pc \in [Clocks -> {"idle", "fire", "send", "call"}]
    /\ job \in [Clocks -> {"none", "discover", "select", "renew", "rebind", "decline",
                           "release"}]
    /\ due \in [Clocks -> SUBSET {"fine", "coarse", "completed"}]
    /\ phase \in 0 .. COARSE - 1
    /\ out \subseteq {"discover", "request"} /\ in \subseteq {"offer", "ack", "nak"}
    /\ flag \in BOOLEAN /\ given \in 0 .. 1
    /\ since \in 0 .. MAXTICKS /\ asked \in 0 .. MAXTICKS
    /\ refusals \in 0 .. MAXREFUSALS

(* dhcp.c:1640, "dhcp_create_msg: dhcp->p_out == NULL".                    *)
POutIsFree == ~clash

(* The interface has an address only while there is a lease, or the        *)
(* message that gives the lease back is on its way out.                    *)
AddressIsLeased ==
    \/ clash
    \/ addr => \/ dhcp.state \in Leased
               \/ \E t \in Clocks : pc[t] = "send" /\ job[t] = "release"

(* Two clocks make the client repeat a message early, but never before     *)
(* half of its time-out (in fine periods, the first of which may be cut    *)
(* short): whenever a timer function finds the last period of a wait.      *)
NotBeforeHalf ==
    [][\A t \in Clocks :
        dhcp.state \in Waiting \ {"checking"} /\ pc[t] = "idle" /\ pc'[t] = "fire"
            => asked <= Cardinality(Clocks) * (since + 1)]_dhcpVars

(* The interface gets an address, whatever is lost on the way, and when it *)
(* has lost it, it gets one again.                                         *)
GetsAnAddress == []<>(addr \/ clash)
=============================================================================
