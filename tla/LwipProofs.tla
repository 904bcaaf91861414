----------------------------- MODULE LwipProofs -----------------------------
(***************************************************************************)
(* lwIP: the DHCP client, for any numbers of tries and any lease, and the  *)
(* thread with its mailbox and its list of timeouts, for any timers and    *)
(* periods, any callers and any sizes of mailbox and pool.                 *)
(***************************************************************************)
EXTENDS Dhcp, TcpipThread, FiniteSetTheorems, WellFoundedInduction, TLAPS

-----------------------------------------------------------------------------
(***************************************************************************)
(* The DHCP client.                                                        *)
(***************************************************************************)
Struct == [state : Waiting \cup {"bound", "off"}, tries : 0 .. MAXTRIES,
           timeout : 0 .. U16, t1 : 0 .. U16, t2 : 0 .. U16]
Kinds == {"discover", "select", "renew", "rebind", "decline", "release"}

(* Timer functions that are still to count down the request's time-out in  *)
(* this period: they have not been called, or have found its end.          *)
Owes(t) == IF "fine" \in due[t] \/ pc[t] = "fire" THEN 1 ELSE 0
Number == IF "app" \in Clocks THEN 2 ELSE 1
Owed == Owes("lwip") + (IF "app" \in Clocks THEN Owes("app") ELSE 0)

(* While the client waits for a reply, what is left of the time-out is the *)
(* time-out it was given less a count for each call there was.             *)
WaitInv ==
    ~clash /\ dhcp.timeout # 0 /\ dhcp.state \in Waiting \ {"checking"}
        => since = MAXTICKS \/ asked + Owed <= dhcp.timeout + Number * (since + 1)

(* A task between the release of the lease and the discovery after it.     *)
Releasing(t) == pc[t] = "call" \/ (pc[t] = "send" /\ job[t] = "release")

(* The client is off then, and no second task gets there.                  *)
ReleaseInv ==
    ~clash => /\ \A t \in Clocks : Releasing(t) => dhcp.state = "off"
              /\ \A s, t \in Clocks : Releasing(s) /\ Releasing(t) => s = t

TaskInv ==
    /\ \A t \in Clocks : pc[t] = "fire" => "fine" \notin due[t]
    /\ \A t \in Clocks : pc[t] = "call" => job[t] = "discover"
    /\ given = (IF flag THEN 1 ELSE 0)

DhcpInv == DhcpTypeOK /\ AddressIsLeased /\ ReleaseInv /\ TaskInv

-----------------------------------------------------------------------------
(* The powers the time-outs are made of.                                   *)
LEMMA PowerIsNat == ASSUME NEW n \in 0 .. 5 PROVE 2 ^ n \in Nat /\ 2 ^ n > 0
<1>1. /\ 2 ^ 0 = 1 /\ 2 ^ 1 = 2 /\ 2 ^ 2 = 4 /\ 2 ^ 3 = 8 /\ 2 ^ 4 = 16 /\ 2 ^ 5 = 32
  OBVIOUS
<1>2. n \in {0, 1, 2, 3, 4, 5}
  OBVIOUS
<1> QED
  <2>0. CASE n = 0
    BY <1>1, <2>0
  <2>1. CASE n = 1
    BY <1>1, <2>1
  <2>2. CASE n = 2
    BY <1>1, <2>2
  <2>3. CASE n = 3
    BY <1>1, <2>3
  <2>4. CASE n = 4
    BY <1>1, <2>4
  <2>5. CASE n = 5
    BY <1>1, <2>5
  <2> QED
    BY <1>2, <2>0, <2>1, <2>2, <2>3, <2>4, <2>5

(* No time-out exceeds the bound of the history.                           *)
LEMMA TimeoutIsShort ==
    ASSUME NEW kind, NEW tries \in 0 .. MAXTRIES
    PROVE  RequestTimeout(kind, tries) \in 0 .. MAXTICKS
<1>1. tries \in 0 .. 5 => 2 ^ tries \in Nat
  BY PowerIsNat
<1> QED
  BY <1>1, DhcpAssumption DEF RequestTimeout, Least

(* The clocks are counted.                                                 *)
LEMMA ClockCount == Cardinality(Clocks) = IF "app" \in Clocks THEN 2 ELSE 1
<1>1. Clocks = {"lwip"} \/ Clocks = {"lwip", "app"}
  BY DhcpAssumption
<1>2. IsFiniteSet({"lwip"}) /\ Cardinality({"lwip"}) = 1
  BY FS_Singleton
<1>3. Cardinality({"lwip"} \cup {"app"}) = 2
  BY <1>2, FS_AddElement
<1>4. {"lwip"} \cup {"app"} = {"lwip", "app"}
  OBVIOUS
<1> QED
  BY <1>1, <1>2, <1>3, <1>4

(* dhcp_set_state changes the state, and forgets the tries with it.        *)
LEMMA SetState ==
    ASSUME NEW d \in Struct, NEW s \in Waiting \cup {"bound", "off"}
    PROVE  /\ dhcp_set_state(d, s) \in Struct
           /\ dhcp_set_state(d, s).state = s
           /\ dhcp_set_state(d, s).timeout = IF d.state = s THEN d.timeout ELSE 0
<1>1. CASE d.state = s
  BY <1>1 DEF dhcp_set_state
<1>2. CASE d.state # s
  <2>1. 0 \in 0 .. MAXTRIES /\ 0 \in 0 .. U16
    BY DhcpAssumption
  <2>2. dhcp_set_state(d, s) = [d EXCEPT !.state = s, !.tries = 0, !.timeout = 0]
    BY <1>2 DEF dhcp_set_state
  <2> QED
    BY <1>2, <2>1, <2>2 DEF Struct
<1> QED
  BY <1>1, <1>2

(* A timer that is counted down stays a timer.                             *)
LEMMA Less1Type == ASSUME NEW n \in 0 .. U16 PROVE Less1(n) \in 0 .. U16
  BY DhcpAssumption DEF Less1

(* What dhcp_fine_tmr leaves of the client.                                *)
LEMMA FiredType == ASSUME DhcpTypeOK PROVE
    /\ FiredClient \in Struct
    /\ FiredClient.state = dhcp.state
    /\ FiredClient.timeout = Less1(dhcp.timeout)
<1>1. dhcp \in Struct
  BY DEF DhcpTypeOK, Struct
<1>2. Less1(dhcp.timeout) \in 0 .. U16
  BY <1>1, Less1Type DEF Struct
<1> QED
  BY <1>1, <1>2 DEF FiredClient, Struct

(* A message is begun.                                                     *)
LEMMA BeginKeeps ==
    ASSUME DhcpInv, NEW t \in Clocks, NEW kind \in Kinds, NEW d \in Struct,
           Begin(t, kind, d), ~clash, pc[t] # "send",
           refusals' \in 0 .. MAXREFUSALS, addr' \in BOOLEAN,
           due' \in [Clocks -> SUBSET {"fine", "coarse", "completed"}],
           phase' \in 0 .. COARSE - 1,
           \A s \in Clocks : due'[s] \subseteq due[s],
           UNCHANGED << boot, waits >>,
           dhcp.state = "off" => pc[t] = "call",
           kind = "release" => addr' = addr /\ dhcp.state \in {"requesting", "rebinding"},
           addr' => kind \in {"renew", "rebind", "release"}
    PROVE  DhcpInv'
<1>0. DhcpTypeOK /\ AddressIsLeased /\ ReleaseInv /\ TaskInv
  BY DEF DhcpInv
<1>1. StateFor(kind) \in Waiting \cup {"bound", "off"}
  BY DEF StateFor, Kinds, Waiting
<1>2. dhcp' \in Struct /\ dhcp'.state = StateFor(kind)
  BY <1>1, SetState DEF Begin
<1>3. /\ pc' = [pc EXCEPT ![t] = "send"]
      /\ job' = [job EXCEPT ![t] = kind]
  BY DEF Begin, Go
<1>4. clash' \in BOOLEAN /\ making' \subseteq Clocks
  BY <1>0 DEF Begin, DhcpTypeOK
<1>5. out' \subseteq {"discover", "request"} /\ in' \subseteq {"offer", "ack", "nak"}
  BY <1>0 DEF Begin, DhcpTypeOK, net
<1>6. /\ flag' \in BOOLEAN /\ given' \in 0 .. 1
      /\ since' \in 0 .. MAXTICKS /\ asked' \in 0 .. MAXTICKS
  BY <1>0 DEF DhcpTypeOK, boot, waits
<1>7. /\ pc' \in [Clocks -> {"idle", "fire", "send", "call"}]
      /\ job' \in [Clocks -> {"none", "discover", "select", "renew", "rebind", "decline",
                              "release"}]
  BY <1>0, <1>3 DEF DhcpTypeOK, Kinds
<1>8. DhcpTypeOK'
  BY <1>2, <1>4, <1>5, <1>6, <1>7 DEF DhcpTypeOK, Struct
<1>9. TaskInv'
  BY <1>0, <1>3 DEF TaskInv, DhcpTypeOK, Kinds, boot
<1>10. ReleaseInv'
  BY <1>0, <1>2, <1>3 DEF ReleaseInv, Releasing, StateFor, Kinds, DhcpTypeOK
<1>11. AddressIsLeased'
  <2>1. CASE kind \in {"renew", "rebind"}
    BY <1>2, <2>1 DEF AddressIsLeased, StateFor, Leased
  <2>2. CASE kind = "release"
    BY <1>0, <1>3, <2>2 DEF AddressIsLeased, DhcpTypeOK
  <2> QED
    BY <2>1, <2>2 DEF AddressIsLeased
<1> QED
  BY <1>8, <1>9, <1>10, <1>11 DEF DhcpInv

(* Every step of the client keeps the invariant.                           *)
LEMMA DhcpStart == DhcpInit => DhcpInv
<1> SUFFICES ASSUME DhcpInit PROVE DhcpInv
  OBVIOUS
<1>1. /\ 1 \in 0 .. MAXTRIES /\ 0 \in 0 .. U16
      /\ MAXTICKS <= U16 /\ U16 \in Nat /\ MAXTICKS \in Nat
  BY DhcpAssumption
<1>2. RequestTimeout("discover", 1) \in 0 .. MAXTICKS
  BY <1>1, TimeoutIsShort
<1>3. dhcp \in Struct
  BY <1>1, <1>2 DEF DhcpInit, Struct, Waiting
<1>4. asked \in 0 .. MAXTICKS /\ since \in 0 .. MAXTICKS /\ refusals \in 0 .. MAXREFUSALS
  BY <1>1, <1>2, DhcpAssumption DEF DhcpInit
<1>5. addr \in BOOLEAN /\ clash \in BOOLEAN /\ flag \in BOOLEAN
  BY DEF DhcpInit
<1>6. phase \in 0 .. COARSE - 1
  BY DhcpAssumption DEF DhcpInit
<1>7. DhcpTypeOK
  BY <1>3, <1>4, <1>5, <1>6 DEF DhcpInit, DhcpTypeOK, Struct
<1>8. AddressIsLeased /\ ReleaseInv /\ TaskInv
  BY DEF DhcpInit, AddressIsLeased, ReleaseInv, Releasing, TaskInv
<1> QED
  BY <1>7, <1>8 DEF DhcpInv

(* A request has been sent.                                                *)
LEMMA SentKeeps == ASSUME DhcpInv, NEW t \in Clocks, Sent(t) PROVE DhcpInv'
<1>0. DhcpTypeOK /\ AddressIsLeased /\ ReleaseInv /\ TaskInv
  BY DEF DhcpInv
<1> DEFINE tries == Least(dhcp.tries + 1, MAXTRIES)
           timeout == RequestTimeout(job[t], tries)
<1>1. tries \in 0 .. MAXTRIES
  BY <1>0, DhcpAssumption DEF DhcpTypeOK, Least
<1>2. timeout \in 0 .. MAXTICKS
  BY <1>1, TimeoutIsShort
<1>3. MAXTICKS <= U16 /\ U16 \in Nat /\ MAXTICKS \in Nat
  BY DhcpAssumption
<1>4. /\ dhcp' = [dhcp EXCEPT !.tries = tries, !.timeout = timeout]
      /\ since' = 0 /\ asked' = timeout
  BY DEF Sent
<1> HIDE DEF tries, timeout
<1>5. dhcp' \in Struct /\ dhcp'.state = dhcp.state
  <2>1. timeout \in 0 .. U16
    BY <1>2, <1>3
  <2> QED
    BY <1>0, <1>1, <1>4, <2>1 DEF DhcpTypeOK, Struct
<1>6. asked' \in 0 .. MAXTICKS /\ since' \in 0 .. MAXTICKS
  BY <1>2, <1>3, <1>4
<1>7. addr' \in BOOLEAN /\ clash' \in BOOLEAN
  <2>1. CASE job[t] = "release"
    BY <1>0, <2>1 DEF Sent, DhcpTypeOK
  <2>2. CASE job[t] # "release"
    BY <1>0, <2>2 DEF Sent, DhcpTypeOK
  <2> QED
    BY <2>1, <2>2
<1>8. out' \subseteq {"discover", "request"} /\ making' \subseteq Clocks
  BY <1>0 DEF Sent, DhcpTypeOK
<1>9. /\ pc' = [pc EXCEPT ![t] = IF job[t] = "release" THEN "call" ELSE "idle"]
      /\ job' = [job EXCEPT ![t] = IF job[t] = "release" THEN "discover" ELSE "none"]
  BY DEF Sent, Go
<1>10. DhcpTypeOK'
  BY <1>0, <1>5, <1>6, <1>7, <1>8, <1>9 DEF Sent, DhcpTypeOK, Struct, coming, boot
<1>11. TaskInv'
  BY <1>0, <1>9 DEF Sent, TaskInv, DhcpTypeOK, coming, boot
<1>12. ReleaseInv'
  BY <1>0, <1>5, <1>9 DEF Sent, ReleaseInv, Releasing, DhcpTypeOK
<1>13. AddressIsLeased'
  BY <1>0, <1>5, <1>9 DEF Sent, AddressIsLeased, DhcpTypeOK, Leased
<1> QED
  BY <1>10, <1>11, <1>12, <1>13 DEF DhcpInv

(* After the release comes the discovery.                                  *)
LEMMA CallKeeps == ASSUME DhcpInv, NEW t \in Clocks, Call(t) PROVE DhcpInv'
<1>0. DhcpTypeOK /\ AddressIsLeased /\ ReleaseInv /\ TaskInv
  BY DEF DhcpInv
<1>1. dhcp \in Struct
  BY <1>0 DEF DhcpTypeOK, Struct
<1>2. dhcp.state = "off" /\ ~addr
  BY <1>0 DEF Call, ReleaseInv, Releasing, AddressIsLeased, Leased
<1>3. /\ job[t] = "discover" /\ job[t] \in Kinds /\ ~clash /\ pc[t] = "call"
      /\ Begin(t, job[t], dhcp)
  BY <1>0 DEF Call, TaskInv, DhcpTypeOK, Kinds
<1>4. UNCHANGED << addr, due, phase, boot, waits, refusals >>
  BY DEF Call, coming
<1> QED
  BY <1>0, <1>1, <1>2, <1>3, <1>4, BeginKeeps DEF DhcpTypeOK

(* A step that leaves the client's address, its state's kind and the       *)
(* messages being made alone keeps what is known of them.                  *)
LEMMA FineKeeps == ASSUME DhcpInv, NEW t \in Clocks, Fine(t) PROVE DhcpInv'
<1>0. DhcpTypeOK /\ AddressIsLeased /\ ReleaseInv /\ TaskInv
  BY DEF DhcpInv
<1>1. dhcp' \in Struct /\ dhcp'.state = dhcp.state
  <2>1. CASE dhcp.timeout > 1
    <3>1. dhcp.timeout - 1 \in 0 .. U16 /\ dhcp' = [dhcp EXCEPT !.timeout = @ - 1]
      BY <1>0, <2>1, DhcpAssumption DEF Fine, DhcpTypeOK
    <3> QED
      BY <1>0, <3>1 DEF DhcpTypeOK, Struct
  <2>2. CASE ~(dhcp.timeout > 1)
    BY <1>0, <2>2 DEF Fine, DhcpTypeOK, Struct
  <2> QED
    BY <2>1, <2>2
<1>2. /\ pc[t] = "idle"
      /\ pc' \in {[pc EXCEPT ![t] = "fire"], [pc EXCEPT ![t] = "idle"]}
      /\ job' = [job EXCEPT ![t] = "none"]
  BY DEF Fine, Calls, Ready, Go
<1>3. /\ due' = [due EXCEPT ![t] = @ \ {"fine"}] /\ phase' = phase
      /\ UNCHANGED << addr, making, clash, out, in, flag, given, since, asked, refusals >>
  BY DEF Fine, Calls, net, boot, waits
<1>4. DhcpTypeOK'
  BY <1>0, <1>1, <1>2, <1>3 DEF DhcpTypeOK, Struct
<1>5. TaskInv'
  BY <1>0, <1>2, <1>3 DEF TaskInv, DhcpTypeOK
<1>6. ReleaseInv' /\ AddressIsLeased'
  BY <1>0, <1>1, <1>2, <1>3 DEF ReleaseInv, Releasing, AddressIsLeased, DhcpTypeOK
<1> QED
  BY <1>4, <1>5, <1>6 DEF DhcpInv

(* A request whose time-out has passed is repeated.                        *)
LEMMA AgainKeeps == ASSUME DhcpInv, NEW t \in Clocks, F_Again(t) PROVE DhcpInv'
<1>0. DhcpTypeOK /\ AddressIsLeased /\ ReleaseInv /\ TaskInv
  BY DEF DhcpInv
<1>1. FiredClient \in Struct /\ FiredClient.state = dhcp.state
  BY <1>0, FiredType
<1>2. ~clash /\ pc[t] = "fire"
  BY DEF F_Again, Fires
<1>3. dhcp.state \notin Leased => ~addr \/ dhcp.state = "off"
  BY <1>0, <1>2 DEF AddressIsLeased, ReleaseInv, Releasing
<1>4. UNCHANGED << addr, due, phase, boot, waits, refusals >>
  BY DEF F_Again, coming
<1>5. PICK kind \in Kinds :
        /\ Begin(t, kind, FiredClient) /\ dhcp.state # "off"
        /\ kind = "release" => dhcp.state \in {"requesting", "rebinding"}
        /\ kind \in {"discover", "select"} => dhcp.state \notin Leased
        /\ kind # "decline"
  BY DEF F_Again, Kinds, Leased
<1> QED
  BY <1>0, <1>1, <1>2, <1>3, <1>4, <1>5, BeginKeeps DEF DhcpTypeOK, Kinds

(* dhcp_bind and dhcp_check.                                               *)
LEMMA BindType == ASSUME NEW d \in Struct
                  PROVE  dhcp_bind(d) \in Struct /\ dhcp_bind(d).state = "bound"
<1>1. dhcp_set_state(d, "bound") \in Struct /\ dhcp_set_state(d, "bound").state = "bound"
  BY SetState
<1>2. T1 \in 0 .. U16 /\ T2 \in 0 .. U16
  BY DhcpAssumption
<1> QED
  BY <1>1, <1>2 DEF dhcp_bind, Struct

(* dhcp_check, and what becomes of the client.                             *)
LEMMA CheckType == ASSUME NEW d \in Struct, d.state = "requesting" \/ d.tries <= 1
                   PROVE  dhcp_check(d) \in Struct /\ dhcp_check(d).state = "checking"
<1>1. /\ dhcp_set_state(d, "checking") \in Struct
      /\ dhcp_set_state(d, "checking").state = "checking"
  BY SetState DEF Waiting
<1>2. /\ 1 \in 0 .. U16 /\ SELECT_TRIES \in Nat /\ SELECT_TRIES >= 1
      /\ MAXTRIES \in Nat /\ MAXTRIES > SELECT_TRIES
  BY DhcpAssumption
<1>3. dhcp_set_state(d, "checking").tries + 1 \in 0 .. MAXTRIES
  BY <1>2 DEF dhcp_set_state, Struct
<1> QED
  BY <1>1, <1>2, <1>3 DEF dhcp_check, Struct

(* A step that only changes the client, its address or the replies, with   *)
(* the address given only when there is a lease.                           *)
LEMMA BoundKeeps ==
    ASSUME DhcpInv, NEW t \in Clocks, ~clash,
           dhcp' \in Struct, addr' \in BOOLEAN, in' \subseteq in,
           pc[t] \in {"idle", "fire"}, pc' = [pc EXCEPT ![t] = "idle"],
           job' \in [Clocks -> Kinds \cup {"none"}],
           \A s \in Clocks \ {t} : job'[s] = job[s],
           UNCHANGED << making, clash, due, phase, out, boot, waits, refusals >>,
           dhcp.state = "off" => addr' = addr,
           dhcp.state = "off" <=> dhcp'.state = "off",
           addr' => dhcp'.state \in Leased \cup {"off"}
    PROVE  DhcpInv'
<1>0. DhcpTypeOK /\ AddressIsLeased /\ ReleaseInv /\ TaskInv
  BY DEF DhcpInv
<1>1. DhcpTypeOK'
  BY <1>0 DEF DhcpTypeOK, Struct, Kinds, boot, waits
<1>2. TaskInv'
  BY <1>0 DEF TaskInv, DhcpTypeOK, boot
<1>3. ReleaseInv'
  BY <1>0 DEF ReleaseInv, Releasing, DhcpTypeOK
<1>4. AddressIsLeased'
  <2>1. CASE dhcp.state = "off"
    BY <1>0, <2>1 DEF AddressIsLeased, DhcpTypeOK, Leased
  <2>2. CASE dhcp.state # "off"
    BY <2>2 DEF AddressIsLeased
  <2> QED
    BY <2>1, <2>2
<1> QED
  BY <1>1, <1>2, <1>3, <1>4 DEF DhcpInv

(* The address has been checked, or there was nothing to do.               *)
LEMMA CheckKeeps == ASSUME DhcpInv, NEW t \in Clocks, F_Check(t) \/ F_Nothing(t) PROVE DhcpInv'
<1>0. DhcpTypeOK /\ AddressIsLeased /\ ReleaseInv /\ TaskInv
  BY DEF DhcpInv
<1>1. /\ FiredClient \in Struct /\ FiredClient.state = dhcp.state
      /\ FiredClient.tries = dhcp.tries
  BY <1>0, FiredType DEF FiredClient, DhcpTypeOK
<1>2. /\ ~clash /\ pc[t] = "fire" /\ Go(t, "idle", "none")
      /\ UNCHANGED << making, clash, due, phase, out, in, boot, waits, refusals >>
  BY DEF F_Check, F_Nothing, Fires, coming, net
<1>3. pc' = [pc EXCEPT ![t] = "idle"] /\ job' = [job EXCEPT ![t] = "none"]
  BY <1>2 DEF Go
<1>4. job' \in [Clocks -> Kinds \cup {"none"}] /\ \A s \in Clocks \ {t} : job'[s] = job[s]
  BY <1>0, <1>3 DEF DhcpTypeOK, Kinds
<1>5. CASE F_Check(t)
  <2>1. dhcp.state = "checking" /\ ~addr
    BY <1>0, <1>2, <1>5 DEF F_Check, AddressIsLeased, ReleaseInv, Releasing, Leased
  <2>2. \/ dhcp' \in Struct /\ dhcp'.state = "checking" /\ addr' = addr
        \/ dhcp' \in Struct /\ dhcp'.state = "bound" /\ addr' = TRUE
    BY <1>1, <1>5, CheckType, BindType DEF F_Check
  <2>3. /\ addr' \in BOOLEAN /\ (addr' => dhcp'.state = "bound")
        /\ dhcp' \in Struct /\ dhcp'.state # "off"
    <3>1. CASE dhcp'.state = "checking" /\ addr' = addr
      BY <1>0, <2>1, <2>2, <3>1 DEF DhcpTypeOK
    <3>2. CASE dhcp'.state = "bound" /\ addr' = TRUE
      BY <2>2, <3>2
    <3> QED
      BY <2>2, <3>1, <3>2
  <2> QED
    BY <1>2, <1>3, <1>4, <2>1, <2>3, BoundKeeps DEF Leased
<1>6. CASE F_Nothing(t)
  <2>1. dhcp.state \in {"bound", "off"} /\ dhcp' = FiredClient /\ addr' = addr
    BY <1>6 DEF F_Nothing
  <2>2. addr \in BOOLEAN
    BY <1>0 DEF DhcpTypeOK
  <2> QED
    BY <1>1, <1>2, <1>3, <1>4, <2>1, <2>2, BoundKeeps DEF Leased
<1> QED
  BY <1>5, <1>6

(* dhcp_coarse_tmr: the lease gets older.                                  *)
LEMMA CoarseKeeps == ASSUME DhcpInv, NEW t \in Clocks, Coarse(t) PROVE DhcpInv'
<1>0. DhcpTypeOK /\ AddressIsLeased /\ ReleaseInv /\ TaskInv
  BY DEF DhcpInv
<1> DEFINE d2 == [dhcp EXCEPT !.t2 = Less1(@)]
           d1 == [d2 EXCEPT !.t1 = Less1(@)]
           d == IF dhcp.t2 = 1 THEN d2 ELSE d1
           kind == IF dhcp.t2 = 1 THEN "rebind" ELSE "renew"
<1>1. dhcp \in Struct
  BY <1>0 DEF DhcpTypeOK, Struct
<1>2. Less1(dhcp.t2) \in 0 .. U16 /\ Less1(dhcp.t1) \in 0 .. U16
  BY <1>1, Less1Type DEF Struct
<1>3. d2 \in Struct /\ d2.state = dhcp.state /\ d2.t1 = dhcp.t1
  BY <1>1, <1>2 DEF Struct
<1>4. d1 \in Struct /\ d1.state = dhcp.state
  BY <1>1, <1>2, <1>3 DEF Struct
<1>5. d \in Struct /\ d.state = dhcp.state
  BY <1>3, <1>4
<1>6. /\ ~clash /\ pc[t] = "idle"
      /\ due' = [due EXCEPT ![t] = @ \ {"coarse"}]
      /\ UNCHANGED << addr, phase, boot, waits, refusals >>
  BY DEF Coarse, Calls, Ready
<1>7. /\ due' \in [Clocks -> SUBSET {"fine", "coarse", "completed"}]
      /\ \A s \in Clocks : due'[s] \subseteq due[s]
  BY <1>0, <1>6 DEF DhcpTypeOK
<1>8. \/ Begin(t, kind, d) /\ dhcp.state # "off"
      \/ dhcp' = d /\ UNCHANGED << making, clash, pc, job, out, in >>
  BY DEF Coarse, tasks, net
<1> HIDE DEF d, kind
<1>9. kind \in {"renew", "rebind"}
  BY DEF kind
<1>10. CASE Begin(t, kind, d) /\ dhcp.state # "off"
  BY <1>0, <1>5, <1>6, <1>7, <1>9, <1>10, BeginKeeps DEF DhcpTypeOK, Kinds
<1>11. CASE dhcp' = d /\ UNCHANGED << making, clash, pc, job, out, in >>
  <2>1. DhcpTypeOK'
    BY <1>0, <1>5, <1>6, <1>7, <1>11 DEF DhcpTypeOK, Struct, boot, waits
  <2>2. TaskInv'
    BY <1>0, <1>6, <1>7, <1>11 DEF TaskInv, boot
  <2>3. ReleaseInv' /\ AddressIsLeased'
    BY <1>0, <1>5, <1>6, <1>11 DEF ReleaseInv, Releasing, AddressIsLeased
  <2> QED
    BY <2>1, <2>2, <2>3 DEF DhcpInv
<1> QED
  BY <1>8, <1>10, <1>11

(* What does not concern the client's state.                               *)
LEMMA RestKeeps == ASSUME DhcpInv, Completed \/ Server \/ DhcpTick \/ UNCHANGED dhcpVars
                   PROVE  DhcpInv'
<1>0. DhcpTypeOK /\ AddressIsLeased /\ ReleaseInv /\ TaskInv
  BY DEF DhcpInv
<1> USE DEF client, tasks, coming, net, boot, waits
<1>1. CASE Completed
  <2>1. due' = [due EXCEPT !["app"] = @ \ {"completed"}] /\ "app" \in Clocks /\ phase' = phase
    BY <1>1 DEF Completed, Calls
  <2>2. flag' \in BOOLEAN /\ given' = (IF flag' THEN 1 ELSE 0)
    <3>1. CASE addr /\ ~flag
      <4>1. flag' = TRUE /\ given' = given + 1 /\ given = 0
        BY <1>0, <1>1, <3>1 DEF Completed, TaskInv
      <4> QED
        BY <4>1
    <3>2. CASE ~(addr /\ ~flag)
      BY <1>0, <1>1, <3>2 DEF Completed, DhcpTypeOK, TaskInv
    <3> QED
      BY <3>1, <3>2
  <2>3. UNCHANGED << client, tasks, net, waits, refusals >>
    BY <1>1 DEF Completed
  <2>4. DhcpTypeOK'
    BY <1>0, <2>1, <2>2, <2>3 DEF DhcpTypeOK
  <2>5. TaskInv' /\ ReleaseInv' /\ AddressIsLeased'
    BY <1>0, <2>1, <2>2, <2>3 DEF DhcpTypeOK, TaskInv, ReleaseInv, Releasing, AddressIsLeased
  <2> QED
    BY <2>4, <2>5 DEF DhcpInv
<1>2. ASSUME NEW request, NEW reply \in {"offer", "ack", "nak"}, S_Answer(request, reply)
      PROVE  DhcpInv'
  <2>1. refusals' \in 0 .. MAXREFUSALS
    BY <1>0, <1>2, DhcpAssumption DEF S_Answer, DhcpTypeOK
  <2>2. DhcpTypeOK'
    BY <1>0, <1>2, <2>1 DEF S_Answer, DhcpTypeOK
  <2>3. TaskInv' /\ ReleaseInv' /\ AddressIsLeased'
    BY <1>0, <1>2 DEF S_Answer, TaskInv, ReleaseInv, Releasing, AddressIsLeased
  <2> QED
    BY <2>2, <2>3 DEF DhcpInv
<1>3. CASE DhcpTick
  <2>1. /\ due' \in [Clocks -> SUBSET {"fine", "coarse", "completed"}]
        /\ \A t \in Clocks : pc[t] = "idle"
        /\ UNCHANGED << client, tasks, net, boot, asked, refusals >>
    BY <1>3 DEF DhcpTick, Functions
  <2>2. phase' \in 0 .. COARSE - 1
    BY <1>0, <1>3, DhcpAssumption DEF DhcpTick, DhcpTypeOK
  <2>3. since' \in 0 .. MAXTICKS
    BY <1>0, <1>3, DhcpAssumption DEF DhcpTick, DhcpTypeOK, Least
  <2>4. DhcpTypeOK'
    BY <1>0, <2>1, <2>2, <2>3 DEF DhcpTypeOK
  <2>5. TaskInv' /\ ReleaseInv' /\ AddressIsLeased'
    BY <1>0, <2>1 DEF TaskInv, ReleaseInv, Releasing, AddressIsLeased
  <2> QED
    BY <2>4, <2>5 DEF DhcpInv
<1>4. CASE UNCHANGED dhcpVars
  BY <1>0, <1>4 DEF dhcpVars, DhcpInv, DhcpTypeOK, TaskInv, ReleaseInv, Releasing,
                    AddressIsLeased
<1> QED
  BY <1>1, <1>2, <1>3, <1>4 DEF Server

(* dhcp_recv and dhcp_arp_reply.                                           *)
LEMMA ReceiveKeeps == ASSUME DhcpInv, Receive PROVE DhcpInv'
<1>0. DhcpTypeOK /\ AddressIsLeased /\ ReleaseInv /\ TaskInv
  BY DEF DhcpInv
<1>1. "lwip" \in Clocks /\ dhcp \in Struct /\ pc["lwip"] = "idle" /\ ~clash
  BY <1>0, DhcpAssumption DEF Receive, R_Offer, R_Ack, R_Nak, R_InUse, Receives, Ready,
                              DhcpTypeOK, Struct
<1>2. dhcp.state \notin Leased => ~addr \/ dhcp.state = "off"
  BY <1>0, <1>1 DEF AddressIsLeased, ReleaseInv, Releasing
<1>3. CASE R_Offer
  <2>1. [dhcp EXCEPT !.timeout = 0] \in Struct
    BY <1>1, DhcpAssumption DEF Struct
  <2>2. dhcp.state = "selecting" /\ ~addr
    BY <1>2, <1>3 DEF R_Offer, Leased
  <2>3. /\ Begin("lwip", "select", [dhcp EXCEPT !.timeout = 0])
        /\ UNCHANGED << addr, due, phase, boot, waits, refusals >>
    BY <1>3 DEF R_Offer, coming
  <2> QED
    BY <1>0, <1>1, <2>1, <2>2, <2>3, BeginKeeps DEF DhcpTypeOK, Kinds
<1>4. CASE R_Ack
  <2>1. /\ UNCHANGED << making, clash, pc, job, due, phase, out, boot, waits, refusals >>
        /\ in' \subseteq in
    BY <1>4 DEF R_Ack, tasks, coming
  <2>2. job' \in [Clocks -> Kinds \cup {"none"}] /\ pc' = [pc EXCEPT !["lwip"] = "idle"]
    BY <1>0, <1>1, <2>1 DEF DhcpTypeOK, Kinds
  <2>3. CASE dhcp.state = "requesting"
    <3>1. dhcp' \in Struct /\ dhcp'.state = "checking" /\ addr' = addr /\ ~addr
      BY <1>1, <1>2, <1>4, <2>3, CheckType DEF R_Ack, Leased
    <3> QED
      BY <1>0, <1>1, <2>1, <2>2, <2>3, <3>1, BoundKeeps DEF DhcpTypeOK
  <2>4. CASE dhcp.state \in {"renewing", "rebinding"}
    <3>1. dhcp' \in Struct /\ dhcp'.state = "bound" /\ addr' = TRUE
      BY <1>1, <1>4, <2>4, BindType DEF R_Ack
    <3> QED
      BY <1>1, <2>1, <2>2, <2>4, <3>1, BoundKeeps DEF Leased
  <2> QED
    BY <1>4, <2>3, <2>4 DEF R_Ack
<1>5. CASE R_Nak
  <2>1. dhcp_set_state(dhcp, "backing_off") \in Struct
    BY <1>1, SetState DEF Waiting
  <2>2. addr' = FALSE /\ dhcp.state \in {"requesting", "renewing", "rebinding"}
    BY <1>5 DEF R_Nak
  <2>3. /\ Begin("lwip", "discover", dhcp_set_state(dhcp, "backing_off"))
        /\ UNCHANGED << due, phase, boot, waits, refusals >>
    BY <1>5 DEF R_Nak, coming
  <2> QED
    BY <1>0, <1>1, <2>1, <2>2, <2>3, BeginKeeps DEF DhcpTypeOK, Kinds
<1>6. CASE R_InUse
  <2>1. dhcp.state = "checking" /\ ~addr /\ refusals' \in 0 .. MAXREFUSALS
    BY <1>0, <1>2, <1>6, DhcpAssumption DEF R_InUse, Leased, DhcpTypeOK
  <2>2. Begin("lwip", "decline", dhcp) /\ UNCHANGED << addr, due, phase, boot, waits >>
    BY <1>6 DEF R_InUse, coming
  <2> QED
    BY <1>0, <1>1, <2>1, <2>2, BeginKeeps DEF DhcpTypeOK, Kinds
<1> QED
  BY <1>3, <1>4, <1>5, <1>6 DEF Receive

(* Every step keeps the invariant.                                         *)
LEMMA DhcpStep == ASSUME DhcpInv, [DhcpNext]_dhcpVars PROVE DhcpInv'
  BY SentKeeps, CallKeeps, FineKeeps, AgainKeeps, CheckKeeps, CoarseKeeps, RestKeeps,
     ReceiveKeeps
     DEF DhcpNext, TimerStep

(* It holds from the start.                                                *)
LEMMA DhcpInvariance == DhcpSpec => []DhcpInv
  BY DhcpStart, DhcpStep, PTL DEF DhcpSpec

(* The types of the client, of its tasks and of what is on its way.        *)
THEOREM DhcpTypes == DhcpSpec => []DhcpTypeOK
<1>1. DhcpInv => DhcpTypeOK
  BY DEF DhcpInv
<1> QED
  BY <1>1, DhcpInvariance, PTL

(* The interface has an address only while the client has a lease for it,  *)
(* whatever is lost, repeated or comes late.                               *)
THEOREM NoAddressWithoutLease == DhcpSpec => []AddressIsLeased
<1>1. DhcpInv => AddressIsLeased
  BY DEF DhcpInv
<1> QED
  BY <1>1, DhcpInvariance, PTL

-----------------------------------------------------------------------------
(* No clock owes more than a call.                                         *)
LEMMA OwedRange == Owed \in 0 .. Number /\ Number \in 1 .. 2
  BY DEF Owed, Owes, Number

(* A clock changes what is owed by its own part.                           *)
LEMMA OwedChange ==
    ASSUME NEW t \in Clocks, \A s \in Clocks \ {t} : Owes(s)' = Owes(s)
    PROVE  /\ Owed \in Int
           /\ Owes(t) = 1 /\ Owes(t)' = 0 => Owed' = Owed - 1
           /\ Owes(t) = Owes(t)' => Owed' = Owed
<1>1. t \in {"lwip", "app"} /\ "lwip" \in Clocks
  BY DhcpAssumption
<1>2. /\ Owes("lwip") \in {0, 1} /\ Owes("app") \in {0, 1}
      /\ Owes("lwip")' \in {0, 1} /\ Owes("app")' \in {0, 1}
  BY DEF Owes
<1> QED
  BY <1>1, <1>2 DEF Owed

(* What a step may do to the time-out.                                     *)
LEMMA WaitSame ==
    ASSUME DhcpTypeOK, DhcpTypeOK', WaitInv, ~clash, UNCHANGED << since, asked >>,
           NEW k \in {0, 1}, Owed' <= Owed - k,
           dhcp'.timeout # 0 /\ dhcp'.state \in Waiting \ {"checking"} =>
               /\ dhcp'.state = dhcp.state
               /\ \/ dhcp.timeout # 0 /\ dhcp'.timeout = dhcp.timeout - k
                  \/ dhcp'.timeout = U16
    PROVE  WaitInv'
<1>1. Owed \in 0 .. Number /\ Number \in 1 .. 2 /\ Owed' \in 0 .. Number' /\ Number' = Number
  BY OwedRange DEF Number, Owed, Owes
<1>2. /\ asked \in 0 .. MAXTICKS /\ since \in 0 .. MAXTICKS /\ MAXTICKS \in Nat
      /\ MAXTICKS <= U16 /\ U16 \in Nat /\ dhcp.timeout \in 0 .. U16
  BY DhcpAssumption DEF DhcpTypeOK
<1> QED
  BY <1>1, <1>2 DEF WaitInv

(* A request that is begun has its time-out.                               *)
LEMMA BeginTimeout ==
    ASSUME NEW t \in Clocks, NEW kind \in Kinds, NEW d \in Struct, Begin(t, kind, d)
    PROVE  /\ dhcp'.timeout # 0 => d.state = dhcp'.state /\ d.timeout = dhcp'.timeout
           /\ dhcp'.state = StateFor(kind)
<1>1. StateFor(kind) \in Waiting \cup {"bound", "off"}
  BY DEF StateFor, Kinds, Waiting
<1> QED
  BY <1>1, SetState DEF Begin

(* Every step keeps the account of the time-out.                           *)
LEMMA WaitStep == ASSUME DhcpInv, WaitInv, [DhcpNext]_dhcpVars PROVE WaitInv'
<1>0. DhcpTypeOK /\ DhcpTypeOK' /\ TaskInv /\ ReleaseInv /\ dhcp \in Struct
  BY DhcpStep DEF DhcpInv, DhcpTypeOK, Struct
<1>1. CASE UNCHANGED dhcpVars
  BY <1>1 DEF dhcpVars, client, tasks, coming, waits, WaitInv, Owed, Owes, Number
<1>2. ASSUME NEW t \in Clocks, Sent(t) PROVE WaitInv'
  <2>1. since' = 0 /\ asked' = dhcp'.timeout
    BY <1>0, <1>2 DEF Sent, DhcpTypeOK
  <2>2. Owed' \in 0 .. Number' /\ Number' \in 1 .. 2
    BY DEF Owed, Owes, Number
  <2>3. asked' \in 0 .. MAXTICKS /\ MAXTICKS \in Nat
    BY <1>0, DhcpAssumption DEF DhcpTypeOK
  <2> QED
    BY <2>1, <2>2, <2>3 DEF WaitInv
<1>3. ASSUME NEW t \in Clocks, Call(t) PROVE WaitInv'
  <2>1. Begin(t, "discover", dhcp) /\ dhcp.state = "off"
    BY <1>0, <1>3 DEF Call, TaskInv, ReleaseInv, Releasing
  <2>2. dhcp'.timeout = 0
    BY <1>0, <2>1, BeginTimeout DEF Kinds, StateFor
  <2> QED
    BY <2>2 DEF WaitInv
<1>4. ASSUME NEW t \in Clocks, Fine(t) PROVE WaitInv'
  <2>1. /\ due' = [due EXCEPT ![t] = @ \ {"fine"}]
        /\ "fine" \in due[t] /\ pc[t] = "idle" /\ ~clash
        /\ pc' = [pc EXCEPT ![t] = IF dhcp.timeout = 1 THEN "fire" ELSE "idle"]
        /\ UNCHANGED << since, asked >>
    BY <1>4 DEF Fine, Calls, Ready, Go, waits
  <2>2. \A s \in Clocks \ {t} : Owes(s)' = Owes(s)
    BY <1>0, <2>1 DEF Owes, DhcpTypeOK
  <2>3. Owes(t) = 1 /\ Owes(t)' = (IF dhcp.timeout = 1 THEN 1 ELSE 0)
    BY <1>0, <2>1 DEF Owes, DhcpTypeOK
  <2>4. Owed' = Owed - (IF dhcp.timeout = 1 THEN 0 ELSE 1) /\ Owed \in Int
    <3>1. CASE dhcp.timeout = 1
      BY <2>2, <2>3, <3>1, OwedChange
    <3>2. CASE dhcp.timeout # 1
      BY <2>2, <2>3, <3>2, OwedChange
    <3> QED
      BY <3>1, <3>2
  <2>5. dhcp.timeout \in Nat
    BY <1>0, DhcpAssumption DEF DhcpTypeOK
  <2>6. CASE dhcp.timeout > 1
    <3>1. dhcp'.state = dhcp.state /\ dhcp'.timeout = dhcp.timeout - 1
      BY <1>0, <1>4, <2>6 DEF Fine, Struct
    <3> QED
      BY <1>0, <2>1, <2>4, <2>5, <2>6, <3>1, WaitSame
  <2>7. CASE dhcp.timeout <= 1
    <3>1. dhcp' = dhcp
      BY <1>4, <2>5, <2>7 DEF Fine
    <3> QED
      BY <1>0, <2>1, <2>4, <2>5, <2>7, <3>1, WaitSame
  <2> QED
    BY <2>5, <2>6, <2>7
<1>5. ASSUME NEW t \in Clocks, F_Again(t) PROVE WaitInv'
  <2>1. PICK kind \in Kinds : Begin(t, kind, FiredClient)
    BY <1>5 DEF F_Again, Kinds
  <2>2. /\ FiredClient \in Struct /\ FiredClient.state = dhcp.state
        /\ FiredClient.timeout = Less1(dhcp.timeout)
    BY <1>0, FiredType
  <2>3. dhcp'.timeout # 0 => dhcp'.state = dhcp.state /\ dhcp'.timeout = Less1(dhcp.timeout)
    BY <2>1, <2>2, BeginTimeout
  <2>4. /\ pc[t] = "fire" /\ "fine" \notin due[t] /\ due' = due /\ ~clash
        /\ pc' = [pc EXCEPT ![t] = "send"] /\ UNCHANGED << since, asked >>
    BY <1>0, <1>5, <2>1 DEF F_Again, Fires, Begin, Go, coming, waits, TaskInv
  <2>5. Owed' = Owed - 1
    <3>1. \A s \in Clocks \ {t} : Owes(s)' = Owes(s)
      BY <1>0, <2>4 DEF Owes, DhcpTypeOK
    <3>2. Owes(t) = 1 /\ Owes(t)' = 0
      BY <1>0, <2>4 DEF Owes, DhcpTypeOK
    <3> QED
      BY <3>1, <3>2, OwedChange
  <2>6. dhcp.timeout = 0 => Less1(dhcp.timeout) = U16
    BY DEF Less1
  <2>7. dhcp.timeout # 0 => Less1(dhcp.timeout) = dhcp.timeout - 1
    BY DEF Less1
  <2> QED
    BY <1>0, <2>3, <2>4, <2>5, <2>6, <2>7, WaitSame
<1>6. ASSUME NEW t \in Clocks, F_Check(t) \/ F_Nothing(t) PROVE WaitInv'
  <2>1. /\ FiredClient \in Struct /\ FiredClient.state = dhcp.state
        /\ FiredClient.tries = dhcp.tries
    BY <1>0, FiredType DEF FiredClient, DhcpTypeOK
  <2>2. dhcp'.state \in {"checking", "bound", "off"}
    BY <1>6, <2>1, CheckType, BindType DEF F_Check, F_Nothing
  <2> QED
    BY <2>2 DEF WaitInv, Waiting
<1>7. ASSUME NEW t \in Clocks, Coarse(t) PROVE WaitInv'
  <2> DEFINE d2 == [dhcp EXCEPT !.t2 = Less1(@)]
             d1 == [d2 EXCEPT !.t1 = Less1(@)]
             d == IF dhcp.t2 = 1 THEN d2 ELSE d1
             kind == IF dhcp.t2 = 1 THEN "rebind" ELSE "renew"
  <2>1. Less1(dhcp.t2) \in 0 .. U16 /\ Less1(dhcp.t1) \in 0 .. U16
    BY <1>0, Less1Type DEF Struct
  <2>2. d2 \in Struct /\ d2.state = dhcp.state /\ d2.timeout = dhcp.timeout /\ d2.t1 = dhcp.t1
    BY <1>0, <2>1 DEF Struct
  <2>3. d1 \in Struct /\ d1.state = dhcp.state /\ d1.timeout = dhcp.timeout
    BY <2>1, <2>2 DEF Struct
  <2>4. d \in Struct /\ d.state = dhcp.state /\ d.timeout = dhcp.timeout /\ kind \in Kinds
    BY <2>2, <2>3 DEF Kinds
  <2>5. /\ due' = [due EXCEPT ![t] = @ \ {"coarse"}] /\ ~clash /\ pc[t] = "idle"
        /\ UNCHANGED << since, asked >>
    BY <1>7 DEF Coarse, Calls, Ready, waits
  <2>6. \/ Begin(t, kind, d)
        \/ dhcp' = d /\ UNCHANGED pc
    BY <1>7 DEF Coarse, tasks
  <2> HIDE DEF d, kind
  <2>7. dhcp'.timeout # 0 => dhcp'.state = dhcp.state /\ dhcp'.timeout = dhcp.timeout
    BY <2>4, <2>6, BeginTimeout
  <2>8. pc' = pc \/ pc' = [pc EXCEPT ![t] = "send"]
    BY <2>6 DEF Begin, Go
  <2>9. Owed' = Owed /\ Owed \in Int
    <3>1. \A s \in Clocks : Owes(s)' = Owes(s)
      BY <1>0, <2>5, <2>8 DEF Owes, DhcpTypeOK
    <3> QED
      BY <3>1, OwedChange
  <2> QED
    BY <1>0, <2>5, <2>7, <2>9, WaitSame DEF Struct
<1>8. CASE Completed
  <2>1. /\ due' = [due EXCEPT !["app"] = @ \ {"completed"}] /\ ~clash
        /\ UNCHANGED << pc, dhcp, since, asked >>
    BY <1>8 DEF Completed, Calls, Ready, client, tasks, waits
  <2>2. Owed' = Owed /\ Owed \in Int
    BY <1>0, <2>1 DEF Owed, Owes, DhcpTypeOK
  <2> QED
    BY <1>0, <2>1, <2>2, WaitSame DEF Struct
<1>9. CASE Receive
  <2>1. CASE R_Offer
    <3>1. [dhcp EXCEPT !.timeout = 0] \in Struct
      BY <1>0, DhcpAssumption DEF Struct
    <3>2. Begin("lwip", "select", [dhcp EXCEPT !.timeout = 0])
      BY <2>1 DEF R_Offer
    <3>3. dhcp'.timeout = 0
      BY <1>0, <3>1, <3>2, BeginTimeout, DhcpAssumption DEF Struct, Kinds
    <3> QED
      BY <3>3 DEF WaitInv
  <2>2. CASE R_Ack
    <3>1. dhcp'.state \in {"checking", "bound"}
      BY <1>0, <2>2, CheckType, BindType DEF R_Ack
    <3> QED
      BY <3>1 DEF WaitInv, Waiting
  <2>3. CASE R_Nak
    <3>1. /\ dhcp_set_state(dhcp, "backing_off") \in Struct
          /\ dhcp_set_state(dhcp, "backing_off").state = "backing_off"
      BY <1>0, SetState DEF Waiting
    <3>2. Begin("lwip", "discover", dhcp_set_state(dhcp, "backing_off"))
      BY <2>3 DEF R_Nak
    <3>3. dhcp'.timeout = 0
      BY <3>1, <3>2, BeginTimeout, DhcpAssumption DEF StateFor, Kinds
    <3> QED
      BY <3>3 DEF WaitInv
  <2>4. CASE R_InUse
    <3>1. dhcp.state = "checking" /\ Begin("lwip", "decline", dhcp)
      BY <2>4 DEF R_InUse
    <3>2. dhcp'.timeout = 0
      BY <1>0, <3>1, BeginTimeout, DhcpAssumption DEF StateFor, Kinds
    <3> QED
      BY <3>2 DEF WaitInv
  <2> QED
    BY <1>9, <2>1, <2>2, <2>3, <2>4 DEF Receive
<1>10. CASE Server
  BY <1>10 DEF Server, S_Answer, client, tasks, coming, waits, WaitInv, Owed, Owes, Number
<1>11. CASE DhcpTick
  <2>1. /\ \A t \in Clocks : due[t] = {} /\ pc[t] = "idle"
        /\ UNCHANGED << dhcp, clash, asked >>
        /\ since' = Least(since + 1, MAXTICKS)
    BY <1>11 DEF DhcpTick, client
  <2>2. Owed = 0 /\ Owed' \in 0 .. Number /\ Number' = Number /\ Number \in 1 .. 2
    <3>1. \A t \in Clocks : Owes(t) = 0
      BY <2>1 DEF Owes
    <3> QED
      BY <3>1, DhcpAssumption DEF Owed, Number, Owes
  <2>3. /\ asked \in 0 .. MAXTICKS /\ since \in 0 .. MAXTICKS /\ MAXTICKS \in Nat
        /\ dhcp.timeout \in Nat
    BY <1>0, DhcpAssumption DEF DhcpTypeOK
  <2>4. since' = MAXTICKS \/ since' = since + 1
    BY <2>1, <2>3 DEF Least
  <2>5. CASE since' = MAXTICKS
    BY <1>11, <2>1, <2>5 DEF WaitInv
  <2>6. CASE since' = since + 1
    BY <2>1, <2>2, <2>3, <2>6 DEF WaitInv
  <2> QED
    BY <2>4, <2>5, <2>6
<1> QED
  BY <1>1, <1>2, <1>3, <1>4, <1>5, <1>6, <1>7, <1>8, <1>9, <1>10, <1>11 DEF DhcpNext, TimerStep

(* It holds from the start.                                                *)
LEMMA WaitInvariance == DhcpSpec => []WaitInv
<1>1. DhcpInit => WaitInv
  <2> SUFFICES ASSUME DhcpInit PROVE WaitInv
    OBVIOUS
  <2>1. asked = dhcp.timeout /\ since = 0
    BY DEF DhcpInit
  <2>2. asked \in 0 .. MAXTICKS /\ MAXTICKS \in Nat
    BY DhcpStart, DhcpAssumption DEF DhcpInv, DhcpTypeOK
  <2>3. Owed \in 0 .. Number /\ Number \in 1 .. 2
    BY OwedRange
  <2> QED
    BY <2>1, <2>2, <2>3 DEF WaitInv
<1>2. DhcpInv /\ WaitInv /\ [DhcpNext]_dhcpVars => WaitInv'
  BY WaitStep
<1> QED
  BY <1>1, <1>2, DhcpInvariance, PTL DEF DhcpSpec

(* The only step that finds the last period of a wait is dhcp_fine_tmr's.  *)
LEMMA FireIsFine ==
    ASSUME DhcpTypeOK, DhcpNext, NEW t \in Clocks, pc[t] = "idle", pc'[t] = "fire"
    PROVE  Fine(t)
<1>1. \A next : \A s \in Clocks : (pc' = [pc EXCEPT ![s] = next]) => s = t /\ next = "fire"
  BY DEF DhcpTypeOK
<1>2. ASSUME NEW s \in Clocks, NEW kind, NEW d, Begin(s, kind, d) PROVE FALSE
  BY <1>1, <1>2 DEF Begin, Go
<1>3. ASSUME NEW s \in Clocks, NEW next, Go(s, "idle", next) \/ Go(s, "call", next) PROVE FALSE
  BY <1>1, <1>3 DEF Go
<1>4. ASSUME UNCHANGED pc PROVE FALSE
  BY <1>4
<1>5. ASSUME NEW s \in Clocks, TimerStep(s) PROVE Fine(t)
  <2>1. CASE Fine(s)
    BY <1>1, <2>1 DEF Fine, Go
  <2>2. CASE Sent(s)
    BY <1>3, <2>2 DEF Sent
  <2>3. CASE Call(s) \/ F_Again(s)
    BY <1>2, <2>3 DEF Call, F_Again
  <2>4. CASE F_Check(s) \/ F_Nothing(s)
    BY <1>3, <2>4 DEF F_Check, F_Nothing
  <2>5. CASE Coarse(s)
    BY <1>2, <1>4, <2>5 DEF Coarse, tasks
  <2> QED
    BY <1>5, <2>1, <2>2, <2>3, <2>4, <2>5 DEF TimerStep
<1>6. CASE Completed \/ Server \/ DhcpTick
  BY <1>4, <1>6 DEF Completed, Server, S_Answer, DhcpTick, tasks
<1>7. CASE Receive
  BY <1>2, <1>4, <1>7, DhcpAssumption DEF Receive, R_Offer, R_Ack, R_Nak, R_InUse, tasks
<1> QED
  BY <1>5, <1>6, <1>7 DEF DhcpNext

(* Two clocks repeat a message early, but never before half its time-out.  *)
THEOREM NeverBeforeHalf == DhcpSpec => NotBeforeHalf
<1> DEFINE A == \A t \in Clocks :
        dhcp.state \in Waiting \ {"checking"} /\ pc[t] = "idle" /\ pc'[t] = "fire"
            => asked <= Cardinality(Clocks) * (since + 1)
<1>1. DhcpInv /\ WaitInv /\ [DhcpNext]_dhcpVars => [A]_dhcpVars
  <2> SUFFICES ASSUME DhcpInv, WaitInv, DhcpNext, NEW t \in Clocks,
                      dhcp.state \in Waiting \ {"checking"}, pc[t] = "idle", pc'[t] = "fire"
               PROVE  asked <= Cardinality(Clocks) * (since + 1)
    OBVIOUS
  <2>1. DhcpTypeOK /\ Fine(t)
    BY FireIsFine DEF DhcpInv
  <2>2. dhcp.timeout = 1 /\ ~clash /\ "fine" \in due[t]
    BY <2>1 DEF Fine, Calls, Ready, Go, DhcpTypeOK
  <2>3. Owed \in Int /\ Owed >= 1
    BY <2>2, DhcpAssumption DEF Owed, Owes
  <2>4. /\ asked \in 0 .. MAXTICKS /\ since \in 0 .. MAXTICKS /\ MAXTICKS \in Nat
        /\ Number \in 1 .. 2
    BY <2>1, DhcpAssumption, OwedRange DEF DhcpTypeOK
  <2>5. asked <= Number * (since + 1)
    BY <2>2, <2>3, <2>4 DEF WaitInv
  <2> QED
    BY <2>5, ClockCount DEF Number
<1>2. NotBeforeHalf <=> [][A]_dhcpVars
  BY DEF NotBeforeHalf
<1> QED
  BY <1>1, <1>2, DhcpInvariance, WaitInvariance, PTL DEF DhcpSpec

(* A single task that calls the timer functions.                           *)
OneClock == Clocks = {"lwip"}

(* Without the second clock of main.c the assertion of dhcp_create_msg     *)
(* holds: dhcp->p_out is never taken when it is in use.                    *)
THEOREM OneClockNeverClashes == ASSUME OneClock PROVE DhcpSpec => []POutIsFree
<1> DEFINE Idle == ~clash /\ (making # {} => pc["lwip"] = "send")
<1>1. DhcpInit => Idle
  BY DEF DhcpInit
<1>2. DhcpInv /\ Idle /\ [DhcpNext]_dhcpVars => Idle'
  <2> SUFFICES ASSUME DhcpInv, Idle, [DhcpNext]_dhcpVars PROVE Idle'
    OBVIOUS
  <2>0. DhcpTypeOK /\ DhcpTypeOK'
    BY DhcpStep DEF DhcpInv
  <2>1. ASSUME NEW t \in Clocks, NEW kind, NEW d, Begin(t, kind, d), pc[t] # "send" PROVE Idle'
    BY <2>0, <2>1 DEF OneClock, Begin, Go, DhcpTypeOK
  <2>2. ASSUME NEW t \in Clocks, TimerStep(t) PROVE Idle'
    <3>1. CASE Sent(t)
      BY <2>0, <3>1 DEF Sent, OneClock, DhcpTypeOK
    <3>2. CASE Call(t) \/ F_Again(t)
      BY <2>1, <3>2 DEF Call, F_Again, Fires
    <3>3. CASE Fine(t) \/ F_Check(t) \/ F_Nothing(t)
      BY <2>0, <3>3 DEF OneClock, Fine, F_Check, F_Nothing, Calls, Ready, Fires, Go, DhcpTypeOK
    <3>4. CASE Coarse(t)
      BY <2>1, <3>4 DEF Coarse, Calls, Ready, tasks
    <3> QED
      BY <2>2, <3>1, <3>2, <3>3, <3>4 DEF TimerStep
  <2>3. CASE Receive
    BY <2>1, <2>3, DhcpAssumption DEF Receive, R_Offer, R_Ack, R_Nak, R_InUse, Receives, Ready,
                                      tasks
  <2>4. CASE Completed \/ Server \/ DhcpTick \/ UNCHANGED dhcpVars
    BY <2>4 DEF Completed, Server, S_Answer, DhcpTick, dhcpVars, client, tasks
  <2> QED
    BY <2>2, <2>3, <2>4 DEF DhcpNext
<1>3. Idle => POutIsFree
  BY DEF POutIsFree
<1> QED
  BY <1>1, <1>2, <1>3, DhcpInvariance, PTL DEF DhcpSpec

-----------------------------------------------------------------------------
(***************************************************************************)
(* What GetsAnAddress rests on, besides fairness: unless it has a lease,   *)
(* the client's time-out runs, or a task is about to send a message and to *)
(* set it.                                                                 *)
(***************************************************************************)
Sending == \E t \in Clocks : pc[t] \in {"send", "call"}

ClientIsTimed ==
    \/ clash \/ Sending
    \/ dhcp.state = "bound"
    \/ dhcp.state # "off" /\ dhcp.timeout > 0

(* It is off only between the release and the discovery after it.          *)
TimedInv ==
    ~ clash => /\ dhcp.state = "off" => \E t \in Clocks : Releasing(t)
               /\ dhcp.state \notin {"bound", "off"} => dhcp.timeout > 0 \/ Sending

(* No time-out is 0, which dhcp_fine_tmr would take for none at all.       *)
LEMMA TimeoutIsSet ==
    ASSUME NEW kind, NEW tries \in 1 .. MAXTRIES
    PROVE  RequestTimeout(kind, tries) > 0
<1>1. tries \in 0 .. 5 => 2 ^ tries \in Nat /\ 2 ^ tries > 0
  BY PowerIsNat
<1> QED
  BY <1>1, DhcpAssumption DEF RequestTimeout, Least

(* A message that is begun will be sent.                                   *)
LEMMA BeginTimed ==
    ASSUME DhcpInv, NEW t \in Clocks, NEW kind \in Kinds, NEW d \in Struct,
           Begin(t, kind, d)
    PROVE  TimedInv'
<1>1. StateFor(kind) \in Waiting \cup {"bound", "off"}
  BY DEF StateFor, Kinds, Waiting
<1>2. dhcp'.state = StateFor(kind)
  BY <1>1, SetState DEF Begin
<1>3. pc'[t] = "send" /\ job'[t] = kind
  BY DEF Begin, Go, DhcpInv, DhcpTypeOK
<1>4. StateFor(kind) = "off" => kind = "release"
  BY DEF StateFor, Kinds
<1> QED
  BY <1>2, <1>3, <1>4 DEF TimedInv, Sending, Releasing

(* A step of a task that does not send: the others go on as they were.     *)
LEMMA AsideTimed ==
    ASSUME DhcpInv, TimedInv, ~ clash, NEW t \in Clocks, pc[t] \in {"idle", "fire"},
           \A s \in Clocks \ {t} : pc'[s] = pc[s] /\ job'[s] = job[s],
           \/ dhcp'.state = "bound"
           \/ dhcp'.state # "off" /\ dhcp'.timeout > 0
           \/ dhcp'.state = dhcp.state /\ dhcp'.timeout = dhcp.timeout
           \/ dhcp'.state = dhcp.state /\ dhcp.state \in {"bound", "off"}
    PROVE  TimedInv'
<1>1. (\E s \in Clocks : Releasing(s)) => (\E s \in Clocks : Releasing(s)')
  BY DEF Releasing
<1>2. Sending => Sending'
  BY DEF Sending
<1> QED
  BY <1>1, <1>2 DEF TimedInv

(* What dhcp_check and dhcp_bind make of the client.                       *)
LEMMA CheckTimed ==
    ASSUME NEW d \in Struct
    PROVE  /\ dhcp_check(d).state = "checking" /\ dhcp_check(d).timeout = 1
           /\ dhcp_bind(d).state = "bound"
<1>1. /\ dhcp_set_state(d, "checking") \in Struct
      /\ dhcp_set_state(d, "checking").state = "checking"
  BY SetState DEF Waiting
<1>2. dhcp_bind(d).state = "bound"
  BY BindType
<1> QED
  BY <1>1, <1>2 DEF dhcp_check, Struct

(* Every step keeps it.                                                    *)
LEMMA TimedStep == ASSUME DhcpInv, TimedInv, [DhcpNext]_dhcpVars PROVE TimedInv'
<1>1. /\ DhcpTypeOK /\ TaskInv /\ dhcp \in Struct /\ "lwip" \in Clocks
      /\ pc \in [Clocks -> {"idle", "fire", "send", "call"}] /\ DOMAIN job = Clocks
  BY DhcpAssumption DEF DhcpInv, DhcpTypeOK, Struct
<1>2. FiredClient \in Struct /\ FiredClient.state = dhcp.state
  BY <1>1, FiredType
<1>3. ASSUME NEW t \in Clocks, Sent(t) PROVE TimedInv'
  <2> DEFINE tries == Least(dhcp.tries + 1, MAXTRIES)
             timeout == RequestTimeout(job[t], tries)
  <2>1. tries \in 1 .. MAXTRIES
    BY <1>1, DhcpAssumption DEF Struct, Least
  <2>2. timeout > 0
    BY <2>1, TimeoutIsSet
  <2>3. dhcp' = [dhcp EXCEPT !.tries = tries, !.timeout = timeout]
    BY <1>3 DEF Sent
  <2>4. ~ clash /\ pc[t] = "send" /\ clash' = clash
    BY <1>3 DEF Sent
  <2>5. CASE job[t] = "release"
    <3>1. pc'[t] = "call"
      BY <1>1, <1>3, <2>5 DEF Sent, Go
    <3> QED
      BY <3>1 DEF TimedInv, Sending, Releasing
  <2>6. CASE job[t] # "release"
    <3>1. \A s \in Clocks \ {t} : pc'[s] = pc[s] /\ job'[s] = job[s]
      BY <1>1, <1>3, <2>6 DEF Sent, Go
    <3> HIDE DEF tries, timeout
    <3>2. dhcp'.timeout > 0 /\ dhcp'.state = dhcp.state
      BY <1>1, <2>2, <2>3 DEF Struct
    <3>3. ~ Releasing(t)
      BY <2>4, <2>6 DEF Releasing
    <3>4. dhcp.state = "off" => \E s \in Clocks : Releasing(s)'
      BY <2>4, <3>1, <3>3 DEF TimedInv, Releasing
    <3> QED
      BY <3>2, <3>4 DEF TimedInv
  <2> QED
    BY <2>5, <2>6
<1>4. ASSUME NEW t \in Clocks, Call(t) PROVE TimedInv'
  <2>1. job[t] \in Kinds /\ Begin(t, job[t], dhcp)
    BY <1>1, <1>4 DEF Call, TaskInv, Kinds
  <2> QED
    BY <1>1, <2>1, BeginTimed
<1>5. ASSUME NEW t \in Clocks, Fine(t) PROVE TimedInv'
  <2>1. /\ ~ clash /\ pc[t] = "idle"
        /\ \A s \in Clocks \ {t} : pc'[s] = pc[s] /\ job'[s] = job[s]
    BY <1>1, <1>5 DEF Fine, Calls, Ready, Go
  <2>2. CASE dhcp.timeout > 1
    <3>1. dhcp'.timeout > 0 /\ dhcp'.state = dhcp.state
      BY <1>1, <1>5, <2>2 DEF Fine, Struct
    <3> QED
      BY <2>1, <3>1, AsideTimed
  <2>3. CASE ~ (dhcp.timeout > 1)
    <3>1. dhcp' = dhcp
      BY <1>5, <2>3 DEF Fine
    <3> QED
      BY <2>1, <3>1, AsideTimed
  <2> QED
    BY <2>2, <2>3
<1>6. ASSUME NEW t \in Clocks, F_Again(t) PROVE TimedInv'
  <2>1. PICK kind \in Kinds : Begin(t, kind, FiredClient)
    BY <1>6 DEF F_Again, Kinds
  <2> QED
    BY <1>2, <2>1, BeginTimed
<1>7. ASSUME NEW t \in Clocks, F_Check(t) \/ F_Nothing(t) PROVE TimedInv'
  <2>1. /\ ~ clash /\ pc[t] = "fire"
        /\ \A s \in Clocks \ {t} : pc'[s] = pc[s] /\ job'[s] = job[s]
    BY <1>1, <1>7 DEF F_Check, F_Nothing, Fires, Go
  <2>2. CASE F_Check(t)
    <3>1. dhcp' = dhcp_check(FiredClient) \/ dhcp' = dhcp_bind(FiredClient)
      BY <2>2 DEF F_Check
    <3>2. \/ dhcp'.state = "checking" /\ dhcp'.timeout = 1
          \/ dhcp'.state = "bound"
      BY <1>2, <3>1, CheckTimed
    <3> QED
      BY <2>1, <3>2, AsideTimed
  <2>3. CASE F_Nothing(t)
    <3>1. dhcp'.state = dhcp.state /\ dhcp.state \in {"bound", "off"}
      BY <1>2, <2>3 DEF F_Nothing
    <3> QED
      BY <2>1, <3>1, AsideTimed
  <2> QED
    BY <1>7, <2>2, <2>3
<1>8. ASSUME NEW t \in Clocks, Coarse(t) PROVE TimedInv'
  <2> DEFINE d2 == [dhcp EXCEPT !.t2 = Less1(@)]
             d1 == [d2 EXCEPT !.t1 = Less1(@)]
             d == IF dhcp.t2 = 1 THEN d2 ELSE d1
             kind == IF dhcp.t2 = 1 THEN "rebind" ELSE "renew"
  <2>1. Less1(dhcp.t2) \in 0 .. U16 /\ Less1(dhcp.t1) \in 0 .. U16
    BY <1>1, Less1Type DEF Struct
  <2>2. /\ d2 \in Struct /\ d2.state = dhcp.state /\ d2.timeout = dhcp.timeout
        /\ d2.t1 = dhcp.t1
    BY <1>1, <2>1 DEF Struct
  <2>3. d1 \in Struct /\ d1.state = dhcp.state /\ d1.timeout = dhcp.timeout
    BY <2>1, <2>2 DEF Struct
  <2>4. d \in Struct /\ d.state = dhcp.state /\ d.timeout = dhcp.timeout
    BY <2>2, <2>3
  <2>5. ~ clash /\ pc[t] = "idle"
    BY <1>8 DEF Coarse, Calls, Ready
  <2>6. Begin(t, kind, d) \/ (dhcp' = d /\ UNCHANGED tasks)
    BY <1>8 DEF Coarse
  <2>7. kind \in Kinds
    BY DEF Kinds
  <2> HIDE DEF d, kind
  <2>8. CASE Begin(t, kind, d)
    BY <2>4, <2>7, <2>8, BeginTimed
  <2>9. CASE dhcp' = d /\ UNCHANGED tasks
    BY <2>4, <2>5, <2>9, AsideTimed DEF tasks
  <2> QED
    BY <2>6, <2>8, <2>9
<1>9. CASE Receive
  <2>1. /\ ~ clash /\ pc["lwip"] = "idle"
    BY <1>9 DEF Receive, R_Offer, R_Ack, R_Nak, R_InUse, Receives, Ready
  <2>2. CASE R_Offer
    <3>1. [dhcp EXCEPT !.timeout = 0] \in Struct
      BY <1>1, DhcpAssumption DEF Struct
    <3> QED
      BY <1>1, <2>2, <3>1, BeginTimed DEF R_Offer, Kinds
  <2>3. CASE R_Ack
    <3>1. dhcp' = dhcp_check(dhcp) \/ dhcp' = dhcp_bind(dhcp)
      BY <2>3 DEF R_Ack
    <3>2. \/ dhcp'.state = "checking" /\ dhcp'.timeout = 1
          \/ dhcp'.state = "bound"
      BY <1>1, <3>1, CheckTimed
    <3>3. UNCHANGED tasks
      BY <2>3 DEF R_Ack
    <3> QED
      BY <1>1, <2>1, <3>2, <3>3, AsideTimed DEF tasks
  <2>4. CASE R_Nak
    <3>1. dhcp_set_state(dhcp, "backing_off") \in Struct
      BY <1>1, SetState DEF Waiting
    <3> QED
      BY <1>1, <2>4, <3>1, BeginTimed DEF R_Nak, Kinds
  <2>5. CASE R_InUse
    BY <1>1, <2>5, BeginTimed DEF R_InUse, Kinds
  <2> QED
    BY <1>9, <2>2, <2>3, <2>4, <2>5 DEF Receive
<1>10. CASE Completed \/ Server \/ DhcpTick \/ UNCHANGED dhcpVars
  <2>1. UNCHANGED << dhcp, clash, pc, job >>
    BY <1>10 DEF Completed, Server, S_Answer, DhcpTick, dhcpVars, client, tasks
  <2> QED
    BY <2>1 DEF TimedInv, Sending, Releasing
<1> QED
  BY <1>3, <1>4, <1>5, <1>6, <1>7, <1>8, <1>9, <1>10 DEF DhcpNext, TimerStep

(* The client never falls asleep without an address: neither a message it  *)
(* gets, nor a timer function that finds the last period of a time-out,    *)
(* nor the second task that calls these functions without a lock leaves it *)
(* in a state that only its time-out ends, with no time-out running.       *)
THEOREM NeverAsleep == DhcpSpec => []ClientIsTimed
<1>1. DhcpInit => TimedInv
  <2> SUFFICES ASSUME DhcpInit PROVE TimedInv
    OBVIOUS
  <2>1. RequestTimeout("discover", 1) > 0
    BY TimeoutIsSet, DhcpAssumption
  <2>2. dhcp.state = "selecting" /\ dhcp.timeout > 0
    BY <2>1 DEF DhcpInit
  <2> QED
    BY <2>2 DEF TimedInv
<1>2. DhcpInv /\ TimedInv /\ [DhcpNext]_dhcpVars => TimedInv'
  BY TimedStep
<1>3. TimedInv => ClientIsTimed
  BY DEF TimedInv, ClientIsTimed, Sending, Releasing
<1> QED
  BY <1>1, <1>2, <1>3, DhcpInvariance, PTL DEF DhcpSpec

-----------------------------------------------------------------------------
(***************************************************************************)
(* The thread.  What is proved of the list by induction uses that a set of *)
(* numbers has a least element.                                            *)
(***************************************************************************)
(* A set of numbers that is not empty has a least one.                     *)
LEMMA LeastElement ==
    ASSUME NEW S \in SUBSET Nat, S # {}
    PROVE  \E n \in S : \A m \in S : n <= m
<1> DEFINE R == OpToRel(<, Nat)
<1>1. IsWellFoundedOn(R, Nat)
  BY NatLessThanWellFounded
<1>2. \A x, y \in Nat : << y, x >> \in R <=> y < x
  BY DEF OpToRel
<1> HIDE DEF R
<1>3. PICK n \in S : \A m \in S : << m, n >> \notin R
  BY <1>1, WFMin, Zenon
<1>4. ASSUME NEW m \in S PROVE n <= m
  <2>1. n \in Nat /\ m \in Nat
    OBVIOUS
  <2>2. ~ (m < n)
    BY <1>2, <1>3, <2>1, Zenon
  <2> QED
    BY <2>1, <2>2
<1> QED
  BY <1>4

(* Induction up to n, for a set.                                           *)
LEMMA UpTo ==
    ASSUME NEW n \in Nat, NEW S \in SUBSET (0 .. n), 0 \in S,
           \A k \in 0 .. n - 1 : k \in S => k + 1 \in S
    PROVE  S = 0 .. n
<1> DEFINE T == (0 .. n) \ S
<1>1. CASE T # {}
  <2>1. T \in SUBSET Nat
    OBVIOUS
  <2>2. PICK k \in T : \A m \in T : k <= m
    <3> HIDE DEF T
    <3> QED
      BY <1>1, <2>1, LeastElement
  <2>3. k - 1 \in 0 .. n - 1 /\ k - 1 \in S /\ k - 1 + 1 = k
    BY <2>2
  <2> QED
    BY <2>2, <2>3
<1> QED
  BY <1>1

-----------------------------------------------------------------------------
Entry == [id : Timers, time : Nat]

(* sum is the function of the times until the entries of l.                *)
Sums(l, sum) ==
    /\ sum \in [0 .. Len(l) -> Nat]
    /\ sum[0] = 0
    /\ \A k \in 1 .. Len(l) : sum[k] = sum[k - 1] + l[k].time

(* What a list consists of.                                                *)
LEMMA EntriesOf ==
    ASSUME NEW l \in Seq(Entry)
    PROVE  /\ Len(l) \in Nat /\ DOMAIN l = 1 .. Len(l)
           /\ \A k \in 1 .. Len(l) : l[k] \in Entry /\ l[k].id \in Timers /\ l[k].time \in Nat
<1>1. Len(l) \in Nat /\ DOMAIN l = 1 .. Len(l) /\ \A k \in 1 .. Len(l) : l[k] \in Entry
  OBVIOUS
<1>2. \A e \in Entry : e.id \in Timers /\ e.time \in Nat
  BY DEF Entry
<1> QED
  BY <1>1, <1>2, Zenon

(* There is one function of this kind ...                                  *)
LEMMA SumsExist ==
    ASSUME NEW l \in Seq(Entry)
    PROVE  \E sum : Sums(l, sum)
<1> DEFINE Part(n, sum) ==
             /\ sum \in [0 .. n -> Nat]
             /\ sum[0] = 0
             /\ \A k \in 1 .. n : sum[k] = sum[k - 1] + l[k].time
           S == { n \in 0 .. Len(l) : \E sum : Part(n, sum) }
<1>1. Len(l) \in Nat /\ \A k \in 1 .. Len(l) : l[k].time \in Nat
  BY EntriesOf
<1>2. 0 \in S
  <2>1. Part(0, [n \in 0 .. 0 |-> 0])
    OBVIOUS
  <2>2. 0 \in 0 .. Len(l)
    BY <1>1
  <2> HIDE DEF Part
  <2> QED
    BY <2>1, <2>2
<1>3. ASSUME NEW n \in 0 .. Len(l) - 1, n \in S PROVE n + 1 \in S
  <2>1. PICK sum : Part(n, sum)
    BY <1>3
  <2> DEFINE next == [k \in 0 .. n + 1 |-> IF k = n + 1 THEN sum[n] + l[n + 1].time
                                           ELSE sum[k]]
  <2>2. sum[n] \in Nat /\ l[n + 1].time \in Nat /\ n \in Nat
    BY <1>1, <2>1
  <2>3. next \in [0 .. n + 1 -> Nat]
    BY <2>1, <2>2
  <2>4. next[0] = 0 /\ \A k \in 1 .. n + 1 : next[k] = next[k - 1] + l[k].time
    <3>1. /\ \A k \in 0 .. n : next[k] = sum[k]
          /\ next[n + 1] = sum[n] + l[n + 1].time
      BY <2>2
    <3>2. \A k \in 1 .. n : k \in 0 .. n /\ k - 1 \in 0 .. n
      BY <2>2
    <3>3. \A k \in 1 .. n : next[k] = next[k - 1] + l[k].time
      BY <2>1, <3>1, <3>2
    <3>4. 0 \in 0 .. n /\ n \in 0 .. n /\ (n + 1) - 1 = n
      BY <2>2
    <3>5. next[0] = 0 /\ next[n + 1] = next[(n + 1) - 1] + l[n + 1].time
      BY <2>1, <3>1, <3>4
    <3>6. \A k \in 1 .. n + 1 : k \in 1 .. n \/ k = n + 1
      BY <2>2
    <3> HIDE DEF next
    <3> QED
      BY <3>3, <3>5, <3>6
  <2> HIDE DEF next
  <2>5. Part(n + 1, next)
    BY <2>3, <2>4
  <2>6. n + 1 \in 0 .. Len(l)
    BY <1>1
  <2> QED
    BY <2>5, <2>6
<1>4. S = 0 .. Len(l)
  <2>1. S \in SUBSET (0 .. Len(l))
    OBVIOUS
  <2> HIDE DEF S
  <2> QED
    BY <1>1, <1>2, <1>3, <2>1, UpTo
<1>5. Len(l) \in S
  <2>1. Len(l) \in 0 .. Len(l)
    BY <1>1
  <2> HIDE DEF S
  <2> QED
    BY <1>4, <2>1
<1> QED
  BY <1>5 DEF Sums

(* ... and only one.                                                       *)
LEMMA SumsUnique ==
    ASSUME NEW l \in Seq(Entry), NEW f, NEW g, Sums(l, f), Sums(l, g)
    PROVE  f = g
<1> DEFINE S == { n \in 0 .. Len(l) : f[n] = g[n] }
<1>1. Len(l) \in Nat
  OBVIOUS
<1>2. 0 \in S
  BY <1>1 DEF Sums
<1>3. ASSUME NEW n \in 0 .. Len(l) - 1, n \in S PROVE n + 1 \in S
  <2>1. n + 1 \in 1 .. Len(l) /\ n + 1 - 1 = n /\ n + 1 \in 0 .. Len(l)
    BY <1>1
  <2> QED
    BY <1>3, <2>1 DEF Sums
<1>4. S = 0 .. Len(l)
  <2>1. S \in SUBSET (0 .. Len(l))
    OBVIOUS
  <2> HIDE DEF S
  <2> QED
    BY <1>1, <1>2, <1>3, <2>1, UpTo
<1>5. \A n \in 0 .. Len(l) : f[n] = g[n]
  BY <1>4
<1> QED
  BY <1>5 DEF Sums

(* Due is that function.                                                   *)
LEMMA DueSums ==
    ASSUME NEW l \in Seq(Entry)
    PROVE  Sums(l, Due(l))
<1> DEFINE Fits(f) == f = [k \in 0 .. Len(l) |-> IF k = 0 THEN 0 ELSE f[k - 1] + l[k].time]
           sum == Due(l)
           S == { n \in 0 .. Len(l) : sum[n] \in Nat }
<1>1. PICK f : Sums(l, f)
  BY SumsExist
<1>2. Fits(f)
  BY <1>1 DEF Sums
<1>3. sum = CHOOSE g : Fits(g)
  BY DEF Due
<1>4. Fits(sum)
  <2> HIDE DEF Fits, sum
  <2> QED
    BY <1>2, <1>3
<1> HIDE DEF sum
<1>5. Len(l) \in Nat /\ \A k \in 1 .. Len(l) : l[k].time \in Nat
  BY EntriesOf
<1>6. DOMAIN sum = 0 .. Len(l) /\ sum = [k \in 0 .. Len(l) |-> sum[k]]
  BY <1>4
<1>7. sum[0] = 0 /\ \A k \in 1 .. Len(l) : sum[k] = sum[k - 1] + l[k].time
  BY <1>4, <1>5
<1>8. 0 \in S
  BY <1>5, <1>7
<1>9. ASSUME NEW n \in 0 .. Len(l) - 1, n \in S PROVE n + 1 \in S
  <2>1. n + 1 \in 1 .. Len(l) /\ n + 1 - 1 = n /\ n + 1 \in 0 .. Len(l)
    BY <1>5
  <2>2. sum[n + 1] = sum[n] + l[n + 1].time /\ sum[n] \in Nat /\ l[n + 1].time \in Nat
    BY <1>5, <1>7, <1>9, <2>1
  <2> QED
    BY <2>1, <2>2
<1>10. S = 0 .. Len(l)
  <2>1. S \in SUBSET (0 .. Len(l))
    OBVIOUS
  <2> HIDE DEF S
  <2> QED
    BY <1>5, <1>8, <1>9, <2>1, UpTo
<1>11. \A n \in 0 .. Len(l) : sum[n] \in Nat
  BY <1>10
<1>12. sum \in [0 .. Len(l) -> Nat]
  BY <1>6, <1>11
<1> QED
  BY <1>7, <1>12 DEF Sums, sum

(* Where sys_timeout puts a timeout there are the ones sum no later before *)
(* it and the ones sum later behind it.                                    *)
LEMMA BehindRange ==
    ASSUME NEW l \in Seq(Entry), NEW msecs \in Nat
    PROVE  /\ Behind(l, msecs) \in 0 .. Len(l)
           /\ Due(l)[Behind(l, msecs)] <= msecs
           /\ Behind(l, msecs) < Len(l) => Due(l)[Behind(l, msecs) + 1] > msecs
<1> DEFINE Here(k) == Due(l)[k] <= msecs /\ (k < Len(l) => Due(l)[k + 1] > msecs)
           S == { k \in 0 .. Len(l) : Due(l)[k] > msecs }
<1>1. /\ Len(l) \in Nat /\ Due(l)[0] = 0
      /\ \A k \in 0 .. Len(l) : Due(l)[k] \in Nat
  BY DueSums DEF Sums
<1>2. \E k \in 0 .. Len(l) : Here(k)
  <2>1. CASE S = {}
    <3>1. Here(Len(l)) /\ Len(l) \in 0 .. Len(l)
      BY <1>1, <2>1
    <3> QED
      BY <3>1
  <2>2. CASE S # {}
    <3>1. S \in SUBSET Nat
      BY <1>1
    <3>2. PICK n \in S : \A m \in S : n <= m
      <4> HIDE DEF S
      <4> QED
        BY <2>2, <3>1, LeastElement
    <3>3. n \in 1 .. Len(l) /\ n - 1 \in 0 .. Len(l) /\ n - 1 \notin S /\ n - 1 + 1 = n
      BY <1>1, <3>2
    <3>4. Due(l)[n - 1] <= msecs /\ Due(l)[n - 1 + 1] > msecs
      BY <1>1, <3>2, <3>3
    <3> QED
      BY <3>3, <3>4
  <2> QED
    BY <2>1, <2>2
<1>3. Behind(l, msecs) = CHOOSE k \in 0 .. Len(l) : Here(k)
  BY DEF Behind
<1>4. Behind(l, msecs) \in 0 .. Len(l) /\ Here(Behind(l, msecs))
  <2> HIDE DEF Here
  <2> QED
    BY <1>2, <1>3
<1> QED
  BY <1>4

(* What InsertAt does.                                                     *)
LEMMA Inserted ==
    ASSUME NEW S, NEW s \in Seq(S), NEW i \in 1 .. Len(s) + 1, NEW e \in S
    PROVE  /\ InsertAt(s, i, e) \in Seq(S)
           /\ Len(InsertAt(s, i, e)) = Len(s) + 1
           /\ \A j \in 1 .. Len(s) + 1 :
                  InsertAt(s, i, e)[j] = IF j < i THEN s[j] ELSE IF j = i THEN e ELSE s[j - 1]
<1> DEFINE a == SubSeq(s, 1, i - 1)
           c == SubSeq(s, i, Len(s))
<1>1. a \in Seq(S) /\ Len(a) = i - 1 /\ \A j \in 1 .. i - 1 : a[j] = s[j]
  OBVIOUS
<1>2. /\ c \in Seq(S) /\ Len(c) = Len(s) - i + 1
      /\ \A j \in 1 .. Len(s) - i + 1 : c[j] = s[j + i - 1]
  OBVIOUS
<1>3. InsertAt(s, i, e) = a \o << e >> \o c
  BY DEF InsertAt
<1> HIDE DEF a, c
<1>4. /\ a \o << e >> \in Seq(S) /\ Len(a \o << e >>) = i
      /\ \A j \in 1 .. i : (a \o << e >>)[j] = IF j = i THEN e ELSE s[j]
  BY <1>1
<1> DEFINE b == a \o << e >>
<1> HIDE DEF b
<1>5. b \in Seq(S) /\ Len(b) = i /\ \A j \in 1 .. i : b[j] = IF j = i THEN e ELSE s[j]
  BY <1>4 DEF b
<1>6. b \o c \in Seq(S) /\ Len(b \o c) = Len(s) + 1
  <2>1. b \in Seq(S) /\ c \in Seq(S) /\ Len(b) = i /\ Len(c) = Len(s) - i + 1
    BY <1>2, <1>5
  <2>2. b \o c \in Seq(S) /\ Len(b \o c) = Len(b) + Len(c)
    BY ONLY <2>1
  <2>3. Len(s) \in Nat
    OBVIOUS
  <2> QED
    BY <2>1, <2>2, <2>3
<1>7. ASSUME NEW j \in 1 .. Len(s) + 1
      PROVE  (b \o c)[j] = IF j < i THEN s[j] ELSE IF j = i THEN e ELSE s[j - 1]
  <2>1. CASE j <= i
    BY <1>2, <1>5, <2>1
  <2>2. CASE j > i
    <3>1. (b \o c)[j] = c[j - i] /\ j - i \in 1 .. Len(s) - i + 1 /\ j - i + i - 1 = j - 1
      BY <1>2, <1>5, <2>2
    <3> QED
      BY <1>2, <2>2, <3>1
  <2>3. j <= i \/ j > i
    OBVIOUS
  <2> QED
    BY <2>1, <2>2, <2>3, Zenon
<1> QED
  BY <1>3, <1>6, <1>7 DEF b

(* n is l with an entry more, for id: sum when it should be, and every     *)
(* other is sum when it was.                                               *)
Adds(n, l, id) ==
    /\ n \in Seq(Entry) /\ Len(n) = Len(l) + 1
    /\ \E p \in 1 .. Len(l) + 1 :
           /\ n[p].id = id /\ Due(n)[p] = Period[id]
           /\ \A j \in 1 .. Len(l) + 1 :
                  /\ j < p => n[j].id = l[j].id /\ Due(n)[j] = Due(l)[j]
                  /\ j > p => n[j].id = l[j - 1].id /\ Due(n)[j] = Due(l)[j - 1]

(* This is what sys_timeout does to the list.                              *)
LEMMA TimeoutKeepsTimes ==
    ASSUME NEW l \in Seq(Entry), NEW id \in Timers, NEW n, n = sys_timeout(l, id)
    PROVE  Adds(n, l, id)
<1>2. Period[id] \in Nat
  BY TimerAssumption DEF Timers
<1>3. PICK k \in 0 .. Len(l) :
          /\ k = Behind(l, Period[id])
          /\ Due(l)[k] <= Period[id]
          /\ k < Len(l) => Due(l)[k + 1] > Period[id]
  BY <1>2, BehindRange
<1> DEFINE time == Period[id] - Due(l)[k]
           rest == [ i \in DOMAIN l |-> IF i = k + 1 THEN [l[i] EXCEPT !.time = @ - time]
                                        ELSE l[i] ]
           e == [id |-> id, time |-> time]
<1>1. n = InsertAt(rest, k + 1, e)
  BY <1>3 DEF sys_timeout
<1>4. /\ Due(l) \in [0 .. Len(l) -> Nat] /\ Due(l)[0] = 0
      /\ \A j \in 1 .. Len(l) : Due(l)[j] = Due(l)[j - 1] + l[j].time
  BY DueSums DEF Sums
<1>41. \A j \in 1 .. Len(l) : Due(l)[j] = Due(l)[j - 1] + l[j].time
  BY <1>4
<1>5. Len(l) \in Nat /\ DOMAIN l = 1 .. Len(l)
      /\ \A j \in 1 .. Len(l) : l[j] \in Entry /\ l[j].id \in Timers /\ l[j].time \in Nat
  BY EntriesOf
<1>6. time \in Nat /\ Due(l)[k] \in Nat
  BY <1>2, <1>3, <1>4
<1>7. k < Len(l) => l[k + 1].time - time \in Nat /\ Due(l)[k + 1] = Due(l)[k] + l[k + 1].time
  <2>1. CASE k < Len(l)
    <3>1. PICK p \in 1 .. Len(l) : p = k + 1
      BY <1>5, <2>1
    <3>2. Due(l)[p] = Due(l)[p - 1] + l[p].time /\ l[p].time \in Nat
      BY <1>41, <1>5
    <3>3. Due(l)[k + 1] = Due(l)[k] + l[k + 1].time
      BY <3>1, <3>2
    <3>4. l[k + 1].time \in Nat
      BY <3>1, <3>2
    <3>5. PICK a \in Nat, b \in Nat, c \in Nat :
              a = Due(l)[k] /\ b = l[k + 1].time /\ c = Period[id]
      BY <1>2, <1>6, <3>4
    <3>6. a + b > c
      BY <1>3, <2>1, <3>3, <3>5
    <3>7. b - (c - a) \in Nat
      BY <3>6
    <3> QED
      BY <3>3, <3>5, <3>7
  <2> QED
    BY <2>1
<1> HIDE DEF time
<1>8. e \in Entry /\ e.id = id /\ e.time = time
  BY <1>6 DEF Entry
<1>9. ASSUME NEW i \in 1 .. Len(l)
      PROVE  /\ rest[i] \in Entry /\ rest[i].id = l[i].id
             /\ rest[i].time = IF i = k + 1 THEN l[i].time - time ELSE l[i].time
  <2>1. CASE i = k + 1
    <3>1. k < Len(l)
      BY <1>3, <1>5, <2>1
    <3>2. l[i].time - time \in Nat
      BY <1>7, <2>1, <3>1
    <3>3. rest[i] = [l[i] EXCEPT !.time = l[i].time - time]
      BY <1>5, <2>1
    <3>4. l[i] \in Entry
      BY <1>5
    <3>5. rest[i] \in Entry
      BY <3>2, <3>3, <3>4 DEF Entry
    <3>6. rest[i].id = l[i].id /\ rest[i].time = l[i].time - time
      BY <3>3, <3>4 DEF Entry
    <3> QED
      BY <2>1, <3>5, <3>6
  <2>2. CASE i # k + 1
    BY <1>5, <2>2
  <2> QED
    BY <2>1, <2>2
<1>10. rest \in Seq(Entry) /\ Len(rest) = Len(l)
  <2>1. DOMAIN rest = 1 .. Len(l) /\ \A i \in 1 .. Len(l) : rest[i] \in Entry
    BY <1>5, <1>9
  <2>2. rest = [i \in 1 .. Len(l) |-> rest[i]]
    BY <1>5
  <2> HIDE DEF rest
  <2>3. rest \in [1 .. Len(l) -> Entry]
    BY <2>1, <2>2
  <2> QED
    BY <1>5, <2>3
<1> HIDE DEF rest, e
<1>11. /\ n \in Seq(Entry) /\ Len(n) = Len(l) + 1
       /\ \A j \in 1 .. Len(l) + 1 :
              n[j] = IF j < k + 1 THEN rest[j] ELSE IF j = k + 1 THEN e ELSE rest[j - 1]
  <2>1. k + 1 \in 1 .. Len(rest) + 1
    BY <1>3, <1>5, <1>10
  <2>2. rest \in Seq(Entry) /\ e \in Entry
    BY <1>8, <1>10
  <2>3. PICK r \in Seq(Entry) : r = rest
    BY <2>2
  <2>4. PICK p \in 1 .. Len(r) + 1 : p = k + 1
    BY <2>1, <2>3
  <2>5. PICK f \in Entry : f = e
    BY <2>2
  <2>6. /\ InsertAt(r, p, f) \in Seq(Entry) /\ Len(InsertAt(r, p, f)) = Len(r) + 1
        /\ \A j \in 1 .. Len(r) + 1 :
               InsertAt(r, p, f)[j] = IF j < p THEN r[j] ELSE IF j = p THEN f ELSE r[j - 1]
    BY Inserted
  <2>7. n = InsertAt(r, p, f)
    BY <1>1, <2>3, <2>4, <2>5
  <2>8. /\ n \in Seq(Entry) /\ Len(n) = Len(r) + 1
        /\ \A j \in 1 .. Len(r) + 1 :
               n[j] = IF j < p THEN r[j] ELSE IF j = p THEN f ELSE r[j - 1]
    BY <2>6, <2>7, Zenon
  <2>9. Len(r) = Len(l)
    BY <1>10, <2>3
  <2> QED
    BY <2>3, <2>4, <2>5, <2>8, <2>9, Zenon
<1> DEFINE sum == [j \in 0 .. Len(l) + 1 |-> IF j <= k THEN Due(l)[j]
                                             ELSE IF j = k + 1 THEN Period[id]
                                             ELSE Due(l)[j - 1]]
<1>12. Sums(n, sum)
  <2>1. sum \in [0 .. Len(n) -> Nat] /\ sum[0] = 0
    BY <1>2, <1>3, <1>4, <1>5, <1>11
  <2>2. ASSUME NEW j \in 1 .. Len(l) + 1
        PROVE  sum[j] = sum[j - 1] + n[j].time
    <3>1. CASE j <= k
      <4>1. n[j].time = l[j].time /\ j \in 1 .. Len(l)
        BY <1>3, <1>5, <1>9, <1>11, <3>1
      <4>2. sum[j] = Due(l)[j] /\ sum[j - 1] = Due(l)[j - 1]
        BY <1>3, <1>5, <3>1
      <4> QED
        BY <1>4, <4>1, <4>2
    <3>2. CASE j = k + 1
      <4>1. n[j].time = Period[id] - Due(l)[k]
        BY <1>3, <1>8, <1>11, <3>2 DEF time
      <4>2. sum[j] = Period[id] /\ sum[j - 1] = Due(l)[k]
        BY <1>3, <1>5, <3>2
      <4> QED
        BY <1>2, <1>6, <4>1, <4>2
    <3>3. CASE j = k + 2
      <4>1. n[j].time = l[k + 1].time - time /\ k < Len(l)
        <5>1. n[j] = rest[j - 1] /\ j - 1 \in 1 .. Len(l) /\ j - 1 = k + 1
          BY <1>3, <1>5, <1>11, <3>3
        <5> QED
          BY <1>3, <1>5, <1>9, <5>1
      <4>2. sum[j] = Due(l)[k + 1] /\ sum[j - 1] = Period[id]
        <5>1. j - 1 = k + 1 /\ j - 1 \in 0 .. Len(l) + 1 /\ j \in 0 .. Len(l) + 1
              /\ ~(j <= k) /\ j # k + 1 /\ ~(j - 1 <= k)
          BY <1>3, <1>5, <3>3
        <5> QED
          BY <5>1
      <4>3. Due(l)[k + 1] = Due(l)[k] + l[k + 1].time /\ l[k + 1].time \in Nat
        BY <1>3, <1>5, <1>7, <4>1
      <4>4. n[j].time = l[k + 1].time - (Period[id] - Due(l)[k])
        BY <4>1 DEF time
      <4>5. Period[id] \in Int /\ Due(l)[k] \in Int
        BY <1>2, <1>6
      <4> QED
        BY <4>2, <4>3, <4>4, <4>5
    <3>4. CASE j > k + 2
      <4>1. j - 1 \in 1 .. Len(l) /\ j - 1 # k + 1
        BY <1>3, <1>5, <3>4
      <4>2. n[j].time = l[j - 1].time
        BY <1>3, <1>9, <1>11, <3>4, <4>1
      <4>3. sum[j] = Due(l)[j - 1] /\ sum[j - 1] = Due(l)[j - 2]
        BY <1>3, <1>5, <3>4
      <4>4. Due(l)[j - 1] = Due(l)[j - 1 - 1] + l[j - 1].time /\ j - 1 - 1 = j - 2
        BY <1>4, <4>1
      <4> QED
        BY <4>2, <4>3, <4>4
    <3> QED
      BY <1>3, <1>5, <3>1, <3>2, <3>3, <3>4
  <2> HIDE DEF sum
  <2> QED
    BY <1>11, <2>1, <2>2 DEF Sums
<1>13. Due(n) = sum
  <2> HIDE DEF sum
  <2> QED
    BY <1>11, <1>12, DueSums, SumsUnique
<1>14. k + 1 \in 1 .. Len(l) + 1 /\ n[k + 1].id = id /\ Due(n)[k + 1] = Period[id]
  BY <1>3, <1>5, <1>8, <1>11, <1>13
<1>15. ASSUME NEW j \in 1 .. Len(l) + 1
       PROVE  /\ j < k + 1 => n[j].id = l[j].id /\ Due(n)[j] = Due(l)[j]
              /\ j > k + 1 => n[j].id = l[j - 1].id /\ Due(n)[j] = Due(l)[j - 1]
  <2>1. CASE j < k + 1
    BY <1>3, <1>5, <1>9, <1>11, <1>13, <2>1
  <2>2. CASE j > k + 1
    BY <1>3, <1>5, <1>9, <1>11, <1>13, <2>2
  <2> QED
    BY <2>1, <2>2
<1>16. /\ n \in Seq(Entry) /\ Len(n) = Len(l) + 1
       /\ \E p \in 1 .. Len(l) + 1 :
              /\ n[p].id = id /\ Due(n)[p] = Period[id]
              /\ \A j \in 1 .. Len(l) + 1 :
                     /\ j < p => n[j].id = l[j].id /\ Due(n)[j] = Due(l)[j]
                     /\ j > p => n[j].id = l[j - 1].id /\ Due(n)[j] = Due(l)[j - 1]
  <2> HIDE DEF sum
  <2> QED
    BY <1>11, <1>14, <1>15
<1> QED
  BY <1>16 DEF Adds

(* The first timeout is taken out of the list.                             *)
LEMMA TailTimes ==
    ASSUME NEW l \in Seq(Entry), l # << >>
    PROVE  /\ Tail(l) \in Seq(Entry) /\ Len(Tail(l)) = Len(l) - 1
           /\ \A k \in 1 .. Len(l) - 1 : Tail(l)[k] = l[k + 1]
           /\ \A k \in 0 .. Len(l) - 1 : Due(Tail(l))[k] = Due(l)[k + 1] - l[1].time
<1>1. /\ Tail(l) \in Seq(Entry) /\ Len(Tail(l)) = Len(l) - 1 /\ Len(l) \in Nat /\ Len(l) > 0
      /\ \A k \in 1 .. Len(l) - 1 : Tail(l)[k] = l[k + 1]
  OBVIOUS
<1>2. /\ Due(l) \in [0 .. Len(l) -> Nat] /\ Due(l)[0] = 0
      /\ \A k \in 1 .. Len(l) : Due(l)[k] = Due(l)[k - 1] + l[k].time
  BY DueSums DEF Sums
<1>3. \A k \in 1 .. Len(l) : l[k].time \in Nat
  BY EntriesOf
<1> DEFINE sum == [k \in 0 .. Len(l) - 1 |-> Due(l)[k + 1] - l[1].time]
           S == { k \in 0 .. Len(l) - 1 : sum[k] \in Nat }
<1>4. sum[0] = 0
  <2>1. 1 \in 1 .. Len(l)
    BY <1>1
  <2>2. Due(l)[1] = l[1].time /\ l[1].time \in Nat
    BY <1>2, <1>3, <2>1
  <2> QED
    BY <1>1, <2>2
<1>5. ASSUME NEW k \in 1 .. Len(l) - 1
      PROVE  sum[k] = sum[k - 1] + Tail(l)[k].time
  <2>1. Tail(l)[k].time = l[k + 1].time
    BY <1>1
  <2>2. PICK p \in 1 .. Len(l) : p = k + 1
    BY <1>1
  <2>3. /\ Due(l)[p] = Due(l)[p - 1] + l[p].time /\ p - 1 = k /\ Due(l)[k] \in Nat
        /\ l[p].time \in Nat /\ l[1].time \in Nat
    BY <1>1, <1>2, <1>3, <2>2
  <2>4. sum[k] = Due(l)[p] - l[1].time /\ sum[k - 1] = Due(l)[k] - l[1].time
    BY <1>1, <2>2
  <2> QED
    BY <2>1, <2>2, <2>3, <2>4
<1>6. \A k \in 0 .. Len(l) - 1 : sum[k] \in Nat
  <2>1. 0 \in S
    BY <1>1, <1>4
  <2>2. ASSUME NEW k \in 0 .. Len(l) - 1 - 1, k \in S PROVE k + 1 \in S
    <3>1. PICK p \in 1 .. Len(l) - 1 : p = k + 1
      BY <1>1
    <3>2. sum[p] = sum[p - 1] + Tail(l)[p].time
      BY <1>5
    <3>3. sum[p - 1] \in Nat /\ Tail(l)[p].time \in Nat
      <4>1. Tail(l)[p] = l[p + 1] /\ p + 1 \in 1 .. Len(l)
        BY <1>1
      <4>2. p - 1 = k /\ sum[k] \in Nat
        BY <2>2, <3>1
      <4> HIDE DEF sum
      <4> QED
        BY <1>3, <4>1, <4>2
    <3> HIDE DEF sum
    <3>4. sum[p] \in Nat /\ p \in 0 .. Len(l) - 1
      BY <3>2, <3>3
    <3> QED
      BY <3>1, <3>4
  <2>3. S = 0 .. Len(l) - 1
    <3>1. S \in SUBSET (0 .. Len(l) - 1) /\ Len(l) - 1 \in Nat
      BY <1>1
    <3> HIDE DEF S
    <3> QED
      BY <2>1, <2>2, <3>1, UpTo
  <2> QED
    BY <2>3
<1>7. sum = [k \in 0 .. Len(l) - 1 |-> sum[k]] /\ Len(Tail(l)) = Len(l) - 1
  BY <1>1
<1>8. Sums(Tail(l), sum)
  <2> HIDE DEF sum
  <2>1. sum \in [0 .. Len(l) - 1 -> Nat]
    BY <1>6, <1>7
  <2> QED
    BY <1>4, <1>5, <1>7, <2>1 DEF Sums
<1>9. Due(Tail(l)) = sum
  <2> HIDE DEF sum
  <2> QED
    BY <1>1, <1>8, DueSums, SumsUnique
<1> QED
  BY <1>1, <1>9

(* n is l with all entries sum d ms earlier.                               *)
Moves(n, l, d) ==
    /\ n \in Seq(Entry) /\ Len(n) = Len(l)
    /\ \A k \in 1 .. Len(l) : n[k].id = l[k].id /\ Due(n)[k] = Due(l)[k] - d

(* The time that is taken off the first timeout is taken off all.          *)
LEMMA EarlierTimes ==
    ASSUME NEW l \in Seq(Entry), l # << >>, NEW d \in Nat, d <= l[1].time,
           NEW n, n = [l EXCEPT ![1].time = l[1].time - d]
    PROVE  Moves(n, l, d)
<1> DEFINE sum == [k \in 0 .. Len(l) |-> IF k = 0 THEN 0 ELSE Due(l)[k] - d]
<1>1. Len(l) \in Nat /\ Len(l) > 0 /\ DOMAIN l = 1 .. Len(l) /\ 1 \in 1 .. Len(l)
  OBVIOUS
<1>2. \A k \in 1 .. Len(l) : l[k] \in Entry /\ l[k].id \in Timers /\ l[k].time \in Nat
  BY EntriesOf
<1>3. /\ Due(l) \in [0 .. Len(l) -> Nat] /\ Due(l)[0] = 0
      /\ \A k \in 1 .. Len(l) : Due(l)[k] = Due(l)[k - 1] + l[k].time
  BY DueSums DEF Sums
<1>4. \A k \in 1 .. Len(l) : k # 1 => n[k] = l[k]
  BY <1>1
<1>5. n[1] = [l[1] EXCEPT !.time = l[1].time - d]
  BY <1>1
<1>6. n[1] \in Entry /\ n[1].id = l[1].id /\ n[1].time = l[1].time - d
  <2>1. l[1] \in Entry /\ l[1].time - d \in Nat
    BY <1>1, <1>2
  <2>2. n[1] \in Entry
    BY <1>5, <2>1 DEF Entry
  <2>3. n[1].id = l[1].id /\ n[1].time = l[1].time - d
    BY <1>5, <2>1 DEF Entry
  <2> QED
    BY <2>2, <2>3
<1>7. n \in Seq(Entry) /\ Len(n) = Len(l)
  <2>1. DOMAIN n = 1 .. Len(l) /\ n = [k \in 1 .. Len(l) |-> n[k]]
    BY <1>1
  <2>2. \A k \in 1 .. Len(l) : n[k] \in Entry
    BY <1>2, <1>4, <1>6
  <2>3. n \in [1 .. Len(l) -> Entry]
    BY <2>1, <2>2
  <2> QED
    BY <1>1, <2>3
<1>8. \A k \in 1 .. Len(l) : Due(l)[k] - d \in Nat
  <2> DEFINE S == { k \in 0 .. Len(l) : k = 0 \/ Due(l)[k] >= d }
  <2>1. ASSUME NEW k \in 0 .. Len(l) - 1, k \in S PROVE k + 1 \in S
    <3>1. PICK p \in 1 .. Len(l) : p = k + 1
      BY <1>1
    <3>2. Due(l)[p] = Due(l)[p - 1] + l[p].time /\ l[p].time \in Nat /\ p - 1 = k
          /\ Due(l)[k] \in Nat
      BY <1>2, <1>3, <3>1
    <3>3. CASE k = 0
      BY <1>3, <3>1, <3>2, <3>3
    <3>4. CASE k # 0
      BY <2>1, <3>1, <3>2, <3>4
    <3> QED
      BY <3>3, <3>4
  <2>2. S = 0 .. Len(l)
    <3>1. S \in SUBSET (0 .. Len(l)) /\ 0 \in S
      BY <1>1
    <3> HIDE DEF S
    <3> QED
      BY <1>1, <2>1, <3>1, UpTo
  <2>3. \A k \in 1 .. Len(l) : Due(l)[k] >= d /\ Due(l)[k] \in Nat
    BY <1>1, <1>3, <2>2
  <2> QED
    BY <2>3
<1>9. Sums(n, sum)
  <2>1. sum \in [0 .. Len(l) -> Nat] /\ sum[0] = 0
    BY <1>1, <1>8
  <2>2. ASSUME NEW k \in 1 .. Len(l) PROVE sum[k] = sum[k - 1] + n[k].time
    <3>1. Due(l)[k] = Due(l)[k - 1] + l[k].time /\ l[k].time \in Nat /\ Due(l)[k - 1] \in Nat
      BY <1>2, <1>3
    <3>2. CASE k = 1
      <4>1. sum[k] = Due(l)[1] - d /\ sum[k - 1] = 0 /\ Due(l)[1] = l[1].time
        BY <1>1, <1>3, <3>1, <3>2
      <4> QED
        BY <1>1, <1>2, <1>6, <3>2, <4>1
    <3>3. CASE k # 1
      <4>1. sum[k] = Due(l)[k] - d /\ sum[k - 1] = Due(l)[k - 1] - d /\ n[k] = l[k]
        BY <1>1, <1>4, <3>3
      <4>2. n[k].time = l[k].time
        BY <4>1, Zenon
      <4>3. Due(l)[k] \in Nat
        BY <1>1, <1>3
      <4> HIDE DEF sum
      <4> QED
        BY <3>1, <4>1, <4>2, <4>3
    <3> QED
      BY <3>2, <3>3
  <2> HIDE DEF sum
  <2> QED
    BY <1>7, <2>1, <2>2 DEF Sums
<1>10. Due(n) = sum
  <2> HIDE DEF sum
  <2> QED
    BY <1>7, <1>9, DueSums, SumsUnique
<1>11. \A k \in 1 .. Len(l) : n[k].id = l[k].id /\ Due(n)[k] = Due(l)[k] - d
  BY <1>1, <1>4, <1>6, <1>10
<1> QED
  BY <1>7, <1>11 DEF Moves

-----------------------------------------------------------------------------
(* Callers with a message in the mailbox, and the one the thread works for.*)
Posted == { c \in Callers : \E k \in DOMAIN mbox : mbox[k] = c }
Served == { c \in Callers : tpc \in {"got", "work"} /\ hand = c }
InHand == IF tpc \in {"got", "work"} /\ hand = Packet THEN 1 ELSE 0

(* Every message of the pool is in the mailbox or in the hand of the       *)
(* thread, and the others in the mailbox are of different callers.         *)
Counted == Cardinality(Posted) + pool = Len(mbox) + InHand
OnePerCaller == \A j, k \in DOMAIN mbox : mbox[j] = mbox[k] /\ mbox[j] \in Callers => j = k

(* A caller who waits is in one place.                                     *)
InOnePlace ==
    /\ Posted \cup Served \cup sem \cup deferred \subseteq { c \in Callers : cpc[c] = "wait" }
    /\ Posted \cap Served = {} /\ Posted \cap sem = {} /\ Posted \cap deferred = {}
    /\ Served \cap sem = {} /\ Served \cap deferred = {} /\ sem \cap deferred = {}

MailInv == Counted /\ OnePerCaller /\ InOnePlace

(* What the thread has in its hand fits what it does.                      *)
HandInv ==
    /\ tpc = "handler" => hand \in Timers
    /\ tpc \in {"got", "work"} => hand \in Callers \cup {Packet}
    /\ tpc = "boot" => ~active /\ mbox = << >> /\ \A c \in Callers : cpc[c] = "idle"

(* What it takes for the timers to be in order.                            *)
TimerInv == HandInv /\ TimersAreArmed /\ TimeIsAccounted
Ids(l) == [k \in DOMAIN l |-> l[k].id]

(* The types, one by one.                                                  *)
LEMMA Types ==
    TypeOK <=> /\ list \in Seq(Entry) /\ active \in BOOLEAN /\ pcbs \in BOOLEAN
               /\ mbox \in Seq(Callers \cup {Packet}) /\ Len(mbox) <= MBOX_SIZE
               /\ pool \in 0 .. NUM_INPKT
               /\ tpc \in {"boot", "again", "wait", "forever", "got", "handler", "work"}
               /\ hand \in Timers \cup Callers \cup {Packet}
               /\ waited \in Nat
               /\ cpc \in [Callers -> {"idle", "post", "wait"}]
               /\ sem \subseteq Callers /\ deferred \subseteq Callers
               /\ real \in [Timers -> Nat] /\ early \in [Timers -> Nat]
               /\ late \in [Timers -> Nat]
<1>1. {real, early, late} \subseteq [Timers -> Nat]
          <=> /\ real \in [Timers -> Nat] /\ early \in [Timers -> Nat]
              /\ late \in [Timers -> Nat]
  OBVIOUS
<1> QED
  BY <1>1, Zenon DEF TypeOK, Entry

(* Armed in the list, once each.                                           *)
LEMMA ArmedIds ==
    ASSUME NEW l \in Seq(Entry)
    PROVE  /\ Armed(l) \subseteq Timers
           /\ \A t : t \in Armed(l) <=> \E k \in 1 .. Len(l) : l[k].id = t
           /\ IsInjective(Ids(l)) <=> \A j, k \in 1 .. Len(l) : l[j].id = l[k].id => j = k
<1>1. Len(l) \in Nat /\ DOMAIN l = 1 .. Len(l) /\ \A k \in 1 .. Len(l) : l[k].id \in Timers
  BY EntriesOf
<1>2. \A t : t \in Armed(l) <=> \E k \in 1 .. Len(l) : l[k].id = t
  BY <1>1 DEF Armed
<1>3. IsInjective(Ids(l)) <=> \A j, k \in 1 .. Len(l) : l[j].id = l[k].id => j = k
  BY <1>1, Zenon DEF IsInjective, Ids
<1>4. Armed(l) \subseteq Timers
  BY <1>1, <1>2
<1> QED
  BY <1>2, <1>3, <1>4

(* A timer is armed that was not.                                          *)
LEMMA ArmKeeps ==
    ASSUME TypeOK, TimeIsAccounted, IsInjective(Ids(list)),
           tpc \notin {"wait", "got"}, tpc' \notin {"wait", "got"},
           NEW id \in Timers, id \notin Armed(list), Arm(id)
    PROVE  /\ list' \in Seq(Entry) /\ real' \in [Timers -> Nat]
           /\ early' \in [Timers -> Nat] /\ late' \in [Timers -> Nat]
           /\ Armed(list') = Armed(list) \cup {id}
           /\ IsInjective(Ids(list'))
           /\ TimeIsAccounted'
<1>1. /\ list \in Seq(Entry) /\ real \in [Timers -> Nat] /\ early \in [Timers -> Nat]
      /\ late \in [Timers -> Nat]
  BY Types
<1>2. /\ list' = sys_timeout(list, id)
      /\ real' = [real EXCEPT ![id] = 0] /\ early' = [early EXCEPT ![id] = 0]
      /\ late' = [late EXCEPT ![id] = 0]
  BY DEF Arm
<1>3. real' \in [Timers -> Nat] /\ early' \in [Timers -> Nat] /\ late' \in [Timers -> Nat]
  BY <1>1, <1>2
<1>11. PICK n : n = list' /\ n = sys_timeout(list, id)
  BY <1>2
<1>12. Adds(list', list, id)
  BY <1>1, <1>11, TimeoutKeepsTimes, Zenon
<1>4. list' \in Seq(Entry) /\ Len(list') = Len(list) + 1
  BY <1>12 DEF Adds
<1>5. PICK p \in 1 .. Len(list) + 1 :
          /\ list'[p].id = id /\ Due(list')[p] = Period[id]
          /\ \A j \in 1 .. Len(list) + 1 :
                 /\ j < p => list'[j].id = list[j].id /\ Due(list')[j] = Due(list)[j]
                 /\ j > p => list'[j].id = list[j - 1].id /\ Due(list')[j] = Due(list)[j - 1]
  BY <1>12 DEF Adds
<1>6. /\ Len(list) \in Nat
      /\ \A k \in 1 .. Len(list) : list[k].id \in Timers \ {id}
      /\ \A j, k \in 1 .. Len(list) : list[j].id = list[k].id => j = k
  BY <1>1, EntriesOf, ArmedIds
<1>7. ASSUME NEW j \in 1 .. Len(list) + 1, j # p
      PROVE  \E i \in 1 .. Len(list) :
                 /\ list'[j].id = list[i].id /\ Due(list')[j] = Due(list)[i]
                 /\ i = IF j < p THEN j ELSE j - 1
  <2>1. CASE j < p
    <3>1. j \in 1 .. Len(list)
      BY <1>6, <2>1
    <3> QED
      BY <1>5, <2>1, <3>1
  <2>2. CASE j > p
    <3>1. PICK i \in 1 .. Len(list) : i = j - 1
      BY <1>6, <2>2
    <3>2. ~ (j < p) /\ p \in Int
      BY <1>6, <2>2
    <3> QED
      BY <1>5, <2>2, <3>1, <3>2
  <2>3. j < p \/ j > p
    BY <1>6, <1>7
  <2> QED
    BY <2>1, <2>2, <2>3, Zenon
<1>8. Armed(list') = Armed(list) \cup {id}
  <2>1. ASSUME NEW t \in Armed(list') PROVE t \in Armed(list) \cup {id}
    <3>1. PICK j \in 1 .. Len(list) + 1 : list'[j].id = t
      BY <1>4, <2>1, ArmedIds
    <3> QED
      BY <1>1, <1>5, <1>7, <3>1, ArmedIds
  <2>2. id \in Armed(list')
    BY <1>4, <1>5, ArmedIds
  <2>3. ASSUME NEW i \in 1 .. Len(list) PROVE list[i].id \in Armed(list')
    <3>1. CASE i < p
      <4>1. i \in 1 .. Len(list) + 1 /\ list'[i].id = list[i].id
        BY <1>5, <1>6, <3>1
      <4> QED
        BY <1>4, <4>1, ArmedIds
    <3>2. CASE i >= p
      <4>1. PICK j \in 1 .. Len(list) + 1 : j = i + 1 /\ j > p /\ j - 1 = i
        BY <1>6, <3>2
      <4>2. list'[j].id = list[i].id
        BY <1>5, <4>1
      <4> QED
        BY <1>4, <4>2, ArmedIds
    <3> QED
      BY <1>6, <3>1, <3>2
  <2>4. \A t \in Armed(list) : t \in Armed(list')
    BY <1>1, <2>3, ArmedIds
  <2> QED
    BY <2>1, <2>2, <2>4
<1>9. IsInjective(Ids(list'))
  <2>1. ASSUME NEW j \in 1 .. Len(list) + 1, NEW k \in 1 .. Len(list) + 1,
               list'[j].id = list'[k].id
        PROVE  j = k
    <3>1. CASE j = p /\ k # p
      BY <1>5, <1>6, <1>7, <2>1, <3>1
    <3>2. CASE j # p /\ k = p
      BY <1>5, <1>6, <1>7, <2>1, <3>2
    <3>3. CASE j # p /\ k # p
      <4>1. PICK i \in 1 .. Len(list) :
                list'[j].id = list[i].id /\ i = IF j < p THEN j ELSE j - 1
        BY <1>7, <3>3
      <4>2. PICK h \in 1 .. Len(list) :
                list'[k].id = list[h].id /\ h = IF k < p THEN k ELSE k - 1
        BY <1>7, <3>3
      <4>3. i = h
        BY <1>6, <2>1, <4>1, <4>2
      <4> QED
        BY <1>6, <3>3, <4>1, <4>2, <4>3
    <3> QED
      BY <3>1, <3>2, <3>3
  <2> QED
    BY <1>4, <2>1, ArmedIds
<1>10. TimeIsAccounted'
  <2>1. ASSUME NEW k \in 1 .. Len(list)
        PROVE  LET t == list[k].id IN Due(list)[k] + real[t] + early[t] = Period[t] + late[t]
    <3>1. DOMAIN list = 1 .. Len(list) /\ Due(list)[k] \in Nat /\ list[k].id \in Timers
      BY <1>1, EntriesOf, DueSums DEF Sums
    <3>2. Period[list[k].id] \in Nat
      BY <3>1, TimerAssumption DEF Timers
    <3>3. LET t == list[k].id IN
          Due(list)[k] + real[t] + early[t]
              = Period[t] + late[t] + (IF tpc \in {"wait", "got"} THEN waited ELSE 0)
      BY <3>1, Zenon DEF TimeIsAccounted
    <3> QED
      BY <1>1, <3>1, <3>2, <3>3
  <2>2. ASSUME NEW j \in 1 .. Len(list) + 1
        PROVE  LET t == list'[j].id IN
               Due(list')[j] + real'[t] + early'[t] = Period[t] + late'[t]
    <3>1. CASE j = p
      <4>1. Period[id] \in Nat
        BY TimerAssumption DEF Timers
      <4> QED
        BY <1>1, <1>2, <1>5, <3>1, <4>1
    <3>2. CASE j # p
      <4>1. PICK i \in 1 .. Len(list) :
                list'[j].id = list[i].id /\ Due(list')[j] = Due(list)[i]
        BY <1>7, <3>2
      <4>2. list[i].id \in Timers \ {id}
        BY <1>6
      <4>3. /\ real'[list[i].id] = real[list[i].id] /\ early'[list[i].id] = early[list[i].id]
            /\ late'[list[i].id] = late[list[i].id]
        BY <1>1, <1>2, <4>2
      <4> QED
        BY <2>1, <4>1, <4>3
    <3> QED
      BY <3>1, <3>2
  <2>3. DOMAIN list' = 1 .. Len(list) + 1
    BY <1>4
  <2>4. ASSUME NEW j \in 1 .. Len(list) + 1
        PROVE  Period[list'[j].id] + late'[list'[j].id] \in Nat
    <3>1. PICK t \in Timers : t = list'[j].id
      BY <1>4, EntriesOf
    <3>2. Period[t] \in Nat /\ late'[t] \in Nat
      BY <1>3, TimerAssumption DEF Timers
    <3> QED
      BY <3>1, <3>2
  <2> QED
    BY <2>2, <2>3, <2>4 DEF TimeIsAccounted
<1> QED
  BY <1>3, <1>4, <1>8, <1>9, <1>10

(* Each entry of the list, and what is known of its time.                  *)
LEMMA Accounted ==
    ASSUME TypeOK, TimeIsAccounted, NEW k \in 1 .. Len(list)
    PROVE  LET t == list[k].id IN
           /\ t \in Armed(list) /\ t \in Timers /\ Period[t] \in Nat
           /\ real[t] \in Nat /\ early[t] \in Nat /\ late[t] \in Nat
           /\ waited \in Nat /\ Due(list)[k] \in Nat
           /\ Due(list)[k] + real[t] + early[t]
                  = Period[t] + late[t] + (IF tpc \in {"wait", "got"} THEN waited ELSE 0)
<1>1. list \in Seq(Entry) /\ waited \in Nat
  BY Types
<1>2. DOMAIN list = 1 .. Len(list) /\ Due(list)[k] \in Nat
  BY <1>1, EntriesOf, DueSums DEF Sums
<1>3. list[k].id \in Timers /\ list[k].id \in Armed(list)
  BY <1>1, EntriesOf, ArmedIds
<1>4. /\ Period[list[k].id] \in Nat /\ real[list[k].id] \in Nat /\ early[list[k].id] \in Nat
      /\ late[list[k].id] \in Nat
  BY <1>3, Types, TimerAssumption DEF Timers
<1>5. LET t == list[k].id IN
      Due(list)[k] + real[t] + early[t]
          = Period[t] + late[t] + (IF tpc \in {"wait", "got"} THEN waited ELSE 0)
  BY <1>2, Zenon DEF TimeIsAccounted
<1> QED
  BY <1>1, <1>2, <1>3, <1>4, <1>5

(* The list is empty only before the timers are armed.                     *)
LEMMA ListNotEmpty ==
    ASSUME TypeOK, TimersAreArmed, tpc \in {"again", "wait", "got", "work"}
    PROVE  /\ list # << >> /\ Len(list) \in Nat /\ Len(list) > 0
           /\ list[1] \in Entry /\ list[1].id \in Armed(list) /\ list[1].id \in Timers
           /\ list[1].time \in Nat /\ Head(list) = list[1]
           /\ Armed(list) = Cyclic \cup (IF active THEN {Tcp} ELSE {})
<1>1. Armed(list) = Cyclic \cup (IF active THEN {Tcp} ELSE {})
  BY DEF TimersAreArmed
<1>2. list \in Seq(Entry) /\ Cyclic # {}
  BY Types, TimerAssumption
<1>3. list # << >>
  <2>1. PICK t : t \in Armed(list)
    BY <1>1, <1>2
  <2>2. PICK k \in DOMAIN list : TRUE
    BY <2>1 DEF Armed
  <2> QED
    BY <2>2
<1>4. Len(list) \in Nat /\ Len(list) > 0 /\ Head(list) = list[1] /\ 1 \in 1 .. Len(list)
  BY <1>2, <1>3
<1>5. list[1] \in Entry /\ list[1].id \in Timers /\ list[1].time \in Nat
      /\ list[1].id \in Armed(list)
  BY <1>2, <1>4, EntriesOf, ArmedIds
<1> QED
  BY <1>1, <1>3, <1>4, <1>5

(* The list stays as it is, and no clock that TimeIsAccounted reads moves. *)
LEMMA SameTimes ==
    ASSUME TypeOK, TimeIsAccounted, UNCHANGED << list, clock >>,
           (IF tpc' \in {"wait", "got"} THEN waited' ELSE 0)
               = (IF tpc \in {"wait", "got"} THEN waited ELSE 0)
    PROVE  TimeIsAccounted'
  BY DEF TimeIsAccounted, clock

(* sys_timeouts_init.                                                      *)
LEMMA BootKeeps ==
    ASSUME TypeOK, TimerInv, NEW t \in Cyclic, Boot(t)
    PROVE  TypeOK' /\ TimerInv'
<1>1. /\ tpc = "boot" /\ tpc' \in {"boot", "again"} /\ t \in Timers /\ t \notin Armed(list)
      /\ Arm(t) /\ TimeIsAccounted /\ IsInjective(Ids(list)) /\ Armed(list) \subseteq Cyclic
  BY DEF Boot, Timers, TimerInv, TimersAreArmed, Ids
<1>2. /\ list' \in Seq(Entry) /\ real' \in [Timers -> Nat]
      /\ early' \in [Timers -> Nat] /\ late' \in [Timers -> Nat]
      /\ Armed(list') = Armed(list) \cup {t}
      /\ IsInjective(Ids(list'))
      /\ TimeIsAccounted'
  BY <1>1, ArmKeeps
<1>3. UNCHANGED << active, pcbs, mbox, pool, hand, waited, cpc, sem, deferred >>
  BY DEF Boot, mail, calls
<1>4. active' \in BOOLEAN /\ pcbs' \in BOOLEAN
  BY <1>3, Types
<1>5. TypeOK'
  <2>1. /\ mbox' \in Seq(Callers \cup {Packet}) /\ Len(mbox') <= MBOX_SIZE
        /\ pool' \in 0 .. NUM_INPKT
        /\ tpc' \in {"boot", "again", "wait", "forever", "got", "handler", "work"}
        /\ hand' \in Timers \cup Callers \cup {Packet}
        /\ waited' \in Nat
        /\ cpc' \in [Callers -> {"idle", "post", "wait"}]
        /\ sem' \subseteq Callers /\ deferred' \subseteq Callers
    BY <1>1, <1>3, Types
  <2> QED
    BY <1>2, <1>4, <2>1 DEF TypeOK, Entry
<1>6. HandInv'
  BY <1>1, <1>3 DEF TimerInv, HandInv
<1>7. TimersAreArmed'
  <2>1. ~active' /\ ~pcbs'
    BY <1>1, <1>3 DEF TimerInv, HandInv, TimersAreArmed
  <2>2. Armed(list') = Armed(list)'
    BY DEF Armed
  <2>3. IsInjective([k \in DOMAIN list |-> list[k].id])'
    BY <1>2 DEF Ids, IsInjective
  <2>4. IF tpc' = "boot" THEN Armed(list)' \subseteq Cyclic ELSE Armed(list)' = Cyclic
    BY <1>1, <1>2, <2>2 DEF Boot
  <2>5. tpc' # "handler" /\ tpc' # "forever"
    BY <1>1
  <2> QED
    BY <2>1, <2>3, <2>4, <2>5 DEF TimersAreArmed
<1> QED
  BY <1>2, <1>5, <1>6, <1>7 DEF TimerInv

(* sys_timeouts_mbox_fetch computes the time it may wait.                  *)
LEMMA FetchKeeps ==
    ASSUME TypeOK, TimerInv, T_Fetch
    PROVE  TypeOK' /\ TimerInv'
<1>1. tpc = "again" /\ tpc' = "wait" /\ waited' = 0
  BY ListNotEmpty DEF T_Fetch, TimerInv
<1>2. UNCHANGED << list, active, pcbs, mbox, pool, hand, cpc, sem, deferred >>
      /\ UNCHANGED clock
  BY DEF T_Fetch, timers, mail, calls
<1>3. active' \in BOOLEAN /\ pcbs' \in BOOLEAN
  BY <1>2, Types
<1>4. TypeOK'
  BY <1>1, <1>2, <1>3 DEF TypeOK, clock
<1>5. TimeIsAccounted'
  BY <1>1, <1>2, SameTimes DEF TimerInv
<1>6. TimersAreArmed'
  BY <1>1, <1>2 DEF TimerInv, TimersAreArmed, Armed
<1>7. HandInv'
  BY <1>1 DEF HandInv
<1> QED
  BY <1>4, <1>5, <1>6, <1>7 DEF TimerInv

(* A timeout leaves the list, and its handler will run.                    *)
LEMMA TimeoutKeeps ==
    ASSUME TypeOK, TimerInv, T_Timeout
    PROVE  TypeOK' /\ TimerInv'
<1>1. /\ tpc \in {"again", "wait"} /\ tpc' = "handler" /\ waited' = 0
      /\ hand' = Head(list) .id /\ list' = Tail(list)
      /\ Head(list).time = IF tpc = "wait" THEN waited ELSE 0
  BY DEF T_Timeout
<1>2. UNCHANGED << active, pcbs, mbox, pool, cpc, sem, deferred >> /\ UNCHANGED clock
  BY DEF T_Timeout, mail, calls
<1>3. /\ list # << >> /\ list[1].id \in Armed(list) /\ list[1].id \in Timers
      /\ list[1].time \in Nat /\ Head(list) = list[1]
      /\ Armed(list) = Cyclic \cup (IF active THEN {Tcp} ELSE {})
  BY <1>1, ListNotEmpty DEF TimerInv
<1>4. list \in Seq(Entry)
  BY Types
<1>5. /\ list' \in Seq(Entry) /\ Len(list') = Len(list) - 1
      /\ \A k \in 1 .. Len(list) - 1 : list'[k] = list[k + 1]
      /\ \A k \in 0 .. Len(list) - 1 : Due(list')[k] = Due(list)[k + 1] - list[1].time
  BY <1>1, <1>3, <1>4, TailTimes, Zenon
<1>6. active' \in BOOLEAN /\ pcbs' \in BOOLEAN
  BY <1>2, Types
<1>7. TypeOK'
  <2>1. hand' \in Timers \cup Callers \cup {Packet} /\ waited' \in Nat
        /\ tpc' \in {"boot", "again", "wait", "forever", "got", "handler", "work"}
    BY <1>1, <1>3
  <2> QED
    BY <1>2, <1>5, <1>6, <2>1 DEF TypeOK, Entry, clock
<1>8. Len(list) \in Nat /\ Len(list) > 0 /\ 1 \in 1 .. Len(list)
      /\ \A j, k \in 1 .. Len(list) : list[j].id = list[k].id => j = k
  BY <1>3, <1>4, ArmedIds DEF TimerInv, TimersAreArmed, Ids
<1>9. TimeIsAccounted'
  <2>4. PICK x \in Nat : x = list[1].time /\ x = IF tpc = "wait" THEN waited ELSE 0
    BY <1>1, <1>3
  <2>5. ASSUME NEW p \in 1 .. Len(list)
        PROVE  LET t == list[p].id IN
               Due(list)[p] - x + real[t] + early[t] = Period[t] + late[t]
    <3>1. LET t == list[p].id IN
          /\ t \in Armed(list) /\ t \in Timers /\ Period[t] \in Nat
          /\ real[t] \in Nat /\ early[t] \in Nat /\ late[t] \in Nat
          /\ waited \in Nat /\ Due(list)[p] \in Nat
          /\ Due(list)[p] + real[t] + early[t]
                 = Period[t] + late[t] + (IF tpc \in {"wait", "got"} THEN waited ELSE 0)
      BY Accounted DEF TimerInv
    <3>2. PICK t : t = list[p].id
      OBVIOUS
    <3>3. /\ Period[t] \in Nat /\ real[t] \in Nat /\ early[t] \in Nat /\ late[t] \in Nat
          /\ Due(list)[p] \in Nat
          /\ Due(list)[p] + real[t] + early[t] = Period[t] + late[t] + x
      BY <1>1, <2>4, <3>1, <3>2
    <3>4. Due(list)[p] - x + real[t] + early[t] = Period[t] + late[t]
      <4>1. PICK a \in Nat, r \in Nat, b \in Nat, q \in Nat, l \in Nat :
                /\ a = Due(list)[p] /\ r = real[t] /\ b = early[t]
                /\ q = Period[t] /\ l = late[t]
        BY <3>3, Zenon
      <4>2. a + r + b = q + l + x
        BY <3>3, <4>1, Zenon
      <4>3. a - x + r + b = q + l
        BY <2>4, <4>2
      <4> QED
        BY <4>1, <4>3, Zenon
    <3> QED
      BY <3>2, <3>4
  <2>1. ASSUME NEW k \in 1 .. Len(list) - 1
        PROVE  LET t == list'[k].id IN
               Due(list')[k] + real'[t] + early'[t] = Period[t] + late'[t]
    <3>1. PICK p \in 1 .. Len(list) : p = k + 1
      BY <1>8
    <3>2. list'[k] = list[p] /\ Due(list')[k] = Due(list)[p] - x
      BY <1>5, <1>8, <2>4, <3>1
    <3>3. real' = real /\ early' = early /\ late' = late
      BY <1>2 DEF clock
    <3> QED
      BY <2>5, <3>2, <3>3
  <2>2. DOMAIN list' = 1 .. Len(list) - 1 /\ tpc' \notin {"wait", "got"}
    BY <1>1, <1>5
  <2>3. ASSUME NEW k \in 1 .. Len(list) - 1
        PROVE  Period[list'[k].id] + late'[list'[k].id] \in Nat
    <3>1. PICK t \in Timers : t = list'[k].id
      BY <1>5, EntriesOf
    <3>2. Period[t] \in Nat /\ late'[t] \in Nat
      BY <1>2, Types, TimerAssumption DEF Timers, clock
    <3> QED
      BY <3>1, <3>2
  <2> QED
    BY <2>1, <2>2, <2>3 DEF TimeIsAccounted
<1>10. TimersAreArmed'
  <2>1. IsInjective(Ids(list'))
    <3>1. ASSUME NEW j \in 1 .. Len(list) - 1, NEW k \in 1 .. Len(list) - 1,
                 list'[j].id = list'[k].id
          PROVE  j = k
      <4>1. j + 1 \in 1 .. Len(list) /\ k + 1 \in 1 .. Len(list)
        BY <1>8
      <4>2. list[j + 1].id = list[k + 1].id
        BY <1>5, <3>1
      <4>3. j + 1 = k + 1
        BY <1>8, <4>1, <4>2
      <4> QED
        BY <4>3
    <3> QED
      BY <1>5, <3>1, ArmedIds
  <2>2. Armed(list') = Armed(list) \ {list[1].id}
    <3>1. ASSUME NEW t \in Armed(list') PROVE t \in Armed(list) \ {list[1].id}
      <4>1. PICK k \in 1 .. Len(list) - 1 : list'[k].id = t
        BY <1>5, ArmedIds
      <4>2. PICK p \in 1 .. Len(list) : p = k + 1 /\ p # 1
        BY <1>8
      <4>3. list[p].id = t
        BY <1>5, <4>1, <4>2
      <4> QED
        BY <1>4, <1>8, <4>2, <4>3, ArmedIds
    <3>2. ASSUME NEW t \in Armed(list), t # list[1].id PROVE t \in Armed(list')
      <4>1. PICK p \in 1 .. Len(list) : list[p].id = t
        BY <1>4, ArmedIds
      <4>2. PICK k \in 1 .. Len(list) - 1 : k + 1 = p
        <5>1. p # 1
          BY <3>2, <4>1
        <5>2. p - 1 \in 1 .. Len(list) - 1 /\ p - 1 + 1 = p
          BY <1>8, <5>1
        <5> QED
          BY <5>2
      <4>3. list'[k].id = t
        BY <1>5, <4>1, <4>2
      <4> QED
        BY <1>5, <4>3, ArmedIds
    <3> QED
      BY <3>1, <3>2
  <2>3. Armed(list') = Armed(list)'
    BY DEF Armed
  <2>4. IsInjective([k \in DOMAIN list |-> list[k].id])'
    BY <2>1 DEF Ids, IsInjective
  <2>5. hand' = list[1].id /\ tpc' = "handler" /\ active' = active
        /\ (pcbs' => active')
    BY <1>1, <1>2, <1>3 DEF TimerInv, TimersAreArmed
  <2>6. /\ Armed(list)' \cap {hand'} = {}
        /\ Armed(list)' \cup {hand'} = Cyclic \cup (IF active' THEN {Tcp} ELSE {})
    BY <1>3, <2>2, <2>3, <2>5
  <2> QED
    BY <2>4, <2>5, <2>6 DEF TimersAreArmed
<1>11. HandInv'
  BY <1>1, <1>3 DEF HandInv
<1> QED
  BY <1>7, <1>9, <1>10, <1>11 DEF TimerInv

(* The thread takes a message.                                             *)
LEMMA TakeKeeps ==
    ASSUME TypeOK, TimerInv, T_Receive
    PROVE  TypeOK' /\ TimerInv'
<1>1. /\ tpc = "wait" /\ mbox # << >> /\ hand' = Head(mbox) /\ mbox' = Tail(mbox)
      /\ tpc' = "got"
  BY DEF T_Receive
<1>2. UNCHANGED << list, active, pcbs, pool, waited, cpc, sem, deferred >> /\ UNCHANGED clock
  BY DEF T_Receive, timers, calls
<1>3. mbox \in Seq(Callers \cup {Packet}) /\ Len(mbox) <= MBOX_SIZE
  BY Types
<1>4. /\ mbox' \in Seq(Callers \cup {Packet}) /\ Len(mbox') <= MBOX_SIZE
      /\ hand' \in Callers \cup {Packet}
  <2>1. /\ Tail(mbox) \in Seq(Callers \cup {Packet}) /\ Len(Tail(mbox)) = Len(mbox) - 1
        /\ Head(mbox) \in Callers \cup {Packet} /\ Len(mbox) \in Nat
    BY <1>1, <1>3
  <2> QED
    BY <1>1, <1>3, <2>1, SizeAssumption
<1>5. active' \in BOOLEAN /\ pcbs' \in BOOLEAN
  BY <1>2, Types
<1>6. TypeOK'
  BY <1>1, <1>2, <1>4, <1>5 DEF TypeOK, clock
<1>7. TimeIsAccounted'
  BY <1>1, <1>2, SameTimes DEF TimerInv
<1>8. TimersAreArmed'
  BY <1>1, <1>2 DEF TimerInv, TimersAreArmed, Armed
<1>9. HandInv'
  BY <1>1, <1>4 DEF HandInv
<1> QED
  BY <1>6, <1>7, <1>8, <1>9 DEF TimerInv

(* More time on the clocks of the timers in the list.                      *)
LEMMA PlusMore ==
    ASSUME NEW h \in [Timers -> Nat], NEW n \in Nat
    PROVE  /\ Plus(h, n) \in [Timers -> Nat]
           /\ \A t \in Timers : t \in Armed(list) => Plus(h, n)[t] = h[t] + n
  BY DEF Plus

(* The time waited, at least a ms, is taken off the list.                  *)
LEMMA AccountKeeps ==
    ASSUME TypeOK, TimerInv, T_Account
    PROVE  TypeOK' /\ TimerInv'
<1> DEFINE elapsed == IF waited = 0 THEN 1 ELSE waited
<1>1. tpc = "got" /\ tpc' = "work" /\ waited' = 0
  BY DEF T_Account
<1>2. UNCHANGED << active, pcbs, mbox, pool, hand, cpc, sem, deferred, real >>
  BY DEF T_Account, mail, calls
<1>3. /\ list # << >> /\ Len(list) \in Nat /\ Len(list) > 0
      /\ list[1].time \in Nat /\ Head(list) = list[1]
  BY <1>1, ListNotEmpty DEF TimerInv
<1>4. /\ list \in Seq(Entry) /\ waited \in Nat /\ real \in [Timers -> Nat]
      /\ early \in [Timers -> Nat] /\ late \in [Timers -> Nat]
  BY Types
<1>5. PICK d \in Nat : /\ d = IF elapsed < list[1].time THEN elapsed ELSE list[1].time
                       /\ d <= list[1].time
  <2>1. PICK a \in Nat, b \in Nat : a = elapsed /\ b = list[1].time
    BY <1>3, <1>4
  <2>2. PICK d \in Nat : d = (IF a < b THEN a ELSE b) /\ d <= b
    OBVIOUS
  <2> HIDE DEF elapsed
  <2> QED
    BY <2>1, <2>2, Zenon
<1>6. PICK e \in Nat : e = elapsed - waited /\ elapsed = waited + e
  BY <1>4
<1>7. PICK g \in Nat : /\ g = IF elapsed < list[1].time THEN 0 ELSE elapsed - list[1].time
                       /\ g + d = elapsed
  BY <1>3, <1>4, <1>5
<1>8. list' = [list EXCEPT ![1].time = list[1].time - d]
  <2>1. list' = [list EXCEPT ![1].time = IF elapsed < list[1].time THEN list[1].time - elapsed
                                         ELSE 0]
    BY <1>3 DEF T_Account
  <2>2. (IF elapsed < list[1].time THEN list[1].time - elapsed ELSE 0) = list[1].time - d
    BY <1>3, <1>4, <1>5
  <2> HIDE DEF elapsed
  <2> QED
    BY <2>1, <2>2
<1>9. Moves(list', list, d)
  <2>1. PICK n : n = list' /\ n = [list EXCEPT ![1].time = list[1].time - d]
    BY <1>8
  <2>2. Moves(n, list, d)
    BY <1>3, <1>4, <1>5, <2>1, EarlierTimes, Zenon
  <2> QED
    BY <2>1, <2>2, Zenon
<1>10. early' = Plus(early, e) /\ late' = Plus(late, g)
  <2>1. early' = Plus(early, elapsed - waited)
    BY DEF T_Account
  <2>2. late' = Plus(late, IF elapsed < Head(list).time THEN 0 ELSE elapsed - Head(list).time)
    BY DEF T_Account
  <2> HIDE DEF elapsed
  <2> QED
    BY <1>3, <1>6, <1>7, <2>1, <2>2, Zenon
<1>11. /\ early' \in [Timers -> Nat] /\ late' \in [Timers -> Nat]
       /\ \A t \in Timers : t \in Armed(list) => /\ early'[t] = early[t] + e
                                                /\ late'[t] = late[t] + g
  BY <1>4, <1>10, PlusMore
<1>12. active' \in BOOLEAN /\ pcbs' \in BOOLEAN
  BY <1>2, Types
<1>13. list' \in Seq(Entry) /\ Len(list') = Len(list)
       /\ \A k \in 1 .. Len(list) : /\ list'[k].id = list[k].id
                                     /\ Due(list')[k] = Due(list)[k] - d
  BY <1>9 DEF Moves
<1>14. TypeOK'
  BY <1>1, <1>2, <1>11, <1>12, <1>13 DEF TypeOK, Entry
<1>15. TimeIsAccounted'
  <2>1. ASSUME NEW k \in 1 .. Len(list)
        PROVE  LET t == list'[k].id IN
               /\ Due(list')[k] + real'[t] + early'[t] = Period[t] + late'[t]
               /\ Period[t] + late'[t] \in Nat
    <3>1. LET t == list[k].id IN
          /\ t \in Armed(list) /\ t \in Timers /\ Period[t] \in Nat
          /\ real[t] \in Nat /\ early[t] \in Nat /\ late[t] \in Nat
          /\ waited \in Nat /\ Due(list)[k] \in Nat
          /\ Due(list)[k] + real[t] + early[t]
                 = Period[t] + late[t] + (IF tpc \in {"wait", "got"} THEN waited ELSE 0)
      BY Accounted DEF TimerInv
    <3>2. PICK t \in Timers : t = list[k].id
      BY <3>1
    <3>3. /\ t \in Armed(list) /\ Period[t] \in Nat
          /\ real[t] \in Nat /\ early[t] \in Nat /\ late[t] \in Nat /\ Due(list)[k] \in Nat
          /\ Due(list)[k] + real[t] + early[t] = Period[t] + late[t] + waited
      BY <1>1, <3>1, <3>2
    <3>4. early'[t] = early[t] + e /\ late'[t] = late[t] + g /\ real'[t] = real[t]
      BY <1>2, <1>11, <3>3
    <3>5. Due(list')[k] = Due(list)[k] - d /\ list'[k].id = t
      BY <1>13, <3>2
    <3>6. g + d = waited + e /\ waited \in Nat
      BY <1>4, <1>6, <1>7
    <3>7. Due(list)[k] - d + real[t] + (early[t] + e) = Period[t] + (late[t] + g)
      <4>1. PICK a \in Nat : a = Due(list)[k]
        BY <3>3
      <4>2. PICK r \in Nat, b \in Nat, p \in Nat, l \in Nat, w \in Nat :
                r = real[t] /\ b = early[t] /\ p = Period[t] /\ l = late[t] /\ w = waited
        BY <3>3, <3>6
      <4>3. a + r + b = p + l + w /\ g + d = w + e
        BY <3>3, <3>6, <4>1, <4>2
      <4>4. a - d + r + (b + e) = p + (l + g)
        BY <4>3
      <4> QED
        BY <4>1, <4>2, <4>4
    <3>8. Period[t] + (late[t] + g) \in Nat
      BY <3>3
    <3> QED
      BY <3>4, <3>5, <3>7, <3>8, Zenon
  <2>2. DOMAIN list' = 1 .. Len(list) /\ tpc' \notin {"wait", "got"}
    BY <1>1, <1>13
  <2> QED
    BY <2>1, <2>2 DEF TimeIsAccounted
<1>16. TimersAreArmed'
  <2>1. DOMAIN list' = DOMAIN list /\ \A k \in DOMAIN list : list'[k].id = list[k].id
    BY <1>4, <1>13
  <2>2. Armed(list)' = Armed(list)
    BY <2>1 DEF Armed
  <2>3. IsInjective([k \in DOMAIN list |-> list[k].id])'
    BY <2>1 DEF TimerInv, TimersAreArmed, IsInjective
  <2> QED
    BY <1>1, <1>2, <2>2, <2>3 DEF TimerInv, TimersAreArmed
<1>17. HandInv'
  BY <1>1, <1>2 DEF TimerInv, HandInv
<1> QED
  BY <1>14, <1>15, <1>16, <1>17 DEF TimerInv

(* A connection may get on or go away.                                     *)
LEMMA CompletePcbs ==
    ASSUME TypeOK, MayComplete
    PROVE  /\ pcbs' \in BOOLEAN /\ (pcbs' => pcbs)
           /\ sem' \subseteq Callers /\ deferred' \subseteq Callers
<1>1. pcbs \in BOOLEAN /\ sem \subseteq Callers /\ deferred \subseteq Callers
  BY Types
<1>2. pcbs' \in BOOLEAN /\ (pcbs' => pcbs)
  BY <1>1, Zenon DEF MayComplete
<1>3. sem' \subseteq Callers /\ deferred' \subseteq Callers
  BY <1>1 DEF MayComplete
<1> QED
  BY <1>2, <1>3

(* The handler of a timer arms it again, that of TCP only when needed.     *)
LEMMA HandlerKeeps ==
    ASSUME TypeOK, TimerInv, T_Handler
    PROVE  TypeOK' /\ TimerInv'
<1>1. /\ tpc = "handler" /\ tpc' = "again" /\ hand \in Timers
      /\ UNCHANGED << hand, waited, mbox, pool, cpc >>
  BY DEF T_Handler, Done, mail, TimerInv, HandInv
<1>2. /\ IsInjective(Ids(list)) /\ hand \notin Armed(list) /\ TimeIsAccounted
      /\ Armed(list) \cup {hand} = Cyclic \cup (IF active THEN {Tcp} ELSE {})
      /\ (pcbs => active)
  BY <1>1 DEF TimerInv, TimersAreArmed, Ids
<1>3. /\ active \in BOOLEAN /\ pcbs \in BOOLEAN
      /\ sem \subseteq Callers /\ deferred \subseteq Callers
  BY Types
<1>4. /\ pcbs' \in BOOLEAN /\ (pcbs' => pcbs)
      /\ sem' \subseteq Callers /\ deferred' \subseteq Callers
  <2>1. CASE hand = Tcp
    BY <2>1, CompletePcbs DEF T_Handler
  <2>2. CASE hand # Tcp
    BY <1>3, <2>2 DEF T_Handler
  <2> QED
    BY <2>1, <2>2
<1>5. CASE hand = Tcp /\ ~pcbs'
  <2>1. active' = FALSE /\ UNCHANGED << list, clock >>
    BY <1>5 DEF T_Handler
  <2>2. TypeOK'
    BY <1>1, <1>3, <1>4, <2>1 DEF TypeOK, clock
  <2>3. TimeIsAccounted'
    BY <1>1, <1>2, <2>1, SameTimes
  <2>4. Armed(list) = Cyclic
    BY <1>2, <1>5, TimerAssumption
  <2>5. TimersAreArmed'
    BY <1>1, <1>2, <1>5, <2>1, <2>4 DEF TimersAreArmed, Armed, Ids
  <2> QED
    BY <1>1, <2>2, <2>3, <2>5 DEF TimerInv, HandInv
<1>6. CASE ~ (hand = Tcp /\ ~pcbs')
  <2>1. Arm(hand) /\ active' = active
    BY <1>6 DEF T_Handler
  <2>2. /\ list' \in Seq(Entry) /\ real' \in [Timers -> Nat]
        /\ early' \in [Timers -> Nat] /\ late' \in [Timers -> Nat]
        /\ Armed(list') = Armed(list) \cup {hand}
        /\ IsInjective(Ids(list'))
        /\ TimeIsAccounted'
    BY <1>1, <1>2, <2>1, ArmKeeps
  <2>3. active' \in BOOLEAN
    BY <1>3, <2>1
  <2>4. TypeOK'
    BY <1>1, <1>4, <2>2, <2>3 DEF TypeOK, Entry
  <2>5. TimersAreArmed'
    <3>1. Armed(list') = Armed(list)'
      BY DEF Armed
    <3>2. IsInjective([k \in DOMAIN list |-> list[k].id])'
      BY <2>2 DEF Ids, IsInjective
    <3> QED
      BY <1>1, <1>2, <1>4, <2>1, <2>2, <3>1, <3>2 DEF TimersAreArmed
  <2> QED
    BY <1>1, <2>2, <2>4, <2>5 DEF TimerInv, HandInv
<1> QED
  BY <1>5, <1>6

(* A call that is completed later needs the timer of TCP.                  *)
LEMMA ApiLaterKeeps ==
    ASSUME TypeOK, TimerInv, T_ApiLater
    PROVE  TypeOK' /\ TimerInv'
<1>1. /\ tpc = "work" /\ tpc' = "again" /\ hand \in Callers
      /\ deferred' = deferred \cup {hand} /\ pcbs' = TRUE /\ active' = TRUE
      /\ UNCHANGED << hand, waited, mbox, pool, cpc, sem >>
  BY DEF T_ApiLater, Done, mail
<1>2. /\ IsInjective(Ids(list)) /\ TimeIsAccounted
      /\ Armed(list) = Cyclic \cup (IF active THEN {Tcp} ELSE {})
  BY <1>1 DEF TimerInv, TimersAreArmed, Ids
<1>3. deferred' \subseteq Callers
  BY <1>1, Types
<1>4. CASE active
  <2>1. UNCHANGED << list, clock >>
    BY <1>4 DEF T_ApiLater
  <2>2. TypeOK'
    BY <1>1, <1>3, <2>1 DEF TypeOK, clock
  <2>3. TimeIsAccounted'
    BY <1>1, <1>2, <2>1, SameTimes
  <2>4. TimersAreArmed'
    BY <1>1, <1>2, <1>4, <2>1 DEF TimersAreArmed, Armed, Ids
  <2> QED
    BY <1>1, <2>2, <2>3, <2>4 DEF TimerInv, HandInv
<1>5. CASE ~active
  <2>1. Arm(Tcp) /\ Tcp \in Timers /\ Tcp \notin Armed(list)
    BY <1>2, <1>5, TimerAssumption DEF T_ApiLater, Timers
  <2>2. /\ list' \in Seq(Entry) /\ real' \in [Timers -> Nat]
        /\ early' \in [Timers -> Nat] /\ late' \in [Timers -> Nat]
        /\ Armed(list') = Armed(list) \cup {Tcp}
        /\ IsInjective(Ids(list'))
        /\ TimeIsAccounted'
    BY <1>1, <1>2, <2>1, ArmKeeps
  <2>3. TypeOK'
    BY <1>1, <1>3, <2>2 DEF TypeOK, Entry
  <2>4. TimersAreArmed'
    <3>1. Armed(list') = Armed(list)'
      BY DEF Armed
    <3>2. IsInjective([k \in DOMAIN list |-> list[k].id])'
      BY <2>2 DEF Ids, IsInjective
    <3> QED
      BY <1>1, <1>2, <1>5, <2>2, <3>1, <3>2 DEF TimersAreArmed
  <2> QED
    BY <1>1, <2>2, <2>3, <2>4 DEF TimerInv, HandInv
<1> QED
  BY <1>4, <1>5

(* The tick of the clock.                                                  *)
LEMMA TickKeeps ==
    ASSUME TypeOK, TimerInv, Tick
    PROVE  TypeOK' /\ TimerInv'
<1>1. /\ UNCHANGED << list, active, pcbs, mbox, pool, tpc, hand, cpc, sem, deferred, early >>
      /\ real' = Plus(real, 1)
  BY DEF Tick, timers, mail, calls
<1>2. /\ list \in Seq(Entry) /\ waited \in Nat /\ real \in [Timers -> Nat]
      /\ early \in [Timers -> Nat] /\ late \in [Timers -> Nat]
  BY Types
<1>3. \/ tpc \in {"wait", "got"} /\ waited' = waited + 1 /\ late' = late
      \/ tpc \notin {"wait", "got"} /\ waited' = waited /\ late' = Plus(late, 1)
  BY DEF Tick
<1>4. /\ real' \in [Timers -> Nat]
      /\ \A t \in Timers : t \in Armed(list) => real'[t] = real[t] + 1
  BY <1>1, <1>2, PlusMore
<1>5. /\ Plus(late, 1) \in [Timers -> Nat]
      /\ \A t \in Timers : t \in Armed(list) => Plus(late, 1)[t] = late[t] + 1
  BY <1>2, PlusMore
<1>6. late' \in [Timers -> Nat] /\ waited' \in Nat
  BY <1>2, <1>3, <1>5
<1>7. active' \in BOOLEAN /\ pcbs' \in BOOLEAN
  BY <1>1, Types
<1>8. TypeOK'
  BY <1>1, <1>4, <1>6, <1>7 DEF TypeOK
<1>9. TimeIsAccounted'
  <2>1. ASSUME NEW k \in 1 .. Len(list)
        PROVE  LET t == list[k].id IN
               Due(list)[k] + real'[t] + early[t]
                   = Period[t] + late'[t] + (IF tpc \in {"wait", "got"} THEN waited' ELSE 0)
    <3>1. LET t == list[k].id IN
          /\ t \in Armed(list) /\ t \in Timers /\ Period[t] \in Nat
          /\ real[t] \in Nat /\ early[t] \in Nat /\ late[t] \in Nat
          /\ waited \in Nat /\ Due(list)[k] \in Nat
          /\ Due(list)[k] + real[t] + early[t]
                 = Period[t] + late[t] + (IF tpc \in {"wait", "got"} THEN waited ELSE 0)
      BY Accounted DEF TimerInv
    <3>2. PICK t \in Timers : t = list[k].id
      BY <3>1
    <3>3. PICK a \in Nat, r \in Nat, b \in Nat, p \in Nat, l \in Nat :
              /\ a = Due(list)[k] /\ r = real[t] /\ b = early[t]
              /\ p = Period[t] /\ l = late[t]
      BY <3>1, <3>2
    <3>4. real'[t] = r + 1
      BY <1>4, <3>1, <3>2, <3>3
    <3>5. CASE tpc \in {"wait", "got"}
      <4>1. a + r + b = p + l + waited
        BY <3>1, <3>2, <3>3, <3>5
      <4>2. a + (r + 1) + b = p + l + (waited + 1)
        BY <1>2, <4>1
      <4>3. late'[t] = l /\ waited' = waited + 1
        BY <1>3, <3>3, <3>5
      <4> QED
        BY <3>2, <3>3, <3>4, <3>5, <4>2, <4>3, Zenon
    <3>6. CASE tpc \notin {"wait", "got"}
      <4>1. a + r + b = p + l
        BY <3>1, <3>2, <3>3, <3>6
      <4>2. a + (r + 1) + b = p + (l + 1) + 0
        BY <4>1
      <4>3. late'[t] = l + 1
        BY <1>3, <1>5, <3>1, <3>2, <3>3, <3>6
      <4> QED
        BY <3>2, <3>3, <3>4, <3>6, <4>2, <4>3, Zenon
    <3> QED
      BY <3>5, <3>6, Zenon
  <2>2. DOMAIN list = 1 .. Len(list)
    BY <1>2
  <2> QED
    BY <1>1, <2>1, <2>2, Zenon DEF TimeIsAccounted
<1>10. TimersAreArmed'
  BY <1>1 DEF TimerInv, TimersAreArmed, Armed
<1>11. HandInv'
  BY <1>1 DEF TimerInv, HandInv
<1> QED
  BY <1>8, <1>9, <1>10, <1>11 DEF TimerInv

-----------------------------------------------------------------------------
(* Who has posted a message, seen from the mailbox.                        *)
LEMMA PostedIs ==
    ASSUME TypeOK
    PROVE  /\ mbox \in Seq(Callers \cup {Packet}) /\ Len(mbox) \in Nat
           /\ \A c : c \in Posted <=> c \in Callers /\ \E k \in 1 .. Len(mbox) : mbox[k] = c
           /\ IsFiniteSet(Posted) /\ Cardinality(Posted) \in Nat
<1>1. mbox \in Seq(Callers \cup {Packet})
  BY Types
<1>2. Len(mbox) \in Nat /\ DOMAIN mbox = 1 .. Len(mbox)
  BY <1>1
<1>3. \A c : c \in Posted <=> c \in Callers /\ \E k \in 1 .. Len(mbox) : mbox[k] = c
  BY <1>2 DEF Posted
<1>4. IsFiniteSet(Posted) /\ Cardinality(Posted) \in Nat
  <2>1. Posted \in SUBSET Callers
    BY DEF Posted
  <2>2. IsFiniteSet(Posted)
    BY <2>1, SizeAssumption, FS_Subset
  <2> QED
    BY <2>2, FS_CardinalityType
<1> QED
  BY <1>1, <1>2, <1>3, <1>4

(* No more callers have posted than there are messages.                    *)
LEMMA PostedFew ==
    ASSUME TypeOK
    PROVE  Cardinality(Posted) <= Len(mbox)
<1> DEFINE I == 1 .. Len(mbox)
           place == [c \in Posted |-> CHOOSE k \in I : mbox[k] = c]
<1>1. \A c \in Posted : \E k \in I : mbox[k] = c
  BY PostedIs
<1>2. \A c \in Posted : place[c] \in I /\ mbox[place[c]] = c
  BY <1>1
<1>3. place \in Injection(Posted, I)
  <2>1. place \in [Posted -> I]
    BY <1>2
  <2>2. \A a, b \in Posted : place[a] = place[b] => a = b
    BY <1>2
  <2> HIDE DEF place, I
  <2> QED
    BY <2>1, <2>2 DEF Injection, IsInjective
<1>4. IsFiniteSet(I) /\ Cardinality(I) = Len(mbox)
  <2>1. Len(mbox) \in Int /\ 1 \in Int /\ Len(mbox) >= 0
    BY PostedIs
  <2>2. /\ IsFiniteSet(1 .. Len(mbox))
        /\ Cardinality(1 .. Len(mbox)) = IF 1 > Len(mbox) THEN 0 ELSE Len(mbox) - 1 + 1
    BY <2>1, FS_Interval, Zenon
  <2> QED
    BY <2>1, <2>2
<1> HIDE DEF I, place
<1>5. Cardinality(Posted) <= Cardinality(I)
  BY <1>3, <1>4, FS_Injection
<1> QED
  BY <1>4, <1>5

(* Nothing of the mail has changed.                                        *)
LEMMA MailSame ==
    ASSUME MailInv, UNCHANGED << mbox, pool, cpc, sem, deferred >>,
           Served' = Served, InHand' = InHand
    PROVE  MailInv'
<1>1. Posted' = Posted
  BY DEF Posted
<1>2. Counted' /\ OnePerCaller'
  BY <1>1 DEF MailInv, Counted, OnePerCaller
<1>3. InOnePlace'
  BY <1>1 DEF MailInv, InOnePlace
<1> QED
  BY <1>2, <1>3 DEF MailInv

(* So it is as long as the thread does not turn to its mail.               *)
LEMMA MailAside ==
    ASSUME MailInv, HandInv,
           \/ \E t \in Cyclic : Boot(t)
           \/ T_Fetch \/ T_Timeout \/ T_Account \/ Tick
    PROVE  MailInv'
<1>1. UNCHANGED << mbox, pool, cpc, sem, deferred >>
  BY DEF Boot, T_Fetch, T_Timeout, T_Account, Tick, mail, calls
<1>2. \/ tpc \notin {"got", "work"} /\ tpc' \notin {"got", "work"}
      \/ tpc \in {"got", "work"} /\ tpc' \in {"got", "work"} /\ hand' = hand
      \/ tpc' = tpc /\ hand' = hand
  BY DEF Boot, T_Fetch, T_Timeout, T_Account, Tick
<1>3. Served' = Served
  BY <1>2 DEF Served
<1>4. InHand' = InHand
  BY <1>2 DEF InHand
<1> QED
  BY <1>1, <1>3, <1>4, MailSame

(* A call is completed, or none.                                           *)
LEMMA GotOn ==
    ASSUME TypeOK, MailInv, UNCHANGED << mbox, cpc >>, Served' = Served,
           MayComplete \/ UNCHANGED << sem, deferred >>
    PROVE  OnePerCaller' /\ InOnePlace' /\ Posted' = Posted
<1>1. Posted' = Posted
  BY DEF Posted
<1>2. \/ sem' = sem /\ deferred' = deferred
      \/ \E c \in deferred : sem' = sem \cup {c} /\ deferred' = deferred \ {c}
  BY DEF MayComplete
<1>3. InOnePlace'
  BY <1>1, <1>2 DEF MailInv, InOnePlace
<1>4. OnePerCaller'
  BY DEF MailInv, OnePerCaller
<1> QED
  BY <1>1, <1>3, <1>4

(* A handler has run.                                                      *)
LEMMA HandlerMail ==
    ASSUME TypeOK, MailInv, T_Handler
    PROVE  MailInv'
<1>1. /\ tpc = "handler" /\ tpc' = "again" /\ UNCHANGED << mbox, pool, cpc >>
      /\ MayComplete \/ UNCHANGED << sem, deferred >>
  BY DEF T_Handler, Done, mail
<1>2. Served' = Served /\ InHand' = InHand
  BY <1>1 DEF Served, InHand
<1>3. OnePerCaller' /\ InOnePlace' /\ Posted' = Posted
  BY <1>1, <1>2, GotOn
<1>4. Counted'
  BY <1>1, <1>2, <1>3 DEF MailInv, Counted
<1> QED
  BY <1>3, <1>4 DEF MailInv

(* A frame has been handed over: its message is free again.                *)
LEMMA PacketKeeps ==
    ASSUME TypeOK, TimerInv, MailInv, T_Packet
    PROVE  TypeOK' /\ TimerInv' /\ MailInv'
<1>1. /\ tpc = "work" /\ hand = Packet /\ tpc' = "again" /\ pool' = pool - 1
      /\ MayComplete
      /\ UNCHANGED << hand, waited, list, active, mbox, cpc, real, early, late >>
  BY DEF T_Packet, Done, clock
<1>2. Served = {} /\ Served' = {} /\ InHand = 1 /\ InHand' = 0
  BY <1>1, SizeAssumption DEF Served, InHand
<1>3. OnePerCaller' /\ InOnePlace' /\ Posted' = Posted
  BY <1>1, <1>2, GotOn
<1>4. /\ Cardinality(Posted) \in Nat /\ Len(mbox) \in Nat /\ pool \in 0 .. NUM_INPKT
      /\ NUM_INPKT \in Nat
  BY PostedIs, Types, SizeAssumption
<1>5. Counted' /\ pool' \in 0 .. NUM_INPKT
  BY <1>1, <1>2, <1>3, <1>4, PostedFew DEF MailInv, Counted
<1>6. /\ pcbs' \in BOOLEAN /\ (pcbs' => pcbs)
      /\ sem' \subseteq Callers /\ deferred' \subseteq Callers
  BY <1>1, CompletePcbs
<1>7. active' \in BOOLEAN
  BY <1>1, Types
<1>8. TypeOK'
  BY <1>1, <1>5, <1>6, <1>7 DEF TypeOK
<1>9. TimeIsAccounted'
  BY <1>1, SameTimes DEF TimerInv, clock
<1>10. TimersAreArmed'
  BY <1>1, <1>6 DEF TimerInv, TimersAreArmed, Armed
<1> QED
  BY <1>1, <1>3, <1>5, <1>8, <1>9, <1>10 DEF TimerInv, HandInv, MailInv

(* A call is done.                                                         *)
LEMMA ApiKeeps ==
    ASSUME TypeOK, TimerInv, MailInv, T_Api
    PROVE  TypeOK' /\ TimerInv' /\ MailInv'
<1>1. /\ tpc = "work" /\ hand \in Callers /\ tpc' = "again"
      /\ sem' = sem \cup {hand} /\ pcbs' \in {pcbs, pcbs /\ deferred # {}}
      /\ UNCHANGED << hand, waited, list, active, mbox, pool, cpc, deferred, real, early,
                      late >>
  BY DEF T_Api, Done, mail, clock
<1>2. Served = {hand} /\ Served' = {} /\ InHand = 0 /\ InHand' = 0
  BY <1>1, SizeAssumption DEF Served, InHand
<1>3. Posted' = Posted
  BY <1>1 DEF Posted
<1>4. InOnePlace'
  BY <1>1, <1>2, <1>3 DEF MailInv, InOnePlace
<1>5. OnePerCaller' /\ Counted'
  BY <1>1, <1>2, <1>3 DEF MailInv, OnePerCaller, Counted
<1>6. pcbs \in BOOLEAN /\ active' \in BOOLEAN
  BY <1>1, Types
<1>7. pcbs' \in BOOLEAN /\ (pcbs' => pcbs)
  BY <1>1, <1>6, Zenon
<1>8. TypeOK'
  BY <1>1, <1>6, <1>7 DEF TypeOK
<1>9. TimeIsAccounted'
  BY <1>1, SameTimes DEF TimerInv, clock
<1>10. TimersAreArmed'
  BY <1>1, <1>7 DEF TimerInv, TimersAreArmed, Armed
<1> QED
  BY <1>1, <1>4, <1>5, <1>8, <1>9, <1>10 DEF TimerInv, HandInv, MailInv

(* A call will be completed later.                                         *)
LEMMA ApiLaterMail ==
    ASSUME TypeOK, MailInv, T_ApiLater
    PROVE  MailInv'
<1>1. /\ tpc = "work" /\ hand \in Callers /\ tpc' = "again"
      /\ deferred' = deferred \cup {hand}
      /\ UNCHANGED << mbox, pool, cpc, sem >>
  BY DEF T_ApiLater, Done, mail
<1>2. Served = {hand} /\ Served' = {} /\ InHand = 0 /\ InHand' = 0
  BY <1>1, SizeAssumption DEF Served, InHand
<1>3. Posted' = Posted
  BY <1>1 DEF Posted
<1>4. InOnePlace'
  BY <1>1, <1>2, <1>3 DEF MailInv, InOnePlace
<1>5. OnePerCaller' /\ Counted'
  BY <1>1, <1>2, <1>3 DEF MailInv, OnePerCaller, Counted
<1> QED
  BY <1>4, <1>5 DEF MailInv

(* The first message of the mailbox is taken.                              *)
LEMMA ReceiveMail ==
    ASSUME TypeOK, MailInv, T_Receive
    PROVE  MailInv'
<1>1. /\ tpc = "wait" /\ mbox # << >> /\ hand' = Head(mbox) /\ mbox' = Tail(mbox)
      /\ tpc' = "got" /\ UNCHANGED << pool, cpc, sem, deferred >>
  BY DEF T_Receive, calls
<1>2. /\ Len(mbox) \in Nat /\ mbox \in Seq(Callers \cup {Packet})
      /\ \A c : c \in Posted <=> c \in Callers /\ \E k \in 1 .. Len(mbox) : mbox[k] = c
      /\ IsFiniteSet(Posted) /\ Cardinality(Posted) \in Nat
  BY PostedIs
<1>3. /\ Len(mbox) > 0 /\ hand' = mbox[1] /\ Len(mbox') = Len(mbox) - 1
      /\ mbox' \in Seq(Callers \cup {Packet})
      /\ hand' \in Callers \cup {Packet}
  <2>1. Len(mbox) > 0 /\ Head(mbox) = mbox[1] /\ Len(Tail(mbox)) = Len(mbox) - 1
        /\ Tail(mbox) \in Seq(Callers \cup {Packet}) /\ Head(mbox) \in Callers \cup {Packet}
    BY <1>1, <1>2
  <2> QED
    BY <1>1, <2>1
<1>4. \A k \in 1 .. Len(mbox) - 1 : mbox'[k] = mbox[k + 1]
  BY <1>1, <1>2
<1>5. DOMAIN mbox = 1 .. Len(mbox) /\ DOMAIN mbox' = 1 .. Len(mbox) - 1
  BY <1>2, <1>3
<1>6. \A c : c \in Posted' <=> c \in Callers /\ \E k \in 1 .. Len(mbox) - 1 : mbox[k + 1] = c
  BY <1>4, <1>5 DEF Posted
<1>7. \A j, k \in 1 .. Len(mbox) : mbox[j] = mbox[k] /\ mbox[j] \in Callers => j = k
  BY <1>5 DEF MailInv, OnePerCaller
<1>8. OnePerCaller'
  <2>1. ASSUME NEW j \in 1 .. Len(mbox) - 1, NEW k \in 1 .. Len(mbox) - 1,
               mbox'[j] = mbox'[k], mbox'[j] \in Callers
        PROVE  j = k
    <3>1. PICK a \in 1 .. Len(mbox) : a = j + 1
      BY <1>2
    <3>2. PICK b \in 1 .. Len(mbox) : b = k + 1
      BY <1>2
    <3>3. mbox[a] = mbox[b] /\ mbox[a] \in Callers
      BY <1>4, <2>1, <3>1, <3>2
    <3>4. a = b
      BY <1>7, <3>3
    <3> QED
      BY <3>1, <3>2, <3>4
  <2> QED
    BY <1>5, <2>1 DEF OnePerCaller
<1>9. Served = {} /\ InHand = 0
  BY <1>1 DEF Served, InHand
<1>10. /\ Served' = { c \in Callers : c = mbox[1] }
       /\ InHand' = IF mbox[1] = Packet THEN 1 ELSE 0
  BY <1>1, <1>3 DEF Served, InHand
<1>11. Posted' = Posted \ {mbox[1]}
  <2>1. ASSUME NEW c \in Posted' PROVE c \in Posted \ {mbox[1]}
    <3>1. c \in Callers
      BY <1>6
    <3>2. PICK k \in 1 .. Len(mbox) - 1 : mbox[k + 1] = c
      BY <1>6
    <3>3. PICK a \in 1 .. Len(mbox) : a = k + 1 /\ a # 1
      BY <1>2
    <3>4. PICK one \in 1 .. Len(mbox) : one = 1
      BY <1>2, <1>3
    <3>5. c # mbox[one]
      BY <1>7, <3>1, <3>2, <3>3, <3>4
    <3> QED
      BY <1>2, <3>1, <3>2, <3>3, <3>4, <3>5
  <2>2. ASSUME NEW c \in Posted, c # mbox[1] PROVE c \in Posted'
    <3>1. PICK k \in 1 .. Len(mbox) : mbox[k] = c /\ c \in Callers
      BY <1>2
    <3>2. PICK a \in 1 .. Len(mbox) - 1 : k = a + 1
      <4>1. k # 1
        BY <2>2, <3>1
      <4>2. k - 1 \in 1 .. Len(mbox) - 1 /\ k = k - 1 + 1
        BY <1>2, <4>1
      <4> QED
        BY <4>2
    <3> QED
      BY <1>6, <3>1, <3>2
  <2> QED
    BY <2>1, <2>2
<1>12. mbox[1] \in Posted <=> mbox[1] \in Callers
  <2>1. PICK one \in 1 .. Len(mbox) : one = 1
    BY <1>2, <1>3
  <2> QED
    BY <1>2, <2>1
<1>13. Counted'
  <2>1. Cardinality(Posted') = IF mbox[1] \in Posted THEN Cardinality(Posted) - 1
                               ELSE Cardinality(Posted)
    BY <1>2, <1>11, FS_RemoveElement
  <2>2. Cardinality(Posted) + pool = Len(mbox)
    BY <1>2, <1>9 DEF MailInv, Counted
  <2>3. pool \in Nat
    BY Types, SizeAssumption
  <2>4. CASE mbox[1] \in Callers
    <3>1. InHand' = 0 /\ Cardinality(Posted') = Cardinality(Posted) - 1
      BY <1>10, <1>12, <2>1, <2>4, SizeAssumption
    <3> QED
      BY <1>1, <1>2, <1>3, <2>2, <2>3, <3>1 DEF Counted
  <2>5. CASE mbox[1] \notin Callers
    <3>1. InHand' = 1 /\ Cardinality(Posted') = Cardinality(Posted)
      BY <1>3, <1>10, <1>12, <2>1, <2>5
    <3> QED
      BY <1>1, <1>2, <1>3, <2>2, <2>3, <3>1 DEF Counted
  <2> QED
    BY <2>4, <2>5
<1>14. InOnePlace'
  <2>1. Served' \subseteq Posted
    BY <1>10, <1>12
  <2>2. Served' \cap Posted' = {}
    BY <1>10, <1>11
  <2>3. Posted' \subseteq Posted
    BY <1>11
  <2> QED
    BY <1>1, <2>1, <2>2, <2>3 DEF MailInv, InOnePlace
<1> QED
  BY <1>8, <1>13, <1>14 DEF MailInv

(* A frame comes in.                                                       *)
LEMMA InputKeeps ==
    ASSUME TypeOK, TimerInv, MailInv, Input
    PROVE  TypeOK' /\ TimerInv' /\ MailInv'
<1>1. /\ tpc # "boot" /\ pool < NUM_INPKT /\ Len(mbox) < MBOX_SIZE
      /\ mbox' = Append(mbox, Packet) /\ pool' = pool + 1
      /\ UNCHANGED << list, active, pcbs, tpc, hand, waited, cpc, sem, deferred,
                      real, early, late >>
  BY DEF Input, timers, thread, calls, clock
<1>2. /\ Len(mbox) \in Nat /\ mbox \in Seq(Callers \cup {Packet})
      /\ \A c : c \in Posted <=> c \in Callers /\ \E k \in 1 .. Len(mbox) : mbox[k] = c
      /\ Cardinality(Posted) \in Nat
  BY PostedIs
<1>3. /\ mbox' \in Seq(Callers \cup {Packet}) /\ Len(mbox') = Len(mbox) + 1
      /\ \A k \in 1 .. Len(mbox) + 1 :
             mbox'[k] = IF k = Len(mbox) + 1 THEN Packet ELSE mbox[k]
  BY <1>1, <1>2
<1>4. pool \in 0 .. NUM_INPKT /\ NUM_INPKT \in Nat /\ MBOX_SIZE \in Nat
  BY Types, SizeAssumption
<1>5. active' \in BOOLEAN /\ pcbs' \in BOOLEAN
  BY <1>1, Types
<1>6. TypeOK'
  <2>1. pool' \in 0 .. NUM_INPKT /\ Len(mbox') <= MBOX_SIZE
    BY <1>1, <1>2, <1>3, <1>4
  <2> QED
    BY <1>1, <1>3, <1>5, <2>1 DEF TypeOK
<1>7. DOMAIN mbox = 1 .. Len(mbox) /\ DOMAIN mbox' = 1 .. Len(mbox) + 1
  BY <1>2, <1>3
<1>8. Posted' = Posted
  <2>1. ASSUME NEW c \in Callers
        PROVE  (\E k \in 1 .. Len(mbox) + 1 : mbox'[k] = c)
                   <=> \E k \in 1 .. Len(mbox) : mbox[k] = c
    BY <1>2, <1>3, SizeAssumption
  <2> QED
    BY <1>7, <2>1 DEF Posted
<1>9. Served' = Served /\ InHand' = InHand
  BY <1>1 DEF Served, InHand
<1>10. Counted'
  <2>1. InHand \in {0, 1}
    BY DEF InHand
  <2>2. Cardinality(Posted) + pool = Len(mbox) + InHand
    BY DEF MailInv, Counted
  <2>3. Cardinality(Posted) + (pool + 1) = Len(mbox) + 1 + InHand
    BY <1>2, <1>4, <2>1, <2>2
  <2> QED
    BY <1>1, <1>3, <1>8, <1>9, <2>3, Zenon DEF Counted
<1>11. OnePerCaller'
  <2>1. \A j, k \in 1 .. Len(mbox) : mbox[j] = mbox[k] /\ mbox[j] \in Callers => j = k
    BY <1>7 DEF MailInv, OnePerCaller
  <2>2. ASSUME NEW k \in 1 .. Len(mbox) + 1, mbox'[k] \in Callers
        PROVE  k \in 1 .. Len(mbox) /\ mbox'[k] = mbox[k]
    BY <1>2, <1>3, <2>2, SizeAssumption
  <2> QED
    BY <1>7, <2>1, <2>2 DEF OnePerCaller
<1>12. InOnePlace'
  BY <1>1, <1>8, <1>9 DEF MailInv, InOnePlace
<1>13. TimeIsAccounted'
  BY <1>1, SameTimes DEF TimerInv, clock
<1>14. TimersAreArmed' /\ HandInv'
  BY <1>1 DEF TimerInv, TimersAreArmed, Armed, HandInv
<1> QED
  BY <1>6, <1>10, <1>11, <1>12, <1>13, <1>14 DEF TimerInv, MailInv

(* A task calls a function of the netconn API.                             *)
LEMMA AskKeeps ==
    ASSUME TypeOK, TimerInv, MailInv, NEW c \in Callers, C_Call(c)
    PROVE  TypeOK' /\ TimerInv' /\ MailInv'
<1>1. /\ tpc # "boot" /\ cpc[c] = "idle" /\ cpc' = [cpc EXCEPT ![c] = "post"]
      /\ UNCHANGED << list, active, pcbs, mbox, pool, tpc, hand, waited, sem, deferred,
                      real, early, late >>
  BY DEF C_Call, timers, mail, thread, clock
<1>2. cpc \in [Callers -> {"idle", "post", "wait"}] /\ active' \in BOOLEAN /\ pcbs' \in BOOLEAN
  BY <1>1, Types
<1>3. cpc' \in [Callers -> {"idle", "post", "wait"}]
  BY <1>1, <1>2
<1>4. TypeOK'
  BY <1>1, <1>2, <1>3 DEF TypeOK
<1>5. Posted' = Posted /\ Served' = Served /\ InHand' = InHand
  BY <1>1 DEF Posted, Served, InHand
<1>6. { x \in Callers : cpc'[x] = "wait" } = { x \in Callers : cpc[x] = "wait" }
  BY <1>1, <1>2
<1>7. InOnePlace'
  BY <1>1, <1>5, <1>6 DEF MailInv, InOnePlace
<1>8. OnePerCaller' /\ Counted'
  BY <1>1, <1>5 DEF MailInv, OnePerCaller, Counted
<1>9. TimeIsAccounted'
  BY <1>1, SameTimes DEF TimerInv, clock
<1>10. TimersAreArmed' /\ HandInv'
  BY <1>1 DEF TimerInv, TimersAreArmed, Armed, HandInv
<1> QED
  BY <1>4, <1>7, <1>8, <1>9, <1>10 DEF TimerInv, MailInv

(* It returns when it is told that the call is done.                       *)
LEMMA ReturnKeeps ==
    ASSUME TypeOK, TimerInv, MailInv, NEW c \in Callers, C_Return(c)
    PROVE  TypeOK' /\ TimerInv' /\ MailInv'
<1>1. /\ cpc[c] = "wait" /\ cpc' = [cpc EXCEPT ![c] = "idle"]
      /\ c \in sem /\ sem' = sem \ {c}
      /\ UNCHANGED << list, active, pcbs, mbox, pool, tpc, hand, waited, deferred,
                      real, early, late >>
  BY DEF C_Return, timers, mail, thread, clock
<1>2. /\ cpc \in [Callers -> {"idle", "post", "wait"}] /\ sem \subseteq Callers
      /\ active' \in BOOLEAN /\ pcbs' \in BOOLEAN
  BY <1>1, Types
<1>3. cpc' \in [Callers -> {"idle", "post", "wait"}] /\ sem' \subseteq Callers
  BY <1>1, <1>2
<1>4. TypeOK'
  BY <1>1, <1>2, <1>3 DEF TypeOK
<1>5. Posted' = Posted /\ Served' = Served /\ InHand' = InHand
  BY <1>1 DEF Posted, Served, InHand
<1>6. { x \in Callers : cpc'[x] = "wait" } = { x \in Callers : cpc[x] = "wait" } \ {c}
  BY <1>1, <1>2
<1>7. InOnePlace'
  BY <1>1, <1>5, <1>6 DEF MailInv, InOnePlace
<1>8. OnePerCaller' /\ Counted'
  BY <1>1, <1>5 DEF MailInv, OnePerCaller, Counted
<1>9. TimeIsAccounted'
  BY <1>1, SameTimes DEF TimerInv, clock
<1>10. TimersAreArmed' /\ HandInv'
  BY <1>1 DEF TimerInv, TimersAreArmed, Armed, HandInv
<1> QED
  BY <1>4, <1>7, <1>8, <1>9, <1>10 DEF TimerInv, MailInv

(* It posts its message.                                                   *)
LEMMA PostKeeps ==
    ASSUME TypeOK, TimerInv, MailInv, tpc # "boot", NEW c \in Callers, C_Post(c)
    PROVE  TypeOK' /\ TimerInv' /\ MailInv'
<1>1. /\ cpc[c] = "post" /\ cpc' = [cpc EXCEPT ![c] = "wait"]
      /\ Len(mbox) < MBOX_SIZE /\ mbox' = Append(mbox, c)
      /\ UNCHANGED << list, active, pcbs, pool, tpc, hand, waited, sem, deferred,
                      real, early, late >>
  BY DEF C_Post, timers, thread, clock
<1>2. /\ Len(mbox) \in Nat /\ mbox \in Seq(Callers \cup {Packet})
      /\ \A x : x \in Posted <=> x \in Callers /\ \E k \in 1 .. Len(mbox) : mbox[k] = x
      /\ IsFiniteSet(Posted) /\ Cardinality(Posted) \in Nat
  BY PostedIs
<1>3. /\ mbox' \in Seq(Callers \cup {Packet}) /\ Len(mbox') = Len(mbox) + 1
      /\ \A k \in 1 .. Len(mbox) + 1 :
             mbox'[k] = IF k = Len(mbox) + 1 THEN c ELSE mbox[k]
  BY <1>1, <1>2
<1>4. /\ cpc \in [Callers -> {"idle", "post", "wait"}] /\ active' \in BOOLEAN
      /\ pcbs' \in BOOLEAN /\ pool \in Nat /\ MBOX_SIZE \in Nat
  BY <1>1, Types, SizeAssumption
<1>5. cpc' \in [Callers -> {"idle", "post", "wait"}]
  BY <1>1, <1>4
<1>6. Len(mbox') <= MBOX_SIZE
  BY <1>1, <1>2, <1>3, <1>4
<1>7. TypeOK'
  BY <1>1, <1>3, <1>4, <1>5, <1>6 DEF TypeOK
<1>8. DOMAIN mbox = 1 .. Len(mbox) /\ DOMAIN mbox' = 1 .. Len(mbox) + 1
  BY <1>2, <1>3
<1>9. Posted' = Posted \cup {c}
  <2>1. ASSUME NEW x \in Callers
        PROVE  (\E k \in 1 .. Len(mbox) + 1 : mbox'[k] = x)
                   <=> x = c \/ \E k \in 1 .. Len(mbox) : mbox[k] = x
    <3>1. Len(mbox) + 1 \in 1 .. Len(mbox) + 1
      BY <1>2
    <3>2. mbox'[Len(mbox) + 1] = c
      BY <1>3, <3>1
    <3>3. \A k \in 1 .. Len(mbox) : k \in 1 .. Len(mbox) + 1 /\ mbox'[k] = mbox[k]
      BY <1>2, <1>3
    <3>4. \A k \in 1 .. Len(mbox) + 1 : mbox'[k] = c \/ k \in 1 .. Len(mbox)
      BY <1>2, <1>3
    <3> QED
      BY <3>1, <3>2, <3>3, <3>4
  <2> QED
    BY <1>8, <2>1 DEF Posted
<1>10. c \notin Posted /\ c \notin Served /\ c \notin sem /\ c \notin deferred
  BY <1>1 DEF MailInv, InOnePlace
<1>11. Served' = Served /\ InHand' = InHand
  BY <1>1 DEF Served, InHand
<1>12. Counted'
  <2>1. Cardinality(Posted') = Cardinality(Posted) + 1
    BY <1>2, <1>9, <1>10, FS_AddElement
  <2>2. InHand \in {0, 1}
    BY DEF InHand
  <2>3. Cardinality(Posted) + pool = Len(mbox) + InHand
    BY DEF MailInv, Counted
  <2>4. Cardinality(Posted) + 1 + pool = Len(mbox) + 1 + InHand
    BY <1>2, <1>4, <2>2, <2>3
  <2> QED
    BY <1>1, <1>3, <1>11, <2>1, <2>4, Zenon DEF Counted
<1>13. OnePerCaller'
  <2>1. \A j, k \in 1 .. Len(mbox) : mbox[j] = mbox[k] /\ mbox[j] \in Callers => j = k
    BY <1>8 DEF MailInv, OnePerCaller
  <2>2. \A k \in 1 .. Len(mbox) : mbox[k] # c
    BY <1>2, <1>10
  <2>3. \A k \in 1 .. Len(mbox) + 1 :
            k = Len(mbox) + 1 \/ (k \in 1 .. Len(mbox) /\ mbox'[k] = mbox[k])
    BY <1>2, <1>3
  <2>4. mbox'[Len(mbox) + 1] = c
    BY <1>2, <1>3
  <2>5. ASSUME NEW j \in 1 .. Len(mbox) + 1, NEW k \in 1 .. Len(mbox) + 1,
               mbox'[j] = mbox'[k], mbox'[j] \in Callers
        PROVE  j = k
    BY <2>1, <2>2, <2>3, <2>4, <2>5, Zenon
  <2> QED
    BY <1>8, <2>5, Zenon DEF OnePerCaller
<1>14. { x \in Callers : cpc'[x] = "wait" } = { x \in Callers : cpc[x] = "wait" } \cup {c}
  BY <1>1, <1>4
<1>15. InOnePlace'
  BY <1>1, <1>9, <1>10, <1>11, <1>14 DEF MailInv, InOnePlace
<1>16. TimeIsAccounted'
  BY <1>1, SameTimes DEF TimerInv, clock
<1>17. TimersAreArmed' /\ HandInv'
  BY <1>1 DEF TimerInv, TimersAreArmed, Armed, HandInv
<1> QED
  BY <1>7, <1>12, <1>13, <1>15, <1>16, <1>17 DEF TimerInv, MailInv

-----------------------------------------------------------------------------
(* The types, the timers and the mail.                                     *)
TcpipInv == TypeOK /\ TimerInv /\ MailInv

(* sys_timeouts_init has not been called, and nobody calls anything.       *)
LEMMA TcpipStart == Init => TcpipInv
<1> SUFFICES ASSUME Init PROVE TcpipInv
  OBVIOUS
<1>1. /\ list = << >> /\ active = FALSE /\ pcbs = FALSE /\ mbox = << >> /\ pool = 0
      /\ tpc = "boot" /\ hand = Tcp /\ waited = 0
      /\ cpc = [c \in Callers |-> "idle"] /\ sem = {} /\ deferred = {}
      /\ real = [t \in Timers |-> 0] /\ early = [t \in Timers |-> 0]
      /\ late = [t \in Timers |-> 0]
  BY DEF Init
<1>2. list \in Seq(Entry) /\ mbox \in Seq(Callers \cup {Packet}) /\ Len(mbox) = 0
  BY <1>1
<1>3. /\ real \in [Timers -> Nat] /\ early \in [Timers -> Nat] /\ late \in [Timers -> Nat]
      /\ cpc \in [Callers -> {"idle", "post", "wait"}]
  BY <1>1
<1>4. TypeOK
  <2>1. Len(mbox) <= MBOX_SIZE /\ pool \in 0 .. NUM_INPKT /\ hand \in Timers
    BY <1>1, <1>2, SizeAssumption DEF Timers
  <2> QED
    BY <1>1, <1>2, <1>3, <2>1 DEF TypeOK, Entry
<1>5. DOMAIN list = {} /\ DOMAIN mbox = {}
  BY <1>1
<1>6. TimerInv
  <2>1. TimeIsAccounted
    BY <1>5 DEF TimeIsAccounted
  <2>2. IsInjective([k \in DOMAIN list |-> list[k].id]) /\ Armed(list) = {}
    BY <1>5 DEF IsInjective, Armed
  <2>3. TimersAreArmed
    BY <1>1, <2>2 DEF TimersAreArmed
  <2> QED
    BY <1>1, <2>1, <2>3 DEF TimerInv, HandInv
<1>7. MailInv
  <2>1. Posted = {} /\ Served = {} /\ InHand = 0
    BY <1>1, <1>5 DEF Posted, Served, InHand
  <2>2. Cardinality(Posted) = 0
    BY <2>1, FS_EmptySet
  <2> QED
    BY <1>1, <1>2, <1>5, <2>1, <2>2 DEF MailInv, Counted, OnePerCaller, InOnePlace
<1> QED
  BY <1>4, <1>6, <1>7 DEF TcpipInv

(* Every step keeps the invariant.                                         *)
LEMMA TcpipStep == TcpipInv /\ [Next]_vars => TcpipInv'
<1> SUFFICES ASSUME TypeOK, TimerInv, MailInv, [Next]_vars
             PROVE  TypeOK' /\ TimerInv' /\ MailInv'
  BY DEF TcpipInv
<1>1. HandInv
  BY DEF TimerInv
<1>2. CASE \E t \in Cyclic : Boot(t)
  BY <1>1, <1>2, BootKeeps, MailAside
<1>3. CASE T_Fetch
  BY <1>1, <1>3, FetchKeeps, MailAside
<1>4. CASE T_Timeout
  BY <1>1, <1>4, TimeoutKeeps, MailAside
<1>5. CASE T_Receive
  BY <1>5, TakeKeeps, ReceiveMail
<1>6. CASE T_Account
  BY <1>1, <1>6, AccountKeeps, MailAside
<1>7. CASE T_Handler
  BY <1>7, HandlerKeeps, HandlerMail
<1>8. CASE T_Packet
  BY <1>8, PacketKeeps
<1>9. CASE T_Api
  BY <1>9, ApiKeeps
<1>10. CASE T_ApiLater
  BY <1>10, ApiLaterKeeps, ApiLaterMail
<1>11. CASE Input
  BY <1>11, InputKeeps
<1>12. CASE Tick
  BY <1>1, <1>12, TickKeeps, MailAside
<1>13. ASSUME NEW c \in Callers, C_Call(c) PROVE TypeOK' /\ TimerInv' /\ MailInv'
  BY <1>13, AskKeeps
<1>14. ASSUME NEW c \in Callers, C_Post(c) PROVE TypeOK' /\ TimerInv' /\ MailInv'
  <2>1. tpc # "boot"
    BY <1>1, <1>14 DEF HandInv, C_Post
  <2> QED
    BY <1>14, <2>1, PostKeeps
<1>15. ASSUME NEW c \in Callers, C_Return(c) PROVE TypeOK' /\ TimerInv' /\ MailInv'
  BY <1>15, ReturnKeeps
<1>16. CASE UNCHANGED vars
  <2>1. UNCHANGED << list, active, pcbs, mbox, pool, tpc, hand, waited, cpc, sem, deferred,
                     real, early, late >>
    BY <1>16 DEF vars, timers, mail, thread, calls, clock
  <2>2. active' \in BOOLEAN /\ pcbs' \in BOOLEAN
    BY <2>1, Types
  <2>3. TypeOK'
    BY <2>1, <2>2 DEF TypeOK
  <2>4. TimeIsAccounted'
    BY <2>1, SameTimes DEF TimerInv, clock
  <2>5. TimersAreArmed' /\ HandInv'
    BY <2>1 DEF TimerInv, TimersAreArmed, Armed, HandInv
  <2>6. Served' = Served /\ InHand' = InHand
    BY <2>1 DEF Served, InHand
  <2>7. MailInv'
    BY <2>1, <2>6, MailSame
  <2> QED
    BY <2>3, <2>4, <2>5, <2>7 DEF TimerInv
<1> QED
  BY <1>2, <1>3, <1>4, <1>5, <1>6, <1>7, <1>8, <1>9, <1>10, <1>11, <1>12, <1>13, <1>14,
     <1>15, <1>16 DEF Next, Thread

(* It holds from the start.                                                *)
LEMMA TcpipInvariance == Spec => []TcpipInv
<1> QED
  BY TcpipStart, TcpipStep, PTL DEF Spec

(* The types of the thread, its mail, its callers and its timers.          *)
THEOREM TcpipTypes == Spec => []TypeOK
<1>1. TcpipInv => TypeOK
  BY DEF TcpipInv
<1> QED
  BY <1>1, TcpipInvariance, PTL

(* The list tells the time left to each timeout, but for the milliseconds  *)
(* that were counted twice or not at all.                                  *)
THEOREM ListTellsTheTime == Spec => []TimeIsAccounted
<1>1. TcpipInv => TimeIsAccounted
  BY DEF TcpipInv, TimerInv
<1> QED
  BY <1>1, TcpipInvariance, PTL

(* Each timer is armed once or its handler runs, tcpip_tcp_timer as long   *)
(* as there are connections, and the thread never waits for ever.          *)
THEOREM EveryTimerIsArmed == Spec => []TimersAreArmed
<1>1. TcpipInv => TimersAreArmed
  BY DEF TcpipInv, TimerInv
<1> QED
  BY <1>1, TcpipInvariance, PTL

(* TCPIP_MBOX_SIZE has room for the messages of the pool and for one of    *)
(* each task that calls.                                                   *)
MailboxFits == Cardinality(Callers) + NUM_INPKT <= MBOX_SIZE

(* A caller never waits for room in the mailbox.                           *)
THEOREM CallersFindRoom ==
    ASSUME MailboxFits
    PROVE  Spec => []PostHasRoom
<1>1. ASSUME TcpipInv, NEW c \in Callers, cpc[c] = "post" PROVE Len(mbox) < MBOX_SIZE
  <2>1. TypeOK /\ MailInv
    BY <1>1 DEF TcpipInv
  <2>2. c \notin Posted
    BY <1>1, <2>1 DEF MailInv, InOnePlace
  <2>3. Posted \in SUBSET (Callers \ {c})
    BY <2>2 DEF Posted
  <2>4. /\ IsFiniteSet(Callers) /\ IsFiniteSet(Callers \ {c})
        /\ Cardinality(Callers) \in Nat
        /\ Cardinality(Callers \ {c}) = Cardinality(Callers) - 1
    BY SizeAssumption, FS_RemoveElement, FS_CardinalityType
  <2>5. Cardinality(Posted) <= Cardinality(Callers \ {c})
    BY <2>3, <2>4, FS_Subset
  <2>6. Cardinality(Posted) + pool = Len(mbox) + InHand /\ InHand \in {0, 1}
    BY <2>1 DEF MailInv, Counted, InHand
  <2>7. /\ Cardinality(Posted) \in Nat /\ Len(mbox) \in Nat
        /\ pool \in Nat /\ pool <= NUM_INPKT /\ NUM_INPKT \in Nat /\ MBOX_SIZE \in Nat
    BY <2>1, PostedIs, Types, SizeAssumption
  <2>8. Cardinality(Callers) + NUM_INPKT <= MBOX_SIZE
    BY MailboxFits DEF MailboxFits
  <2> QED
    BY <2>4, <2>5, <2>6, <2>7, <2>8
<1>2. TcpipInv => PostHasRoom
  BY <1>1 DEF PostHasRoom
<1> QED
  BY <1>2, TcpipInvariance, PTL
-----------------------------------------------------------------------------
(***************************************************************************)
(* What TimersAreServed rests on, besides fairness: nothing puts a timer   *)
(* off, and each message brings all of them nearer.                        *)
(***************************************************************************)
(* Entry k of the list stays, and is d ms nearer at least; or it is the    *)
(* first, and its handler runs next.                                       *)
Stays(k, d) ==
    \E j \in DOMAIN list' : /\ list'[j].id = list[k].id
                            /\ Due(list')[j] + d <= Due(list)[k]
Expires(k) == k = 1 /\ tpc' = "handler" /\ hand' = list[1].id

TimersComeNearer ==
    [][\A k \in DOMAIN list :
         Stays(k, IF tpc = "got" /\ tpc' = "work" THEN 1 ELSE 0) \/ Expires(k)]_vars

(* The thread waits for the first timeout only if that is not due yet.     *)
WaitsForTimer == tpc \in {"wait", "got"} => Head(list).time > 0

(* A list that is not changed.                                             *)
LEMMA SameStays ==
    ASSUME TypeOK, UNCHANGED list, NEW k \in DOMAIN list
    PROVE  Stays(k, 0)
<1>1. list \in Seq(Entry)
  BY Types
<1>2. k \in 1 .. Len(list) /\ Due(list)[k] \in Nat
  BY <1>1, EntriesOf, DueSums DEF Sums
<1>3. PICK x \in Nat : x = Due(list)[k] /\ x + 0 <= x
  BY <1>2
<1> QED
  BY <1>3 DEF Stays

(* A timer is armed: those that are in the list stay when they are.        *)
LEMMA ArmStays ==
    ASSUME TypeOK, NEW id \in Timers, Arm(id), NEW k \in DOMAIN list
    PROVE  Stays(k, 0)
<1>1. list \in Seq(Entry)
  BY Types
<1>2. k \in 1 .. Len(list) /\ Len(list) \in Nat /\ Due(list)[k] \in Nat
  BY <1>1, EntriesOf, DueSums DEF Sums
<1>3. PICK n : n = list' /\ n = sys_timeout(list, id)
  BY DEF Arm
<1>4. Adds(list', list, id)
  BY <1>1, <1>3, TimeoutKeepsTimes, Zenon
<1>5. DOMAIN list' = 1 .. Len(list) + 1
  BY <1>4 DEF Adds
<1>6. PICK p \in 1 .. Len(list) + 1 :
          \A j \in 1 .. Len(list) + 1 :
              /\ j < p => list'[j].id = list[j].id /\ Due(list')[j] = Due(list)[j]
              /\ j > p => list'[j].id = list[j - 1].id /\ Due(list')[j] = Due(list)[j - 1]
  BY <1>4 DEF Adds
<1>7. PICK j \in 1 .. Len(list) + 1 : j = (IF k < p THEN k ELSE k + 1)
  BY <1>2
<1>8. list'[j].id = list[k].id /\ Due(list')[j] = Due(list)[k]
  <2>1. CASE k < p
    BY <1>6, <1>7, <2>1
  <2>2. CASE ~ (k < p)
    <3>1. j > p /\ j - 1 = k
      BY <1>2, <1>7, <2>2
    <3> QED
      BY <1>6, <3>1
  <2> QED
    BY <2>1, <2>2
<1>9. PICK x \in Nat : x = Due(list)[k] /\ x + 0 <= x
  BY <1>2
<1> QED
  BY <1>5, <1>8, <1>9 DEF Stays

(* A message is there: the time it took, at least a ms, is taken off all.  *)
LEMMA AccountStays ==
    ASSUME TypeOK, TimersAreArmed, WaitsForTimer, T_Account, NEW k \in DOMAIN list
    PROVE  Stays(k, 1)
<1> DEFINE elapsed == IF waited = 0 THEN 1 ELSE waited
<1>1. tpc = "got"
  BY DEF T_Account
<1>2. /\ list # << >> /\ Len(list) \in Nat /\ Len(list) > 0
      /\ list[1].time \in Nat /\ Head(list) = list[1]
  BY <1>1, ListNotEmpty
<1>3. list \in Seq(Entry) /\ waited \in Nat /\ list[1].time > 0
  BY <1>1, <1>2, Types DEF WaitsForTimer
<1>4. PICK d \in Nat : /\ d = IF elapsed < list[1].time THEN elapsed ELSE list[1].time
                       /\ d <= list[1].time /\ d >= 1
  <2>1. PICK a \in Nat : a = elapsed /\ a >= 1
    <3>1. elapsed \in Nat /\ elapsed >= 1
      BY <1>3
    <3> HIDE DEF elapsed
    <3> QED
      BY <3>1
  <2>2. PICK b \in Nat : b = list[1].time /\ b >= 1
    BY <1>2, <1>3
  <2>3. PICK d \in Nat : d = (IF a < b THEN a ELSE b) /\ d <= b /\ d >= 1
    BY <2>1, <2>2
  <2> HIDE DEF elapsed
  <2> QED
    BY <2>1, <2>2, <2>3, Zenon
<1>5. list' = [list EXCEPT ![1].time = list[1].time - d]
  <2>1. list' = [list EXCEPT ![1].time = IF elapsed < list[1].time THEN list[1].time - elapsed
                                         ELSE 0]
    BY <1>2 DEF T_Account
  <2>2. (IF elapsed < list[1].time THEN list[1].time - elapsed ELSE 0) = list[1].time - d
    BY <1>2, <1>3, <1>4
  <2> HIDE DEF elapsed
  <2> QED
    BY <2>1, <2>2
<1>6. Moves(list', list, d)
  <2>1. PICK n : n = list' /\ n = [list EXCEPT ![1].time = list[1].time - d]
    BY <1>5
  <2>2. Moves(n, list, d)
    BY <1>2, <1>3, <1>4, <2>1, EarlierTimes, Zenon
  <2> QED
    BY <2>1, <2>2, Zenon
<1>7. k \in 1 .. Len(list) /\ Due(list)[k] \in Nat
  BY <1>3, EntriesOf, DueSums DEF Sums
<1>8. DOMAIN list' = 1 .. Len(list)
  BY <1>2, <1>6 DEF Moves
<1>9. list'[k].id = list[k].id /\ Due(list')[k] = Due(list)[k] - d
  BY <1>6, <1>7 DEF Moves
<1>10. PICK x \in Nat : x = Due(list)[k] /\ x - d + 1 <= x
  BY <1>4, <1>7
<1> QED
  BY <1>7, <1>8, <1>9, <1>10 DEF Stays

(* The first timeout leaves the list: its handler runs, and those behind   *)
(* it stay.                                                                *)
LEMMA TimeoutStays ==
    ASSUME TypeOK, TimersAreArmed, T_Timeout, NEW k \in DOMAIN list
    PROVE  Stays(k, 0) \/ Expires(k)
<1>1. /\ tpc \in {"again", "wait"} /\ tpc' = "handler"
      /\ hand' = Head(list).id /\ list' = Tail(list)
  BY DEF T_Timeout
<1>2. /\ list # << >> /\ Len(list) \in Nat /\ Len(list) > 0
      /\ list[1].time \in Nat /\ Head(list) = list[1]
  BY <1>1, ListNotEmpty
<1>3. list \in Seq(Entry)
  BY Types
<1>4. k \in 1 .. Len(list) /\ Due(list)[k] \in Nat
  BY <1>3, EntriesOf, DueSums DEF Sums
<1>5. CASE k = 1
  BY <1>1, <1>2, <1>5 DEF Expires
<1>6. CASE k # 1
  <2>1. /\ Len(list') = Len(list) - 1 /\ list' \in Seq(Entry)
        /\ \A i \in 1 .. Len(list) - 1 : list'[i] = list[i + 1]
        /\ \A i \in 0 .. Len(list) - 1 : Due(list')[i] = Due(list)[i + 1] - list[1].time
    BY <1>1, <1>2, <1>3, TailTimes, Zenon
  <2>2. PICK j \in 1 .. Len(list) - 1 : j + 1 = k /\ j \in 0 .. Len(list) - 1
    BY <1>4, <1>6
  <2>3. list'[j] = list[k] /\ Due(list')[j] = Due(list)[k] - list[1].time
    BY <2>1, <2>2
  <2>4. j \in DOMAIN list'
    BY <1>2, <2>1
  <2>5. PICK x \in Nat, y \in Nat : x = Due(list)[k] /\ y = list[1].time /\ x - y + 0 <= x
    BY <1>2, <1>4
  <2> QED
    BY <2>3, <2>4, <2>5 DEF Stays
<1> QED
  BY <1>5, <1>6

(* Neither a message, nor a handler, nor a timer that is armed puts any    *)
(* timer off; each message that the thread takes brings every one at least *)
(* a ms nearer, also when it was there at once; and a timer leaves the     *)
(* list only for its handler.  So no flood of messages keeps a timer       *)
(* waiting for more messages than it has ms to go.                         *)
THEOREM TimersAreNotPutOff == Spec => TimersComeNearer
<1> DEFINE D == IF tpc = "got" /\ tpc' = "work" THEN 1 ELSE 0
           A == \A k \in DOMAIN list : Stays(k, D) \/ Expires(k)
<1>1. Init => WaitsForTimer
  BY DEF Init, WaitsForTimer
<1>2. TcpipInv /\ WaitsForTimer /\ [Next]_vars => WaitsForTimer'
  <2> SUFFICES ASSUME TcpipInv, WaitsForTimer, [Next]_vars, tpc' \in {"wait", "got"}
               PROVE  Head(list)'.time > 0
    BY DEF WaitsForTimer
  <2> USE DEF timers, thread
  <2>1. CASE T_Fetch
    <3>1. list # << >> /\ list' = list
      BY <2>1 DEF T_Fetch
    <3> QED
      BY <2>1, <3>1 DEF T_Fetch
  <2>2. CASE T_Receive \/ Input \/ Tick
             \/ (\E c \in Callers : C_Call(c) \/ C_Post(c) \/ C_Return(c)) \/ UNCHANGED vars
    <3>1. tpc \in {"wait", "got"} /\ list' = list
      BY <2>2 DEF T_Receive, Input, Tick, C_Call, C_Post, C_Return, vars
    <3> QED
      BY <3>1 DEF WaitsForTimer
  <2>3. ~ (\/ (\E t \in Cyclic : Boot(t)) \/ T_Timeout \/ T_Account
           \/ T_Handler \/ T_Packet \/ T_Api \/ T_ApiLater)
    BY DEF Boot, T_Timeout, T_Account, T_Handler, T_Packet, T_Api, T_ApiLater, Done
  <2> QED
    BY <2>1, <2>2, <2>3 DEF Next, Thread
<1>3. TcpipInv /\ WaitsForTimer /\ [Next]_vars => [A]_vars
  <2> SUFFICES ASSUME TcpipInv, WaitsForTimer, Next, NEW k \in DOMAIN list
               PROVE  Stays(k, D) \/ Expires(k)
    OBVIOUS
  <2>1. TypeOK /\ TimersAreArmed /\ HandInv
    BY DEF TcpipInv, TimerInv
  <2>2. CASE T_Account
    <3>1. D = 1
      BY <2>2 DEF T_Account
    <3> QED
      BY <2>1, <2>2, <3>1, AccountStays
  <2>3. CASE T_Timeout
    <3>1. D = 0
      BY <2>3 DEF T_Timeout
    <3> QED
      BY <2>1, <2>3, <3>1, TimeoutStays
  <2>4. ASSUME NEW id \in Timers, Arm(id), tpc' # "work" PROVE Stays(k, D)
    <3>1. D = 0
      BY <2>4
    <3> QED
      BY <2>1, <2>4, <3>1, ArmStays
  <2>5. ASSUME UNCHANGED list, tpc = tpc' \/ tpc' # "work" PROVE Stays(k, D)
    <3>1. D = 0
      BY <2>5
    <3> QED
      BY <2>1, <2>5, <3>1, SameStays
  <2> HIDE DEF D
  <2>6. CASE \E t \in Cyclic : Boot(t)
    BY <2>4, <2>6 DEF Boot, Timers
  <2>7. CASE T_Handler
    <3>1. tpc' = "again" /\ hand \in Timers
      BY <2>1, <2>7 DEF T_Handler, Done, HandInv
    <3> QED
      BY <2>4, <2>5, <2>7, <3>1 DEF T_Handler
  <2>8. CASE T_ApiLater
    <3>1. tpc' = "again" /\ Tcp \in Timers
      BY <2>8 DEF T_ApiLater, Done, Timers
    <3> QED
      BY <2>4, <2>5, <2>8, <3>1 DEF T_ApiLater
  <2>9. CASE T_Fetch \/ T_Receive \/ T_Packet \/ T_Api
    BY <2>5, <2>9 DEF T_Fetch, T_Receive, T_Packet, T_Api, Done, timers
  <2>10. CASE Input \/ Tick \/ \E c \in Callers : C_Call(c) \/ C_Post(c) \/ C_Return(c)
    BY <2>5, <2>10 DEF Input, Tick, C_Call, C_Post, C_Return, timers, thread
  <2> QED
    BY <2>2, <2>3, <2>6, <2>7, <2>8, <2>9, <2>10 DEF Next, Thread
<1>4. TimersComeNearer <=> [][A]_vars
  BY DEF TimersComeNearer
<1> HIDE DEF A, D
<1> QED
  BY <1>1, <1>2, <1>3, <1>4, TcpipInvariance, PTL DEF Spec
=============================================================================
