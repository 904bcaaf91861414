---------------------------- MODULE EmacRxProofs ----------------------------
(***************************************************************************)
(* Proofs about EmacRx for every number of descriptors, with frames that   *)
(* land at any time: until an interrupt that finds no frame is counted as  *)
(* a full round.                                                           *)
(***************************************************************************)
EXTENDS EmacRx, TLAPS

(* How far behind RxConsumeIndex a descriptor is.                          *)
Ahead(i) == Distance(consume, i)

(* The task holds a token while it reads.                                  *)
Held == IF epc = "read" THEN 1 ELSE 0

(* The descriptors from one index to the other hold frames; the tokens     *)
(* count those up to the last one the handler saw.                         *)
RingInv ==
    /\ \A i \in Slot : i \in fresh <=> Ahead(i) < Ahead(produce)
    /\ tokens + Held = Ahead(last)
    /\ Ahead(last) <= Ahead(produce)

(* Frames the handler has not counted have left their bit behind, wherever *)
(* the handler is; the bit may be there without them.                      *)
Pending == last # produce => rxDone
HandlerInv ==
    /\ isr = "idle" \/ ~ status => Pending
    /\ isr = "clear" => Pending
    /\ isr = "give" /\ status =>
         /\ Ahead(last) <= Ahead(new)
         /\ Ahead(new) <= Ahead(produce)
         /\ new # produce => rxDone

RxInv == TypeOK /\ (~overcount => RingInv /\ HandlerInv)

-----------------------------------------------------------------------------
(* Distances are those of a ring.                                          *)
LEMMA DistanceInRing ==
    ASSUME RxSizes, NEW c \in Slot, NEW i \in Slot
    PROVE  /\ Distance(c, i) \in 0 .. NUM_RX_FRAG - 1
           /\ Distance(c, i) = 0 <=> i = c
  BY DEF RxSizes, Slot, Distance

(* Two slots as far from a third are the same.                             *)
LEMMA DistanceInjective ==
    ASSUME RxSizes, NEW c \in Slot, NEW i \in Slot, NEW j \in Slot,
           Distance(c, i) = Distance(c, j)
    PROVE  i = j
  BY DEF RxSizes, Slot, Distance

(* The next slot is a slot.                                                *)
LEMMA NextIsSlot == ASSUME RxSizes, NEW i \in Slot PROVE NextSlot(i) \in Slot
  BY DEF RxSizes, Slot, NextSlot

(* One descriptor on.                                                      *)
LEMMA DistanceToNext ==
    ASSUME RxSizes, NEW c \in Slot, NEW i \in Slot, NextSlot(i) # c
    PROVE  Distance(c, NextSlot(i)) = Distance(c, i) + 1
  BY DEF RxSizes, Slot, Distance, NextSlot

(* From the next slot it is one less, or the most from itself.             *)
LEMMA DistanceFromNext ==
    ASSUME RxSizes, NEW c \in Slot, NEW i \in Slot
    PROVE  Distance(NextSlot(c), i) = IF i = c THEN NUM_RX_FRAG - 1 ELSE Distance(c, i) - 1
  BY DEF RxSizes, Slot, Distance, NextSlot

(* What the handler counts is the difference of the distances.             *)
LEMMA CountedIsDifference ==
    ASSUME RxSizes, TypeOK, Ahead(last) < Ahead(new)
    PROVE  Counted = Ahead(new) - Ahead(last)
  BY DEF RxSizes, TypeOK, Slot, Ahead, Distance, Counted

-----------------------------------------------------------------------------
(* The handler and the task keep the types, whatever is counted.           *)
LEMMA TypesStep == ASSUME RxSizes, TypeOK, [Next]_vars PROVE TypeOK'
<1>1. CASE UNCHANGED vars
  BY <1>1, Zenon DEF vars, hw, handler, task, TypeOK
<1>2. CASE Receive
  <2>1. produce' \in Slot /\ fresh' \subseteq Slot
    BY <1>2, NextIsSlot DEF Receive, TypeOK
  <2> QED
    BY <1>2, <2>1, Zenon DEF Receive, handler, task, TypeOK
<1>3. CASE I_Status \/ I_Clear \/ I_Index
  <2>1. rxDone' \in BOOLEAN /\ status' \in BOOLEAN
    BY <1>3, Zenon DEF TypeOK, I_Status, I_Clear, I_Index, hw
  <2>2. isr' \in {"idle", "clear", "index", "give"} /\ new' \in Slot
    BY <1>3 DEF TypeOK, I_Status, I_Clear, I_Index
  <2>3. UNCHANGED << produce, consume, fresh, last, tokens, epc, overcount >>
    BY <1>3 DEF I_Status, I_Clear, I_Index, hw, task
  <2> QED
    BY <2>1, <2>2, <2>3, Zenon DEF TypeOK
<1>4. CASE I_Give
  <2>1. tokens' \in 0 .. NUM_RX_FRAG
    <3>1. Counted \in Nat
      BY DEF TypeOK, Slot, Counted, RxSizes
    <3>2. tokens \in 0 .. NUM_RX_FRAG /\ NUM_RX_FRAG \in Nat
      BY DEF TypeOK, RxSizes
    <3>3. \/ tokens' = tokens
          \/ tokens' = NUM_RX_FRAG
          \/ tokens' = tokens + Counted /\ tokens + Counted <= NUM_RX_FRAG
      BY <1>4 DEF I_Give
    <3> QED
      BY <3>1, <3>2, <3>3
  <2>2. last' \in Slot
    BY <1>4 DEF I_Give, TypeOK
  <2>3. overcount' \in BOOLEAN
    BY <1>4, Zenon DEF I_Give, TypeOK
  <2> QED
    BY <1>4, <2>1, <2>2, <2>3, Zenon DEF I_Give, hw, task, TypeOK
<1>5. CASE E_Take
  <2>1. tokens' \in 0 .. NUM_RX_FRAG
    BY <1>5 DEF E_Take, TypeOK, RxSizes
  <2> QED
    BY <1>5, <2>1, Zenon DEF E_Take, hw, handler, TypeOK
<1>6. CASE E_Read
  <2>1. consume' \in Slot /\ fresh' \subseteq Slot
    BY <1>6, NextIsSlot DEF E_Read, TypeOK
  <2> QED
    BY <1>6, <2>1, Zenon DEF E_Read, handler, TypeOK
<1> QED
  BY <1>1, <1>2, <1>3, <1>4, <1>5, <1>6 DEF Next, Isr, Task

(* A frame lands, at any place of the handler.                             *)
LEMMA ReceiveStep ==
    ASSUME RxSizes, TypeOK, RingInv, HandlerInv, Receive
    PROVE  RingInv' /\ HandlerInv'
<1> DEFINE p == NextSlot(produce)
<1>1. /\ p # consume
      /\ fresh' = fresh \cup {produce} /\ produce' = p /\ rxDone' = TRUE
      /\ UNCHANGED << isr, status, new, last, consume, epc, tokens, overcount >>
  BY DEF Receive, handler, task
<1>2. p \in Slot
  BY NextIsSlot DEF TypeOK
<1>3. Ahead(p) = Ahead(produce) + 1
  BY <1>1, DistanceToNext DEF TypeOK, Ahead
<1>4. \A i \in Slot : Ahead(i) \in Nat /\ Ahead(i)' = Ahead(i)
  BY <1>1, DistanceInRing DEF TypeOK, Ahead
<1>5. \A i \in Slot : Ahead(i) = Ahead(produce) => i = produce
  BY DistanceInjective DEF TypeOK, Ahead
<1>6. produce \in Slot /\ last \in Slot /\ new \in Slot
  BY DEF TypeOK
<1>7. Ahead(produce)' = Ahead(produce) + 1
  BY <1>1, <1>3 DEF Ahead
<1> HIDE DEF p
<1>8. RingInv'
  <2>1. \A i \in Slot : i \in fresh' <=> Ahead(i) < Ahead(produce) + 1
    BY <1>1, <1>4, <1>5, <1>6 DEF RingInv
  <2>2. Held' = Held /\ Ahead(last)' = Ahead(last)
    BY <1>1, <1>4, <1>6 DEF Held, Ahead
  <2> QED
    BY <1>1, <1>4, <1>6, <1>7, <2>1, <2>2 DEF RingInv
<1>9. HandlerInv'
  <2>1. Ahead(last)' = Ahead(last) /\ Ahead(new)' = Ahead(new)
    BY <1>1 DEF Ahead
  <2>2. isr = "give" /\ status => Ahead(last) <= Ahead(new) /\ Ahead(new) <= Ahead(produce)
    BY Zenon DEF HandlerInv
  <2>3. isr = "give" /\ status => Ahead(last)' <= Ahead(new)' /\ Ahead(new)' <= Ahead(produce)'
    BY <1>4, <1>6, <1>7, <2>1, <2>2
  <2> QED
    BY <1>1, <2>3, Zenon DEF HandlerInv, Pending
<1> QED
  BY <1>8, <1>9

(* The handler reads and clears the bit and takes the index.               *)
LEMMA HandlerStep ==
    ASSUME RxSizes, TypeOK, RingInv, HandlerInv, I_Status \/ I_Clear \/ I_Index
    PROVE  RingInv' /\ HandlerInv'
<1>1. UNCHANGED << produce, consume, fresh, last, tokens, epc >>
  BY DEF I_Status, I_Clear, I_Index, hw, task
<1>2. RingInv'
  BY <1>1 DEF RingInv, Ahead, Held
<1>3. HandlerInv'
  <2>1. CASE I_Status
    BY <2>1, Zenon DEF I_Status, hw, HandlerInv, Pending
  <2>2. CASE I_Clear
    BY <2>2, Zenon DEF I_Clear, HandlerInv, Pending
  <2>3. CASE I_Index
    <3>1. /\ isr = "index" /\ isr' = "give"
          /\ new' = produce /\ status' = status /\ rxDone' = rxDone
      BY <2>3 DEF I_Index, hw
    <3>2. /\ Ahead(last)' = Ahead(last) /\ Ahead(new)' = Ahead(produce)
          /\ Ahead(produce)' = Ahead(produce)
      BY <1>1, <3>1 DEF Ahead
    <3>3. Ahead(produce) \in Nat
      BY DistanceInRing DEF TypeOK, Ahead
    <3>4. Ahead(last)' <= Ahead(new)' /\ Ahead(new)' <= Ahead(produce)'
      BY <3>2, <3>3 DEF RingInv
    <3> QED
      BY <1>1, <3>1, <3>4, Zenon DEF HandlerInv, Pending
  <2> QED
    BY <2>1, <2>2, <2>3
<1> QED
  BY <1>2, <1>3

(* The handler gives a token for every frame it found, if it found any.    *)
LEMMA GiveStep ==
    ASSUME RxSizes, TypeOK, RingInv, HandlerInv, I_Give, ~overcount'
    PROVE  RingInv' /\ HandlerInv'
<1>1. /\ UNCHANGED << produce, fresh, rxDone, status, new, consume, epc >>
      /\ isr = "give" /\ isr' = "idle"
  BY DEF I_Give, hw, task
<1>2. /\ Ahead(last) \in 0 .. NUM_RX_FRAG - 1
      /\ Ahead(new) \in 0 .. NUM_RX_FRAG - 1
      /\ Ahead(produce) \in Nat
  BY DistanceInRing DEF TypeOK, Ahead
<1>3. Held \in {0, 1} /\ Held' = Held
  BY <1>1 DEF Held
<1>4. CASE ~ status
  <2>1. UNCHANGED << tokens, last >>
    BY <1>4 DEF I_Give
  <2>2. RingInv'
    BY <1>1, <2>1 DEF RingInv, Ahead, Held
  <2>3. HandlerInv'
    <3>1. Pending
      BY <1>4, Zenon DEF HandlerInv
    <3> QED
      BY <1>1, <2>1, <3>1, Zenon DEF HandlerInv, Pending
  <2> QED
    BY <2>2, <2>3
<1>5. CASE status
  <2>1. /\ Ahead(last) <= Ahead(new) /\ Ahead(new) <= Ahead(produce)
        /\ new # produce => rxDone
    BY <1>1, <1>5, Zenon DEF HandlerInv
  <2>2. last # new
    BY <1>5, Zenon DEF I_Give
  <2>3. Ahead(last) # Ahead(new)
    BY <2>2, DistanceInjective DEF TypeOK, Ahead
  <2>4. Ahead(last) < Ahead(new)
    BY <1>2, <2>1, <2>3
  <2>5. Counted = Ahead(new) - Ahead(last)
    BY <2>4, CountedIsDifference
  <2>6. tokens + Counted = Ahead(new) - Held
    <3>1. tokens \in Nat /\ tokens + Held = Ahead(last)
      BY DEF RingInv, TypeOK
    <3> QED
      BY <1>2, <1>3, <2>5, <3>1
  <2>7. tokens' = Ahead(new) - Held /\ last' = new
    <3>1. Ahead(new) - Held <= NUM_RX_FRAG
      BY <1>2, <1>3 DEF RxSizes
    <3>2. tokens + Counted <= NUM_RX_FRAG
      BY <2>6, <3>1
    <3>3. tokens' = tokens + Counted /\ last' = new
      BY <1>5, <3>2 DEF I_Give
    <3> QED
      BY <2>6, <3>3
  <2>8. RingInv'
    <3>1. \A i \in Slot : i \in fresh' <=> Ahead(i)' < Ahead(produce)'
      BY <1>1 DEF RingInv, Ahead
    <3>2. Ahead(last)' = Ahead(new) /\ Ahead(produce)' = Ahead(produce)
      BY <1>1, <2>7 DEF Ahead
    <3>3. tokens' + Held' = Ahead(last)'
      BY <1>2, <1>3, <2>7, <3>2
    <3>4. Ahead(last)' <= Ahead(produce)'
      BY <2>1, <3>2
    <3> QED
      BY <3>1, <3>3, <3>4 DEF RingInv
  <2>9. HandlerInv'
    BY <1>1, <2>1, <2>7, Zenon DEF HandlerInv, Pending
  <2> QED
    BY <2>8, <2>9
<1> QED
  BY <1>4, <1>5 DEF TypeOK

(* Between interrupts the tokens count the frames in the ring.             *)
LEMMA Settled ==
    ASSUME RxSizes, RingInv, HandlerInv, TaskRuns
    PROVE  tokens + Held = Ahead(produce) /\ last = produce
<1>1. last = produce
  BY Zenon DEF TaskRuns, HandlerInv, Pending
<1> QED
  BY <1>1 DEF RingInv

(* The task takes a token.                                                 *)
LEMMA TakeStep ==
    ASSUME RxSizes, TypeOK, RingInv, HandlerInv, E_Take
    PROVE  RingInv' /\ HandlerInv'
<1>1. /\ UNCHANGED << produce, fresh, rxDone, isr, status, new, last, consume >>
      /\ epc = "wait" /\ epc' = "read" /\ tokens > 0 /\ tokens' = tokens - 1
  BY DEF E_Take, hw, handler
<1>2. RingInv'
  <2>1. tokens \in Nat
    BY DEF TypeOK
  <2> QED
    BY <1>1, <2>1 DEF RingInv, Ahead, Held
<1>3. HandlerInv'
  <2>1. /\ Ahead(last)' = Ahead(last) /\ Ahead(new)' = Ahead(new)
        /\ Ahead(produce)' = Ahead(produce)
    BY <1>1 DEF Ahead
  <2> QED
    BY <1>1, <2>1, Zenon DEF HandlerInv, Pending
<1> QED
  BY <1>2, <1>3

(* The task reads a frame and gives its descriptor back.                   *)
LEMMA ReadStep ==
    ASSUME RxSizes, TypeOK, RingInv, HandlerInv, E_Read
    PROVE  RingInv' /\ HandlerInv'
<1>1. /\ UNCHANGED << produce, rxDone, isr, status, new, last, tokens >>
      /\ epc = "read" /\ epc' = "wait" /\ TaskRuns /\ isr = "idle"
      /\ fresh' = fresh \ {consume} /\ consume' = NextSlot(consume)
  BY DEF E_Read, handler, TaskRuns
<1>2. consume \in Slot /\ produce \in Slot /\ last \in Slot /\ consume' \in Slot
  BY <1>1, NextIsSlot DEF TypeOK
<1>3. \A i \in Slot :
        /\ Ahead(i) \in 0 .. NUM_RX_FRAG - 1
        /\ Ahead(i) = 0 <=> i = consume
        /\ Ahead(i)' = IF i = consume THEN NUM_RX_FRAG - 1 ELSE Ahead(i) - 1
  BY <1>1, <1>2, DistanceInRing, DistanceFromNext, SMT DEF Ahead
<1>4. last = produce /\ tokens + 1 = Ahead(produce) /\ tokens \in Nat
  BY <1>1, Settled DEF Held, TypeOK
<1>5. produce # consume
  BY <1>2, <1>3, <1>4
<1>6. Ahead(produce)' = Ahead(produce) - 1 /\ Ahead(last)' = Ahead(last) - 1
  BY <1>1, <1>2, <1>3, <1>4, <1>5
<1>7. RingInv'
  <2>1. \A i \in Slot : i \in fresh' <=> Ahead(i)' < Ahead(produce)'
    <3> SUFFICES ASSUME NEW i \in Slot
                 PROVE  i \in fresh' <=> Ahead(i)' < Ahead(produce)'
      OBVIOUS
    <3>1. i \in fresh <=> Ahead(i) < Ahead(produce)
      BY DEF RingInv
    <3>2. NUM_RX_FRAG \in Nat
      BY DEF RxSizes
    <3>3. i \in fresh' <=> i \in fresh /\ i # consume
      BY <1>1
    <3> QED
      BY <1>2, <1>3, <1>6, <3>1, <3>2, <3>3
  <2>2. tokens' + Held' = Ahead(last)' /\ Ahead(last)' <= Ahead(produce)'
    BY <1>1, <1>2, <1>3, <1>4, <1>6 DEF Held
  <2> QED
    BY <2>1, <2>2 DEF RingInv
<1>8. HandlerInv'
  <2>1. Pending
    BY <1>1, Zenon DEF HandlerInv
  <2> QED
    BY <1>1, <2>1, Zenon DEF HandlerInv, Pending
<1> QED
  BY <1>7, <1>8

(* Every step keeps the invariant.                                         *)
LEMMA RxStep == ASSUME RxSizes, RxInv, [Next]_vars PROVE RxInv'
<1>1. TypeOK /\ TypeOK'
  BY TypesStep DEF RxInv
<1>2. overcount => overcount'
  BY Zenon DEF Next, Isr, Task, Receive, I_Status, I_Clear, I_Index, I_Give, E_Take, E_Read,
               vars, hw, handler, task
<1>3. ASSUME ~overcount' PROVE RingInv' /\ HandlerInv'
  <2>1. RingInv /\ HandlerInv
    BY <1>2, <1>3, Zenon DEF RxInv
  <2>2. CASE UNCHANGED vars
    <3>1. UNCHANGED << produce, consume, fresh, rxDone, isr, status, new, last, tokens, epc >>
      BY <2>2 DEF vars, hw, handler, task
    <3>2. RingInv'
      BY <2>1, <3>1 DEF RingInv, Ahead, Held
    <3>3. /\ Ahead(last)' = Ahead(last) /\ Ahead(new)' = Ahead(new)
          /\ Ahead(produce)' = Ahead(produce)
      BY <3>1 DEF Ahead
    <3> QED
      BY <2>1, <3>1, <3>2, <3>3, Zenon DEF HandlerInv, Pending
  <2> QED
    BY <1>1, <1>3, <2>1, <2>2, ReceiveStep, HandlerStep, GiveStep, TakeStep, ReadStep
       DEF Next, Isr, Task
<1> QED
  BY <1>1, <1>3 DEF RxInv

(* The ring is empty.                                                      *)
LEMMA RxStart == ASSUME RxSizes, Init PROVE RxInv
<1>1. TypeOK
  <2>1. 0 \in Slot /\ 0 \in 0 .. NUM_RX_FRAG /\ {} \subseteq Slot
    BY DEF RxSizes, Slot
  <2> QED
    BY <2>1, Zenon DEF Init, TypeOK
<1>2. RingInv
  <2>1. Ahead(0) = 0
    BY DEF Init, Ahead, Distance
  <2>2. \A i \in Slot : Ahead(i) \in Nat
    BY <1>1, DistanceInRing DEF TypeOK, Ahead
  <2> QED
    BY <2>1, <2>2 DEF Init, RingInv, Held
<1>3. HandlerInv
  BY Zenon DEF Init, HandlerInv, Pending
<1> QED
  BY <1>1, <1>2, <1>3 DEF RxInv

(* It holds from the start, for every step keeps it.                       *)
LEMMA RxInvariance == ASSUME RxSizes PROVE Spec => []RxInv
<1>1. Init => RxInv
  BY RxStart
<1>2. RxInv /\ [Next]_vars => RxInv'
  BY RxStep
<1> QED
  BY <1>1, <1>2, PTL DEF Spec

-----------------------------------------------------------------------------
(* The ring's indices stay in the ring and semEthRx below its maximum.     *)
THEOREM RxTypeCorrect == ASSUME RxSizes PROVE Spec => []TypeOK
<1>1. RxInv => TypeOK
  BY DEF RxInv
<1> QED
  BY <1>1, RxInvariance, PTL

(* low_level_input only reads descriptors that hold an unread frame, until *)
(* a round is overcounted.                                                 *)
THEOREM ReadsUnreadFrame == ASSUME RxSizes PROVE Spec => []ReadsAFrame
<1>1. RxInv => ReadsAFrame
  <2> SUFFICES ASSUME RxInv, epc = "read", ~overcount PROVE consume \in fresh
    BY DEF ReadsAFrame
  <2>1. consume \in Slot /\ last \in Slot /\ produce \in Slot /\ tokens \in Nat
    BY DEF RxInv, TypeOK
  <2>2. Ahead(consume) = 0 /\ Ahead(produce) \in Nat /\ Ahead(last) \in Nat
    BY <2>1, DistanceInRing DEF Ahead
  <2>3. tokens + 1 = Ahead(last) /\ Ahead(last) <= Ahead(produce)
    BY DEF RxInv, RingInv, Held
  <2>4. Ahead(consume) < Ahead(produce)
    BY <2>1, <2>2, <2>3
  <2> QED
    BY <2>1, <2>4 DEF RxInv, RingInv
<1> QED
  BY <1>1, RxInvariance, PTL

(* Between interrupts semEthRx counts the frames in the ring, until then.  *)
THEOREM TokensAreFrames == ASSUME RxSizes PROVE Spec => []TokensCountFrames
<1>1. RxInv => TokensCountFrames
  <2> SUFFICES ASSUME RxInv, TaskRuns, ~overcount
               PROVE  tokens + (IF epc = "read" THEN 1 ELSE 0) = Distance(consume, produce)
    BY DEF TokensCountFrames
  <2>1. RingInv /\ HandlerInv
    BY Zenon DEF RxInv
  <2>2. tokens + Held = Ahead(produce)
    BY <2>1, Settled
  <2> QED
    BY <2>2 DEF Held, Ahead
<1> QED
  BY <1>1, RxInvariance, PTL
=============================================================================
