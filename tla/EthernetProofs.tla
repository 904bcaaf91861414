--------------------------- MODULE EthernetProofs ---------------------------
(***************************************************************************)
(* Proofs about the whole Ethernet driver.  Behind one handler each ring   *)
(* still takes only the steps of its own specification, so the invariants  *)
(* proved of the rings are invariants of the driver, for every number of   *)
(* descriptors.                                                            *)
(***************************************************************************)
EXTENDS Ethernet, FiniteSetTheorems, TLAPS

-----------------------------------------------------------------------------
(***************************************************************************)
(* The send ring by itself: EmacTx, for every number of descriptors and    *)
(* every number of senders.                                                *)
(***************************************************************************)
(* The senders that have a token and no descriptor yet.                    *)
Holding == { s \in Sender : opc[s] \in {"request", "copy"} }

One(b) == IF b THEN 1 ELSE 0

(* Tokens, frames and the interrupts that are to bring a token back.       *)
Owed == /\ tokens \in Nat /\ Cardinality(Holding) \in Nat /\ Cardinality(unsent) \in Nat
        /\ tokens + Cardinality(Holding) + Cardinality(unsent) + One(txDone)
               + One(isr = "give" /\ status) <= NUM_TX_FRAG

(* Without tokens a frame is about to be put into the ring, is in it, or   *)
(* was sent and its interrupt is to come.                                  *)
TokenComes ==
    tokens = 0 => \/ \E s \in Sender : opc[s] # "idle"
                  \/ consume # produce
                  \/ txDone
                  \/ status /\ isr # "idle"

(* As long as senders have not mixed, one of them writes at a time, and    *)
(* behind the descriptor at the index; the ring holds what they wrote, or  *)
(* it is choked and nobody has a token.                                    *)
OneByOne ==
    /\ \A r, s \in Sender : Writing(r) /\ Writing(s) => r = s
    /\ \A s \in Sender : opc[s] = "copy" => tptr = produce
    /\ Owed
    /\ \/ Choked /\ \A s \in Sender : opc[s] = "idle"
       \/ unsent = InRing \cup BeingPut /\ TokenComes

(* A bit that was read is still set until it is cleared.                   *)
BitStays == isr = "clear" /\ status => txDone

TxInv == TypeOK /\ BitStays /\ (~mixed => OneByOne)

(* The next slot is a slot.                                                *)
LEMMA NextIsSlot == ASSUME NEW i \in Slot PROVE NextSlot(i) \in Slot
  BY TxAssumption DEF Slot, NextSlot

(* A ring that is not empty loses its first frame when it is sent.         *)
LEMMA InRingSent ==
    ASSUME produce \in Slot, consume \in Slot, consume # produce,
           consume' = NextSlot(consume), produce' = produce
    PROVE  InRing' = InRing \ {consume} /\ consume \in InRing
<1> USE TxAssumption DEF Slot
<1>1. CASE consume < produce
  <2>1. InRing = consume .. produce - 1
    BY <1>1 DEF InRing
  <2>2. consume' = consume + 1
    BY <1>1 DEF NextSlot
  <2>3. InRing' = consume + 1 .. produce - 1
    BY <1>1, <2>2 DEF InRing
  <2>4. consume \in InRing
    BY <1>1, <2>1
  <2> QED
    BY <1>1, <2>1, <2>3, <2>4
<1>2. CASE produce < consume
  <2>1. InRing = Slot \ (produce .. consume - 1)
    BY <1>2 DEF InRing
  <2>2. CASE consume + 1 = NUM_TX_FRAG
    <3>1. InRing' = 0 .. produce - 1
      BY <2>2 DEF InRing, NextSlot
    <3> QED
      BY <1>2, <2>1, <2>2, <3>1
  <2>3. CASE consume + 1 # NUM_TX_FRAG
    <3>1. consume' = consume + 1
      BY <2>3 DEF NextSlot
    <3>2. InRing' = Slot \ (produce .. consume)
      BY <1>2, <3>1 DEF InRing
    <3> QED
      BY <1>2, <2>1, <3>2
  <2> QED
    BY <2>2, <2>3
<1> QED
  BY <1>1, <1>2

(* A frame put behind the others is in the ring, unless the indices meet.  *)
LEMMA InRingProduced ==
    ASSUME produce \in Slot, consume \in Slot, NextSlot(produce) # consume,
           produce' = NextSlot(produce), consume' = consume
    PROVE  InRing' = InRing \cup {produce}
<1> USE TxAssumption DEF Slot
<1>1. CASE consume <= produce
  <2>1. InRing = consume .. produce - 1
    BY <1>1 DEF InRing
  <2>2. CASE produce + 1 = NUM_TX_FRAG
    <3>1. produce' = 0 /\ consume > 0
      BY <2>2 DEF NextSlot
    <3>2. InRing' = Slot \ (0 .. consume - 1)
      BY <3>1 DEF InRing
    <3> QED
      BY <1>1, <2>1, <2>2, <3>1, <3>2
  <2>3. CASE produce + 1 # NUM_TX_FRAG
    <3>1. produce' = produce + 1
      BY <2>3 DEF NextSlot
    <3>2. InRing' = consume .. produce
      BY <1>1, <3>1 DEF InRing
    <3> QED
      BY <1>1, <2>1, <3>2
  <2> QED
    BY <2>2, <2>3
<1>2. CASE produce < consume
  <2>1. InRing = Slot \ (produce .. consume - 1)
    BY <1>2 DEF InRing
  <2>2. produce' = produce + 1 /\ produce + 1 < consume
    BY <1>2 DEF NextSlot
  <2>3. InRing' = Slot \ (produce + 1 .. consume - 1)
    BY <2>2 DEF InRing
  <2> QED
    BY <1>2, <2>1, <2>2, <2>3
<1> QED
  BY <1>1, <1>2

(* The slots of a ring whose indices meet at a full ring are all slots.    *)
LEMMA FullRing ==
    ASSUME produce \in Slot, consume \in Slot, NextSlot(produce) = consume
    PROVE  InRing \cup {produce} = Slot
<1> USE TxAssumption DEF Slot
<1>1. CASE produce + 1 = NUM_TX_FRAG
  <2>1. InRing = 0 .. produce - 1
    BY <1>1 DEF InRing, NextSlot
  <2> QED
    BY <1>1, <2>1
<1>2. CASE produce + 1 # NUM_TX_FRAG
  <2>1. InRing = Slot \ (produce .. produce)
    BY <1>2 DEF InRing, NextSlot
  <2> QED
    BY <2>1
<1> QED
  BY <1>1, <1>2

(* The slots and the senders are finitely many.                            *)
LEMMA Finite ==
    /\ IsFiniteSet(Slot) /\ Cardinality(Slot) = NUM_TX_FRAG
    /\ IsFiniteSet(Sender)
    /\ IsFiniteSet(Holding) /\ Cardinality(Holding) \in Nat
    /\ unsent \subseteq Slot => IsFiniteSet(unsent) /\ Cardinality(unsent) \in Nat
<1>1. IsFiniteSet(Slot) /\ Cardinality(Slot) = NUM_TX_FRAG
  BY FS_Interval, TxAssumption DEF Slot
<1>2. IsFiniteSet(Sender)
  BY FS_Interval, TxAssumption DEF Sender
<1>3. Holding \subseteq Sender
  BY DEF Holding
<1>4. IsFiniteSet(Holding)
  BY <1>2, <1>3, FS_Subset
<1>5. unsent \subseteq Slot => IsFiniteSet(unsent)
  BY <1>1, FS_Subset
<1> QED
  BY <1>1, <1>2, <1>4, <1>5, FS_CardinalityType

(* Every step keeps the types.                                             *)
LEMMA TypesStep == ASSUME TypeOK, [Next]_vars PROVE TypeOK'
<1>1. CASE UNCHANGED vars
  BY <1>1 DEF vars, hw, handler, senders, TypeOK
<1>2. CASE Send
  BY <1>2, NextIsSlot DEF Send, handler, senders, TypeOK
<1>3. CASE I_Status \/ Isr
  <2>1. txDone' \in BOOLEAN /\ status' \in BOOLEAN
    BY <1>3, Zenon DEF TypeOK, I_Status, Isr, I_Clear, I_Give, hw
  <2>2. tokens' \in 0 .. NUM_TX_FRAG
    BY <1>3, TxAssumption, SMT DEF TypeOK, I_Status, Isr, I_Clear, I_Give
  <2>3. isr' \in {"idle", "clear", "give"}
    BY <1>3 DEF I_Status, Isr, I_Clear, I_Give
  <2>4. UNCHANGED << produce, consume, unsent, tptr, opc, mixed >>
    BY <1>3 DEF I_Status, Isr, I_Clear, I_Give, hw, senders
  <2> QED
    BY <2>1, <2>2, <2>3, <2>4, Zenon DEF TypeOK
<1>4. ASSUME NEW s \in Sender, O_Take(s) \/ O_Request(s) \/ O_Copy(s) \/ O_End(s)
      PROVE  TypeOK'
  <2>1. opc' \in [Sender -> {"idle", "request", "copy", "end"}]
    BY <1>4 DEF O_Take, O_Request, O_Copy, O_End, Goes, TypeOK
  <2>2. tokens' \in 0 .. NUM_TX_FRAG
    BY <1>4, TxAssumption, SMT DEF O_Take, O_Request, O_Copy, O_End, handler, TypeOK
  <2>3. produce' \in Slot /\ unsent' \subseteq Slot /\ tptr' \in Slot
    BY <1>4, NextIsSlot DEF O_Take, O_Request, O_Copy, O_End, hw, TypeOK
  <2>4. mixed' \in BOOLEAN
    BY <1>4, Zenon DEF O_Take, O_Request, O_Copy, O_End, TypeOK
  <2>5. UNCHANGED << consume, txDone, isr, status >>
    BY <1>4 DEF O_Take, O_Request, O_Copy, O_End, hw, handler
  <2> QED
    BY <2>1, <2>2, <2>3, <2>4, <2>5, Zenon DEF TypeOK
<1> QED
  BY <1>1, <1>2, <1>3, <1>4 DEF Next, Output

(* The controller takes a frame out of the ring and sets its bit.          *)
LEMMA SendStep == ASSUME TypeOK, OneByOne, Send PROVE OneByOne'
<1>1. /\ consume # produce /\ unsent' = unsent \ {consume} /\ consume' = NextSlot(consume)
      /\ txDone' = TRUE /\ UNCHANGED << produce, isr, status, tokens, tptr, opc, mixed >>
  BY DEF Send, handler, senders
<1>2. produce \in Slot /\ consume \in Slot /\ unsent \subseteq Slot
  BY DEF TypeOK
<1>3. unsent = InRing \cup BeingPut
  BY <1>1 DEF OneByOne, Choked
<1>4. InRing' = InRing \ {consume} /\ consume \in InRing
  BY <1>1, <1>2, InRingSent
<1>5. BeingPut' = BeingPut /\ consume \notin BeingPut
  BY <1>1 DEF BeingPut
<1>6. unsent' = InRing' \cup BeingPut'
  BY <1>1, <1>3, <1>4, <1>5
<1>7. Owed'
  <2>1. Cardinality(unsent') = Cardinality(unsent) - 1
    BY <1>1, <1>2, <1>3, <1>4, Finite, FS_RemoveElement
  <2>2. Holding' = Holding
    BY <1>1 DEF Holding
  <2>3. Cardinality(unsent') \in Nat
    BY <1>1, <1>2, Finite, FS_RemoveElement, FS_CardinalityType
  <2>4. One(txDone') = 1 /\ One(txDone) \in {0, 1}
        /\ One(isr' = "give" /\ status') = One(isr = "give" /\ status)
        /\ One(isr = "give" /\ status) \in {0, 1}
    BY <1>1 DEF One
  <2> QED
    BY <1>1, <2>1, <2>2, <2>3, <2>4, TxAssumption DEF OneByOne, Owed
<1>8. TokenComes'
  BY <1>1 DEF TokenComes
<1> QED
  BY <1>1, <1>6, <1>7, <1>8 DEF OneByOne, Writing

(* The handler leaves the ring alone; a bit set in between stays set.      *)
LEMMA IsrStep ==
    ASSUME TypeOK, BitStays, OneByOne, I_Status \/ Isr
    PROVE  OneByOne'
<1>1. UNCHANGED << produce, consume, unsent, tptr, opc, mixed >>
  BY DEF I_Status, Isr, I_Clear, I_Give, hw, senders
<1>2. InRing' = InRing /\ BeingPut' = BeingPut /\ Holding' = Holding
  BY <1>1 DEF InRing, BeingPut, Holding
<1>3. /\ \A r, s \in Sender : Writing(r)' /\ Writing(s)' => r = s
      /\ \A s \in Sender : opc'[s] = "copy" => tptr' = produce'
  BY <1>1 DEF OneByOne, Writing
<1>4. Owed'
  <2>1. CASE I_Status
    <3>1. tokens' = tokens /\ txDone' = txDone /\ isr' = "clear" /\ isr = "idle"
      BY <2>1 DEF I_Status, hw
    <3> QED
      BY <1>1, <1>2, <3>1 DEF OneByOne, Owed, One
  <2>2. CASE I_Clear
    <3>1. /\ tokens' = tokens /\ isr' = "give" /\ isr = "clear" /\ status' = status
          /\ txDone' = (txDone /\ ~status)
      BY <2>2 DEF I_Clear
    <3>2. CASE status
      <4>1. txDone /\ ~txDone'
        BY <3>1, <3>2, Zenon DEF BitStays
      <4>2. /\ One(txDone) = 1 /\ One(txDone') = 0
            /\ One(isr = "give" /\ status) = 0 /\ One(isr' = "give" /\ status') = 1
        BY <3>1, <3>2, <4>1 DEF One
      <4> QED
        BY <1>1, <1>2, <3>1, <4>2, TxAssumption DEF OneByOne, Owed
    <3>3. CASE ~status
      <4>1. txDone' = txDone
        BY <3>1, <3>3, Zenon DEF TypeOK
      <4>2. /\ One(txDone') = One(txDone)
            /\ One(isr = "give" /\ status) = 0 /\ One(isr' = "give" /\ status') = 0
        BY <3>1, <3>3, <4>1 DEF One
      <4> QED
        BY <1>1, <1>2, <3>1, <4>2, TxAssumption DEF OneByOne, Owed
    <3> QED
      BY <3>2, <3>3
  <2>3. CASE I_Give
    <3>1. /\ isr = "give" /\ isr' = "idle" /\ status' = status /\ txDone' = txDone
          /\ tokens' = IF status /\ tokens < NUM_TX_FRAG THEN tokens + 1 ELSE tokens
      BY <2>3 DEF I_Give, hw
    <3>2. /\ One(isr' = "give" /\ status') = 0 /\ One(txDone') = One(txDone)
          /\ One(isr = "give" /\ status) = (IF status THEN 1 ELSE 0)
          /\ One(txDone) \in {0, 1}
      BY <3>1 DEF One
    <3>3. tokens \in Nat
      BY DEF OneByOne, Owed
    <3> QED
      BY <1>1, <1>2, <3>1, <3>2, <3>3, TxAssumption DEF OneByOne, Owed
  <2> QED
    BY <2>1, <2>2, <2>3 DEF Isr
<1>5. CASE Choked /\ \A s \in Sender : opc[s] = "idle"
  <2>1. /\ produce = consume /\ unsent = Slot /\ tokens = 0 /\ ~txDone
        /\ status => isr # "give"
    BY <1>5, Zenon DEF Choked
  <2>2. tokens' = 0
    BY <2>1, TxAssumption DEF I_Status, Isr, I_Clear, I_Give
  <2>3. ~txDone'
    BY <2>1, Zenon DEF I_Status, Isr, I_Clear, I_Give, hw
  <2>4. status' => isr' # "give"
    BY <2>1, Zenon DEF I_Status, Isr, I_Clear, I_Give, BitStays
  <2>5. Choked'
    BY <1>1, <2>1, <2>2, <2>3, <2>4, Zenon DEF Choked, Slot
  <2> QED
    BY <1>1, <1>3, <1>4, <1>5, <2>5 DEF OneByOne
<1>6. CASE unsent = InRing \cup BeingPut /\ TokenComes
  <2>1. TokenComes'
    <3>1. CASE I_Give
      BY <1>1, <1>6, <3>1, TxAssumption DEF TokenComes, TypeOK, I_Give, hw
    <3>2. CASE I_Status
      BY <1>1, <1>6, <3>2 DEF TokenComes, I_Status, hw
    <3>3. CASE I_Clear
      BY <1>1, <1>6, <3>3 DEF TokenComes, I_Clear
    <3> QED
      BY <3>1, <3>2, <3>3 DEF Isr
  <2> QED
    BY <1>1, <1>2, <1>3, <1>4, <1>6, <2>1 DEF OneByOne
<1> QED
  BY <1>5, <1>6 DEF OneByOne

(* low_level_output up to the move of the index.                           *)
LEMMA LowLevelOutputStep ==
    ASSUME TypeOK, OneByOne, ~mixed', NEW s \in Sender,
           O_Take(s) \/ O_Request(s) \/ O_Copy(s)
    PROVE  OneByOne'
<1>1. /\ UNCHANGED << produce, consume, txDone, isr, status >>
      /\ \E to : opc' = [opc EXCEPT ![s] = to]
  BY DEF O_Take, O_Request, O_Copy, Goes, hw, handler
<1>2. \A r \in Sender : r # s => opc'[r] = opc[r]
  BY <1>1 DEF TypeOK
<1>3. ~(Choked /\ \A r \in Sender : opc[r] = "idle")
  <2>1. opc[s] # "idle" \/ tokens > 0
    BY DEF O_Take, O_Request, O_Copy, Goes
  <2> QED
    BY <2>1 DEF Choked
<1>4. unsent = InRing \cup BeingPut /\ TokenComes /\ Owed
  BY <1>3 DEF OneByOne
<1>5. InRing' = InRing
  BY <1>1 DEF InRing
<1>6. TokenComes'
  <2>1. opc'[s] # "idle"
    BY DEF O_Take, O_Request, O_Copy, Goes, TypeOK
  <2> QED
    BY <2>1 DEF TokenComes
<1>7. /\ One(txDone') = One(txDone) /\ One(txDone) \in {0, 1}
      /\ One(isr' = "give" /\ status') = One(isr = "give" /\ status)
      /\ One(isr = "give" /\ status) \in {0, 1}
  BY <1>1 DEF One
<1>8. CASE O_Take(s)
  <2>1. /\ opc[s] = "idle" /\ opc'[s] = "request" /\ tokens > 0 /\ tokens' = tokens - 1
        /\ unsent' = unsent /\ tptr' = tptr
    BY <1>8 DEF O_Take, Goes, hw, TypeOK
  <2>2. Holding' = Holding \cup {s} /\ s \notin Holding
    BY <1>2, <2>1 DEF Holding
  <2>3. Cardinality(Holding') = Cardinality(Holding) + 1
    BY <2>2, Finite, FS_AddElement
  <2>4. Owed'
    BY <1>4, <1>7, <2>1, <2>3, TxAssumption DEF Owed
  <2>5. BeingPut' = BeingPut
    BY <1>1, <1>2, <2>1 DEF BeingPut
  <2>6. /\ \A r, q \in Sender : Writing(r)' /\ Writing(q)' => r = q
        /\ \A r \in Sender : opc'[r] = "copy" => tptr' = produce'
    BY <1>1, <1>2, <2>1 DEF OneByOne, Writing
  <2> QED
    BY <1>4, <1>5, <1>6, <2>1, <2>4, <2>5, <2>6 DEF OneByOne
<1>9. CASE O_Request(s)
  <2>1. /\ opc[s] = "request" /\ opc'[s] = "copy" /\ tokens' = tokens
        /\ unsent' = unsent /\ tptr' = produce
    BY <1>9 DEF O_Request, Goes, hw, TypeOK
  <2>2. \A r \in Sender : ~Writing(r)
    BY <1>9, Zenon DEF O_Request
  <2>3. Holding' = Holding
    BY <1>2, <2>1 DEF Holding
  <2>4. Owed'
    BY <1>4, <1>7, <2>1, <2>3, TxAssumption DEF Owed
  <2>5. BeingPut' = BeingPut
    BY <1>1, <1>2, <2>1 DEF BeingPut
  <2>6. \A r \in Sender : r # s => ~Writing(r)'
    BY <1>2, <2>2 DEF Writing
  <2>7. /\ \A r, q \in Sender : Writing(r)' /\ Writing(q)' => r = q
        /\ \A r \in Sender : opc'[r] = "copy" => tptr' = produce'
    BY <1>1, <2>1, <2>6 DEF Writing
  <2> QED
    BY <1>4, <1>5, <1>6, <2>1, <2>4, <2>5, <2>7 DEF OneByOne
<1>10. CASE O_Copy(s)
  <2>1. /\ opc[s] = "copy" /\ opc'[s] = "end" /\ tokens' = tokens
        /\ unsent' = unsent \cup {tptr} /\ tptr' = tptr
    BY <1>10 DEF O_Copy, Goes, TypeOK
  <2>2. tptr = produce
    BY <2>1 DEF OneByOne
  <2>3. \A r \in Sender : r # s => ~Writing(r)
    BY <2>1 DEF OneByOne, Writing
  <2>4. Holding' = Holding \ {s} /\ s \in Holding
    BY <1>2, <2>1 DEF Holding
  <2>5. Cardinality(Holding') = Cardinality(Holding) - 1 /\ Cardinality(Holding') \in Nat
    BY <2>4, Finite, FS_RemoveElement, FS_CardinalityType
  <2>6. Cardinality(unsent') \in Nat /\ Cardinality(unsent') <= Cardinality(unsent) + 1
    <3>1. IsFiniteSet(unsent) /\ Cardinality(unsent) \in Nat
      BY Finite DEF TypeOK
    <3>2. CASE tptr \in unsent
      <4>1. unsent' = unsent
        BY <2>1, <3>2
      <4> QED
        BY <3>1, <4>1
    <3>3. CASE tptr \notin unsent
      <4>1. Cardinality(unsent') = Cardinality(unsent) + 1
        BY <2>1, <3>1, <3>3, FS_AddElement
      <4> QED
        BY <3>1, <4>1
    <3> QED
      BY <3>2, <3>3
  <2>7. Owed'
    BY <1>4, <1>7, <2>1, <2>5, <2>6, TxAssumption DEF Owed
  <2>8. BeingPut = {} /\ BeingPut' = {produce}
    BY <1>1, <2>1, <2>3 DEF BeingPut, Writing
  <2>9. \A r \in Sender : r # s => ~Writing(r)'
    BY <1>2, <2>3 DEF Writing
  <2>10. /\ \A r, q \in Sender : Writing(r)' /\ Writing(q)' => r = q
         /\ \A r \in Sender : opc'[r] = "copy" => tptr' = produce'
    BY <1>1, <2>1, <2>2, <2>9 DEF Writing
  <2> QED
    BY <1>4, <1>5, <1>6, <2>1, <2>2, <2>7, <2>8, <2>10 DEF OneByOne
<1> QED
  BY <1>8, <1>9, <1>10

(* The frame is in the ring when low_level_output ends, or it is the last  *)
(* one and chokes the ring.                                                *)
LEMMA EndStep ==
    ASSUME TypeOK, OneByOne, NEW s \in Sender, O_End(s)
    PROVE  OneByOne'
<1>1. /\ UNCHANGED << consume, unsent, txDone, isr, status, tokens, tptr >>
      /\ opc[s] = "end" /\ opc'[s] = "idle" /\ produce' = NextSlot(produce)
      /\ opc' = [opc EXCEPT ![s] = "idle"] /\ isr = "idle" /\ ~txDone
  BY DEF O_End, Goes, TaskRuns, handler, TypeOK
<1>2. \A r \in Sender : r # s => opc'[r] = opc[r] /\ ~Writing(r)
  BY <1>1 DEF TypeOK, OneByOne, Writing
<1>3. unsent = InRing \cup BeingPut /\ Owed
  BY <1>1 DEF OneByOne
<1>4. BeingPut = {produce} /\ BeingPut' = {}
  BY <1>1, <1>2 DEF BeingPut, Writing
<1>5. Holding' = Holding
  BY <1>1, <1>2 DEF Holding
<1>6. Owed'
  BY <1>1, <1>3, <1>5 DEF Owed, One
<1>7. \A r \in Sender : ~Writing(r)'
  BY <1>1, <1>2 DEF Writing
<1>8. /\ \A r, q \in Sender : Writing(r)' /\ Writing(q)' => r = q
      /\ \A r \in Sender : opc'[r] = "copy" => tptr' = produce'
  BY <1>7 DEF Writing
<1>9. produce \in Slot /\ consume \in Slot /\ unsent \subseteq Slot
  BY DEF TypeOK
<1>10. CASE NextSlot(produce) # consume
  <2>1. InRing' = InRing \cup {produce}
    BY <1>1, <1>9, <1>10, InRingProduced
  <2>2. TokenComes'
    BY <1>1, <1>10 DEF TokenComes
  <2> QED
    BY <1>1, <1>3, <1>4, <1>6, <1>8, <2>1, <2>2 DEF OneByOne
<1>11. CASE NextSlot(produce) = consume
  <2>1. unsent = Slot
    BY <1>3, <1>4, <1>9, <1>11, FullRing
  <2>2. Cardinality(unsent) = NUM_TX_FRAG
    BY <2>1, Finite
  <2>3. tokens = 0 /\ Cardinality(Holding) = 0
    <3>1. One(txDone) \in {0, 1} /\ One(isr = "give" /\ status) \in {0, 1}
      BY DEF One
    <3> QED
      BY <1>3, <2>2, <3>1, TxAssumption DEF Owed
  <2>4. Holding = {}
    BY <2>3, Finite, FS_EmptySet
  <2>5. \A r \in Sender : opc'[r] = "idle"
    <3> SUFFICES ASSUME NEW r \in Sender, r # s PROVE opc[r] = "idle"
      BY <1>1, <1>2
    <3>1. opc[r] \in {"idle", "request", "copy", "end"}
      BY DEF TypeOK
    <3>2. ~Writing(r) /\ r \notin Holding
      BY <1>2, <2>4
    <3> QED
      BY <3>1, <3>2 DEF Writing, Holding
  <2>6. Choked'
    BY <1>1, <1>11, <2>1, <2>3 DEF Choked, Slot
  <2> QED
    BY <1>6, <1>8, <2>5, <2>6 DEF OneByOne
<1> QED
  BY <1>10, <1>11

(* The invariant holds at every time.                                      *)
LEMMA TxInvariance == Spec => []TxInv
<1>1. Init => TxInv
  <2> SUFFICES ASSUME Init PROVE TxInv
    OBVIOUS
  <2>1. TypeOK
    <3>1. 0 \in Slot /\ NUM_TX_FRAG \in 0 .. NUM_TX_FRAG
      BY TxAssumption DEF Slot
    <3>2. FALSE \in BOOLEAN
      OBVIOUS
    <3>3. opc \in [Sender -> {"idle", "request", "copy", "end"}]
      BY DEF Init
    <3> QED
      BY <3>1, <3>2, <3>3, Zenon DEF Init, TypeOK
  <2>2. BitStays
    BY DEF Init, BitStays
  <2>3. \A s \in Sender : opc[s] = "idle"
    BY DEF Init
  <2>4. unsent = {} /\ InRing = {} /\ BeingPut = {} /\ Holding = {}
    BY <2>3 DEF Init, InRing, BeingPut, Holding
  <2>5. Owed
    <3>1. Cardinality(unsent) = 0 /\ Cardinality(Holding) = 0
      BY <2>4, FS_EmptySet
    <3>2. tokens = NUM_TX_FRAG /\ One(txDone) = 0 /\ One(isr = "give" /\ status) = 0
      BY DEF Init, One
    <3> QED
      BY <3>1, <3>2, TxAssumption DEF Owed
  <2>6. TokenComes
    BY TxAssumption DEF Init, TokenComes
  <2> QED
    BY <2>1, <2>2, <2>3, <2>4, <2>5, <2>6 DEF TxInv, OneByOne, Writing
<1>2. TxInv /\ [Next]_vars => TxInv'
  <2> SUFFICES ASSUME TxInv, [Next]_vars PROVE TxInv'
    OBVIOUS
  <2>1. TypeOK /\ TypeOK' /\ BitStays
    BY TypesStep DEF TxInv
  <2>2. BitStays'
    <3>1. CASE I_Status \/ Isr
      BY <2>1, <3>1, Zenon DEF I_Status, Isr, I_Clear, I_Give, BitStays, hw
    <3>2. CASE Send \/ Output \/ UNCHANGED vars
      BY <2>1, <3>2 DEF Send, Output, O_Take, O_Request, O_Copy, O_End, vars, hw, handler,
                        BitStays
    <3> QED
      BY <3>1, <3>2 DEF Next
  <2>3. mixed => mixed'
    BY Zenon DEF Next, Send, I_Status, Isr, I_Clear, I_Give, Output, O_Take, O_Request,
                 O_Copy, O_End, vars, senders
  <2>4. ASSUME ~mixed' PROVE OneByOne'
    <3>1. OneByOne
      BY <2>3, <2>4, Zenon DEF TxInv
    <3>2. CASE UNCHANGED vars
      BY <3>1, <3>2 DEF vars, hw, handler, senders, OneByOne, Writing, Owed, Holding,
                        Choked, TokenComes, InRing, BeingPut, Slot
    <3> QED
      BY <2>1, <2>4, <3>1, <3>2, SendStep, IsrStep, LowLevelOutputStep, EndStep
         DEF Next, Output
  <2> QED
    BY <2>1, <2>2, <2>4 DEF TxInv
<1> QED
  BY <1>1, <1>2, PTL DEF Spec

(* The variables keep their types.                                         *)
THEOREM TxTypeCorrect == Spec => []TypeOK
<1>1. TxInv => TypeOK
  BY DEF TxInv
<1> QED
  BY <1>1, TxInvariance, PTL

(* "@return ERR_OK if the packet could be sent" (ethernetif.c:111): what   *)
(* low_level_output accepts is what the controller sees, for any number of *)
(* descriptors and senders, until two senders mix their frames or as many  *)
(* frames wait as the ring has descriptors.                                *)
THEOREM NoFrameIsLost == Spec => []AcceptedIsInRing
<1>1. TxInv => AcceptedIsInRing
  BY DEF TxInv, OneByOne, AcceptedIsInRing
<1> QED
  BY <1>1, TxInvariance, PTL

(* Although one interrupt stands for several frames and tokens get lost,   *)
(* a task at semEthTx waits with nothing to come only at a choked ring or  *)
(* after two senders have mixed their frames.                              *)
THEOREM SenderIsAnswered == Spec => []WaitIsAnswered
<1>1. TxInv => WaitIsAnswered
  BY DEF TxInv, OneByOne, TokenComes, WaitIsAnswered
<1> QED
  BY <1>1, TxInvariance, PTL

-----------------------------------------------------------------------------
(***************************************************************************)
(* Both rings behind the one handler.                                      *)
(***************************************************************************)
RxP == INSTANCE EmacRxProofs WITH produce <- rproduce, consume <- rconsume,
                                  isr <- risr, status <- rstatus, tokens <- rtokens

(* The two halves of the handler go together.                              *)
InStep ==
    /\ isr \in {"idle", "clear", "give"}
    /\ risr \in {"idle", "clear", "index", "give"}
    /\ isr = "clear" <=> risr = "clear"
    /\ risr \in {"index", "give"} => isr = "give"

-----------------------------------------------------------------------------
(* A step of the driver is a step of the send ring or leaves it alone.     *)
LEMMA StepOfTx == [EthNext]_ethVars => [Next]_vars
<1> SUFFICES ASSUME EthNext PROVE [Next]_vars
  BY DEF ethVars
<1>1. CASE FrameSent \/ FrameReceived \/ InputStep \/ ReadIndex \/ RxBranch
  BY <1>1 DEF FrameSent, FrameReceived, InputStep, ReadIndex, RxBranch, Next
<1>2. CASE ReadStatus \/ ClearStatus \/ TxBranch
  BY <1>2 DEF ReadStatus, ClearStatus, TxBranch, Next, Isr
<1>3. CASE OutputStep
  BY <1>3 DEF OutputStep, Next
<1> QED
  BY <1>1, <1>2, <1>3 DEF EthNext, Handler

(* A step of the driver is a step of the receive ring or leaves it alone.  *)
LEMMA StepOfRx == [EthNext]_ethVars => [Rx!Next]_Rx!vars
<1>1. UNCHANGED rxVars => UNCHANGED Rx!vars
  BY DEF rxVars, Rx!vars, Rx!hw, Rx!handler, Rx!task
<1> SUFFICES ASSUME EthNext PROVE [Rx!Next]_Rx!vars
  BY <1>1 DEF ethVars
<1>2. CASE FrameSent \/ TxBranch \/ OutputStep
  BY <1>1, <1>2 DEF FrameSent, TxBranch, OutputStep
<1>3. CASE FrameReceived \/ InputStep
  BY <1>3 DEF FrameReceived, InputStep, Rx!Next
<1>4. CASE ReadStatus \/ Handler
  BY <1>1, <1>4 DEF ReadStatus, Handler, ClearStatus, ReadIndex, RxBranch, TxBranch,
                    Rx!Next, Rx!Isr
<1> QED
  BY <1>2, <1>3, <1>4 DEF EthNext

(* The driver implements both rings.                                       *)
THEOREM DriverIsBothRings == EthSpec => Spec /\ Rx!Spec
<1>1. EthInit => Init /\ Rx!Init
  BY DEF EthInit
<1> QED
  BY <1>1, StepOfTx, StepOfRx, PTL DEF EthSpec, Spec, Rx!Spec

(* The instance with the proofs is the instance of the driver.             *)
LEMMA SameRing == Rx!Spec => RxP!Spec
<1>1. Rx!Init => RxP!Init
  BY DEF Rx!Init, RxP!Init
<1>2. UNCHANGED Rx!vars => UNCHANGED RxP!vars
  BY DEF Rx!vars, Rx!hw, Rx!handler, Rx!task, RxP!vars, RxP!hw, RxP!handler, RxP!task
<1>3. Rx!Receive => RxP!Receive
  BY DEF Rx!Receive, Rx!NextSlot, Rx!handler, Rx!task,
         RxP!Receive, RxP!NextSlot, RxP!handler, RxP!task
<1>4. Rx!I_Status \/ Rx!Isr => RxP!I_Status \/ RxP!Isr
  BY DEF Rx!I_Status, Rx!Isr, Rx!I_Clear, Rx!I_Index, Rx!I_Give, Rx!Counted, Rx!hw, Rx!task,
         RxP!I_Status, RxP!Isr, RxP!I_Clear, RxP!I_Index, RxP!I_Give, RxP!Counted, RxP!hw,
         RxP!task
<1>5. Rx!Task => RxP!Task
  BY DEF Rx!Task, Rx!E_Take, Rx!E_Read, Rx!TaskRuns, Rx!NextSlot, Rx!hw, Rx!handler,
         RxP!Task, RxP!E_Take, RxP!E_Read, RxP!TaskRuns, RxP!NextSlot, RxP!hw, RxP!handler
<1>6. [Rx!Next]_Rx!vars => [RxP!Next]_RxP!vars
  BY <1>2, <1>3, <1>4, <1>5 DEF Rx!Next, RxP!Next
<1> QED
  BY <1>1, <1>6, PTL DEF Rx!Spec, RxP!Spec

(* The handler goes through both rings in step.                            *)
LEMMA HandlerInStep == EthSpec => []InStep
<1>1. EthInit => InStep
  BY DEF EthInit, Init, Rx!Init, InStep
<1>2. InStep /\ [EthNext]_ethVars => InStep'
  <2> SUFFICES ASSUME InStep, [EthNext]_ethVars PROVE InStep'
    OBVIOUS
  <2>1. CASE UNCHANGED << isr, risr >>
    BY <2>1 DEF InStep
  <2>2. CASE ReadStatus \/ ClearStatus
    BY <2>2 DEF InStep, ReadStatus, ClearStatus, I_Status, I_Clear, Rx!I_Status, Rx!I_Clear
  <2>3. CASE ReadIndex \/ RxBranch \/ TxBranch
    BY <2>3 DEF InStep, ReadIndex, RxBranch, TxBranch, Rx!I_Index, Rx!I_Give, I_Give,
                vars, handler, rxVars
  <2>4. CASE FrameSent \/ FrameReceived
    BY <2>1, <2>4 DEF FrameSent, FrameReceived, Send, Rx!Receive, vars, handler, rxVars,
                          Rx!handler
  <2>5. CASE OutputStep
    BY <2>1, <2>5 DEF OutputStep, Output, O_Take, O_Request, O_Copy, O_End, handler, rxVars
  <2>6. CASE InputStep
    BY <2>1, <2>6 DEF InputStep, Rx!Task, Rx!E_Take, Rx!E_Read, Rx!handler, vars, handler
  <2>7. CASE UNCHANGED ethVars
    BY <2>1, <2>7 DEF ethVars, vars, handler, rxVars
  <2> QED
    BY <2>2, <2>3, <2>4, <2>5, <2>6, <2>7 DEF EthNext, Handler
<1> QED
  BY <1>1, <1>2, PTL DEF EthSpec

-----------------------------------------------------------------------------
(* The send ring of the driver keeps its types.                            *)
THEOREM EthTypeCorrect == EthSpec => []TypeOK
  BY DriverIsBothRings, TxTypeCorrect, PTL

(* A frame low_level_output accepted is in the ring until it is sent, as   *)
(* far as AcceptedIsInRing says.                                           *)
THEOREM EthLosesNoFrame == EthSpec => []AcceptedIsInRing
  BY DriverIsBothRings, NoFrameIsLost, PTL

(* A sender that waits for a token waits for something that will come, as  *)
(* far as WaitIsAnswered says.                                             *)
THEOREM EthAnswersSender == EthSpec => []WaitIsAnswered
  BY DriverIsBothRings, SenderIsAnswered, PTL

(* The receive ring of the driver keeps its types, in step with the other. *)
THEOREM EthRxTypeCorrect == EthSpec => []RxTypeOK
<1>1. RxP!RxSizes
  BY EthAssumption DEF RxP!RxSizes, Rx!RxSizes
<1>2. RxP!Spec => []RxP!TypeOK
  BY <1>1, RxP!RxTypeCorrect
<1>3. RxP!TypeOK /\ InStep => RxTypeOK
  BY DEF RxTypeOK, InStep, Rx!TypeOK, Rx!Slot, RxP!TypeOK, RxP!Slot
<1> QED
  BY <1>2, <1>3, DriverIsBothRings, SameRing, HandlerInStep, PTL

(* low_level_input reads unread frames whatever the interrupt was for and  *)
(* whenever frames land, until a round is overcounted.                     *)
THEOREM EthReadsUnreadFrame == EthSpec => []ReadsAFrame
<1>1. RxP!RxSizes
  BY EthAssumption DEF RxP!RxSizes, Rx!RxSizes
<1>2. RxP!Spec => []RxP!ReadsAFrame
  BY <1>1, RxP!ReadsUnreadFrame
<1>3. RxP!ReadsAFrame => ReadsAFrame
  BY DEF ReadsAFrame, Rx!ReadsAFrame, RxP!ReadsAFrame
<1> QED
  BY <1>2, <1>3, DriverIsBothRings, SameRing, PTL

(* Between interrupts semEthRx counts the frames in the ring, until then.  *)
THEOREM EthTokensAreFrames == EthSpec => []TokensCountFrames
<1>1. RxP!RxSizes
  BY EthAssumption DEF RxP!RxSizes, Rx!RxSizes
<1>2. RxP!Spec => []RxP!TokensCountFrames
  BY <1>1, RxP!TokensAreFrames
<1>3. RxP!TokensCountFrames /\ InStep => TokensCountFrames
  BY DEF InStep, Thread, TokensCountFrames, Rx!Distance,
         RxP!TokensCountFrames, RxP!TaskRuns, RxP!Distance
<1> QED
  BY <1>2, <1>3, DriverIsBothRings, SameRing, HandlerInStep, PTL
=============================================================================
