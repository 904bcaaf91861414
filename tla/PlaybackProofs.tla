--------------------------- MODULE PlaybackProofs ---------------------------
(***************************************************************************)
(* Proofs about Playback for every size of the ring, the blocks, the       *)
(* transfers and the segments.                                             *)
(***************************************************************************)
EXTENDS PlaybackInv, TLAPS

(* The ring is at least a block long.                                      *)
LEMMA SizeIsNat == RAM_BUFSIZE \in Nat /\ RAM_BUFSIZE >= BLOCK
<1>1. PICK c \in 0 .. CHIPSIZE : CHIPSIZE = c * BLOCK
  BY RingAssumption DEF Aligned
<1>2. c >= 1
  BY <1>1, RingAssumption
<1> QED
  BY <1>1, <1>2, RingAssumption DEF RAM_BUFSIZE

(* An aligned address inside the ring leaves room for a block in its chip. *)
LEMMA AlignedRoom ==
    ASSUME NEW a \in 0 .. RAM_BUFSIZE - 1, Aligned(a)
    PROVE  /\ FitsChip(a, BLOCK)
           /\ Aligned(a + BLOCK)
<1>1. PICK k \in 0 .. a : a = k * BLOCK
  BY DEF Aligned
<1>2. PICK c \in 0 .. CHIPSIZE : CHIPSIZE = c * BLOCK
  BY RingAssumption DEF Aligned
<1>3. Aligned(a + BLOCK)
  <2>1. a + BLOCK = (k + 1) * BLOCK
    BY <1>1, RingAssumption
  <2>2. k + 1 \in 0 .. a + BLOCK
    BY <1>1, RingAssumption
  <2> QED
    BY <2>1, <2>2 DEF Aligned
<1>4. \A m, n \in Nat : m * BLOCK < n * BLOCK => m * BLOCK + BLOCK <= n * BLOCK
  <2> SUFFICES ASSUME NEW m \in Nat, NEW n \in Nat, m * BLOCK < n * BLOCK
               PROVE  m * BLOCK + BLOCK <= n * BLOCK
    OBVIOUS
  <2>1. m < n
    BY RingAssumption
  <2>2. PICK d \in Nat : n = m + 1 + d
    BY <2>1
  <2>3. n * BLOCK = m * BLOCK + BLOCK + d * BLOCK
    BY <2>2, RingAssumption
  <2> QED
    BY <2>3, RingAssumption
<1>5. FitsChip(a, BLOCK)
  <2>1. RAM_BUFSIZE = (2 * c) * BLOCK
    BY <1>2, RingAssumption DEF RAM_BUFSIZE
  <2>2. CASE a < CHIPSIZE
    BY <1>1, <1>2, <1>4, <2>2, RingAssumption DEF FitsChip, ChipEnd
  <2>3. CASE a >= CHIPSIZE
    <3>1. k * BLOCK < (2 * c) * BLOCK
      BY <1>1, <2>1, RingAssumption DEF RAM_BUFSIZE
    <3>2. 2 * c \in Nat
      BY <1>2
    <3>3. k * BLOCK + BLOCK <= (2 * c) * BLOCK
      BY <3>1, <3>2, <1>1, <1>4
    <3> QED
      BY <3>3, <2>3, <2>1, <1>1, RingAssumption DEF FitsChip, ChipEnd, RAM_BUFSIZE
  <2> QED
    BY <2>2, <2>3, RingAssumption
<1> QED
  BY <1>3, <1>5

(* The tail after a block is taken is one the code may have.               *)
LEMMA NextTailAligned ==
    ASSUME NEW t \in 0 .. RAM_BUFSIZE - 1, Aligned(t)
    PROVE  /\ NextTail(t, BLOCK) \in 0 .. RAM_BUFSIZE - 1
           /\ Aligned(NextTail(t, BLOCK))
<1>1. FitsChip(t, BLOCK) /\ Aligned(t + BLOCK)
  BY AlignedRoom
<1>2. Aligned(0)
  BY RingAssumption DEF Aligned
<1> QED
  BY <1>1, <1>2, RingAssumption DEF NextTail, FitsChip, ChipEnd, RAM_BUFSIZE

(* A block taken out of a ring that holds more than a block.               *)
LEMMA TakeBlock ==
    ASSUME NEW h \in 0 .. RAM_BUFSIZE, NEW t \in 0 .. RAM_BUFSIZE - 1,
           Aligned(t), RAM_buflen(h, t) > BLOCK
    PROVE  RAM_buflen(h, NextTail(t, BLOCK)) = RAM_buflen(h, t) - BLOCK
<1>1. FitsChip(t, BLOCK)
  BY AlignedRoom
<1> QED
  BY <1>1, RingAssumption
     DEF NextTail, FitsChip, ChipEnd, RAM_buflen, RAM_BUFSIZE

(* A head behind a part that fits its chip.                                *)
LEMMA PartStaysInRing ==
    ASSUME NEW s \in 0 .. RAM_BUFSIZE, NEW n \in Nat, FitsChip(s, n)
    PROVE  s + n \in 0 .. RAM_BUFSIZE
  BY RingAssumption DEF FitsChip, ChipEnd, RAM_BUFSIZE

(* A piece put into a ring that has room for it: the part in the chip of   *)
(* head, and the rest in the other one.                                    *)
LEMMA PutPiece ==
    ASSUME NEW h \in 0 .. RAM_BUFSIZE, NEW t \in 0 .. RAM_BUFSIZE - 1,
           NEW s \in 0 .. RAM_BUFSIZE, NEW len \in 1 .. MAXDMA, NEW w \in 0 .. len,
           RAM_buflen(h, t) + len <= RAM_BUFSIZE - 1,
           \/ s = h /\ w = 0
           \/ s = CHIPSIZE /\ h + w = CHIPSIZE
           \/ s = 0 /\ h + w = RAM_BUFSIZE,
           FitsChip(s, len - w)
    PROVE  /\ s + (len - w) \in 0 .. RAM_BUFSIZE
           /\ RAM_buflen(s + (len - w), t) = RAM_buflen(h, t) + len
  BY RingAssumption DEF FitsChip, ChipEnd, RAM_buflen, RAM_BUFSIZE

-----------------------------------------------------------------------------
(* The invariant holds when the scheduler starts (main, VS_Init).          *)
LEMMA InitIInv == Init => IInv
  BY RingAssumption, PlaybackAssumption
  DEF Init, IInv, TypeOK, MutexHolders, InBufput, Modes, Feeding, RingShape,
      BuflenExact, PutCall, PutParts, Capacity, Reserved, FillLevel, Transfers,
      Counted, InPiece, InReset, HeadersFit, DmaStates, OverrunStates,
      Aligned, buflen, RAM_buflen, RAM_BUFSIZE, Tasks

(***************************************************************************)
(* Steps.  The parts of the invariant are expanded everywhere; RAM_buflen  *)
(* only where a pointer moves.                                             *)
(***************************************************************************)
(* Steps of vVsTask, VS_feed and RAM_bufget.                               *)
LEMMA VsStepIInv ==
    ASSUME IInv, V_Wake \/ VsStep
    PROVE  IInv'
<1> USE RingAssumption, PlaybackAssumption
    DEF IInv, TypeOK, MutexHolders, InBufput, Modes, Feeding, RingShape,
        BuflenExact, PutCall, PutParts, Capacity, Reserved, FillLevel,
        Transfers, Counted, InPiece, InReset, HeadersFit,
        MoreInOtherChip, Tasks, DmaStates, OverrunStates, buflen, ring, kernel, vs, put, sc
<1>1. CASE V_Wake
  BY <1>1 DEF V_Wake
<1>2. CASE V_Feed
  BY <1>2 DEF V_Feed, EnoughToFeed
<1>3. CASE V_Idle
  BY <1>3 DEF V_Idle
<1>4. CASE V_Lock
  BY <1>4 DEF V_Lock
<1>5. CASE V_LockTimeout
  BY <1>5 DEF V_LockTimeout
<1>6. CASE V_Got
  <2>1. vtail = tail /\ tail' = NextTail(tail, BLOCK) /\ ~ suspended
    BY <1>6 DEF V_Got
  <2>2. tail' \in 0 .. RAM_BUFSIZE - 1 /\ Aligned(tail')
    BY <2>1, NextTailAligned
  <2>3. spc # "rhead" /\ overrun' = overrun /\ (Counted => spc # "suspend")
    BY <1>6 DEF V_Got
  <2>4. CASE Counted
    <3>1. stored = buflen /\ stored > BLOCK /\ stored' = stored - BLOCK
      BY <1>6, <2>3, <2>4 DEF V_Got
    <3>2. stored' \in 0 .. RAM_BUFSIZE - 1 /\ stored' < stored
      BY <3>1, SizeIsNat
    <3>3. RAM_buflen(head, tail') = RAM_buflen(head, tail) - BLOCK
      BY <2>1, <3>1, TakeBlock
    <3>4. RingShape' /\ Capacity'
      BY <1>6, <2>2, <2>3, <3>1, <3>2, <3>3, SizeIsNat DEF V_Got
    <3>5. TypeOK'
      BY <1>6, <2>2, <3>2 DEF V_Got
    <3>6. FillLevel'
      BY <1>6, <3>2 DEF V_Got
    <3> QED
      BY <1>6, <2>3, <2>4, <3>4, <3>5, <3>6 DEF V_Got
  <2>5. CASE ~ Counted
    <3>1. stored' = 0 /\ stored = 0
      BY <1>6, <2>5 DEF V_Got
    <3>2. TypeOK' /\ RingShape' /\ Capacity' /\ FillLevel'
      BY <1>6, <2>2, <2>3, <2>5, <3>1, SizeIsNat DEF V_Got
    <3> QED
      BY <1>6, <2>3, <2>5, <3>1, <3>2 DEF V_Got
  <2> QED
    BY <2>4, <2>5
<1>7. CASE V_Sent
  BY <1>7 DEF V_Sent
<1> QED
  BY <1>1, <1>2, <1>3, <1>4, <1>5, <1>6, <1>7 DEF VsStep

(* The end of a DMA transfer (DMA_IRQHandler).                             *)
LEMMA DmaIInv ==
    ASSUME IInv, NEW ch \in 0 .. 2, DmaDone(ch)
    PROVE  IInv'
  BY RingAssumption, PlaybackAssumption
  DEF DmaDone, IInv, TypeOK, MutexHolders, InBufput, Modes, Feeding, RingShape,
      BuflenExact, PutCall, PutParts, Capacity, Reserved, FillLevel, Transfers,
      Counted, InPiece, InReset, HeadersFit, MoreInOtherChip, Tasks, DmaStates,
      OverrunStates, buflen, ring, kernel, vs, put, sc

(* A transfer that stalls, goes on, or sends when nobody waits for it.     *)
LEMMA StallIInv ==
    ASSUME IInv, DmaStalls \/ DmaGoesOn \/ DmaStrays
    PROVE  IInv'
  BY RingAssumption, PlaybackAssumption
  DEF DmaStalls, DmaGoesOn, DmaStrays, IInv, TypeOK, MutexHolders, InBufput, Modes,
      Feeding, RingShape, BuflenExact, PutCall, PutParts, Capacity, Reserved, FillLevel,
      Transfers,
      Counted, InPiece, InReset, HeadersFit, MoreInOtherChip, Tasks, DmaStates,
      OverrunStates, buflen, ring, kernel, vs, put, sc

(* Steps of the touch-panel task.                                          *)
LEMMA TpStepIInv ==
    ASSUME IInv, T_Wake \/ TpStep
    PROVE  IInv'
<1> USE DEF IInv, TypeOK, MutexHolders, InBufput, Modes, Feeding, RingShape,
        BuflenExact, PutCall, PutParts, Capacity, Reserved, FillLevel,
        Transfers, Counted, InPiece, InReset, HeadersFit,
        MoreInOtherChip, Tasks, DmaStates, OverrunStates, buflen, ring, kernel, vs, put,
        sc, SPI1_SetSpeed
<1>1. CASE T_Wake
  BY <1>1 DEF T_Wake
<1>2. CASE T_Lock
  BY <1>2 DEF T_Lock
<1>3. CASE T_Give
  BY <1>3 DEF T_Give
<1> QED
  BY <1>1, <1>2, <1>3 DEF TpStep

(* The connection: a header puts its bytes whether there is room or not.   *)
LEMMA NetworkIInv ==
    ASSUME IInv, Network
    PROVE  IInv'
<1> USE RingAssumption, PlaybackAssumption, SizeIsNat
    DEF IInv, TypeOK, MutexHolders, InBufput, Modes, Feeding, RingShape,
        BuflenExact, PutCall, PutParts, Capacity, Reserved, FillLevel,
        Transfers, Counted, InPiece, InReset, HeadersFit,
        MoreInOtherChip, Tasks, DmaStates, OverrunStates, buflen, ring, kernel, vs, put, sc
<1>1. CASE S_Connect
  BY <1>1 DEF S_Connect
<1>2. CASE S_HeaderFails \/ S_Disconnect
  BY <1>2 DEF S_HeaderFails, S_Disconnect
<1>3. ASSUME NEW n \in 0 .. MAXCHUNK, S_Header(n)
      PROVE  IInv'
  BY <1>3 DEF S_Header, HeaderBytes
<1>4. ASSUME NEW n \in 1 .. MAXCHUNK, S_Recv(n)
      PROVE  IInv'
  BY <1>4 DEF S_Recv
<1> QED
  BY <1>1, <1>2, <1>3, <1>4 DEF Network

(* The shoutcast task suspends the decoder and resets the buffer.          *)
LEMMA StarveIInv ==
    ASSUME IInv, S_Empty \/ S_Suspend \/ S_Stop \/ S_ResetTail \/ S_ResetHead
    PROVE  IInv'
<1> USE RingAssumption, PlaybackAssumption, SizeIsNat
    DEF IInv, TypeOK, MutexHolders, InBufput, Modes, Feeding, RingShape,
        BuflenExact, PutCall, PutParts, Capacity, Reserved, FillLevel,
        Transfers, Counted, InPiece, InReset, HeadersFit,
        MoreInOtherChip, Tasks, DmaStates, OverrunStates, buflen, ring, kernel, vs, put, sc
<1>1. CASE S_Empty
  BY <1>1 DEF S_Empty, BufferRanEmpty
<1>2. CASE S_Suspend
  BY <1>2 DEF S_Suspend
<1>3. CASE S_Stop
  BY <1>3 DEF S_Stop
<1>4. CASE S_ResetTail
  BY <1>4 DEF S_ResetTail, Aligned
<1>5. CASE S_ResetHead
  <2>1. RAM_buflen(0, 0) = 0
    BY DEF RAM_buflen
  <2>2. tail = 0 /\ tail' = 0 /\ head' = 0 /\ stored' = 0
    BY <1>5 DEF S_ResetHead
  <2>3. RingShape' /\ Capacity' /\ FillLevel'
    BY <1>5, <2>1, <2>2 DEF S_ResetHead
  <2> QED
    BY <1>5, <2>2, <2>3 DEF S_ResetHead
<1> QED
  BY <1>1, <1>2, <1>3, <1>4, <1>5

(* The shoutcast task resumes the decoder above the threshold.             *)
LEMMA ReadyIInv ==
    ASSUME IInv, S_Tresh \/ S_Resume \/ S_Play
    PROVE  IInv'
<1> USE RingAssumption, PlaybackAssumption, SizeIsNat
    DEF IInv, TypeOK, MutexHolders, InBufput, Modes, Feeding, RingShape,
        BuflenExact, PutCall, PutParts, Capacity, Reserved, FillLevel,
        Transfers, Counted, InPiece, InReset, HeadersFit,
        MoreInOtherChip, Tasks, DmaStates, OverrunStates, buflen, ring, kernel, vs, put, sc
<1>1. CASE S_Tresh
  BY <1>1 DEF S_Tresh, BufferFilled
<1>2. CASE S_Resume
  <2>1. TypeOK'
    BY ONLY TypeOK, <1>2 DEF TypeOK, S_Resume, ring, kernel, put
  <2>2. MutexHolders' /\ Transfers'
    BY <1>2 DEF S_Resume
  <2>3. Modes' /\ Feeding' /\ RingShape'
    BY <1>2 DEF S_Resume
  <2>4. PutCall' /\ Capacity' /\ FillLevel'
    BY <1>2 DEF S_Resume
  <2>5. PutParts'
    BY <1>2 DEF S_Resume
  <2> QED
    BY ONLY <2>1, <2>2, <2>3, <2>4, <2>5 DEF IInv
<1>3. CASE S_Play
  BY <1>3 DEF S_Play
<1> QED
  BY <1>1, <1>2, <1>3

(* The waits for room before RAM_bufput.                                   *)
LEMMA RoomIInv ==
    ASSUME IInv,
           \/ \E before, after \in 0 .. MAXCHUNK : S_Demux(before, after)
           \/ S_Room
    PROVE  IInv'
<1> USE RingAssumption, PlaybackAssumption, SizeIsNat
    DEF IInv, TypeOK, MutexHolders, InBufput, Modes, Feeding, RingShape,
        BuflenExact, PutCall, PutParts, Capacity, Reserved, FillLevel,
        Transfers, Counted, InPiece, InReset, HeadersFit,
        MoreInOtherChip, Tasks, DmaStates, OverrunStates, buflen, ring, kernel, vs, put, sc
<1>1. ASSUME NEW before \in 0 .. MAXCHUNK, NEW after \in 0 .. MAXCHUNK,
             S_Demux(before, after)
      PROVE  IInv'
  BY <1>1 DEF S_Demux
<1>2. CASE S_Room
  <2>1. Counted => stored + todo <= RAM_BUFSIZE - 1
    BY <1>2 DEF S_Room, RoomFor, buffree, RAM_buffree
  <2>2. CASE todo > 0
    BY <1>2, <2>1, <2>2 DEF S_Room
  <2>3. CASE todo = 0
    BY <1>2, <2>3 DEF S_Room, BufputReturns
  <2> QED
    BY <2>2, <2>3
<1> QED
  BY <1>1, <1>2

(* RAM_bufput gets its piece and its mutex, or drops the piece.            *)
LEMMA LockIInv ==
    ASSUME IInv, S_Lock \/ S_LockTimeout \/ S_Ch0 \/ S_Give
    PROVE  IInv'
<1> USE RingAssumption, PlaybackAssumption, SizeIsNat
    DEF IInv, TypeOK, MutexHolders, InBufput, Modes, Feeding, RingShape,
        BuflenExact, PutCall, PutParts, Capacity, Reserved, FillLevel,
        Transfers, Counted, InPiece, InReset, HeadersFit,
        MoreInOtherChip, Tasks, DmaStates, OverrunStates, buflen, ring, kernel, vs, put, sc
<1>1. CASE S_Lock
  <2>1. Piece(todo) \in 1 .. MAXDMA /\ Piece(todo) <= todo
    BY <1>1 DEF S_Lock, Piece
  <2> QED
    BY <1>1, <2>1 DEF S_Lock
<1>2. CASE S_LockTimeout
  <2>1. Piece(todo) \in 1 .. MAXDMA /\ Piece(todo) <= todo
    BY <1>2 DEF S_LockTimeout, Piece
  <2> QED
    BY <1>2, <2>1 DEF S_LockTimeout, BufputReturns
<1>3. CASE S_Ch0
  BY <1>3 DEF S_Ch0
<1>4. CASE S_Give
  BY <1>4 DEF S_Give, BufputReturns
<1> QED
  BY <1>1, <1>2, <1>3, <1>4

(* The two ways out of a transfer: on to the other chip, or a new head.    *)
LEMMA NextPartParts ==
    ASSUME IInv, InPiece, MoreInOtherChip, NextPart, head' = head
    PROVE  /\ piece' = piece /\ piece > 0
           /\ shead' \in 0 .. RAM_BUFSIZE
           /\ written' \in 0 .. piece
           /\ \/ shead' = CHIPSIZE /\ head + written' = CHIPSIZE
              \/ shead' = 0 /\ head + written' = RAM_BUFSIZE
<1> USE RingAssumption
    DEF IInv, TypeOK, PutParts, MoreInOtherChip, NextPart, FitsChip, ChipEnd,
        OtherChip, RAM_BUFSIZE
<1>1. ~ (shead = CHIPSIZE /\ head + written = CHIPSIZE)
  OBVIOUS
<1>2. ~ (shead = 0 /\ head + written = RAM_BUFSIZE)
  OBVIOUS
<1>3. shead = head /\ written = 0
  BY <1>1, <1>2
<1> QED
  BY <1>3

(* Moving RAM_bufhead by a piece: only one that came with a header can     *)
(* overrun the buffer.                                                     *)
LEMMA AdvanceHeadShape ==
    ASSUME IInv, spc \in {"bsy", "late"}, ~ MoreInOtherChip, AdvanceHead
    PROVE  /\ head' \in 0 .. RAM_BUFSIZE
           /\ tail' = tail /\ piece \in 1 .. MAXDMA
           /\ overrun' \in OverrunStates
           /\ overrun' # "never" \/ overrun = "never"
           /\ Counted' => /\ Counted /\ overrun' = overrun
                          /\ stored' = stored + piece
                          /\ stored' \in 0 .. RAM_BUFSIZE - 1
                          /\ buflen' = stored'
           /\ ~ Counted' => stored' = 0
           /\ Counted /\ phase = "stream" => /\ Counted'
                                            /\ stored' + todo <= RAM_BUFSIZE - 1
<1>1. /\ head \in 0 .. RAM_BUFSIZE /\ tail \in 0 .. RAM_BUFSIZE - 1
      /\ shead \in 0 .. RAM_BUFSIZE /\ piece \in 1 .. MAXDMA
      /\ written \in 0 .. piece /\ todo \in Nat /\ MAXDMA \in Nat
      /\ overrun \in OverrunStates /\ stored \in 0 .. RAM_BUFSIZE - 1
  BY RingAssumption, PlaybackAssumption DEF IInv, TypeOK, PutParts, InPiece, RingShape
<1>2. PICK rest \in Nat : rest = piece - written
  BY <1>1
<1>3. shead + rest \in 0 .. RAM_BUFSIZE
  BY <1>1, <1>2, PartStaysInRing DEF MoreInOtherChip
<1>4. /\ Counted => RAM_buflen(head, tail) = stored
      /\ Counted /\ phase = "stream" => stored + (piece + todo) <= RAM_BUFSIZE - 1
  BY DEF IInv, RingShape, BuflenExact, buflen, Capacity, Reserved, InPiece, Counted
<1>5. ASSUME Counted, stored + piece <= RAM_BUFSIZE - 1
      PROVE  RAM_buflen(head', tail) = stored + piece
  <2>1. RAM_buflen(head, tail) + piece <= RAM_BUFSIZE - 1
    BY <1>4, <1>5
  <2>2. \/ shead = head /\ written = 0
        \/ shead = CHIPSIZE /\ head + written = CHIPSIZE
        \/ shead = 0 /\ head + written = RAM_BUFSIZE
    BY DEF IInv, PutParts, InPiece
  <2>3. FitsChip(shead, piece - written)
    BY DEF MoreInOtherChip
  <2>4. RAM_buflen(shead + (piece - written), tail) = RAM_buflen(head, tail) + piece
    BY <1>1, <2>1, <2>2, <2>3, PutPiece
  <2> QED
    BY <1>4, <1>5, <2>4 DEF AdvanceHead
<1>6. /\ tail' = tail /\ head' = shead + rest
      /\ IF Overruns(piece) THEN overrun' = "now" /\ stored' = 0
         ELSE stored' = stored + piece /\ overrun' = overrun
  BY <1>2 DEF AdvanceHead
<1>7. CASE Overruns(piece)
  <2>1. overrun' = "now" /\ stored' = 0
    BY <1>6, <1>7
  <2>2. ~ (Counted /\ phase = "stream")
    BY <1>1, <1>4, <1>7, SizeIsNat DEF Overruns, Counted
  <2> QED
    BY <1>1, <1>3, <1>6, <2>1, <2>2 DEF Counted, OverrunStates
<1>8. CASE ~ Overruns(piece)
  <2>1. stored' = stored + piece /\ overrun' = overrun /\ Counted
    BY <1>6, <1>8 DEF Overruns, Counted
  <2>2. stored + piece <= RAM_BUFSIZE - 1
    BY <1>1, <1>4, <1>8, <2>1, SizeIsNat DEF Overruns, Counted, IInv, TypeOK
  <2>3. stored' \in 0 .. RAM_BUFSIZE - 1
    BY <1>1, <2>1, <2>2, SizeIsNat
  <2>4. buflen' = stored'
    BY <1>5, <1>6, <2>1, <2>2 DEF buflen
  <2>5. phase = "stream" => stored' + todo <= RAM_BUFSIZE - 1
    BY <1>1, <1>4, <2>1, SizeIsNat
  <2> QED
    BY <1>1, <1>3, <1>6, <2>1, <2>3, <2>4, <2>5 DEF Counted
<1> QED
  BY <1>7, <1>8

(* The invariant after a step from a transfer into the other chip.         *)
LEMMA NextPartIInv ==
    ASSUME IInv, InPiece, MoreInOtherChip, NextPart, spc' = "ch0", spc # "ch0",
           UNCHANGED << ring, mutex, sem, vs, phase, todo, post, hdrBytes,
                        flaga, suspended, ssp0, tpc, faults >>,
           dma' \in [0 .. 2 -> DmaStates], dma'[2] = dma[2]
    PROVE  IInv'
<1> USE RingAssumption, PlaybackAssumption, SizeIsNat
    DEF IInv, TypeOK, MutexHolders, InBufput, Modes, Feeding, RingShape,
        BuflenExact, PutCall, PutParts, Capacity, Reserved, FillLevel,
        Transfers, Counted, InPiece, InReset, HeadersFit,
        Tasks, OverrunStates, buflen, ring, vs
<1>1. /\ piece' = piece /\ piece > 0
      /\ shead' \in 0 .. RAM_BUFSIZE
      /\ written' \in 0 .. piece
      /\ \/ shead' = CHIPSIZE /\ head + written' = CHIPSIZE
         \/ shead' = 0 /\ head + written' = RAM_BUFSIZE
  BY NextPartParts
<1>2. PutParts'
  <2>1. head' = head /\ piece' > 0 /\ written' <= piece'
    BY <1>1
  <2> QED
    BY <1>1, <2>1 DEF PutParts
<1>3. TypeOK'
  BY <1>1
<1>4. InPiece /\ InPiece' /\ Reserved' = Reserved /\ InBufput /\ InBufput'
  BY <1>1
<1>5. Capacity' /\ FillLevel'
  BY <1>4
<1>6. Transfers' /\ MutexHolders'
  BY <1>1
<1>7. RingShape' /\ Feeding' /\ PutCall' /\ Modes'
  BY <1>1
<1> QED
  BY <1>2, <1>3, <1>5, <1>6, <1>7

(* The invariant after a new head is published.                            *)
LEMMA PublishIInv ==
    ASSUME IInv, spc \in {"bsy", "late"}, ~ MoreInOtherChip, AdvanceHead, BusIdle,
           spc' \in {"wrap", "config"}, dma' = [dma EXCEPT ![0] = LeftOfTransfer],
           UNCHANGED << mutex, sem, vs, put, phase, todo, post, hdrBytes,
                        flaga, suspended, ssp0, tpc, faults >>
    PROVE  IInv'
<1> USE RingAssumption, PlaybackAssumption, SizeIsNat
    DEF IInv, TypeOK, MutexHolders, InBufput, Modes, Feeding, RingShape,
        BuflenExact, PutCall, PutParts, Capacity, Reserved, FillLevel,
        Transfers, InPiece, InReset, HeadersFit, Tasks, OverrunStates, vs, put
<1>1. /\ head' \in 0 .. RAM_BUFSIZE
      /\ tail' = tail /\ piece \in 1 .. MAXDMA
      /\ overrun' \in OverrunStates
      /\ overrun' # "never" \/ overrun = "never"
      /\ Counted' => /\ Counted /\ overrun' = overrun
                     /\ stored' = stored + piece
                     /\ stored' \in 0 .. RAM_BUFSIZE - 1
                     /\ buflen' = stored'
      /\ ~ Counted' => stored' = 0
      /\ Counted /\ phase = "stream" => /\ Counted'
                                       /\ stored' + todo <= RAM_BUFSIZE - 1
  BY AdvanceHeadShape
<1>2. ~ MoreInOtherChip'
  BY DEF MoreInOtherChip
<1>3. stored' \in 0 .. RAM_BUFSIZE - 1
  BY <1>1
<1>4. dma' \in [0 .. 2 -> DmaStates] /\ dma'[2] = dma[2]
      /\ dma'[0] \notin {"runs", "stalled"}
  BY DEF BusIdle, LeftOfTransfer, DmaStates
<1>5. TypeOK'
  BY <1>1, <1>3, <1>4
<1>6. RingShape'
  BY <1>1, <1>3 DEF Counted
<1>7. Capacity'
  BY <1>1, <1>2
<1>8. FillLevel'
  <2>1. CASE ~ Counted'
    BY <2>1 DEF Counted
  <2>2. CASE Counted'
    BY <1>1, <1>2, <2>2 DEF Counted
  <2> QED
    BY <2>1, <2>2
<1>9. Transfers' /\ MutexHolders'
  BY <1>4
<1>10. Feeding'
  BY <1>1 DEF Counted
<1>11. PutCall' /\ Modes' /\ PutParts'
  BY <1>2
<1> QED
  BY <1>5, <1>6, <1>7, <1>8, <1>9, <1>10, <1>11

(* The parts of a piece, the new head and its wrap.                        *)
LEMMA TransferIInv ==
    ASSUME IInv, S_SecondPart \/ S_Publish \/ S_Wrap
    PROVE  IInv'
<1>1. CASE S_SecondPart
  <2>1. dma' \in [0 .. 2 -> DmaStates] /\ dma'[2] = dma[2]
    BY <1>1 DEF S_SecondPart, IInv, TypeOK, DmaStates
  <2> QED
    BY <1>1, <2>1, NextPartIInv DEF S_SecondPart, InPiece
<1>2. CASE S_Publish
  BY <1>2, PublishIInv DEF S_Publish
<1>3. CASE S_Wrap
  <2> USE RingAssumption, PlaybackAssumption, SizeIsNat
      DEF IInv, TypeOK, MutexHolders, InBufput, Modes, Feeding, RingShape,
        BuflenExact, PutCall, PutParts, Capacity, Reserved, FillLevel,
        Transfers, Counted, InPiece, InReset, HeadersFit, MoreInOtherChip,
        Tasks, buflen, ring, kernel, vs, put, sc
  <2>1. /\ Counted => RAM_buflen(head, tail) = stored
        /\ tail \in 0 .. RAM_BUFSIZE - 1
        /\ head \in 0 .. RAM_BUFSIZE
        /\ tail' = tail /\ stored' = stored /\ overrun' = overrun
    BY <1>3 DEF S_Wrap
  <2>2. CASE head = RAM_BUFSIZE
    <3>1. head' = 0
      BY <1>3, <2>2 DEF S_Wrap
    <3>2. ASSUME Counted PROVE RAM_buflen(0, tail) = stored
      <4>1. RAM_buflen(RAM_BUFSIZE, tail) <= RAM_BUFSIZE - 1
        BY <2>1, <2>2, <3>2
      <4>2. RAM_buflen(0, tail) = RAM_buflen(RAM_BUFSIZE, tail)
        BY <2>1, <4>1 DEF RAM_buflen
      <4> QED
        BY <2>1, <2>2, <3>2, <4>2
    <3>3. RingShape'
      BY <1>3, <2>1, <2>2, <3>1, <3>2 DEF S_Wrap
    <3> QED
      BY <1>3, <3>1, <3>3 DEF S_Wrap
  <2>3. CASE head < RAM_BUFSIZE
    <3>1. head' = head
      BY <1>3, <2>3, <2>1 DEF S_Wrap
    <3> QED
      BY <1>3, <3>1 DEF S_Wrap
  <2> QED
    BY <2>1, <2>2, <2>3
<1> QED
  BY <1>1, <1>2, <1>3

(* A transfer to the memory that is given up after 500 ms.                 *)
LEMMA TimeoutIInv ==
    ASSUME IInv, S_Ch0Timeout \/ S_Late \/ \E l \in BOOLEAN : S_DmaConfig(l)
    PROVE  IInv'
<1> USE RingAssumption, PlaybackAssumption, SizeIsNat
<1>1. CASE S_Ch0Timeout
  BY <1>1
  DEF S_Ch0Timeout, IInv, TypeOK, MutexHolders, InBufput, Modes, Feeding, RingShape,
      BuflenExact, PutCall, PutParts, Capacity, Reserved, FillLevel, Transfers,
      Counted, InPiece, InReset, HeadersFit, MoreInOtherChip, Tasks, buflen, ring,
      kernel, vs, put
<1>2. CASE S_Late
  <2>1. CASE MoreInOtherChip
    <3>1. dma' \in [0 .. 2 -> DmaStates] /\ dma'[2] = dma[2]
          /\ dma'[0] \notin {"runs", "stalled"}
      BY <1>2 DEF S_Late, BusIdle, LeftOfTransfer, DmaStates, IInv, TypeOK
    <3> QED
      BY <1>2, <2>1, <3>1
      DEF S_Late, IInv, TypeOK, MutexHolders, InBufput, Modes, Feeding, RingShape,
          BuflenExact, PutCall, PutParts, Capacity, Reserved, FillLevel, Transfers,
          Counted, InPiece, InReset, HeadersFit, MoreInOtherChip, Tasks, buflen, ring,
          vs, put
  <2>2. CASE ~ MoreInOtherChip
    BY <1>2, <2>2, PublishIInv DEF S_Late
  <2> QED
    BY <2>1, <2>2
<1>3. ASSUME NEW l \in BOOLEAN, S_DmaConfig(l)
      PROVE  IInv'
  <2>1. /\ DMA_Config(l) \in [0 .. 2 -> DmaStates]
        /\ DMA_Config(l)[2] = dma[2]
        /\ DMA_Config(l)[0] \notin {"runs", "stalled"}
    BY <1>3 DEF S_DmaConfig, DMA_Config, DmaStates, IInv, TypeOK, Transfers
  <2>2. CASE MoreInOtherChip
    <3>1. dma' \in [0 .. 2 -> DmaStates] /\ dma'[2] = dma[2]
      BY <1>3, <2>1, <2>2 DEF S_DmaConfig, DmaStates
    <3> QED
      BY <1>3, <2>2, <3>1, NextPartIInv DEF S_DmaConfig, InPiece
  <2>3. CASE ~ MoreInOtherChip
    BY <1>3, <2>1, <2>3
    DEF S_DmaConfig, IInv, TypeOK, MutexHolders, InBufput, Modes, Feeding, RingShape,
        BuflenExact, PutCall, PutParts, Capacity, Reserved, FillLevel, Transfers,
        Counted, InPiece, InReset, HeadersFit, MoreInOtherChip, Tasks, buflen, ring,
        vs, put
  <2> QED
    BY <2>2, <2>3
<1> QED
  BY <1>1, <1>2, <1>3

(* IInv is inductive.                                                      *)
LEMMA NextIInv == ASSUME IInv, [Next]_vars PROVE IInv'
<1>1. CASE Next
  <2>1. CASE V_Wake \/ VsStep
    BY <2>1, VsStepIInv
  <2>2. CASE T_Wake \/ TpStep
    BY <2>2, TpStepIInv
  <2>3. CASE ScStep
    BY <2>3, StarveIInv, ReadyIInv, RoomIInv, LockIInv, TransferIInv, TimeoutIInv
    DEF ScStep
  <2>4. CASE Network
    BY <2>4, NetworkIInv
  <2> QED
    BY <1>1, <2>1, <2>2, <2>3, <2>4, DmaIInv, StallIInv DEF Next
<1>2. CASE UNCHANGED vars
  BY <1>2
  DEF vars, IInv, TypeOK, MutexHolders, InBufput, Modes, Feeding, RingShape,
      BuflenExact, PutCall, PutParts, Capacity, Reserved, FillLevel, Transfers,
      Counted, InPiece, InReset, HeadersFit,
      MoreInOtherChip, Tasks, DmaStates, OverrunStates,
      buflen, ring, kernel, vs, put, sc
<1> QED
  BY <1>1, <1>2

-----------------------------------------------------------------------------
(* The invariant holds in every state the radio reaches, whatever headers  *)
(* put and transfers do.                                                   *)
THEOREM Invariance == Spec => []IInv
<1>1. IInv /\ [Next]_vars => IInv'
  BY NextIInv
<1> QED
  BY <1>1, InitIInv, PTL DEF Spec

(* Every variable has its type.                                            *)
THEOREM TypeCorrect == Spec => []TypeOK
<1>1. IInv => TypeOK
  BY DEF IInv
<1> QED
  BY <1>1, Invariance, PTL

(* The decoder task is never suspended in RAM_bufget, unless a header has  *)
(* overrun the buffer: but for that the mutex commented out around         *)
(* vTaskSuspend is not needed.                                             *)
THEOREM SuspendIsSafe == Spec => []NeverSuspendedInBufget
<1>1. IInv => NeverSuspendedInBufget
  BY DEF IInv, Feeding, MutexHolders, NeverSuspendedInBufget
<1> QED
  BY <1>1, Invariance, PTL

(* RAM_buflen returns the number of bytes in the buffer, but between a     *)
(* header's overrun and the next reset.                                    *)
THEOREM BuflenIsExact == Spec => []BuflenExact
<1>1. IInv => BuflenExact
  BY DEF IInv, RingShape
<1> QED
  BY <1>1, Invariance, PTL

(* The task that fills the buffer never waits for the one it suspended, as *)
(* long as headers leave it the room the threshold counts on.              *)
THEOREM NoDeadlock == ASSUME HeaderRoom PROVE Spec => []NeverWaitsForSuspendedDecoder
<1>1. IInv => NeverWaitsForSuspendedDecoder
  BY SizeIsNat, PlaybackAssumption
  DEF IInv, TypeOK, Modes, RingShape, BuflenExact, FillLevel, HeaderRoom, HeadersFit,
      NeverWaitsForSuspendedDecoder, buffree, buflen, RAM_buffree
<1> QED
  BY <1>1, Invariance, PTL

(* The branches of RAM_bufget that split a read are dead code.             *)
THEOREM ReadsFitTheirChip == Spec => []NoSplitRead
<1>1. IInv => NoSplitRead
  BY AlignedRoom DEF IInv, TypeOK, Feeding, RingShape, NoSplitRead
<1> QED
  BY <1>1, Invariance, PTL

(* flaga and the suspension of the decoder agree whenever the shoutcast    *)
(* task waits for the network, however often the connection was made anew. *)
THEOREM FlagaIsTrue == Spec => []FlagaTellsTheTruth
<1>1. IInv => FlagaTellsTheTruth
  BY DEF IInv, TypeOK, Modes, FlagaTellsTheTruth
<1> QED
  BY <1>1, Invariance, PTL

(* Transfers that move on SPI1 exclude each other, whatever stalls or      *)
(* times out; a channel that had stalled may be left behind.               *)
THEOREM BusExclusion == Spec => []OneMasterOnSpi1
<1>1. IInv => OneMasterOnSpi1
  BY DEF IInv, Transfers, MutexHolders, InBufput, OneMasterOnSpi1
<1> QED
  BY <1>1, Invariance, PTL

-----------------------------------------------------------------------------
(***************************************************************************)
(* Refinement of Player.                                                   *)
(***************************************************************************)
(* Outside the reset the player's level is what is stored.                 *)
LEMMA LevelIsStored ==
    ASSUME IInv, ~ InReset
    PROVE  level = stored /\ spoilt = ~ Counted
  BY DEF IInv, RingShape, BuflenExact, InReset, Counted, level, spoilt

(* A step that leaves the stored bytes and the suspension alone is none of *)
(* the player's.                                                           *)
LEMMA QuietStep ==
    ASSUME IInv, IInv', ~ InReset, ~ InReset',
           stored' = stored, overrun' = overrun, suspended' = suspended
    PROVE  UNCHANGED << level, mode, spoilt >>
<1>1. level = stored /\ spoilt = ~ Counted
  BY LevelIsStored
<1>2. level' = stored' /\ spoilt' = ~ Counted'
  BY DEF IInv, RingShape, BuflenExact, InReset, Counted, level, spoilt
<1> QED
  BY <1>1, <1>2 DEF mode, Counted

(* The VS task feeds the player's decoder, or does nothing the player sees.*)
LEMMA VsStepRefines ==
    ASSUME IInv, IInv', V_Wake \/ VsStep
    PROVE  [P!Next]_<< level, mode, spoilt >>
<1> USE DEF ring, sc
<1>1. CASE V_Got
  <2>1. /\ ~ InReset /\ ~ InReset' /\ ~ suspended /\ suspended' = suspended
        /\ overrun' = overrun
    BY <1>1 DEF V_Got, IInv, Modes, InReset
  <2>2. level = stored /\ spoilt = ~ Counted
    BY <2>1, LevelIsStored
  <2>3. level' = stored' /\ spoilt' = ~ Counted'
    BY <2>1 DEF IInv, RingShape, BuflenExact, InReset, Counted, level, spoilt
  <2>4. CASE Counted
    <3>1. stored > BLOCK /\ stored' = stored - BLOCK
      BY <1>1, <2>4 DEF V_Got, IInv, Feeding, Counted
    <3> QED
      BY <2>1, <2>2, <2>3, <2>4, <3>1 DEF P!Next, P!Feed, mode, Counted
  <2>5. CASE ~ Counted
    <3>1. stored = 0 /\ stored' = 0
      BY <1>1, <2>5 DEF V_Got, IInv, RingShape, Counted
    <3> QED
      BY <2>1, <2>5, <3>1, QuietStep
  <2> QED
    BY <2>4, <2>5
<1>2. CASE V_Wake \/ V_Idle \/ V_Feed \/ V_Lock \/ V_LockTimeout \/ V_Sent
  BY <1>2 DEF V_Wake, V_Idle, V_Feed, V_Lock, V_LockTimeout, V_Sent, level, mode, buflen,
              spoilt, InReset
<1> QED
  BY <1>1, <1>2 DEF VsStep

(* The DMA and the touch panel do nothing the player sees.                 *)
LEMMA TpDmaRefines ==
    ASSUME \/ \E ch \in 0 .. 2 : DmaDone(ch)
           \/ DmaStalls \/ DmaGoesOn \/ DmaStrays \/ T_Wake \/ TpStep
    PROVE  UNCHANGED << level, mode, spoilt >>
  BY DEF DmaDone, DmaStalls, DmaGoesOn, DmaStrays, T_Wake, TpStep, T_Lock, T_Give,
         ring, sc, level, mode, buflen, spoilt, InReset

(* Nor does the connection.                                                *)
LEMMA NetworkRefines ==
    ASSUME IInv, Network
    PROVE  UNCHANGED << level, mode, spoilt >>
  BY DEF Network, S_Connect, S_HeaderFails, S_Disconnect, S_Header, S_Recv, ring, sc,
         level, mode, buflen, spoilt, InReset

(* A piece that is published fills the player's buffer, or spoils it.      *)
LEMMA PublishRefines ==
    ASSUME IInv, IInv', spc \in {"bsy", "late"}, spc' \in {"wrap", "config"},
           ~ MoreInOtherChip, AdvanceHead, suspended' = suspended
    PROVE  [P!Next]_<< level, mode, spoilt >>
<1>1. /\ piece \in 1 .. MAXDMA /\ stored \in 0 .. RAM_BUFSIZE - 1
      /\ Counted' => /\ Counted /\ stored' = stored + piece
                     /\ stored' \in 0 .. RAM_BUFSIZE - 1
      /\ ~ Counted' => stored' = 0
  BY AdvanceHeadShape DEF IInv, RingShape
<1>2. level = stored /\ spoilt = ~ Counted
  BY LevelIsStored DEF InReset
<1>3. level' = stored' /\ spoilt' = ~ Counted'
  BY DEF IInv, RingShape, BuflenExact, InReset, Counted, level, spoilt
<1>4. CASE Counted'
  <2>1. Counted /\ level' = level + piece /\ level' <= RAM_BUFSIZE - 1 /\ level \in Nat
    BY <1>1, <1>2, <1>3, <1>4
  <2>2. spoilt = FALSE /\ spoilt' = FALSE
    BY <1>2, <1>3, <1>4, <2>1
  <2>3. level' \in level + 1 .. RAM_BUFSIZE - 1
    BY <1>1, <2>1, SizeIsNat, RingAssumption
  <2>4. P!Fill
    BY <2>2, <2>3 DEF P!Fill, mode
  <2> QED
    BY <2>4 DEF P!Next
<1>5. CASE ~ Counted' /\ Counted
  <2>1. stored + piece > RAM_BUFSIZE - 1
    BY <1>5 DEF AdvanceHead, Overruns, Counted
  <2>2. level + MAXDMA > RAM_BUFSIZE - 1
    BY <1>1, <1>2, <2>1, SizeIsNat, RingAssumption
  <2> QED
    BY <1>1, <1>2, <1>3, <1>5, <2>2 DEF P!Next, P!Spoil, mode
<1>6. CASE ~ Counted' /\ ~ Counted
  <2>1. stored = 0
    BY <1>6 DEF IInv, RingShape, Counted
  <2> QED
    BY <1>1, <1>2, <1>3, <1>6, <2>1 DEF mode
<1> QED
  BY <1>4, <1>5, <1>6

(* The shoutcast task fills, starts and starves the player.                *)
LEMMA ScStepRefines ==
    ASSUME IInv, IInv', ScStep
    PROVE  [P!Next]_<< level, mode, spoilt >>
<1> USE DEF ring, sc
<1>1. CASE S_Publish
  BY <1>1, PublishRefines DEF S_Publish
<1>2. CASE S_Suspend
  <2>1. /\ ~ InReset /\ InReset' /\ ~ suspended /\ suspended'
        /\ Counted => stored < BLOCK
    BY <1>2 DEF S_Suspend, IInv, Modes, Feeding, InReset
  <2>2. level = stored /\ spoilt = ~ Counted /\ level' = 0 /\ spoilt' = FALSE
    BY <2>1, LevelIsStored DEF level, spoilt
  <2> QED
    BY <2>1, <2>2 DEF P!Next, P!Starve, mode
<1>3. CASE S_Resume
  <2>1. /\ ~ InReset /\ ~ InReset' /\ suspended /\ suspended' = FALSE
        /\ Counted => stored > TRESH
        /\ stored' = stored /\ overrun' = overrun
    BY <1>3 DEF S_Resume, IInv, Modes, Feeding, InReset
  <2>2. level = stored /\ spoilt = ~ Counted
    BY <2>1, LevelIsStored
  <2>3. level' = stored' /\ spoilt' = ~ Counted'
    BY <2>1 DEF IInv, RingShape, BuflenExact, InReset, Counted, level, spoilt
  <2> QED
    BY <2>1, <2>2, <2>3 DEF P!Next, P!Start, mode, Counted
<1>4. CASE S_Stop \/ S_ResetTail
  BY <1>4 DEF S_Stop, S_ResetTail, level, mode, spoilt, InReset
<1>5. CASE S_ResetHead
  <2>1. InReset /\ ~ InReset' /\ Counted' /\ stored' = 0 /\ suspended' = suspended
    BY <1>5 DEF S_ResetHead, InReset, Counted
  <2>2. level = 0 /\ spoilt = FALSE /\ level' = 0 /\ spoilt' = FALSE
    BY <2>1 DEF IInv, RingShape, BuflenExact, InReset, Counted, level, spoilt
  <2> QED
    BY <2>1, <2>2 DEF mode
<1>6. CASE \/ S_Empty \/ S_Room \/ S_Lock \/ S_LockTimeout \/ S_Ch0
           \/ S_SecondPart \/ S_Wrap \/ S_Give \/ S_Tresh \/ S_Play
           \/ \E before, after \in 0 .. MAXCHUNK : S_Demux(before, after)
           \/ S_Ch0Timeout \/ \E l \in BOOLEAN : S_DmaConfig(l)
  <2>1. /\ ~ InReset /\ ~ InReset'
        /\ stored' = stored /\ overrun' = overrun /\ suspended' = suspended
    BY <1>6 DEF S_Empty, S_Room, S_Lock, S_LockTimeout, S_Ch0, S_SecondPart, S_Wrap,
                S_Give, S_Tresh, S_Play, S_Demux, BufputReturns, S_Ch0Timeout,
                S_DmaConfig, InReset
  <2> QED
    BY <2>1, QuietStep
<1>7. CASE S_Late
  <2>1. CASE MoreInOtherChip
    <3>1. /\ ~ InReset /\ ~ InReset'
          /\ stored' = stored /\ overrun' = overrun /\ suspended' = suspended
      BY <1>7, <2>1 DEF S_Late, InReset
    <3> QED
      BY <3>1, QuietStep
  <2>2. CASE ~ MoreInOtherChip
    BY <1>7, <2>2, PublishRefines DEF S_Late
  <2> QED
    BY <2>1, <2>2
<1> QED
  BY <1>1, <1>2, <1>3, <1>4, <1>5, <1>6, <1>7 DEF ScStep

(* The tasks implement the player: it starts above the threshold, stops    *)
(* with less than a block, and only bytes that came with a header and had  *)
(* no room spoil its store.                                                *)
THEOREM RefinesPlayer == Spec => PlayerSpec
<1>1. Init => P!Init
  BY DEF Init, P!Init, level, mode, spoilt, InReset, buflen, RAM_buflen
<1>2. IInv /\ IInv' /\ [Next]_vars => [P!Next]_<< level, mode, spoilt >>
  <2> SUFFICES ASSUME IInv, IInv', [Next]_vars
               PROVE  [P!Next]_<< level, mode, spoilt >>
    OBVIOUS
  <2>1. CASE UNCHANGED vars
    BY <2>1 DEF vars, ring, sc, level, mode, spoilt, InReset, buflen
  <2>2. CASE Next
    BY <2>2, VsStepRefines, TpDmaRefines, NetworkRefines, ScStepRefines DEF Next
  <2> QED
    BY <2>1, <2>2
<1>3. Spec => []IInv
  BY Invariance
<1> QED
  BY <1>1, <1>2, <1>3, PTL DEF Spec, PlayerSpec, P!Spec
-----------------------------------------------------------------------------
(***************************************************************************)
(* What liveness rests on, besides fairness: a task that waits has its     *)
(* token, or a transfer that brings it; and a wait for room comes nearer   *)
(* to its end with every block the decoder takes.                          *)
(***************************************************************************)
(* The end of a transfer to the decoder may be lost when DMA_Config is     *)
(* called for another that has timed out; a transfer to the memory that    *)
(* has stalled is given up after 500 ms.                                   *)
EndComes ==
    /\ spc = "ch0" => dma[0] \in {"runs", "stalled"} \/ sem[0] = 1
    /\ vpc = "ch2" => dma[2] = "runs" \/ sem[2] = 1
    /\ spc \in {"late", "config"} \/ dma[0] = "stalled" => faults # 0
    /\ vpc = "ch1" /\ faults = 0 => dma[1] = "runs" \/ sem[1] = 1

(* A decoder that is not suspended, with more than a block before it.      *)
DecoderMakesRoom ==
    spc = "room" /\ ~ RoomFor(todo) /\ HeadersFit => ~ suspended /\ EnoughToFeed

(* A transfer that is started, ends or is given up.                        *)
LEMMA EndComesStep ==
    ASSUME TypeOK, Transfers, EndComes, [Next]_vars PROVE EndComes'
<1> USE DEF TypeOK, EndComes, ring, kernel, vs, sc
<1>1. CASE V_Wake \/ V_Feed \/ V_Idle \/ V_Lock
  BY <1>1 DEF V_Wake, V_Feed, V_Idle, V_Lock
<1>2. CASE V_LockTimeout \/ V_Got \/ V_Sent
  BY <1>2 DEF V_LockTimeout, V_Got, V_Sent
<1>3. CASE T_Wake \/ TpStep
  BY <1>3 DEF T_Wake, TpStep, T_Lock, T_Give
<1>4. CASE Network
  BY <1>4 DEF Network, S_Connect, S_HeaderFails, S_Disconnect, S_Header, S_Recv
<1>5. CASE S_Empty \/ S_Suspend \/ S_Stop \/ S_ResetTail \/ S_ResetHead
  BY <1>5 DEF S_Empty, S_Suspend, S_Stop, S_ResetTail, S_ResetHead
<1>6. CASE S_Tresh \/ S_Resume \/ S_Play \/ S_Wrap
  BY <1>6 DEF S_Tresh, S_Resume, S_Play, S_Wrap
<1>7. CASE \/ \E before, after \in 0 .. MAXCHUNK : S_Demux(before, after)
           \/ S_Room \/ S_Give \/ S_LockTimeout
  <2>1. /\ spc' \notin {"ch0", "late", "config"} /\ UNCHANGED << sem, dma, vpc >>
        /\ faults' = 0 => faults = 0
    BY <1>7, PlaybackAssumption DEF S_Demux, S_Room, S_Give, S_LockTimeout, BufputReturns
  <2> QED
    BY <2>1
<1>8. CASE S_Lock \/ S_Ch0 \/ S_SecondPart
  BY <1>8 DEF S_Lock, S_Ch0, S_SecondPart
<1>9. CASE S_Publish \/ S_Late
  <2>1. dma' = [dma EXCEPT ![0] = LeftOfTransfer] /\ LeftOfTransfer # "stalled"
    BY <1>9 DEF S_Publish, S_Late, LeftOfTransfer
  <2>2. /\ dma'[1] = dma[1] /\ dma'[2] = dma[2] /\ dma'[0] # "stalled"
        /\ spc' \in {"wrap", "config"} /\ (spc' = "config" => spc = "late")
        /\ UNCHANGED << sem, vpc, faults >>
    BY <1>9, <2>1 DEF S_Publish, S_Late
  <2> QED
    BY <2>2
<1>10. CASE S_Ch0Timeout
  <2>1. /\ spc' = "late" /\ UNCHANGED << sem, dma, vpc >> /\ spc = "ch0"
        /\ (dma[0] = "stalled" /\ faults' = faults) \/ faults' = faults + 1
    BY <1>10 DEF S_Ch0Timeout
  <2> QED
    BY <2>1
<1>11. ASSUME NEW l \in BOOLEAN, S_DmaConfig(l)
       PROVE  EndComes'
  <2>1. faults' # 0 /\ UNCHANGED << vpc, sem >>
    BY <1>11 DEF S_DmaConfig
  <2>2. dma'[2] = dma[2] /\ (spc' = "ch0" => dma'[0] = "runs")
        /\ spc' \in {"ch0", "give"}
    BY <1>11 DEF S_DmaConfig, DMA_Config
  <2> QED
    BY <2>1, <2>2
<1>12. ASSUME NEW ch \in 0 .. 2, DmaDone(ch)
       PROVE  EndComes'
  BY <1>12 DEF DmaDone
<1>13. CASE DmaStalls \/ DmaGoesOn \/ DmaStrays
  BY <1>13 DEF DmaStalls, DmaGoesOn, DmaStrays
<1>14. CASE UNCHANGED vars
  BY <1>14 DEF vars
<1> QED
  BY <1>1, <1>2, <1>3, <1>4, <1>5, <1>6, <1>7, <1>8, <1>9, <1>10, <1>11, <1>12, <1>13,
     <1>14
  DEF Next, VsStep, ScStep

(* A task that waits for a semaphore of the DMA has its token, or a        *)
(* transfer that brings it or is given up, and one that waits for room has *)
(* a decoder that can make it: no task waits for an end that was there and *)
(* is gone.                                                                *)
THEOREM WaitsAreAnswered == ASSUME HeaderRoom PROVE Spec => [](EndComes /\ DecoderMakesRoom)
<1>1. Init => EndComes
  BY DEF Init, EndComes
<1>2. IInv => TypeOK /\ Transfers
  BY DEF IInv
<1>3. IInv => DecoderMakesRoom
  BY SizeIsNat, RingAssumption, PlaybackAssumption
  DEF IInv, TypeOK, Modes, RingShape, PutCall, BuflenExact, FillLevel, HeaderRoom, RoomFor,
      HeadersFit, DecoderMakesRoom, EnoughToFeed, buffree, buflen, RAM_buffree
<1> QED
  BY <1>1, <1>2, <1>3, EndComesStep, Invariance, PTL DEF Spec

(* While RAM_buffree() is less than what is to be put, no step takes room  *)
(* away or changes what is waited for, and each block makes a block more.  *)
RoomOnlyGrows ==
    [][spc = "room" /\ ~ RoomFor(todo) /\ overrun # "now" =>
        /\ spc' = "room" /\ todo' = todo
        /\ buffree' = buffree + (IF V_Got THEN BLOCK ELSE 0)]_vars

(* The wait for room ends after (todo - RAM_buffree()) / BLOCK blocks,     *)
(* rounded up, whatever else the tasks do.                                 *)
THEOREM RoomComesNearer == Spec => RoomOnlyGrows
<1>1. ASSUME IInv, IInv', [Next]_vars, spc = "room", ~ RoomFor(todo), Counted
      PROVE  /\ spc' = "room" /\ todo' = todo
             /\ buffree' = buffree + (IF V_Got THEN BLOCK ELSE 0)
  <2>1. ~ ScStep /\ ~ Network
    BY <1>1
    DEF ScStep, Network, S_Empty, S_Suspend, S_Stop, S_ResetTail, S_ResetHead, S_Demux,
        S_Room, S_Lock, S_LockTimeout, S_Ch0, S_SecondPart, S_Publish, S_Wrap, S_Give,
        S_Tresh, S_Resume, S_Play, S_Connect, S_HeaderFails, S_Disconnect, S_Header,
        S_Recv, S_Ch0Timeout, S_Late, S_DmaConfig
  <2>2. /\ spc' = spc /\ todo' = todo /\ overrun' = overrun
        /\ stored' = IF V_Got THEN stored - BLOCK ELSE stored
    <3>1. CASE V_Got
      BY <1>1, <3>1 DEF V_Got, sc, Counted
    <3>2. CASE ~ V_Got
      <4>1. UNCHANGED << ring, sc >>
        BY <1>1, <2>1, <3>2
        DEF Next, VsStep, V_Wake, V_Idle, V_Feed, V_Lock, V_LockTimeout, V_Sent, T_Wake,
            TpStep, T_Lock, T_Give, DmaDone, DmaStalls, DmaGoesOn, DmaStrays, vars
      <4> QED
        BY <3>2, <4>1 DEF ring, sc
    <3> QED
      BY <3>1, <3>2
  <2>3. buffree = RAM_BUFSIZE - stored - 1 /\ buffree' = RAM_BUFSIZE - stored' - 1
    BY <1>1, <2>2 DEF IInv, RingShape, BuflenExact, Counted, buffree, buflen, RAM_buffree
  <2>4. stored \in Nat /\ RAM_BUFSIZE \in Nat /\ BLOCK \in Nat
    BY <1>1, SizeIsNat, RingAssumption DEF IInv, RingShape
  <2>5. CASE V_Got
    BY <1>1, <2>2, <2>3, <2>4, <2>5
  <2>6. CASE ~ V_Got
    BY <1>1, <2>2, <2>3, <2>4, <2>6
  <2> QED
    BY <2>5, <2>6
<1>2. IInv /\ IInv' /\ [Next]_vars =>
        [spc = "room" /\ ~ RoomFor(todo) /\ overrun # "now" =>
            /\ spc' = "room" /\ todo' = todo
            /\ buffree' = buffree + (IF V_Got THEN BLOCK ELSE 0)]_vars
  BY <1>1 DEF Counted
<1> QED
  BY <1>2, Invariance, PTL DEF Spec, RoomOnlyGrows
=============================================================================
