---------------------------- MODULE AudioProofs ----------------------------
(***************************************************************************)
(* The way of the audio from the network into the chips.  The first part   *)
(* is about IcyDemux: audio and metadata are told apart, for any distance  *)
(* of the metadata, any length of it and any segments, as long as the      *)
(* parser is in step with the stream.  The second is about ExternalRam:    *)
(* the ring over two chips is a queue of bytes, for chips, blocks,         *)
(* transfers and calls of any size, as long as no transfer is late and no  *)
(* call too long.                                                          *)
(***************************************************************************)
EXTENDS IcyDemux, ExternalRam, SequenceTheorems, TLAPS

(* From one length byte to the next.                                       *)
Period == METAINT + 1 + UNIT * blk

(* The parser knows place p of the stream: how far it is in the audio, or  *)
(* how much of the block is still to come.                                 *)
Knows(p) ==
    /\ p \in 0 .. Period - 1
    /\ IF p <= METAINT THEN eState = "MODE1" /\ DataCounter = p
       ELSE eState # "MODE1" /\ DataCounter = METAINT /\ LeftMetaDataFrame = Period - p

(* A rest longer than the segment: the one call of the plan waits for a    *)
(* negative length, for ever.                                              *)
CutAgain ==
    /\ LeftMetaDataFrame > CpBytes
    /\ lost \/ InsideBlock
    /\ plan = << << LeftMetaDataFrame, CpBytes - LeftMetaDataFrame >> >>

(* Between segments it knows where the next one starts, in "demux" where   *)
(* this one does, as long as it is in step.                                *)
SyncInv ==
    /\ metadata /\ ~lost /\ pc = "recv" => Knows(at)
    /\ metadata /\ ~lost /\ pc = "room" => CutAgain \/ Knows(at)
    /\ pc \in {"demux", "room"} => CpBytes \in 1 .. MAXCHUNK /\ skip = 0
    /\ pc = "demux" /\ metadata /\ ~lost => Knows(from) /\ at = Place(from, CpBytes, blk)
    /\ pc = "demux" => sent = << >>

(* The audio of the segment lies in two intervals, the first before the    *)
(* second; each may be empty.                                              *)
AudioIn(f1, l1, f2, l2) ==
    /\ f1 + l1 <= f2 /\ f2 + l2 <= CpBytes
    /\ \A i \in 0 .. CpBytes - 1 :
           IsAudio(i) <=> i \in f1 .. f1 + l1 - 1 \/ i \in f2 .. f2 + l2 - 1

(* The calls still to come put what is missing of it.                      *)
PlanInv ==
    pc = "room" =>
        \/ CutAgain
        \/ \E f1, l1, f2, l2 \in 0 .. CpBytes :
            /\ ~lost => AudioIn(f1, l1, f2, l2)
            /\ \/ plan = << << f1, l1 >>, << f2, l2 >> >> /\ sent = << >>
               \/ plan = << << f2, l2 >> >> /\ sent = Indexes(f1, l1)

IInv == TypeOK /\ SyncInv /\ PlanInv /\ PutsTheAudio

-----------------------------------------------------------------------------
(* A place one step of at most an interval further on.                     *)
LEMMA PlaceSum ==
    ASSUME NEW p \in Nat, NEW i \in Nat, NEW b \in 0 .. MAXMETA,
           p < METAINT + 1 + UNIT * b, i <= METAINT
    PROVE  Place(p, i, b) = IF p + i < METAINT + 1 + UNIT * b THEN p + i
                            ELSE p + i - (METAINT + 1 + UNIT * b)
<1> DEFINE period == METAINT + 1 + UNIT * b
<1>1. UNIT * b \in Nat /\ METAINT \in Nat
  BY DemuxAssumption
<1>2. period \in Nat /\ i < period /\ p < period
  BY <1>1
<1> HIDE DEF period
<1>3. (p + i) % period = IF p + i < period THEN p + i ELSE p + i - period
  BY <1>2
<1> QED
  BY <1>3 DEF Place, period

(* What Indexes is.                                                        *)
LEMMA IndexesSeq ==
    ASSUME NEW f \in Nat, NEW l \in Nat
    PROVE  /\ Indexes(f, l) \in Seq(Nat) /\ Len(Indexes(f, l)) = l
           /\ \A k \in 1 .. l : Indexes(f, l)[k] = f + k - 1
           /\ << >> \o Indexes(f, l) = Indexes(f, l)
           /\ l = 0 => Indexes(f, l) = << >>
  BY DEF Indexes

(* What the concatenation of two sequences is.                             *)
LEMMA Joined ==
    ASSUME NEW s \in Seq(Nat), NEW t \in Seq(Nat)
    PROVE  /\ s \o t \in Seq(Nat) /\ Len(s \o t) = Len(s) + Len(t)
           /\ \A k \in 1 .. Len(s) + Len(t) :
                  (s \o t)[k] = IF k <= Len(s) THEN s[k] ELSE t[k - Len(s)]
  OBVIOUS

(* A sequence that lists a set in order.                                   *)
Lists(s, set) ==
    /\ \A j, k \in DOMAIN s : j < k => s[j] < s[k]
    /\ { s[k] : k \in DOMAIN s } = set

(* Two intervals, one behind the other, as one sequence.                   *)
LEMMA TwoIntervals ==
    ASSUME NEW f1 \in Nat, NEW l1 \in Nat, NEW f2 \in Nat, NEW l2 \in Nat, f1 + l1 <= f2,
           NEW s \in Seq(Nat), Len(s) = l1 + l2,
           \A k \in 1 .. l1 : s[k] = f1 + k - 1,
           \A k \in l1 + 1 .. l1 + l2 : s[k] = f2 + (k - l1) - 1
    PROVE  Lists(s, (f1 .. f1 + l1 - 1) \cup (f2 .. f2 + l2 - 1))
<1>1. DOMAIN s = 1 .. l1 + l2
  OBVIOUS
<1>2. ASSUME NEW k \in 1 .. l1 + l2, k > l1 PROVE s[k] = f2 + (k - l1) - 1
  BY <1>2
<1>3. ASSUME NEW j \in 1 .. l1 + l2, NEW k \in 1 .. l1 + l2, j < k PROVE s[j] < s[k]
  <2>1. CASE k <= l1
    BY <1>3, <2>1
  <2>2. CASE j <= l1 /\ k > l1
    BY <1>2, <2>2
  <2>3. CASE j > l1
    <3>1. s[j] = f2 + (j - l1) - 1 /\ s[k] = f2 + (k - l1) - 1
      BY <1>2, <1>3, <2>3
    <3> QED
      BY <1>3, <3>1
  <2> QED
    BY <1>3, <2>1, <2>2, <2>3
<1>4. ASSUME NEW i \in (f1 .. f1 + l1 - 1) \cup (f2 .. f2 + l2 - 1)
      PROVE  \E k \in 1 .. l1 + l2 : s[k] = i
  <2>1. CASE i \in f1 .. f1 + l1 - 1
    <3>1. i - f1 + 1 \in 1 .. l1 /\ i - f1 + 1 \in 1 .. l1 + l2
      BY <2>1
    <3>2. s[i - f1 + 1] = i
      BY <2>1, <3>1
    <3> QED
      BY <3>1, <3>2
  <2>2. CASE i \in f2 .. f2 + l2 - 1
    <3>1. l1 + (i - f2 + 1) \in l1 + 1 .. l1 + l2
      BY <2>2
    <3>2. s[l1 + (i - f2 + 1)] = f2 + (l1 + (i - f2 + 1) - l1) - 1
      BY <3>1
    <3>3. l1 + (i - f2 + 1) \in 1 .. l1 + l2 /\ s[l1 + (i - f2 + 1)] = i
      BY <2>2, <3>1, <3>2
    <3> QED
      BY <3>3
  <2> QED
    BY <1>4, <2>1, <2>2
<1>5. ASSUME NEW k \in 1 .. l1 + l2
      PROVE  s[k] \in (f1 .. f1 + l1 - 1) \cup (f2 .. f2 + l2 - 1)
  <2>1. CASE k <= l1
    BY <2>1
  <2>2. CASE k > l1
    BY <1>2, <2>2
  <2> QED
    BY <2>1, <2>2
<1>6. { s[k] : k \in DOMAIN s } = (f1 .. f1 + l1 - 1) \cup (f2 .. f2 + l2 - 1)
  BY <1>1, <1>4, <1>5
<1> QED
  BY <1>1, <1>3, <1>6 DEF Lists

(* What two calls of RAM_bufput put.                                       *)
LEMMA JoinedIndexes ==
    ASSUME NEW f1 \in Nat, NEW l1 \in Nat, NEW f2 \in Nat, NEW l2 \in Nat, f1 + l1 <= f2,
           NEW s, s = Indexes(f1, l1) \o Indexes(f2, l2)
    PROVE  /\ s \in Seq(Nat)
           /\ Lists(s, (f1 .. f1 + l1 - 1) \cup (f2 .. f2 + l2 - 1))
<1>1. /\ Indexes(f1, l1) \in Seq(Nat) /\ Len(Indexes(f1, l1)) = l1
      /\ \A k \in 1 .. l1 : Indexes(f1, l1)[k] = f1 + k - 1
  BY IndexesSeq
<1>2. /\ Indexes(f2, l2) \in Seq(Nat) /\ Len(Indexes(f2, l2)) = l2
      /\ \A k \in 1 .. l2 : Indexes(f2, l2)[k] = f2 + k - 1
  BY IndexesSeq
<1>0. \A a, b \in Seq(Nat) :
          /\ a \o b \in Seq(Nat) /\ Len(a \o b) = Len(a) + Len(b)
          /\ \A k \in 1 .. Len(a) + Len(b) :
                 (a \o b)[k] = IF k <= Len(a) THEN a[k] ELSE b[k - Len(a)]
  BY Joined
<1>3. /\ s \in Seq(Nat) /\ Len(s) = l1 + l2
      /\ \A k \in 1 .. l1 + l2 : s[k] = IF k <= l1 THEN Indexes(f1, l1)[k]
                                          ELSE Indexes(f2, l2)[k - l1]
  <2> DEFINE a == Indexes(f1, l1)
             b == Indexes(f2, l2)
  <2>1. a \in Seq(Nat) /\ b \in Seq(Nat) /\ Len(a) = l1 /\ Len(b) = l2 /\ s = a \o b
    BY <1>1, <1>2
  <2> HIDE DEF a, b
  <2>2. /\ a \o b \in Seq(Nat) /\ Len(a \o b) = Len(a) + Len(b)
        /\ \A k \in 1 .. Len(a) + Len(b) :
               (a \o b)[k] = IF k <= Len(a) THEN a[k] ELSE b[k - Len(a)]
    BY <1>0, <2>1, Zenon
  <2>3. /\ s \in Seq(Nat) /\ Len(s) = l1 + l2
        /\ \A k \in 1 .. l1 + l2 : s[k] = IF k <= l1 THEN a[k] ELSE b[k - l1]
    BY <2>1, <2>2, Zenon
  <2> QED
    BY <2>3 DEF a, b
<1>4. \A k \in 1 .. l1 : s[k] = f1 + k - 1
  BY <1>1, <1>3
<1>5. ASSUME NEW k \in l1 + 1 .. l1 + l2 PROVE s[k] = f2 + (k - l1) - 1
  <2>1. k \in 1 .. l1 + l2 /\ ~(k <= l1) /\ k - l1 \in 1 .. l2
    OBVIOUS
  <2> QED
    BY <1>2, <1>3, <2>1
<1>6. \A k \in l1 + 1 .. l1 + l2 : s[k] = f2 + (k - l1) - 1
  BY <1>5
<1>7. s \in Seq(Nat) /\ Len(s) = l1 + l2
  BY <1>3
<1> QED
  BY <1>4, <1>6, <1>7, TwoIntervals

-----------------------------------------------------------------------------
(* The length of a block, and what follows for the period of the stream.   *)
LEMMA BlockLength ==
    ASSUME NEW b \in 0 .. MAXMETA
    PROVE  UNIT * b \in 0 .. UNIT * MAXMETA
<1>1. UNIT \in Nat /\ MAXMETA \in Nat
  BY DemuxAssumption
<1> QED
  BY <1>1

(* The sizes, and what they are to one another.                            *)
LEMMA Sizes ==
    /\ METAINT \in Nat /\ MAXCHUNK \in 1 .. METAINT /\ HDRDATA \in 0 .. MAXCHUNK
    /\ UNIT * MAXMETA \in Nat
    /\ TypeOK => /\ Period \in METAINT + 1 .. METAINT + 1 + UNIT * MAXMETA
                 /\ Period = METAINT + 1 + UNIT * blk
<1>1. UNIT * MAXMETA \in Nat
  BY DemuxAssumption
<1>2. ASSUME TypeOK PROVE UNIT * blk \in 0 .. UNIT * MAXMETA
  BY <1>2, BlockLength DEF TypeOK
<1>3. METAINT \in Nat /\ MAXCHUNK \in 1 .. METAINT /\ HDRDATA \in 0 .. MAXCHUNK
  BY DemuxAssumption
<1> QED
  BY <1>1, <1>2, <1>3 DEF Period

(* Places in the segment that get_metadata is looking at.                  *)
LEMMA Places ==
    ASSUME TypeOK, NEW p \in 0 .. Period - 1, NEW i \in 0 .. METAINT
    PROVE  Place(p, i, blk) = IF p + i < Period THEN p + i ELSE p + i - Period
<1>1. p \in Nat /\ i \in Nat /\ blk \in 0 .. MAXMETA /\ i <= METAINT
      /\ p < METAINT + 1 + UNIT * blk
  BY Sizes DEF TypeOK
<1> QED
  BY <1>1, PlaceSum DEF Period

(* The audio of it.                                                        *)
LEMMA AudioOfSegment ==
    ASSUME TypeOK, SyncInv, pc = "demux", ~lost, NEW i \in 0 .. CpBytes - 1
    PROVE  IsAudio(i) <=> (~metadata \/ from + i < METAINT \/ from + i >= Period)
<1>1. i \in 0 .. METAINT /\ i < METAINT /\ skip = 0
  BY Sizes DEF TypeOK, SyncInv
<1>2. CASE ~metadata
  BY <1>1, <1>2 DEF IsAudio
<1>3. CASE metadata
  <2>1. from \in 0 .. Period - 1
    BY <1>3 DEF SyncInv, Knows
  <2>2. Place(from, i, blk) = IF from + i < Period THEN from + i ELSE from + i - Period
    BY <1>1, <2>1, Places
  <2>3. Place(from, i, blk) < METAINT <=> from + i < METAINT \/ from + i >= Period
    BY <1>1, <2>1, <2>2, Sizes
  <2> QED
    BY <1>1, <1>3, <2>3 DEF IsAudio
<1> QED
  BY <1>2, <1>3

(* What the three ways through the segment have in common.                 *)
LEMMA PlanKeeps ==
    ASSUME IInv, pc = "demux", pc' = "room", UNCHANGED << server, segment, sent >>,
           NEW f1 \in 0 .. CpBytes, NEW l1 \in 0 .. CpBytes,
           NEW f2 \in 0 .. CpBytes, NEW l2 \in 0 .. CpBytes,
           ~lost => AudioIn(f1, l1, f2, l2),
           \/ plan' = << << f1, l1 >>, << f2, l2 >> >>
           \/ l1 = 0 /\ plan' = << << f2, l2 >> >>,
           DataCounter' \in -UNIT * MAXMETA .. METAINT,
           LeftMetaDataFrame' \in 0 .. UNIT * MAXMETA,
           eState' \in {"MODE1", "MODE2", "MODE3", "MODE4"},
           metadata /\ ~lost => Knows(at)'
    PROVE  IInv'
<1>1. sent = << >> /\ CpBytes \in 1 .. MAXCHUNK /\ skip = 0
  BY DEF IInv, SyncInv
<1>2. TypeOK'
  <2>1. plan' # << >>
    <3>1. CASE plan' = << << f1, l1 >>, << f2, l2 >> >>
      BY ONLY <3>1
    <3>2. CASE plan' = << << f2, l2 >> >>
      BY ONLY <3>2
    <3> QED
      BY <3>1, <3>2
  <2>2. metadata' \in BOOLEAN
    BY DEF IInv, TypeOK, server
  <2>3. lost' \in BOOLEAN
    BY DEF IInv, TypeOK, server
  <2> QED
    BY <2>1, <2>2, <2>3 DEF IInv, TypeOK, server, segment
<1>3. SyncInv'
  BY <1>1 DEF IInv, SyncInv, server, segment
<1>4. PlanInv'
  <2>1. ~lost' => AudioIn(f1, l1, f2, l2)'
    BY DEF AudioIn, IsAudio, server, segment
  <2>2. l1 = 0 => sent' = Indexes(f1, l1)
    BY <1>1 DEF Indexes
  <2>3. CpBytes' = CpBytes /\ sent' = << >>
    BY <1>1 DEF segment
  <2> QED
    BY <2>1, <2>2, <2>3 DEF PlanInv
<1>5. PutsTheAudio'
  BY DEF PutsTheAudio
<1> QED
  BY <1>2, <1>3, <1>4, <1>5 DEF IInv

(* The segment of the header starts the count anew.                        *)
LEMMA HeaderKeeps ==
    ASSUME IInv, NEW h \in 1 .. 2, NEW d \in 0 .. HDRDATA, NEW icy \in BOOLEAN,
           Header(h, d, icy)
    PROVE  IInv'
<1>1. d \in Nat /\ d <= MAXCHUNK /\ d <= METAINT
  BY Sizes
<1>2. plan' = << >> /\ pc' = "recv" /\ skip' # 0
  BY DEF IInv, TypeOK, Header
<1>3. metadata' \in BOOLEAN
  BY DEF Header
<1>4. lost' \in BOOLEAN
  BY DEF Header
<1>5. TypeOK'
  <2>1. /\ at' = d /\ from' = 0 /\ blk' = 0 /\ skip' = h /\ CpBytes' = h + d
        /\ DataCounter' = d /\ UNCHANGED << eState, LeftMetaDataFrame >>
    BY DEF Header
  <2>2. /\ at' \in 0 .. METAINT + UNIT * MAXMETA /\ from' \in 0 .. METAINT + UNIT * MAXMETA
        /\ skip' \in 0 .. 2 /\ CpBytes' \in 0 .. MAXCHUNK + 2
        /\ DataCounter' \in -UNIT * MAXMETA .. METAINT
    BY <1>1, <2>1, Sizes, DemuxAssumption
  <2>3. blk' \in 0 .. MAXMETA
    BY <2>1, DemuxAssumption
  <2> QED
    BY <1>2, <1>3, <1>4, <2>1, <2>2, <2>3 DEF IInv, TypeOK
<1>6. SyncInv'
  <2>1. at' = d /\ DataCounter' = d
    BY DEF Header
  <2>2. Period' = METAINT + 1
    BY DemuxAssumption DEF Period, Header
  <2>3. metadata' /\ ~lost' => eState' = "MODE1"
    BY DEF Header
  <2>4. metadata' /\ ~lost' => Knows(at)'
    BY <1>1, <2>1, <2>2, <2>3, Sizes DEF Knows
  <2> QED
    BY <1>1, <1>2, <2>4 DEF SyncInv
<1> QED
  BY <1>2, <1>5, <1>6 DEF IInv, PlanInv, PutsTheAudio

(* Without a header the parser is not in step.                             *)
LEMMA HeaderFailsKeeps ==
    ASSUME IInv, HeaderFails
    PROVE  IInv'
<1>1. plan' = << >> /\ pc' = "recv" /\ lost' = TRUE
  BY DEF IInv, TypeOK, HeaderFails
<1>2. metadata' \in BOOLEAN
  BY DEF HeaderFails
<1>3. TypeOK'
  BY <1>1, <1>2 DEF HeaderFails, segment, parser, IInv, TypeOK
<1>4. SyncInv'
  BY <1>1 DEF SyncInv
<1> QED
  BY <1>1, <1>3, <1>4 DEF IInv, PlanInv, PutsTheAudio

(* A segment arrives.                                                      *)
LEMMA RecvKeeps ==
    ASSUME IInv, NEW n \in 1 .. MAXCHUNK, NEW b \in 0 .. MAXMETA, Recv(n, b)
    PROVE  IInv'
<1>1. plan' = << >> /\ pc' = "demux" /\ sent' = << >> /\ skip' = 0 /\ CpBytes' = n
  BY DEF IInv, TypeOK, Recv
<1>2. metadata' \in BOOLEAN /\ metadata' = metadata /\ lost' = lost
  BY DEF Recv, IInv, TypeOK
<1>3. /\ METAINT + 1 + UNIT * b \in METAINT + 1 .. METAINT + 1 + UNIT * MAXMETA
      /\ Period' = METAINT + 1 + UNIT * b
  <2>1. UNIT * b \in 0 .. UNIT * MAXMETA /\ blk' = b
    BY BlockLength DEF Recv
  <2> QED
    BY <2>1, Sizes DEF Period
<1>4. at' \in 0 .. METAINT + UNIT * MAXMETA
  <2>1. CASE ~metadata
    BY <2>1, Sizes DEF Recv
  <2>2. CASE metadata
    <3> DEFINE period == METAINT + 1 + UNIT * b
    <3>1. at' = (at + n) % period
      BY <2>2 DEF Recv, Place
    <3>2. period \in Nat /\ period > 0 /\ period <= METAINT + 1 + UNIT * MAXMETA
      BY <1>3, Sizes
    <3>3. at + n \in Nat
      BY Sizes DEF IInv, TypeOK
    <3> HIDE DEF period
    <3>4. (at + n) % period \in 0 .. period - 1
      BY <3>2, <3>3
    <3> QED
      BY <3>1, <3>2, <3>4, Sizes
  <2> QED
    BY <2>1, <2>2
<1>5. TypeOK'
  <2>1. CpBytes' \in 0 .. MAXCHUNK + 2 /\ from' = at /\ blk' = b
    BY <1>1, Sizes DEF Recv
  <2>2. UNCHANGED parser
    BY DEF Recv
  <2>3. lost' \in BOOLEAN
    BY <1>2 DEF IInv, TypeOK
  <2> QED
    BY <1>1, <1>2, <1>4, <2>1, <2>2, <2>3 DEF IInv, TypeOK, parser
<1>6. ASSUME metadata, ~lost
      PROVE  Knows(from)'
  <2>1. Knows(at) /\ at \in Nat
    BY <1>6 DEF IInv, TypeOK, SyncInv, Recv
  <2>2. from' = at /\ UNCHANGED << eState, DataCounter, LeftMetaDataFrame >>
    BY DEF Recv, parser
  <2>3. CASE at <= METAINT
    BY <1>3, <2>1, <2>2, <2>3, Sizes DEF Knows
  <2>4. CASE at > METAINT
    <3>1. b = blk
      BY <1>6, <2>1, <2>4, Sizes DEF Recv
    <3>2. Period' = Period
      BY <1>3, <3>1 DEF Recv, Period
    <3> QED
      BY <1>1, <2>1, <2>2, <2>4, <3>2, Sizes DEF Knows
  <2> QED
    BY <2>1, <2>3, <2>4, Sizes
<1>7. SyncInv'
  <2>1. metadata => at' = Place(from', CpBytes', blk')
    BY DEF Recv
  <2>2. CpBytes' \in 1 .. MAXCHUNK
    BY <1>1
  <2> QED
    BY <1>1, <1>2, <1>6, <2>1, <2>2 DEF SyncInv, Place
<1> QED
  BY <1>1, <1>5, <1>7 DEF IInv, PlanInv, PutsTheAudio

(* The connection breaks, wherever the parser is.                          *)
LEMMA DisconnectKeeps ==
    ASSUME IInv, Disconnect
    PROVE  IInv'
<1>1. TypeOK'
  <2>1. metadata' \in BOOLEAN
    BY DEF Disconnect, server, IInv, TypeOK
  <2>2. lost' \in BOOLEAN
    BY DEF Disconnect, server, IInv, TypeOK
  <2> QED
    BY <2>1, <2>2 DEF Disconnect, server, segment, parser, IInv, TypeOK
<1>2. SyncInv'
  BY DEF Disconnect, SyncInv
<1> QED
  BY <1>1, <1>2 DEF Disconnect, IInv, PlanInv, PutsTheAudio

(* No length byte in the segment: all of it is audio.                      *)
LEMMA PlainKeeps ==
    ASSUME IInv, D_Plain
    PROVE  IInv'
<1>1. pc = "demux" /\ pc' = "room" /\ UNCHANGED << server, segment, sent >>
  BY DEF D_Plain, Puts
<1>2. CpBytes \in 1 .. MAXCHUNK /\ CpBytes <= METAINT /\ TypeOK /\ SyncInv
  BY <1>1, Sizes DEF IInv, SyncInv
<1>3. plan' = << << 0, CpBytes >> >> /\ UNCHANGED << eState, LeftMetaDataFrame >>
  BY DEF D_Plain, Puts
<1>4. ASSUME metadata, ~lost
      PROVE  /\ from \in 0 .. METAINT /\ from + CpBytes <= METAINT
             /\ eState = "MODE1" /\ DataCounter' = from + CpBytes
  <2>1. Knows(from) /\ from \in Nat
    BY <1>1, <1>4 DEF IInv, TypeOK, SyncInv
  <2>2. DataCounter + CpBytes <= METAINT /\ DataCounter' = DataCounter + CpBytes
    BY <1>2, <1>4, <2>1, Sizes DEF D_Plain, HoldsMetadata, counter
  <2> QED
    BY <1>2, <2>1, <2>2, Sizes DEF Knows
<1>5. ASSUME ~lost PROVE AudioIn(0, 0, 0, CpBytes)
  <2>1. ASSUME NEW i \in 0 .. CpBytes - 1 PROVE IsAudio(i)
    <3>1. IsAudio(i) <=> (~metadata \/ from + i < METAINT \/ from + i >= Period)
      BY <1>1, <1>2, <1>5, AudioOfSegment
    <3>2. metadata => from + i < METAINT
      BY <1>2, <1>4, <1>5, Sizes
    <3> QED
      BY <3>1, <3>2
  <2> QED
    BY <1>2, <2>1 DEF AudioIn
<1>6. ASSUME metadata, ~lost PROVE Knows(at)'
  <2>1. at' = from + CpBytes
    <3>1. /\ from \in 0 .. Period - 1 /\ CpBytes \in 0 .. METAINT
          /\ from + CpBytes < Period /\ at = Place(from, CpBytes, blk)
      BY <1>1, <1>2, <1>4, <1>6, Sizes DEF SyncInv
    <3>2. at = from + CpBytes
      BY <1>2, <3>1, Places
    <3> QED
      BY <1>1, <3>2 DEF server
  <2>2. Period' = Period
    BY <1>1 DEF Period, server
  <2> QED
    BY <1>2, <1>3, <1>4, <1>6, <2>1, <2>2, Sizes DEF Knows
<1>7. DataCounter' \in -UNIT * MAXMETA .. METAINT
  <2>1. CASE metadata
    <3>1. ~(DataCounter + CpBytes > METAINT) /\ DataCounter' = DataCounter + CpBytes
      BY <2>1 DEF D_Plain, HoldsMetadata, counter
    <3>2. DataCounter \in -UNIT * MAXMETA .. METAINT
      BY <1>2 DEF TypeOK
    <3> QED
      BY <1>2, <3>1, <3>2, Sizes, DemuxAssumption
  <2>2. CASE ~metadata
    BY <1>2, <2>2 DEF D_Plain, TypeOK
  <2> QED
    BY <2>1, <2>2
<1>8. /\ eState' \in {"MODE1", "MODE2", "MODE3", "MODE4"}
      /\ LeftMetaDataFrame' \in 0 .. UNIT * MAXMETA
      /\ 0 \in 0 .. CpBytes /\ CpBytes \in 0 .. CpBytes
  BY <1>2, <1>3 DEF TypeOK
<1> QED
  BY <1>1, <1>3, <1>5, <1>6, <1>7, <1>8, PlanKeeps

(* MODE1: a length byte in the segment, then the block or a part of it.    *)
LEMMA BlockKeeps ==
    ASSUME IInv, D_Block
    PROVE  IInv'
<1>1. pc = "demux" /\ UNCHANGED << server, segment, sent >> /\ metadata
  BY DEF D_Block, HoldsMetadata
<1>2. CpBytes \in 1 .. MAXCHUNK /\ CpBytes <= METAINT /\ TypeOK /\ SyncInv
  BY <1>1, Sizes DEF IInv, SyncInv
<1>3. /\ DataCounter \in -UNIT * MAXMETA .. METAINT /\ DataCounter \in Int
      /\ DataCounter + CpBytes > METAINT
  <2>1. DataCounter \in -UNIT * MAXMETA .. METAINT
    BY <1>2 DEF TypeOK
  <2>2. DataCounter + CpBytes > METAINT
    BY DEF D_Block, HoldsMetadata, counter
  <2> QED
    BY <2>1, <2>2, Sizes, DemuxAssumption
<1>4. MDLpos = METAINT - DataCounter /\ MDLpos \in 0 .. CpBytes - 1
  BY <1>2, <1>3, Sizes DEF MDLpos, counter
<1>5. PICK b \in LengthByte :
          IF WholeBlock(UNIT * b) THEN SkipBlock(UNIT * b) ELSE CutBlock(UNIT * b)
  BY DEF D_Block
<1>6. b \in 0 .. MAXMETA
  BY <1>2, <1>5 DEF LengthByte, TypeOK
<1> DEFINE len == UNIT * b
<1>7. len \in 0 .. UNIT * MAXMETA /\ len \in Nat
  BY <1>6, BlockLength, Sizes
<1>8. ASSUME ~lost
      PROVE  /\ from \in 0 .. METAINT /\ from \in 0 .. Period - 1 /\ DataCounter = from
             /\ Period = METAINT + 1 + len
             /\ at' = IF from + CpBytes < Period THEN from + CpBytes
                      ELSE from + CpBytes - Period
             /\ Period' = Period
             /\ \A i \in 0 .. CpBytes - 1 :
                    IsAudio(i) <=> from + i < METAINT \/ from + i >= Period
  <2>1. /\ from \in 0 .. METAINT /\ from \in 0 .. Period - 1 /\ DataCounter = from
    <3>1. Knows(from) /\ from \in Nat /\ eState = "MODE1"
      BY <1>1, <1>2, <1>8 DEF TypeOK, SyncInv, D_Block
    <3> QED
      BY <1>2, <3>1, Sizes DEF Knows
  <2>2. b = blk
    <3>1. UNIT * blk \in 0 .. UNIT * MAXMETA
      BY <1>2, BlockLength DEF TypeOK
    <3>2. MDLpos \in 0 .. METAINT /\ from + MDLpos < Period /\ from + MDLpos = METAINT
      BY <1>2, <1>3, <1>4, <2>1, <3>1, Sizes
    <3>3. Place(from, MDLpos, blk) = METAINT
      BY <1>2, <2>1, <3>2, Places
    <3> QED
      BY <1>5, <1>8, <3>3 DEF LengthByte
  <2>3. at = Place(from, CpBytes, blk) /\ CpBytes \in 0 .. METAINT /\ at' = at
        /\ Period' = Period
    BY <1>1, <1>2, <1>8 DEF SyncInv, server, Period
  <2>4. at' = IF from + CpBytes < Period THEN from + CpBytes ELSE from + CpBytes - Period
    BY <1>2, <2>1, <2>3, Places
  <2>5. \A i \in 0 .. CpBytes - 1 : IsAudio(i) <=> from + i < METAINT \/ from + i >= Period
    BY <1>1, <1>2, <1>8, AudioOfSegment
  <2>6. Period = METAINT + 1 + len
    BY <2>2 DEF Period
  <2> QED
    BY <2>1, <2>3, <2>4, <2>5, <2>6
<1>9. IF WholeBlock(len) THEN SkipBlock(len) ELSE CutBlock(len)
  BY <1>5
<1>10. pc' = "room"
  BY <1>9 DEF SkipBlock, CutBlock, Puts
<1> HIDE DEF len
<1>11. CASE WholeBlock(len)
  <2> DEFINE f == MDLpos + len + 1
             l == CpBytes - MDLpos - len - 1
  <2>1. CpBytes - MDLpos - 1 >= len
    BY <1>2, <1>4, <1>7, <1>11 DEF WholeBlock
  <2>2. f \in 0 .. CpBytes /\ l \in 0 .. CpBytes /\ MDLpos \in 0 .. CpBytes
        /\ f + l = CpBytes /\ MDLpos <= f /\ 0 \in 0 .. CpBytes
    <3>1. CpBytes \in Nat /\ MDLpos \in Nat /\ MDLpos < CpBytes /\ len \in Nat
      BY <1>2, <1>4, <1>7, Sizes
    <3>2. MDLpos + len + 1 <= CpBytes
      BY <2>1, <3>1
    <3> QED
      BY <3>1, <3>2
  <2>3. ASSUME ~lost PROVE AudioIn(0, MDLpos, f, l)
    <3>1. ASSUME NEW i \in 0 .. CpBytes - 1
          PROVE  IsAudio(i) <=> i \in 0 .. 0 + MDLpos - 1 \/ i \in f .. f + l - 1
      BY <1>2, <1>4, <1>7, <1>8, <2>1, <2>3, Sizes
    <3> QED
      BY <1>4, <2>2, <3>1 DEF AudioIn
  <2>4. /\ plan' = << << 0, MDLpos >>, << f, l >> >>
        /\ UNCHANGED << eState, LeftMetaDataFrame >>
        /\ DataCounter' = counter - METAINT - len - 1
    BY <1>9, <1>11 DEF SkipBlock, Puts
  <2>5. DataCounter' = DataCounter + CpBytes - METAINT - len - 1
    BY <1>2, <1>3, <1>7, <2>4, Sizes DEF counter
  <2>6. DataCounter' \in 0 .. METAINT
    BY <1>2, <1>3, <1>4, <1>7, <2>1, <2>5, Sizes
  <2>7. eState' = "MODE1" /\ LeftMetaDataFrame' \in 0 .. UNIT * MAXMETA
    BY <1>2, <2>4 DEF D_Block, TypeOK
  <2>8. ASSUME ~lost PROVE Knows(at)'
    <3>1. at' = DataCounter'
      BY <1>2, <1>3, <1>7, <1>8, <2>5, <2>6, <2>8, Sizes
    <3> QED
      BY <1>7, <1>8, <2>6, <2>7, <2>8, <3>1, Sizes DEF Knows
  <2>9. DataCounter' \in -UNIT * MAXMETA .. METAINT
    BY <2>6, Sizes, DemuxAssumption
  <2> HIDE DEF f, l
  <2> QED
    BY <1>1, <1>10, <2>2, <2>3, <2>4, <2>7, <2>8, <2>9, PlanKeeps
<1>12. CASE ~WholeBlock(len)
  <2>1. CpBytes - MDLpos - 1 < len
    BY <1>2, <1>4, <1>7, <1>12 DEF WholeBlock
  <2>2. ASSUME ~lost PROVE AudioIn(0, 0, 0, MDLpos)
    <3>1. ASSUME NEW i \in 0 .. CpBytes - 1
          PROVE  IsAudio(i) <=> i \in 0 .. 0 + 0 - 1 \/ i \in 0 .. 0 + MDLpos - 1
      <4>1. IsAudio(i) <=> from + i < METAINT \/ from + i >= METAINT + 1 + len
        BY <1>8, <2>2
      <4>2. /\ from \in Nat /\ METAINT \in Nat /\ len \in Nat /\ CpBytes \in Nat
            /\ MDLpos = METAINT - from /\ i \in Nat /\ i < CpBytes
        BY <1>2, <1>4, <1>7, <1>8, <2>2, Sizes
      <4>3. ~(from + i >= METAINT + 1 + len)
        BY <2>1, <4>2
      <4> QED
        BY <4>1, <4>2, <4>3
    <3> QED
      BY <1>2, <1>4, <3>1 DEF AudioIn
  <2>3. /\ plan' = << << 0, MDLpos >> >> /\ DataCounter' = METAINT
        /\ LeftMetaDataFrame' = len - (CpBytes - MDLpos - 1)
        /\ eState' \in {"MODE2", "MODE3", "MODE4"}
    BY <1>9, <1>12 DEF CutBlock, Puts
  <2>4. LeftMetaDataFrame' \in 0 .. UNIT * MAXMETA
    BY <1>2, <1>4, <1>7, <2>1, <2>3, Sizes
  <2>5. DataCounter' \in -UNIT * MAXMETA .. METAINT
    BY <2>3, Sizes, DemuxAssumption
  <2>6. ASSUME ~lost PROVE Knows(at)'
    <3>1. from + CpBytes < Period /\ LeftMetaDataFrame' = Period - (from + CpBytes)
      BY <1>2, <1>3, <1>4, <1>7, <1>8, <2>1, <2>3, <2>6, Sizes
    <3>2. from + CpBytes > METAINT
      BY <1>3, <1>8, <2>6
    <3> QED
      BY <1>2, <1>7, <1>8, <2>3, <2>6, <3>1, <3>2, Sizes DEF Knows
  <2>7. 0 \in 0 .. CpBytes /\ MDLpos \in 0 .. CpBytes
    BY <1>2, <1>4
  <2> QED
    BY <1>1, <1>10, <2>2, <2>3, <2>4, <2>5, <2>6, <2>7, PlanKeeps
<1> QED
  BY <1>11, <1>12

(* MODE2 to MODE4: what is left of a block, then audio; or the segment     *)
(* lies inside the block, and the task waits for ever.                     *)
LEMMA RestKeeps ==
    ASSUME IInv, D_Rest
    PROVE  IInv'
<1> DEFINE l == CpBytes - LeftMetaDataFrame
<1>1. pc = "demux" /\ pc' = "room" /\ UNCHANGED << server, segment, sent >> /\ metadata
  BY DEF D_Rest, HoldsMetadata, Puts
<1>2. /\ CpBytes \in 1 .. MAXCHUNK /\ CpBytes <= METAINT /\ TypeOK /\ SyncInv
      /\ LeftMetaDataFrame \in 0 .. UNIT * MAXMETA
  BY <1>1, Sizes DEF IInv, SyncInv, TypeOK
<1>3. ASSUME ~lost
      PROVE  /\ from \in METAINT + 1 .. Period - 1 /\ from \in 0 .. Period - 1
             /\ LeftMetaDataFrame = Period - from
  <2>1. Knows(from) /\ from \in Nat /\ eState # "MODE1"
    BY <1>1, <1>2, <1>3 DEF TypeOK, SyncInv, D_Rest
  <2> QED
    BY <1>2, <2>1, Sizes DEF Knows
<1>4. /\ plan' = << << LeftMetaDataFrame, l >> >> /\ DataCounter' = l
      /\ eState' = "MODE1" /\ LeftMetaDataFrame' = LeftMetaDataFrame
  BY DEF D_Rest, Puts
<1>5. l \in -UNIT * MAXMETA .. METAINT
  <2>1. UNIT * MAXMETA \in Nat /\ -UNIT * MAXMETA = -(UNIT * MAXMETA)
    BY DemuxAssumption
  <2> HIDE DEF l
  <2>2. l = CpBytes - LeftMetaDataFrame
    BY DEF l
  <2> QED
    BY <1>2, <2>1, <2>2, Sizes
<1>6. CASE LeftMetaDataFrame <= CpBytes
  <2>1. LeftMetaDataFrame \in 0 .. CpBytes /\ l \in 0 .. CpBytes /\ l \in 0 .. METAINT
        /\ LeftMetaDataFrame + l = CpBytes /\ 0 \in 0 .. CpBytes
    BY <1>2, <1>6, Sizes
  <2>2. ASSUME ~lost PROVE AudioIn(0, 0, LeftMetaDataFrame, l)
    <3>1. ASSUME NEW i \in 0 .. CpBytes - 1
          PROVE  IsAudio(i) <=> \/ i \in 0 .. 0 + 0 - 1
                                \/ i \in LeftMetaDataFrame .. LeftMetaDataFrame + l - 1
      <4>1. IsAudio(i) <=> from + i < METAINT \/ from + i >= Period
        BY <1>1, <1>2, <2>2, AudioOfSegment
      <4> QED
        BY <1>2, <1>3, <2>1, <2>2, <4>1, Sizes
    <3> QED
      BY <1>2, <2>1, <3>1 DEF AudioIn
  <2>3. ASSUME ~lost PROVE Knows(at)'
    <3>1. at = Place(from, CpBytes, blk) /\ CpBytes \in 0 .. METAINT /\ at' = at
          /\ Period' = Period
      BY <1>1, <1>2, <2>3 DEF SyncInv, server, Period
    <3>2. at' = IF from + CpBytes < Period THEN from + CpBytes ELSE from + CpBytes - Period
      BY <1>2, <1>3, <2>3, <3>1, Places
    <3>3. at' = l
      BY <1>2, <1>3, <1>6, <2>3, <3>2, Sizes
    <3> QED
      BY <1>2, <1>4, <2>1, <2>3, <3>1, <3>3, Sizes DEF Knows
  <2> HIDE DEF l
  <2>4. LeftMetaDataFrame' \in 0 .. UNIT * MAXMETA
    BY <1>2, <1>4
  <2> QED
    BY <1>1, <1>4, <1>5, <2>1, <2>2, <2>3, <2>4, PlanKeeps
<1>7. CASE LeftMetaDataFrame > CpBytes
  <2>1. CutAgain'
    <3>1. ~lost => InsideBlock
      <4>1. ASSUME ~lost PROVE from > METAINT /\ from + CpBytes < METAINT + 1 + UNIT * blk
        BY <1>2, <1>3, <1>7, <4>1, Sizes
      <4> QED
        BY <4>1 DEF InsideBlock
    <3>2. lost' = lost /\ CpBytes' = CpBytes /\ InsideBlock' = InsideBlock
      BY <1>1 DEF server, segment, InsideBlock
    <3> QED
      BY <1>4, <1>7, <3>1, <3>2 DEF CutAgain
  <2>2. plan' # << >>
    BY ONLY <1>4
  <2>3. metadata' \in BOOLEAN
    BY <1>1, <1>2 DEF TypeOK, server
  <2>4. lost' \in BOOLEAN
    BY <1>1, <1>2 DEF TypeOK, server
  <2>5. TypeOK'
    BY <1>1, <1>2, <1>4, <1>5, <2>2, <2>3, <2>4 DEF TypeOK, server, segment
  <2>6. SyncInv'
    BY <1>1, <1>2, <2>1 DEF SyncInv, segment
  <2> QED
    BY <1>1, <2>1, <2>5, <2>6 DEF IInv, PlanInv, PutsTheAudio
<1> QED
  BY <1>2, <1>6, <1>7, Sizes

(* In an empty buffer there is room for what fits it, never for a negative *)
(* length.                                                                 *)
LEMMA Rooms ==
    ASSUME TypeOK, CpBytes \in 1 .. MAXCHUNK
    PROVE  /\ \A l \in 0 .. CpBytes : Room(l) <= CAPACITY
           /\ LeftMetaDataFrame > CpBytes => Room(CpBytes - LeftMetaDataFrame) > CAPACITY
<1>1. /\ CAPACITY \in Nat /\ CAPACITY >= MAXCHUNK /\ MAXCHUNK \in Nat
      /\ UNIT * MAXMETA \in Nat /\ WORD \in Nat /\ WORD > CAPACITY + UNIT * MAXMETA
  BY Sizes, DemuxAssumption
<1>2. ASSUME NEW l \in 0 .. CpBytes PROVE Room(l) <= CAPACITY
  <2>1. l \in Nat /\ l <= CAPACITY /\ l < WORD
    BY <1>1
  <2>2. l % WORD = l
    BY <1>1, <2>1
  <2> QED
    BY <2>1, <2>2 DEF Room
<1>3. ASSUME LeftMetaDataFrame > CpBytes
      PROVE  Room(CpBytes - LeftMetaDataFrame) > CAPACITY
  <2> DEFINE d == LeftMetaDataFrame - CpBytes
  <2>1. d \in 1 .. UNIT * MAXMETA /\ CpBytes - LeftMetaDataFrame = -d
    <3>1. LeftMetaDataFrame \in 0 .. UNIT * MAXMETA
      BY DEF TypeOK
    <3> QED
      BY <1>1, <1>3, <3>1
  <2> HIDE DEF d
  <2>2. d \in Nat /\ WORD - d \in 0 .. WORD - 1 /\ WORD - d > CAPACITY
    BY <1>1, <2>1
  <2>3. (-d) % WORD = WORD - d
    BY <1>1, <2>1, <2>2
  <2> QED
    BY <2>1, <2>2, <2>3 DEF Room
<1> QED
  BY <1>2, <1>3

(* The call of a rest that was cut again is never made.                    *)
LEMMA NoRoom ==
    ASSUME TypeOK, CpBytes \in 1 .. MAXCHUNK, Room(Head(plan)[2]) <= CAPACITY
    PROVE  ~CutAgain
<1>1. SUFFICES ASSUME CutAgain PROVE FALSE
  OBVIOUS
<1>2. plan = << << LeftMetaDataFrame, CpBytes - LeftMetaDataFrame >> >>
  BY <1>1 DEF CutAgain
<1>3. Head(plan)[2] = CpBytes - LeftMetaDataFrame
  BY ONLY <1>2
<1>4. LeftMetaDataFrame > CpBytes
  BY <1>1 DEF CutAgain
<1>5. Room(CpBytes - LeftMetaDataFrame) > CAPACITY
  BY <1>4, Rooms
<1>6. Room(CpBytes - LeftMetaDataFrame) \in Int /\ CAPACITY \in Int
  BY DemuxAssumption, Sizes DEF Room, TypeOK
<1> QED
  BY <1>3, <1>5, <1>6

(* A call of RAM_bufput; after the last one all the audio has been put.    *)
LEMMA PutKeeps ==
    ASSUME IInv, Put
    PROVE  IInv'
<1>1. pc = "room" /\ TypeOK /\ SyncInv /\ PlanInv /\ CpBytes \in 1 .. MAXCHUNK /\ skip = 0
  BY DEF Put, IInv, SyncInv
<1>2. PICK f1, l1, f2, l2 \in 0 .. CpBytes :
          /\ ~lost => AudioIn(f1, l1, f2, l2)
          /\ \/ plan = << << f1, l1 >>, << f2, l2 >> >> /\ sent = << >>
             \/ plan = << << f2, l2 >> >> /\ sent = Indexes(f1, l1)
  <2>1. ~CutAgain
    BY <1>1, NoRoom DEF Put
  <2> QED
    BY <1>1, <2>1 DEF PlanInv
<1>3. /\ CpBytes \in Nat /\ CpBytes <= MAXCHUNK
      /\ f1 \in Nat /\ l1 \in Nat /\ f2 \in Nat /\ l2 \in Nat
      /\ ~lost => f1 + l1 <= f2 /\ f2 + l2 <= CpBytes
      /\ MAXCHUNK \in Nat
  BY <1>1, <1>2, Sizes DEF AudioIn
<1>4. UNCHANGED << server, segment, parser >>
  BY DEF Put
<1>5. SyncInv' /\ pc' \in {"recv", "room"}
  <2>1. ~CutAgain
    BY <1>1, NoRoom DEF Put
  <2> QED
    BY <1>1, <1>4, <2>1 DEF SyncInv, Put, server, segment, parser, Knows, Period
<1>6. ~lost => AudioIn(f1, l1, f2, l2)'
  BY <1>2, <1>4 DEF AudioIn, IsAudio, server, segment
<1>7. metadata' \in BOOLEAN /\ lost' \in BOOLEAN /\ lost' = lost
  <2>1. metadata' \in BOOLEAN
    BY <1>1, <1>4 DEF TypeOK, server
  <2>2. lost' \in BOOLEAN /\ lost' = lost
    BY <1>1, <1>4 DEF TypeOK, server
  <2> QED
    BY <2>1, <2>2
<1>8. /\ at' \in 0 .. METAINT + UNIT * MAXMETA /\ from' \in 0 .. METAINT + UNIT * MAXMETA
      /\ blk' \in 0 .. MAXMETA
      /\ skip' \in 0 .. 2 /\ CpBytes' \in 0 .. MAXCHUNK + 2
      /\ DataCounter' \in -UNIT * MAXMETA .. METAINT
      /\ eState' \in {"MODE1", "MODE2", "MODE3", "MODE4"}
      /\ LeftMetaDataFrame' \in 0 .. UNIT * MAXMETA
  BY <1>1, <1>4 DEF TypeOK, server, segment, parser
<1>9. CASE plan = << << f1, l1 >>, << f2, l2 >> >> /\ sent = << >>
  <2>1. /\ Head(plan)[1] = f1 /\ Head(plan)[2] = l1 /\ Len(plan) = 2
        /\ Tail(plan) = << << f2, l2 >> >>
    BY ONLY <1>9
  <2>2. pc' = "room" /\ plan' = << << f2, l2 >> >> /\ sent' = << >> \o Indexes(f1, l1)
    BY <1>9, <2>1 DEF Put
  <2>3. sent' = Indexes(f1, l1)
    BY <1>3, <2>2, IndexesSeq
  <2>4. plan' # << >>
    BY ONLY <2>2
  <2>6. TypeOK'
    BY <1>7, <1>8, <2>2, <2>4 DEF TypeOK
  <2>7. PlanInv'
    <3>1. CpBytes' = CpBytes
      BY <1>4 DEF segment
    <3> QED
      BY <1>2, <1>6, <1>7, <2>2, <2>3, <3>1 DEF PlanInv
  <2>8. PutsTheAudio'
    BY <2>2 DEF PutsTheAudio
  <2> QED
    BY <1>5, <2>6, <2>7, <2>8 DEF IInv
<1>10. CASE plan = << << f2, l2 >> >> /\ sent = Indexes(f1, l1)
  <2>1. /\ Head(plan)[1] = f2 /\ Head(plan)[2] = l2 /\ Len(plan) = 1
        /\ Tail(plan) = << >>
    BY ONLY <1>10
  <2>2. pc' = "recv" /\ plan' = << >> /\ sent' = Indexes(f1, l1) \o Indexes(f2, l2)
    BY <1>10, <2>1 DEF Put
  <2>3. ASSUME ~lost
        PROVE  Lists(sent', (f1 .. f1 + l1 - 1) \cup (f2 .. f2 + l2 - 1))
    BY <1>3, <2>2, <2>3, JoinedIndexes
  <2>5. TypeOK'
    BY <1>7, <1>8, <2>2 DEF TypeOK
  <2>6. PutsTheAudio'
    <3>1. ASSUME ~lost
          PROVE  (f1 .. f1 + l1 - 1) \cup (f2 .. f2 + l2 - 1)
              = { i \in 0 .. CpBytes' - 1 : IsAudio(i)' }
      <4>1. CpBytes' = CpBytes
        BY <1>4 DEF segment
      <4>2. \A i \in 0 .. CpBytes' - 1 :
                IsAudio(i)' <=> i \in f1 .. f1 + l1 - 1 \/ i \in f2 .. f2 + l2 - 1
        BY <1>6, <3>1 DEF AudioIn
      <4>3. (f1 .. f1 + l1 - 1) \cup (f2 .. f2 + l2 - 1) \subseteq 0 .. CpBytes' - 1
        BY <1>3, <3>1, <4>1
      <4> QED
        BY <4>2, <4>3
    <3> QED
      BY <1>7, <2>3, <3>1 DEF PutsTheAudio, Lists
  <2> QED
    BY <1>5, <2>2, <2>5, <2>6 DEF IInv, PlanInv
<1> QED
  BY <1>2, <1>9, <1>10

-----------------------------------------------------------------------------
(* No connection has been made.                                            *)
LEMMA DemuxStart ==
    ASSUME Init
    PROVE  IInv
<1>1. TypeOK
  <2>0. metadata \in BOOLEAN
    BY DEF Init
  <2>1. lost \in BOOLEAN
    BY DEF Init
  <2>2. /\ 0 \in 0 .. METAINT + UNIT * MAXMETA /\ 0 \in 0 .. MAXCHUNK + 2
        /\ 0 \in -UNIT * MAXMETA .. METAINT /\ 0 \in 0 .. UNIT * MAXMETA /\ 0 \in 0 .. 2
    BY Sizes, DemuxAssumption
  <2>3. 0 \in 0 .. MAXMETA
    BY DemuxAssumption
  <2> QED
    BY <2>0, <2>1, <2>2, <2>3 DEF Init, TypeOK
<1> QED
  BY <1>1, Sizes DEF Init, IInv, SyncInv, PlanInv, PutsTheAudio

(* Every step keeps the invariant.                                         *)
LEMMA DemuxStep ==
    ASSUME IInv, [Next]_vars
    PROVE  IInv'
<1>1. CASE UNCHANGED vars
  <2>1. UNCHANGED << pc, metadata, at, blk, lost, skip, from, CpBytes, DataCounter, eState,
                     LeftMetaDataFrame, plan, sent >>
    BY <1>1 DEF vars, server, segment, parser
  <2>2. TypeOK' /\ SyncInv'
    BY <2>1 DEF IInv, TypeOK, SyncInv, Knows, Period, Place, CutAgain, InsideBlock
  <2>3. PlanInv' /\ PutsTheAudio'
    BY <2>1 DEF IInv, PlanInv, PutsTheAudio, AudioIn, IsAudio, Place, CutAgain, InsideBlock
  <2> QED
    BY <2>2, <2>3 DEF IInv
<1>2. CASE Next
  <2>1. ASSUME NEW h \in 1 .. 2, NEW d \in 0 .. HDRDATA, NEW icy \in BOOLEAN,
               Header(h, d, icy)
        PROVE  IInv'
    BY <2>1, HeaderKeeps
  <2>2. ASSUME NEW n \in 1 .. MAXCHUNK, NEW b \in 0 .. MAXMETA, Recv(n, b)
        PROVE  IInv'
    BY <2>2, RecvKeeps
  <2> QED
    BY <1>2, <2>1, <2>2, HeaderFailsKeeps, DisconnectKeeps, PlainKeeps, BlockKeeps,
       RestKeeps, PutKeeps DEF Next
<1> QED
  BY <1>1, <1>2

(* It holds from the start.                                                *)
LEMMA DemuxInvariance == Spec => []IInv
  BY DemuxStart, DemuxStep, PTL DEF Spec

(* The places, counters and lengths have the ranges of their types in the  *)
(* code, and a segment is put before the next one is received.             *)
THEOREM DemuxTypes == Spec => []TypeOK
<1>1. IInv => TypeOK
  BY DEF IInv
<1> QED
  BY <1>1, DemuxInvariance, PTL

(* What get_metadata leaves of a segment of a stream it is in step with is *)
(* its audio, whole and in order, for every interval, unit, longest block  *)
(* and longest segment, and wherever segments end and connections break.   *)
THEOREM OnlyAudioIsPut == Spec => []PutsTheAudio
<1>1. IInv => PutsTheAudio
  BY DEF IInv
<1> QED
  BY <1>1, DemuxInvariance, PTL

(* A call waits for more room than an empty buffer has only for the rest   *)
(* of a block that is longer than the segment; for a parser in step, only  *)
(* if the segment lies inside the block.                                   *)
THEOREM OnlyACutRestWaits == Spec => []RoomIsPossible
<1>1. ASSUME IInv PROVE RoomIsPossible
  <2>1. CASE pc # "room"
    <3>1. DOMAIN plan = {}
      BY <1>1, <2>1 DEF IInv, TypeOK
    <3> QED
      BY <3>1 DEF RoomIsPossible
  <2>2. CASE pc = "room" /\ CutAgain
    BY <2>2 DEF CutAgain, RoomIsPossible
  <2>3. CASE pc = "room" /\ ~CutAgain
    <3>1. PICK f1, l1, f2, l2 \in 0 .. CpBytes :
              \/ plan = << << f1, l1 >>, << f2, l2 >> >>
              \/ plan = << << f2, l2 >> >>
      BY <1>1, <2>3 DEF IInv, PlanInv
    <3>2. \A i \in DOMAIN plan : plan[i][2] \in {l1, l2}
      <4>1. CASE plan = << << f1, l1 >>, << f2, l2 >> >>
        BY ONLY <4>1
      <4>2. CASE plan = << << f2, l2 >> >>
        BY ONLY <4>2
      <4> QED
        BY <3>1, <4>1, <4>2
    <3>3. Room(l1) <= CAPACITY /\ Room(l2) <= CAPACITY
      BY <1>1, <2>3, Rooms DEF IInv, SyncInv
    <3>4. Room(l1) \in Int /\ Room(l2) \in Int /\ CAPACITY \in Int
      <4>1. CpBytes \in Nat /\ WORD \in Nat \ {0}
        BY <1>1, <2>3, Sizes, DemuxAssumption DEF IInv, SyncInv
      <4> QED
        BY <4>1, DemuxAssumption DEF Room
    <3>5. \A i \in DOMAIN plan : ~(Room(plan[i][2]) > CAPACITY)
      BY <3>2, <3>3, <3>4
    <3> QED
      BY <3>5 DEF RoomIsPossible
  <2> QED
    BY <2>1, <2>2, <2>3
<1> QED
  BY <1>1, DemuxInvariance, PTL

(***************************************************************************)
(* The ring over two chips.                                                *)
(***************************************************************************)
(* The address of ring position a, which is less than a round ahead.       *)
Ring(a) == IF a < RAM_BUFSIZE THEN a ELSE a - RAM_BUFSIZE

(* Blocks are taken from whole addresses.  As long as lengths are right,   *)
(* what is still to be put fits behind what is there.                      *)
SpaceInv ==
    /\ Aligned(tail)
    /\ trust # "none" => RAM_buflen(head, tail) + left <= RAM_BUFSIZE - 1

(* What is left to be put is the end of data_in, and data points at it.    *)
PutInv ==
    /\ IF wpc = "idle" THEN src = << >> /\ todo = 0 ELSE src \in Chunk
    /\ wpc = "cut" => todo > 0 /\ off + todo = Len(src)
    /\ wpc \in {"write", "head", "late"} =>
           /\ piece > 0 /\ off + piece + todo = Len(src)
           /\ todo > 0 => off = 0 /\ piece = MAXDMA
    /\ wpc = "wrap" /\ todo > 0 => MAXDMA + todo = Len(src)

(* How much of the piece is in the chips.                                  *)
done == IF wpc \in {"head", "late"} THEN piece ELSE written

(* Where the rest of the piece goes: behind the head, or round the end of  *)
(* the ring, which the head may be at; after a split it fits the chip.     *)
PlaceInv ==
    wpc \in {"write", "head", "late"} =>
        /\ written < piece
        /\ shead = Ring(head + written) \/ (shead = head /\ written = 0)
        /\ written > 0 \/ wpc # "write" => FitsChip(shead, piece - written)

(* As long as all is trusted, no channel is astray, and the piece is in    *)
(* the chips as far as it was written.                                     *)
PieceInv ==
    trust = "all" =>
        /\ ~stray
        /\ wpc \in {"write", "head", "late"} =>
              \A j \in 0 .. done - 1 : mem[Ring(head + j)] = src[off + j + 1]

RamInv == RamTypeOK /\ SpaceInv /\ PutInv /\ PlaceInv /\ PieceInv

-----------------------------------------------------------------------------
(* The address in the refinement mapping.                                  *)
LEMMA RingIsModulo ==
    ASSUME NEW a \in Nat, a < 2 * RAM_BUFSIZE
    PROVE  a % RAM_BUFSIZE = Ring(a)
<1>1. RAM_BUFSIZE \in Nat \ {0}
  BY RingAssumption DEF RAM_BUFSIZE
<1> QED
  BY <1>1 DEF Ring

(* A block never reaches over the end of a chip, since both chips hold     *)
(* whole blocks.                                                           *)
LEMMA BlockFits ==
    ASSUME NEW a \in 0 .. RAM_BUFSIZE - 1, Aligned(a)
    PROVE  FitsChip(a, BLOCK) /\ Aligned(a + BLOCK)
<1>1. PICK k \in 0 .. a : a = k * BLOCK
  BY DEF Aligned
<1>2. PICK c \in 0 .. CHIPSIZE : CHIPSIZE = c * BLOCK
  BY RingAssumption DEF Aligned
<1>3. a + BLOCK = (k + 1) * BLOCK /\ k + 1 \in 0 .. a + BLOCK
  BY <1>1, RingAssumption
<1>4. ASSUME NEW m \in Nat, NEW n \in Nat, m * BLOCK < n * BLOCK
      PROVE  m * BLOCK + BLOCK <= n * BLOCK
  <2>1. PICK d \in Nat : n = m + 1 + d
    <3>1. m < n
      BY <1>4, RingAssumption
    <3> QED
      BY <3>1
  <2>2. n * BLOCK = m * BLOCK + BLOCK + d * BLOCK /\ d * BLOCK \in Nat
    BY <2>1, RingAssumption
  <2> QED
    BY <2>2, RingAssumption
<1>5. RAM_BUFSIZE = (2 * c) * BLOCK /\ 2 * c \in Nat
  BY <1>2, RingAssumption DEF RAM_BUFSIZE
<1>6. CASE a < CHIPSIZE
  BY <1>1, <1>2, <1>3, <1>4, <1>6, RingAssumption DEF FitsChip, ChipEnd, Aligned
<1>7. CASE a >= CHIPSIZE
  <2>1. k * BLOCK < (2 * c) * BLOCK
    BY <1>1, <1>5, RingAssumption DEF RAM_BUFSIZE
  <2>2. k * BLOCK + BLOCK <= (2 * c) * BLOCK
    BY <2>1, <1>1, <1>4, <1>5
  <2> QED
    BY <2>2, <1>1, <1>3, <1>5, <1>7, RingAssumption DEF FitsChip, ChipEnd, RAM_BUFSIZE, Aligned
<1> QED
  BY <1>6, <1>7, RingAssumption

(* What RAM_bufget does to its pointer.                                    *)
LEMMA BlockTaken ==
    ASSUME NEW h \in 0 .. RAM_BUFSIZE, NEW t \in 0 .. RAM_BUFSIZE - 1,
           Aligned(t), RAM_buflen(h, t) > BLOCK
    PROVE  /\ t + BLOCK <= RAM_BUFSIZE
           /\ NextTail(t, BLOCK) = Ring(t + BLOCK)
           /\ Ring(t + BLOCK) \in 0 .. RAM_BUFSIZE - 1 /\ Aligned(Ring(t + BLOCK))
           /\ RAM_buflen(h, Ring(t + BLOCK)) = RAM_buflen(h, t) - BLOCK
<1>1. FitsChip(t, BLOCK) /\ Aligned(t + BLOCK)
  BY BlockFits
<1>2. Aligned(0)
  BY RingAssumption DEF Aligned
<1> QED
  BY <1>1, <1>2, RingAssumption
     DEF NextTail, FitsChip, ChipEnd, RAM_buflen, RAM_BUFSIZE, Ring

-----------------------------------------------------------------------------
(* The invariant holds at the start.                                       *)
LEMMA RamStart == RamInit => RamInv
<1> SUFFICES ASSUME RamInit PROVE RamInv
  OBVIOUS
<1>1. (CHOOSE b \in Byte : TRUE) \in Byte
  BY TwoPieces
<1>2. Aligned(0)
  BY RingAssumption DEF Aligned
<1>3. RamTypeOK
  <2>1. stray \in BOOLEAN
    BY Zenon DEF RamInit
  <2> QED
    BY <1>1, <2>1, RingAssumption, TwoPieces DEF RamInit, RamTypeOK, RAM_BUFSIZE
<1> QED
  BY <1>2, <1>3, RingAssumption
     DEF RamInit, RamInv, SpaceInv, PutInv, PlaceInv, PieceInv, left, RAM_buflen, RAM_BUFSIZE

(* RAM_bufput begins.                                                      *)
LEMMA CallKeeps ==
    ASSUME RamInv, NEW d \in Chunk, NEW asks \in BOOLEAN, Call(d, asks)
    PROVE  RamInv'
<1>1. Len(d) \in 1 .. MAXPUT
  BY TwoPieces DEF Chunk
<1>2. RamTypeOK'
  BY <1>1, RingAssumption, TwoPieces DEF Call, RamInv, RamTypeOK
<1>3. SpaceInv'
  BY <1>1, RingAssumption
     DEF Call, RamInv, RamTypeOK, SpaceInv, left, RAM_buffree, RAM_buflen, RAM_BUFSIZE
<1>4. PutInv' /\ PlaceInv' /\ PieceInv'
  BY <1>1 DEF Call, RamInv, PutInv, PlaceInv, PieceInv
<1> QED
  BY <1>2, <1>3, <1>4 DEF RamInv

(* A piece is cut off.                                                     *)
LEMMA CutKeeps ==
    ASSUME RamInv, Cut
    PROVE  RamInv'
<1>1. Len(src) \in 1 .. MAXPUT
  BY TwoPieces DEF Cut, RamInv, PutInv, Chunk
<1>2. RamTypeOK'
  BY RingAssumption, TwoPieces DEF Cut, RamInv, RamTypeOK, Piece
<1>3. SpaceInv'
  BY RingAssumption DEF Cut, RamInv, RamTypeOK, SpaceInv, left, Piece
<1>4. PutInv'
  BY <1>1, RingAssumption, TwoPieces DEF Cut, RamInv, RamTypeOK, PutInv, Piece
<1>5. PlaceInv'
  BY RingAssumption DEF Cut, RamInv, RamTypeOK, PutInv, PlaceInv, Piece
<1>6. PieceInv'
  BY DEF Cut, RamInv, PieceInv, done
<1> QED
  BY <1>2, <1>3, <1>4, <1>5, <1>6 DEF RamInv

(* The mutex does not come: a piece is given up.                           *)
LEMMA TimeoutKeeps ==
    ASSUME RamInv, Timeout
    PROVE  RamInv'
<1>1. Len(src) \in 1 .. MAXPUT
  BY TwoPieces DEF Timeout, RamInv, PutInv, Chunk
<1>2. RamTypeOK'
  BY RingAssumption, TwoPieces DEF Timeout, NextPiece, RamInv, RamTypeOK, Piece
<1>3. SpaceInv'
  BY RingAssumption
     DEF Timeout, NextPiece, RamInv, RamTypeOK, SpaceInv, PutInv, left, Piece, RAM_buflen,
         RAM_BUFSIZE
<1>4. PutInv'
  BY <1>1, RingAssumption, TwoPieces
     DEF Timeout, NextPiece, RamInv, RamTypeOK, PutInv, Piece
<1>5. PlaceInv' /\ PieceInv'
  BY DEF Timeout, NextPiece, RamInv, PlaceInv, PieceInv
<1> QED
  BY <1>2, <1>3, <1>4, <1>5 DEF RamInv

(* What a transfer of n of len bytes leaves in the chips.                  *)
LEMMA TransferWrites ==
    ASSUME mem \in [0 .. RAM_BUFSIZE - 1 -> Byte], src \in Chunk,
           NEW a \in Nat, NEW data \in Nat, NEW len \in Nat,
           data + len <= Len(src), Transfer(a, data, len)
    PROVE  /\ mem' \in [0 .. RAM_BUFSIZE - 1 -> Byte]
           /\ \A c \in 0 .. RAM_BUFSIZE - 1 :
                  mem'[c] = IF c \in a .. a + len - 1 THEN src[data + (c - a) + 1] ELSE mem[c]
<1>1. \A i \in 1 .. Len(src) : src[i] \in Byte
  BY DEF Chunk
<1>2. ASSUME NEW c \in 0 .. RAM_BUFSIZE - 1, c \in a .. a + len - 1
      PROVE  src[data + (c - a) + 1] \in Byte
  <2>1. data + (c - a) + 1 \in 1 .. Len(src)
    BY <1>2 DEF Chunk
  <2> QED
    BY <1>1, <2>1
<1> QED
  BY <1>2 DEF Transfer

(* A transfer in time or too late writes nowhere else, and all it should   *)
(* as long as all is trusted.                                              *)
Wrote(a, data, len) ==
    /\ mem' \in [0 .. RAM_BUFSIZE - 1 -> Byte]
    /\ \A c \in 0 .. RAM_BUFSIZE - 1 : c \notin a .. a + len - 1 => mem'[c] = mem[c]
    /\ trust' = "all" =>
           /\ trust = "all" /\ ~stray'
           /\ \A c \in 0 .. RAM_BUFSIZE - 1 :
                  c \in a .. a + len - 1 => mem'[c] = src[data + (c - a) + 1]
    /\ stray' \in BOOLEAN /\ trust' \in {"all", "length", "none"}
    /\ trust = "none" <=> trust' = "none"

(* Both do that.                                                           *)
LEMMA BothWrite ==
    ASSUME RamInv, src \in Chunk, NEW a \in Nat, NEW data \in Nat, NEW len \in Nat,
           data + len <= Len(src), InTime(a, data, len) \/ TooLate(a, data, len)
    PROVE  Wrote(a, data, len)
<1>1. PICK n \in 0 .. len :
          /\ Transfer(a, data, n)
          /\ stray' \in BOOLEAN /\ trust' \in {"all", "length", "none"}
          /\ trust = "none" <=> trust' = "none"
          /\ trust' = "all" => trust = "all" /\ ~stray' /\ n = len
  <2>0. stray \in BOOLEAN /\ trust \in {"all", "length", "none"} /\ (trust = "all" => ~stray)
    BY DEF RamInv, RamTypeOK, PieceInv
  <2>1. CASE InTime(a, data, len)
    <3>1. PICK n \in 0 .. len : /\ n = len \/ stray
                               /\ Transfer(a, data, n)
                               /\ stray' \in {stray, FALSE}
                               /\ UNCHANGED trust
      BY <2>1 DEF InTime
    <3>2. stray' \in BOOLEAN /\ (~stray => ~stray')
      <4>1. CASE stray' = stray
        BY <2>0, <4>1, Zenon
      <4>2. CASE stray' = FALSE
        BY <4>2, Zenon
      <4> QED
        BY <3>1, <4>1, <4>2, Zenon
    <3>3. trust' \in {"all", "length", "none"} /\ (trust = "none" <=> trust' = "none")
      BY <2>0, <3>1
    <3>4. trust' = "all" => trust = "all" /\ ~stray' /\ n = len
      BY <2>0, <3>1, <3>2, Zenon
    <3> QED
      BY <3>1, <3>2, <3>3, <3>4, Zenon
  <2>2. CASE TooLate(a, data, len)
    <3>1. PICK n \in 0 .. len :
              /\ Transfer(a, data, n)
              /\ stray' \in BOOLEAN
              /\ trust' = IF trust = "all" /\ (n < len \/ stray') THEN "length" ELSE trust
      BY <2>2 DEF TooLate
    <3>2. trust' = "all" => trust = "all" /\ ~stray' /\ n = len
      BY <3>1
    <3>3. trust' \in {"all", "length", "none"} /\ (trust = "none" <=> trust' = "none")
      BY <2>0, <3>1
    <3> QED
      BY <3>1, <3>2, <3>3, Zenon
  <2> QED
    BY <2>1, <2>2
<1>2. mem \in [0 .. RAM_BUFSIZE - 1 -> Byte] /\ n \in Nat /\ data + n <= Len(src)
  BY <1>1 DEF RamInv, RamTypeOK, Chunk
<1>3. /\ mem' \in [0 .. RAM_BUFSIZE - 1 -> Byte]
      /\ \A c \in 0 .. RAM_BUFSIZE - 1 :
             mem'[c] = IF c \in a .. a + n - 1 THEN src[data + (c - a) + 1] ELSE mem[c]
  BY <1>1, <1>2, TransferWrites
<1>4. ASSUME NEW c \in 0 .. RAM_BUFSIZE - 1, c \notin a .. a + len - 1
      PROVE  mem'[c] = mem[c]
  BY <1>1, <1>3, <1>4
<1> QED
  BY <1>1, <1>3, <1>4 DEF Wrote

(* The rest of a piece is written, all that is left of it or what there is *)
(* of it for the chip of the head.                                         *)
LEMMA WriteAllKeeps ==
    ASSUME RamInv, WriteAll
    PROVE  RamInv' /\ Wrote(shead, off + written, piece - written)
<1>1. Len(src) \in 1 .. MAXPUT /\ src \in Chunk
  BY TwoPieces DEF WriteAll, RamInv, PutInv, Chunk
<1>2. Wrote(shead, off + written, piece - written)
  <2>1. /\ off + written \in Nat /\ piece - written \in Nat
        /\ off + written + (piece - written) <= Len(src)
    BY <1>1, RingAssumption DEF WriteAll, RamInv, RamTypeOK, PutInv, PlaceInv
  <2>2. \/ InTime(shead, off + written, piece - written)
        \/ TooLate(shead, off + written, piece - written)
    BY DEF WriteAll
  <2>3. shead \in Nat
    BY DEF RamInv, RamTypeOK
  <2> QED
    BY <1>1, <2>1, <2>2, <2>3, BothWrite
<1>3. RamTypeOK'
  BY <1>2 DEF WriteAll, put, RamInv, RamTypeOK, Wrote
<1>4. SpaceInv'
  BY <1>2 DEF WriteAll, put, RamInv, SpaceInv, left, Wrote
<1>5. PutInv' /\ PlaceInv'
  BY DEF WriteAll, put, RamInv, PutInv, PlaceInv
<1>6. PieceInv'
  <2> SUFFICES ASSUME trust' = "all"
               PROVE  /\ ~stray'
                      /\ \A j \in 0 .. piece - 1 : mem'[Ring(head + j)] = src[off + j + 1]
    BY DEF PieceInv, done, WriteAll, put
  <2>0. trust = "all" /\ ~stray'
    BY <1>2 DEF Wrote
  <2>1. /\ shead = Ring(head + written) /\ written < piece
        /\ \A j \in 0 .. written - 1 : mem[Ring(head + j)] = src[off + j + 1]
    <3>1. /\ shead = Ring(head + written) \/ (shead = head /\ written = 0)
          /\ written < piece
          /\ FitsChip(shead, piece - written)
      BY DEF WriteAll, RamInv, PlaceInv
    <3>2. \A j \in 0 .. written - 1 : mem[Ring(head + j)] = src[off + j + 1]
      BY <2>0 DEF WriteAll, RamInv, PieceInv, done
    <3>3. shead = Ring(head + written) /\ written < piece
      BY <3>1, RingAssumption
         DEF WriteAll, RamInv, RamTypeOK, PlaceInv, FitsChip, ChipEnd, Ring, RAM_BUFSIZE
    <3> QED
      BY <3>2, <3>3
  <2>2. ASSUME NEW j \in 0 .. piece - 1
        PROVE  mem'[Ring(head + j)] = src[off + j + 1]
    <3>1. Ring(head + j) \in 0 .. RAM_BUFSIZE - 1
      BY RingAssumption DEF WriteAll, RamInv, RamTypeOK, Ring, RAM_BUFSIZE
    <3>2. CASE j < written
      <4>1. Ring(head + j) \notin shead .. shead + (piece - written) - 1
        BY <2>1, <3>2, RingAssumption
           DEF WriteAll, RamInv, RamTypeOK, FitsChip, ChipEnd, Ring, RAM_BUFSIZE
      <4>2. mem[Ring(head + j)] = src[off + j + 1]
        <5>1. j \in 0 .. written - 1
          BY <3>2 DEF RamInv, RamTypeOK
        <5> QED
          BY <2>1, <5>1
      <4> QED
        BY <1>2, <3>1, <4>1, <4>2 DEF Wrote
    <3>3. CASE j >= written
      <4>1. /\ Ring(head + j) \in shead .. shead + (piece - written) - 1
            /\ Ring(head + j) - shead = j - written
        BY <2>1, <3>3, RingAssumption
           DEF WriteAll, RamInv, RamTypeOK, FitsChip, ChipEnd, Ring, RAM_BUFSIZE
      <4>2. off + written + (Ring(head + j) - shead) + 1 = off + j + 1
        BY <4>1 DEF RamInv, RamTypeOK
      <4> QED
        BY <1>2, <3>1, <4>1, <4>2 DEF Wrote
    <3> QED
      BY <3>2, <3>3 DEF RamInv, RamTypeOK
  <2> QED
    BY <2>0, <2>2
<1> QED
  BY <1>2, <1>3, <1>4, <1>5, <1>6 DEF RamInv

(* The first part of a split write fills the chip of the head.             *)
LEMMA WriteSplitKeeps ==
    ASSUME RamInv, WriteSplit
    PROVE  /\ RamInv'
           /\ Wrote(shead, off, ChipEnd(shead) - shead)
           /\ written = 0 /\ shead = head /\ ChipEnd(shead) - shead \in 0 .. piece - 1
<1>1. Len(src) \in 1 .. MAXPUT /\ src \in Chunk
  BY TwoPieces DEF WriteSplit, RamInv, PutInv, Chunk
<1>2. /\ written = 0 /\ shead = head /\ head \in 0 .. RAM_BUFSIZE
      /\ ChipEnd(shead) - shead \in 0 .. piece - 1
      /\ ChipEnd(shead) - shead = 0 => head = RAM_BUFSIZE
  <2>1. written = 0 /\ (shead = Ring(head + 0) \/ shead = head)
    BY RingAssumption DEF WriteSplit, RamInv, RamTypeOK, PlaceInv
  <2>2. piece <= CHIPSIZE /\ piece \in Nat /\ head \in 0 .. RAM_BUFSIZE
        /\ shead \in 0 .. RAM_BUFSIZE /\ ~FitsChip(shead, piece)
    BY <2>1, RingAssumption DEF WriteSplit, RamInv, RamTypeOK
  <2>3. shead = head
    BY <2>1, <2>2, RingAssumption DEF FitsChip, ChipEnd, Ring, RAM_BUFSIZE
  <2> QED
    BY <2>1, <2>2, <2>3, RingAssumption DEF FitsChip, ChipEnd, RAM_BUFSIZE
<1>3. Wrote(shead, off, ChipEnd(shead) - shead)
  <2>1. /\ off \in Nat /\ ChipEnd(shead) - shead \in Nat
        /\ off + (ChipEnd(shead) - shead) <= Len(src)
    BY <1>1, <1>2, RingAssumption DEF WriteSplit, RamInv, RamTypeOK, PutInv
  <2>2. \/ InTime(shead, off, ChipEnd(shead) - shead)
        \/ TooLate(shead, off, ChipEnd(shead) - shead)
    BY DEF WriteSplit
  <2>3. shead \in Nat
    BY DEF RamInv, RamTypeOK
  <2> QED
    BY <1>1, <2>1, <2>2, <2>3, BothWrite
<1>4. RamTypeOK'
  BY <1>2, <1>3, RingAssumption
     DEF WriteSplit, RamInv, RamTypeOK, OtherChip, RAM_BUFSIZE, Wrote
<1>5. SpaceInv'
  BY <1>3 DEF WriteSplit, RamInv, SpaceInv, left, Wrote
<1>6. PutInv'
  BY DEF WriteSplit, RamInv, PutInv
<1>7. PlaceInv'
  <2>1. /\ written' < piece /\ shead' = Ring(head + written')
        /\ written' > 0 => FitsChip(shead', piece - written')
    BY <1>2, RingAssumption
       DEF WriteSplit, RamInv, RamTypeOK, FitsChip, ChipEnd, OtherChip, Ring, RAM_BUFSIZE
  <2> QED
    BY <2>1 DEF WriteSplit, PlaceInv
<1>8. PieceInv'
  <2> SUFFICES ASSUME trust' = "all"
               PROVE  /\ ~stray'
                      /\ \A j \in 0 .. written' - 1 : mem'[Ring(head + j)] = src[off + j + 1]
    BY DEF PieceInv, done, WriteSplit
  <2>1. ASSUME NEW j \in 0 .. written' - 1
        PROVE  mem'[Ring(head + j)] = src[off + j + 1]
    <3>1. /\ Ring(head + j) \in 0 .. RAM_BUFSIZE - 1
          /\ Ring(head + j) \in shead .. shead + (ChipEnd(shead) - shead) - 1
          /\ Ring(head + j) - shead = j
      BY <1>2, RingAssumption
         DEF WriteSplit, RamInv, RamTypeOK, ChipEnd, Ring, RAM_BUFSIZE
    <3> QED
      BY <1>3, <3>1 DEF Wrote
  <2> QED
    BY <1>3, <2>1 DEF Wrote
<1> QED
  BY <1>2, <1>3, <1>4, <1>5, <1>6, <1>7, <1>8 DEF RamInv

(* What a new head does: as long as lengths are right, the buffer has the  *)
(* piece more.                                                             *)
LEMMA HeadAdvances ==
    ASSUME RamInv, wpc \in {"head", "late"}, AdvanceHead
    PROVE  /\ head' \in 0 .. RAM_BUFSIZE
           /\ trust # "none" => RAM_buflen(head', tail) = RAM_buflen(head, tail) + piece
<1>1. /\ written < piece /\ FitsChip(shead, piece - written)
      /\ shead = Ring(head + written) \/ (shead = head /\ written = 0)
      /\ head' = shead + (piece - written)
  BY DEF RamInv, PlaceInv, AdvanceHead
<1>2. head' \in 0 .. RAM_BUFSIZE
  BY <1>1, RingAssumption
     DEF RamInv, RamTypeOK, FitsChip, ChipEnd, RAM_BUFSIZE
<1>3. shead = Ring(head + written)
  BY <1>1, RingAssumption DEF RamInv, RamTypeOK, FitsChip, ChipEnd, Ring, RAM_BUFSIZE
<1>4. ASSUME trust # "none"
      PROVE  RAM_buflen(head', tail) = RAM_buflen(head, tail) + piece
  <2>1. RAM_buflen(head, tail) + piece <= RAM_BUFSIZE - 1
    BY <1>4, RingAssumption
       DEF RamInv, RamTypeOK, SpaceInv, left, RAM_buflen, RAM_BUFSIZE
  <2> QED
    BY <1>1, <1>3, <2>1, RingAssumption
       DEF RamInv, RamTypeOK, FitsChip, ChipEnd, Ring, RAM_buflen, RAM_BUFSIZE
<1> QED
  BY <1>2, <1>4

(* The new head, and its wrap.                                             *)
LEMMA SetHeadKeeps ==
    ASSUME RamInv, SetHead
    PROVE  RamInv'
<1>1. /\ head' \in 0 .. RAM_BUFSIZE
      /\ trust # "none" => RAM_buflen(head', tail) = RAM_buflen(head, tail) + piece
  BY HeadAdvances DEF SetHead
<1>2. stray' \in BOOLEAN
  BY Zenon DEF SetHead, RamInv, RamTypeOK
<1>3. RamTypeOK'
  BY <1>1, <1>2 DEF SetHead, put, RamInv, RamTypeOK
<1>4. SpaceInv'
  <2>1. left = todo + piece /\ left' = todo /\ todo \in Nat /\ piece \in Nat
        /\ tail' = tail /\ trust' = trust
    BY RingAssumption, TwoPieces DEF SetHead, put, RamInv, RamTypeOK, left
  <2>2. RAM_buflen(head, tail) \in Int /\ RAM_BUFSIZE \in Nat
    BY RingAssumption DEF RamInv, RamTypeOK, RAM_buflen, RAM_BUFSIZE
  <2> QED
    BY <1>1, <2>1, <2>2 DEF RamInv, SpaceInv
<1>5. PutInv' /\ PlaceInv' /\ PieceInv'
  BY RingAssumption DEF SetHead, put, RamInv, RamTypeOK, PutInv, PlaceInv, PieceInv
<1> QED
  BY <1>3, <1>4, <1>5 DEF RamInv

(* The new head that is not wrapped.                                       *)
LEMMA LateHeadKeeps ==
    ASSUME RamInv, LateHead
    PROVE  RamInv'
<1>0. Len(src) \in 1 .. MAXPUT
  BY TwoPieces DEF LateHead, RamInv, PutInv, Chunk
<1>1. /\ head' \in 0 .. RAM_BUFSIZE
      /\ trust # "none" => RAM_buflen(head', tail) = RAM_buflen(head, tail) + piece
  BY HeadAdvances DEF LateHead
<1>2. stray' \in BOOLEAN
  BY Zenon DEF LateHead, RamInv, RamTypeOK
<1>3. RamTypeOK'
  BY <1>1, <1>2, RingAssumption DEF LateHead, NextPiece, RamInv, RamTypeOK
<1>4. SpaceInv'
  <2>1. left = todo + piece /\ left' = todo /\ todo \in Nat /\ piece \in Nat
        /\ tail' = tail /\ trust' = trust
    BY RingAssumption, TwoPieces DEF LateHead, NextPiece, RamInv, RamTypeOK, left
  <2>2. RAM_buflen(head, tail) \in Int /\ RAM_BUFSIZE \in Nat
    BY RingAssumption DEF RamInv, RamTypeOK, RAM_buflen, RAM_BUFSIZE
  <2> QED
    BY <1>1, <2>1, <2>2 DEF RamInv, SpaceInv
<1>5. PutInv' /\ PlaceInv' /\ PieceInv'
  BY <1>0, RingAssumption
     DEF LateHead, NextPiece, RamInv, RamTypeOK, PutInv, PlaceInv, PieceInv
<1> QED
  BY <1>3, <1>4, <1>5 DEF RamInv

(* A head at the end of the ring goes to its start: the length stays.      *)
LEMMA WrapKeeps ==
    ASSUME RamInv, Wrap
    PROVE  /\ RamInv'
           /\ trust # "none" => RAM_buflen(head', tail) = RAM_buflen(head, tail)
<1>1. Len(src) \in 1 .. MAXPUT
  BY TwoPieces DEF Wrap, RamInv, PutInv, Chunk
<1>2. /\ head' \in 0 .. RAM_BUFSIZE - 1
      /\ trust # "none" => RAM_buflen(head', tail) = RAM_buflen(head, tail)
  BY RingAssumption
     DEF Wrap, RamInv, RamTypeOK, SpaceInv, left, RAM_buflen, RAM_BUFSIZE
<1>3. RamTypeOK'
  BY <1>2, RingAssumption DEF Wrap, NextPiece, RamInv, RamTypeOK, RAM_BUFSIZE
<1>4. SpaceInv'
  BY <1>2, RingAssumption DEF Wrap, NextPiece, RamInv, RamTypeOK, SpaceInv, left, RAM_BUFSIZE
<1>5. PutInv' /\ PlaceInv' /\ PieceInv'
  BY <1>1, RingAssumption
     DEF Wrap, NextPiece, RamInv, RamTypeOK, PutInv, PlaceInv, PieceInv
<1> QED
  BY <1>2, <1>3, <1>4, <1>5 DEF RamInv

(* A channel astray sends.                                                 *)
LEMMA StrayKeeps ==
    ASSUME RamInv, Stray
    PROVE  RamInv'
<1>1. RamTypeOK'
  BY DEF Stray, put, RamInv, RamTypeOK
<1>2. SpaceInv' /\ PutInv' /\ PlaceInv' /\ PieceInv'
  BY DEF Stray, put, RamInv, SpaceInv, PutInv, PlaceInv, PieceInv, left
<1> QED
  BY <1>1, <1>2 DEF RamInv

(* A block is taken, or the buffer is emptied.                             *)
LEMMA GetKeeps ==
    ASSUME RamInv, Get
    PROVE  RamInv'
<1>1. /\ tail + BLOCK <= RAM_BUFSIZE
      /\ tail' = Ring(tail + BLOCK)
      /\ tail' \in 0 .. RAM_BUFSIZE - 1 /\ Aligned(tail')
      /\ RAM_buflen(head, tail') = RAM_buflen(head, tail) - BLOCK
  BY BlockTaken DEF Get, RamInv, RamTypeOK, SpaceInv
<1>2. out' \in [1 .. BLOCK -> Byte]
  <2>1. \A i \in 1 .. BLOCK : tail + i - 1 \in 0 .. RAM_BUFSIZE - 1
    BY <1>1, RingAssumption DEF RamInv, RamTypeOK, RAM_BUFSIZE
  <2>2. [i \in 1 .. BLOCK |-> mem[tail + i - 1]] \in [1 .. BLOCK -> Byte]
    BY <2>1 DEF RamInv, RamTypeOK
  <2> QED
    BY <2>2 DEF Get
<1>3. RamTypeOK'
  BY <1>1, <1>2 DEF Get, put, RamInv, RamTypeOK
<1>4. SpaceInv'
  <2>1. head' = head /\ wpc' = wpc /\ left' = left /\ trust' = trust
    BY DEF Get, put, left
  <2>2. trust # "none" => RAM_buflen(head, tail') + left <= RAM_BUFSIZE - 1
    <3> SUFFICES ASSUME trust # "none"
                 PROVE  RAM_buflen(head, tail') + left <= RAM_BUFSIZE - 1
      OBVIOUS
    <3>1. RAM_buflen(head, tail) + left <= RAM_BUFSIZE - 1 /\ left \in Nat
      BY RingAssumption DEF RamInv, RamTypeOK, SpaceInv, left
    <3>2. RAM_buflen(head, tail) \in Int
      BY RingAssumption DEF RamInv, RamTypeOK, RAM_buflen, RAM_BUFSIZE
    <3>3. RAM_BUFSIZE \in Nat /\ BLOCK \in Nat
      BY RingAssumption DEF RAM_BUFSIZE
    <3> QED
      BY <1>1, <3>1, <3>2, <3>3
  <2> QED
    BY <1>1, <2>1, <2>2 DEF SpaceInv
<1>5. PutInv' /\ PlaceInv' /\ PieceInv'
  BY DEF Get, put, RamInv, PutInv, PlaceInv, PieceInv, done
<1> QED
  BY <1>3, <1>4, <1>5 DEF RamInv

(* resetbuff.                                                              *)
LEMMA ResetKeeps ==
    ASSUME RamInv, Reset
    PROVE  RamInv'
<1>1. Aligned(0)
  BY RingAssumption DEF Aligned
<1> QED
  BY <1>1, RingAssumption
     DEF Reset, put, RamInv, RamTypeOK, SpaceInv, PutInv, PlaceInv, PieceInv, left,
         RAM_buflen, RAM_BUFSIZE

(* Every step keeps the invariant.                                         *)
LEMMA RamStep == RamInv /\ [RamNext]_ramVars => RamInv'
<1> SUFFICES ASSUME RamInv, [RamNext]_ramVars PROVE RamInv'
  OBVIOUS
<1>1. CASE UNCHANGED ramVars
  BY <1>1
     DEF ramVars, put, RamInv, RamTypeOK, SpaceInv, PutInv, PlaceInv, PieceInv, left, done
<1>2. CASE RamNext
  BY <1>2, CallKeeps, CutKeeps, TimeoutKeeps, WriteAllKeeps, WriteSplitKeeps, SetHeadKeeps,
     WrapKeeps, LateHeadKeeps, StrayKeeps, GetKeeps, ResetKeeps DEF RamNext
<1> QED
  BY <1>1, <1>2

(* The inductive invariant of the ring.                                    *)
LEMMA RamInvariance == RamSpec => []RamInv
<1> QED
  BY RamStart, RamStep, PTL DEF RamSpec

-----------------------------------------------------------------------------
(* The bytes from t to h, and the last n bytes of data_in.                 *)
Bytes(h, t, m) == [i \in 1 .. RAM_buflen(h, t) |-> m[Ring(t + i - 1)]]
Last(s, n) == SubSeq(s, Len(s) - n + 1, Len(s))

(* They are the queue of the refinement mapping.                           *)
LEMMA BytesAre ==
    ASSUME NEW h \in 0 .. RAM_BUFSIZE, NEW t \in 0 .. RAM_BUFSIZE - 1,
           NEW m \in [0 .. RAM_BUFSIZE - 1 -> Byte]
    PROVE  /\ RAM_buflen(h, t) \in 0 .. RAM_BUFSIZE
           /\ [i \in 1 .. RAM_buflen(h, t) |-> m[(t + i - 1) % RAM_BUFSIZE]] = Bytes(h, t, m)
           /\ Bytes(h, t, m) \in Seq(Byte)
           /\ Len(Bytes(h, t, m)) = RAM_buflen(h, t)
           /\ \A i \in 1 .. RAM_buflen(h, t) : Bytes(h, t, m)[i] = m[Ring(t + i - 1)]
<1>1. RAM_buflen(h, t) \in 0 .. RAM_BUFSIZE /\ RAM_BUFSIZE \in Nat \ {0}
  BY RingAssumption DEF RAM_buflen, RAM_BUFSIZE
<1>2. ASSUME NEW i \in 1 .. RAM_buflen(h, t)
      PROVE  /\ (t + i - 1) % RAM_BUFSIZE = Ring(t + i - 1)
             /\ Ring(t + i - 1) \in 0 .. RAM_BUFSIZE - 1
  <2>1. t + i - 1 \in Nat /\ t + i - 1 < 2 * RAM_BUFSIZE
    BY <1>1
  <2>2. (t + i - 1) % RAM_BUFSIZE = Ring(t + i - 1)
    BY <2>1, RingIsModulo
  <2> QED
    BY <1>1, <2>1, <2>2 DEF Ring
<1>3. \A i \in 1 .. RAM_buflen(h, t) : m[Ring(t + i - 1)] \in Byte
  BY <1>2
<1>4. [i \in 1 .. RAM_buflen(h, t) |-> m[(t + i - 1) % RAM_BUFSIZE]] = Bytes(h, t, m)
  BY <1>2, Zenon DEF Bytes
<1>5. Bytes(h, t, m) \in [1 .. RAM_buflen(h, t) -> Byte]
  BY <1>3, Zenon DEF Bytes
<1>6. Bytes(h, t, m) \in Seq(Byte) /\ Len(Bytes(h, t, m)) = RAM_buflen(h, t)
  BY <1>1, <1>5
<1> QED
  BY <1>1, <1>4, <1>6, Zenon DEF Bytes

(* They end where data_in ends.                                            *)
LEMMA LastAre ==
    ASSUME NEW s \in Seq(Byte), NEW n \in 0 .. Len(s)
    PROVE  /\ Last(s, n) \in Seq(Byte)
           /\ Len(Last(s, n)) = n
           /\ \A i \in 1 .. n : Last(s, n)[i] = s[Len(s) - n + i]
  BY DEF Last

(* The mapping in those words.                                             *)
Maps ==
    /\ left \in 0 .. Len(src) /\ src \in Seq(Byte)
    /\ RAM_buflen(head, tail) \in 0 .. RAM_BUFSIZE
    /\ contents = Bytes(head, tail, mem)
    /\ Bytes(head, tail, mem) \in Seq(Byte)
    /\ Len(Bytes(head, tail, mem)) = RAM_buflen(head, tail)
    /\ \A i \in 1 .. RAM_buflen(head, tail) :
           Bytes(head, tail, mem)[i] = mem[Ring(tail + i - 1)]

(* It follows from the invariant.                                          *)
LEMMA Mapped == RamInv => Maps
<1> SUFFICES ASSUME RamInv PROVE Maps
  OBVIOUS
<1>1. src \in Seq(Byte)
  <2>1. CASE src = << >>
    BY <2>1
  <2>2. CASE src \in Chunk
    BY <2>2, TwoPieces, RingAssumption DEF Chunk
  <2> QED
    BY <2>1, <2>2 DEF RamInv, RamTypeOK
<1>2. left \in 0 .. Len(src)
  BY <1>1, RingAssumption DEF RamInv, RamTypeOK, PutInv, left, Chunk
<1> QED
  BY <1>1, <1>2, BytesAre DEF RamInv, RamTypeOK, contents, Maps

(* And after a step.                                                       *)
LEMMA MappedNext == RamInv' => Maps'
  BY Mapped, PTL

(* k elements have gone from the front of p, which has become u, to the    *)
(* end of q, which has become r.                                           *)
Moved(q, p, r, u, k) ==
    /\ q \in Seq(Byte) /\ p \in Seq(Byte) /\ r \in Seq(Byte) /\ u \in Seq(Byte)
    /\ k \in 0 .. Len(p) /\ Len(u) = Len(p) - k /\ Len(r) = Len(q) + k
    /\ \A i \in 1 .. Len(q) : r[i] = q[i]
    /\ \A i \in 1 .. k : r[Len(q) + i] = p[i]
    /\ \A i \in 1 .. Len(u) : u[i] = p[k + i]

(* Two pairs of sequences that are the same when each pair is joined.      *)
SameJoined(q, p, r, u) == r \o u = q \o p

(* Moving elements from the front of one to the end of the other leaves    *)
(* the two together the same.                                              *)
LEMMA SameJoin ==
    ASSUME NEW q, NEW p, NEW r, NEW u, NEW k, Moved(q, p, r, u, k)
    PROVE  SameJoined(q, p, r, u)
<1> SUFFICES ASSUME q \in Seq(Byte), p \in Seq(Byte), r \in Seq(Byte), u \in Seq(Byte)
             PROVE  r \o u = q \o p
  BY DEF Moved, SameJoined
<1>0. /\ k \in 0 .. Len(p) /\ Len(u) = Len(p) - k /\ Len(r) = Len(q) + k
      /\ \A i \in 1 .. Len(q) : r[i] = q[i]
      /\ \A i \in 1 .. k : r[Len(q) + i] = p[i]
      /\ \A i \in 1 .. Len(u) : u[i] = p[k + i]
  BY DEF Moved
<1>1. r \o u \in Seq(Byte) /\ q \o p \in Seq(Byte)
  BY ConcatProperties, Zenon
<1>2. Len(r \o u) = Len(q \o p)
  <2>1. Len(r \o u) = Len(r) + Len(u) /\ Len(q \o p) = Len(q) + Len(p)
    BY ConcatProperties, Zenon
  <2> QED
    BY <1>0, <2>1
<1>3. ASSUME NEW i \in 1 .. Len(r \o u) PROVE (r \o u)[i] = (q \o p)[i]
  <2>1. i \in 1 .. Len(r) + Len(u) /\ i \in 1 .. Len(q) + Len(p)
    BY <1>0, <1>2, ConcatProperties
  <2>2. (r \o u)[i] = IF i <= Len(r) THEN r[i] ELSE u[i - Len(r)]
    BY <2>1, ConcatProperties
  <2>3. (q \o p)[i] = IF i <= Len(q) THEN q[i] ELSE p[i - Len(q)]
    BY <2>1, ConcatProperties
  <2>4. CASE i <= Len(q)
    BY <1>0, <2>1, <2>2, <2>3, <2>4
  <2>5. CASE i > Len(q) /\ i <= Len(r)
    <3>1. i - Len(q) \in 1 .. k /\ Len(q) + (i - Len(q)) = i
      BY <1>0, <2>1, <2>5
    <3>2. r[i] = p[i - Len(q)]
      BY <1>0, <3>1
    <3>3. (r \o u)[i] = r[i]
      BY <2>2, <2>5
    <3>4. (q \o p)[i] = p[i - Len(q)]
      BY <2>1, <2>3, <2>5
    <3> QED
      BY <3>2, <3>3, <3>4, Zenon
  <2>6. CASE i > Len(r)
    <3>1. i - Len(r) \in 1 .. Len(u) /\ k + (i - Len(r)) = i - Len(q)
      BY <1>0, <2>1, <2>6
    <3>2. u[i - Len(r)] = p[i - Len(q)]
      BY <1>0, <3>1
    <3>3. (r \o u)[i] = u[i - Len(r)]
      BY <2>1, <2>2, <2>6
    <3>4. (q \o p)[i] = p[i - Len(q)]
      BY <1>0, <2>1, <2>3, <2>6
    <3> QED
      BY <3>2, <3>3, <3>4, Zenon
  <2>7. Len(q) \in Nat /\ Len(r) \in Nat
    OBVIOUS
  <2> QED
    BY <2>1, <2>4, <2>5, <2>6, <2>7
<1> QED
  BY <1>1, <1>2, <1>3, SeqEqual

-----------------------------------------------------------------------------
(* What a step does to the queue and to what is left, in those words.      *)
LEMMA QueueOffer ==
    ASSUME RamInv, NEW d \in Chunk, NEW asks \in BOOLEAN, Call(d, asks)
    PROVE  Q!Offer
<1>1. RamInv'
  BY CallKeeps
<1>2. d \in Seq(Byte) /\ Len(d) \in 1 .. MAXPUT
  BY TwoPieces, RingAssumption DEF Chunk
<1>3. Last(src, left) = << >>
  <2>1. src = << >> /\ left = 0
    BY DEF Call, RamInv, PutInv, left
  <2> QED
    BY <2>1 DEF Last
<1>4. left' = Len(d) /\ src' = d
  BY <1>2 DEF Call, left
<1>5. Last(src', left') # << >> /\ Len(Last(src', left')) = Len(d)
  <2>1. Last(d, Len(d)) \in Seq(Byte) /\ Len(Last(d, Len(d))) = Len(d)
    BY <1>2, LastAre
  <2> QED
    BY <1>2, <1>4, <2>1
<1>6. contents' = contents
  BY DEF Call, contents
<1>7. Len(contents) + Len(d) <= RAM_BUFSIZE - 1 <=> Len(d) <= RAM_buffree(head, tail)
  <2>1. Len(contents) = RAM_buflen(head, tail) /\ RAM_buflen(head, tail) \in 0 .. RAM_BUFSIZE
    BY Mapped DEF Maps
  <2> QED
    BY <1>2, <2>1, RingAssumption DEF RAM_buffree, RAM_BUFSIZE
<1>8. trust' = IF Len(contents) + Len(Last(src', left')) <= RAM_BUFSIZE - 1
            THEN trust ELSE "none"
  BY <1>5, <1>7, Zenon DEF Call
<1> QED
  BY <1>3, <1>5, <1>6, <1>8 DEF Q!Offer, Last, Call

(* A piece that timed out is lost, and nothing else.                       *)
LEMMA QueueLose ==
    ASSUME RamInv, Timeout
    PROVE  Q!Lose
<1>1. RamInv'
  BY TimeoutKeeps
<1>2. /\ src \in Seq(Byte) /\ left \in 0 .. Len(src)
      /\ src' \in Seq(Byte) /\ left' \in 0 .. Len(src')
  BY <1>1, Mapped, MappedNext DEF Maps
<1>3. /\ left' < left
      /\ src' = src \/ left' = 0
  BY <1>2, RingAssumption DEF Timeout, NextPiece, RamInv, RamTypeOK, PutInv, Piece, left
<1> DEFINE p == Last(src, left)
           u == Last(src', left')
<1>4. /\ p \in Seq(Byte) /\ Len(p) = left
      /\ \A i \in 1 .. left : p[i] = src[Len(src) - left + i]
  BY <1>2, LastAre
<1>5. /\ u \in Seq(Byte) /\ Len(u) = left'
      /\ \A i \in 1 .. left' : u[i] = src'[Len(src') - left' + i]
  BY <1>2, LastAre
<1> HIDE DEF p, u
<1>6. /\ left - left' \in 1 .. Len(p)
      /\ u = SubSeq(p, (left - left') + 1, Len(p))
  <2> DEFINE n == left - left'
             v == SubSeq(p, n + 1, Len(p))
  <2>1. n \in 1 .. Len(p) /\ left = Len(p) /\ left' = Len(p) - n
    <3>1. PICK a \in Nat : left = a
      BY <1>2
    <3>2. PICK b \in Nat : left' = b
      BY <1>2
    <3>3. b < a /\ Len(p) = a
      BY <1>3, <1>4, <3>1, <3>2
    <3> QED
      BY <3>1, <3>2, <3>3
  <2> HIDE DEF n
  <2>2. /\ v \in Seq(Byte) /\ Len(v) = Len(p) - n
        /\ \A i \in 1 .. Len(p) - n : v[i] = p[n + i]
    BY <1>4, <2>1
  <2> HIDE DEF v
  <2>3. ASSUME NEW i \in 1 .. Len(u) PROVE u[i] = v[i]
    <3>1. i \in 1 .. left' /\ i \in 1 .. Len(p) - n /\ left' # 0
      BY <1>2, <1>5, <2>1
    <3>2. u[i] = src[Len(src) - left' + i]
      BY <1>3, <1>5, <3>1
    <3>3. n + i \in 1 .. left /\ Len(src) - left + (n + i) = Len(src) - left' + i
      BY <1>2, <2>1, <3>1
    <3>4. p[n + i] = src[Len(src) - left' + i]
      BY <1>4, <3>3
    <3> QED
      BY <2>2, <3>1, <3>2, <3>4
  <2>4. Len(u) = Len(v)
    BY <1>5, <2>1, <2>2
  <2>5. u = v
    BY <1>5, <2>2, <2>3, <2>4, SeqEqual
  <2> QED
    BY <2>1, <2>5 DEF n, v
<1>9. UNCHANGED << contents, out, trust >>
  BY DEF Timeout, contents
<1> QED
  BY <1>6, <1>9 DEF Q!Lose, Last, p, u

(* A step that leaves lengths right may damage bytes, or change nothing of *)
(* the queue.                                                              *)
LEMMA QueueDamage ==
    ASSUME RamInv, RamInv', UNCHANGED << head, tail, src, left, out >>,
           trust # "none", trust' = "length"
    PROVE  Q!Damage
<1>1. contents = Bytes(head, tail, mem) /\ contents' = Bytes(head', tail', mem')
  BY Mapped, MappedNext DEF Maps
<1>2. Len(contents) = RAM_buflen(head, tail)
  BY Mapped DEF Maps
<1>3. Len(contents') = RAM_buflen(head', tail')
  BY MappedNext DEF Maps
<1>4. Len(contents') = Len(contents)
  BY <1>2, <1>3, Zenon
<1> QED
  BY <1>4, Zenon DEF Q!Damage, Last

(* When nothing is right, any step will do.                                *)
LEMMA QueueMess ==
    ASSUME trust = "none", trust' = "none"
    PROVE  Q!Next
  BY DEF Q!Next, Q!Mess

(* A transfer writes where there is nothing of the queue, unless it damages*)
(* it or nothing is right.                                                 *)
LEMMA QueueWrite ==
    ASSUME RamInv, WriteAll \/ WriteSplit
    PROVE  Q!Next \/ UNCHANGED << contents, src, left, out, trust >>
<1>1. RamInv' /\ UNCHANGED << head, tail, src, left, out >>
  BY WriteAllKeeps, WriteSplitKeeps DEF WriteAll, WriteSplit, put, left
<1>2. /\ trust' \in {"all", "length", "none"}
      /\ trust = "none" <=> trust' = "none"
      /\ trust' = "all" => trust = "all"
  BY WriteAllKeeps, WriteSplitKeeps DEF Wrote
<1>3. CASE trust = "none"
  BY <1>2, <1>3, QueueMess
<1>4. CASE trust # "none" /\ trust' = "length"
  BY <1>1, <1>4, QueueDamage DEF Q!Next
<1>5. CASE trust' = "all"
  <2> DEFINE len == IF WriteAll THEN piece - written ELSE ChipEnd(shead) - shead
  <2>1. \A c \in 0 .. RAM_BUFSIZE - 1 : c \notin shead .. shead + len - 1 => mem'[c] = mem[c]
    <3>1. CASE WriteAll
      BY <3>1, WriteAllKeeps DEF Wrote
    <3>2. CASE ~WriteAll
      BY <3>2, WriteSplitKeeps DEF Wrote
    <3> QED
      BY <3>1, <3>2
  <2>2. /\ shead = head \/ shead = Ring(head + written)
        /\ written > 0 => shead = Ring(head + written)
        /\ written \in Nat /\ piece \in Nat
        /\ written + len <= piece /\ shead + len <= RAM_BUFSIZE /\ len \in Nat
        /\ head \in 0 .. RAM_BUFSIZE
        /\ RAM_buflen(head, tail) + piece <= RAM_BUFSIZE - 1
    <3>1. /\ wpc = "write" /\ written < piece
          /\ shead = Ring(head + written) \/ (shead = head /\ written = 0)
          /\ written > 0 => FitsChip(shead, piece - written)
      BY DEF WriteAll, WriteSplit, RamInv, PlaceInv
    <3>2. RAM_buflen(head, tail) + piece <= RAM_BUFSIZE - 1 /\ head \in 0 .. RAM_BUFSIZE
      BY <1>2, <1>5, <3>1, RingAssumption
         DEF RamInv, RamTypeOK, SpaceInv, left, RAM_buflen, RAM_BUFSIZE
    <3>3. CASE WriteAll
      BY <3>1, <3>2, <3>3, RingAssumption
         DEF WriteAll, RamInv, RamTypeOK, FitsChip, ChipEnd, Ring, RAM_BUFSIZE
    <3>4. CASE ~WriteAll /\ WriteSplit
      <4>1. written = 0 /\ shead = head /\ ChipEnd(shead) - shead \in 0 .. piece - 1
        BY <3>4, WriteSplitKeeps
      <4> QED
        BY <3>1, <3>2, <3>4, <4>1, RingAssumption
           DEF RamInv, RamTypeOK, ChipEnd, RAM_BUFSIZE
    <3> QED
      BY <3>3, <3>4
  <2> HIDE DEF len
  <2>3. ASSUME NEW i \in 1 .. RAM_buflen(head, tail)
        PROVE  mem'[Ring(tail + i - 1)] = mem[Ring(tail + i - 1)]
    <3>1. /\ Ring(tail + i - 1) \in 0 .. RAM_BUFSIZE - 1
          /\ Ring(tail + i - 1) \notin shead .. shead + len - 1
      BY <2>2, RingAssumption DEF RamInv, RamTypeOK, Ring, RAM_buflen, RAM_BUFSIZE
    <3> QED
      BY <2>1, <3>1
  <2>4. contents = Bytes(head, tail, mem)
    BY Mapped DEF Maps
  <2>5. contents' = Bytes(head', tail', mem')
    BY <1>1, MappedNext DEF Maps
  <2>6. Bytes(head, tail, mem') = Bytes(head, tail, mem)
    BY <2>3, Zenon DEF Bytes
  <2> QED
    BY <1>1, <1>2, <1>5, <2>4, <2>5, <2>6
<1> QED
  BY <1>2, <1>3, <1>4, <1>5

(* A channel astray damages bytes.                                         *)
LEMMA QueueStray ==
    ASSUME RamInv, Stray
    PROVE  Q!Next
<1>1. RamInv' /\ UNCHANGED << head, tail, src, left, out, trust >>
  BY StrayKeeps DEF Stray, put, left
<1>2. trust \in {"length", "none"}
  BY DEF Stray, RamInv, RamTypeOK, PieceInv
<1> QED
  BY <1>1, <1>2, QueueMess, QueueDamage DEF Q!Next

(* The new head adds the piece to the queue.                               *)
LEMMA QueueAppend ==
    ASSUME RamInv, RamInv', wpc \in {"head", "late"}, AdvanceHead,
           UNCHANGED << tail, mem, out, trust >>, left' = todo,
           src' = src \/ (todo = 0 /\ src' = << >>)
    PROVE  Q!Next
<1>1. CASE trust = "none"
  BY <1>1, QueueMess
<1>2. CASE trust # "none"
  <2> DEFINE q == Bytes(head, tail, mem)
             r == Bytes(head', tail, mem)
             p == Last(src, left)
             u == Last(src', left')
             n == RAM_buflen(head, tail)
  <2>1. RAM_buflen(head', tail) = n + piece
    BY <1>2, HeadAdvances
  <2>2. Maps /\ Maps'
    BY Mapped, MappedNext
  <2>4. /\ left = todo + piece /\ left' = todo /\ piece \in 0 .. left
        /\ left \in 0 .. Len(src) /\ left' \in 0 .. Len(src) /\ src \in Seq(Byte)
        /\ off + piece + todo = Len(src) /\ off \in Nat /\ todo \in Nat
        /\ piece \in Nat /\ piece > 0
    <3>1. todo \in Nat /\ piece \in Nat /\ off \in Nat /\ piece > 0
          /\ off + piece + todo = Len(src) /\ left = todo + piece
      BY RingAssumption, TwoPieces DEF left, RamInv, RamTypeOK, PutInv
    <3>2. src \in Seq(Byte) /\ left \in 0 .. Len(src)
      BY <2>2 DEF Maps
    <3> QED
      BY <3>1, <3>2
  <2>5. /\ contents = q /\ contents' = r
        /\ q \in Seq(Byte) /\ Len(q) = n /\ n \in Nat
        /\ \A i \in 1 .. n : q[i] = mem[Ring(tail + i - 1)]
    BY <2>2 DEF Maps, Bytes, Ring
  <2>6. /\ r \in Seq(Byte) /\ Len(r) = n + piece
        /\ \A i \in 1 .. n + piece : r[i] = mem[Ring(tail + i - 1)]
    <3>1. /\ Bytes(head', tail', mem') \in Seq(Byte)
          /\ Len(Bytes(head', tail', mem')) = RAM_buflen(head', tail')
          /\ \A i \in 1 .. RAM_buflen(head', tail') :
                 Bytes(head', tail', mem')[i] = mem'[Ring(tail' + i - 1)]
      BY <2>2 DEF Maps, Ring
    <3>2. tail' = tail /\ mem' = mem
      OBVIOUS
    <3> QED
      BY <2>1, <3>1, <3>2, Zenon
  <2>7. /\ p \in Seq(Byte) /\ Len(p) = left
        /\ \A i \in 1 .. left : p[i] = src[Len(src) - left + i]
    BY <2>4, LastAre
  <2>8. /\ u \in Seq(Byte) /\ Len(u) = left'
        /\ \A i \in 1 .. left' : u[i] = src[Len(src) - left' + i]
    <3>1. CASE src' = src
      BY <2>4, <3>1, LastAre
    <3>2. CASE todo = 0 /\ src' = << >>
      <4>1. u = << >> /\ left' = 0
        BY <2>4, <3>2 DEF Last
      <4> QED
        BY <4>1
    <3> QED
      BY <3>1, <3>2
  <2>9. ASSUME trust = "all", NEW i \in 1 .. piece
        PROVE  mem[Ring(tail + (n + i) - 1)] = src[off + i]
    <3>1. head \in 0 .. RAM_BUFSIZE /\ n + piece <= RAM_BUFSIZE - 1
      <4>1. n + left <= RAM_BUFSIZE - 1 /\ n \in Int /\ RAM_BUFSIZE \in Nat
        BY <1>2, <2>5, RingAssumption DEF RamInv, SpaceInv, RAM_BUFSIZE
      <4>2. head \in 0 .. RAM_BUFSIZE
        BY DEF RamInv, RamTypeOK
      <4> QED
        BY <2>4, <4>1, <4>2
    <3>2. Ring(tail + (n + i) - 1) = Ring(head + (i - 1))
      BY <2>4, <3>1, RingAssumption DEF RamInv, RamTypeOK, Ring, RAM_buflen, RAM_BUFSIZE
    <3>3. i - 1 \in 0 .. piece - 1 /\ off + (i - 1) + 1 = off + i
      BY <2>4
    <3>4. \A j \in 0 .. piece - 1 : mem[Ring(head + j)] = src[off + j + 1]
      BY <2>9, Zenon DEF RamInv, PieceInv, done
    <3> QED
      BY <3>2, <3>3, <3>4
  <2> HIDE DEF q, r, p, u, n
  <2>10. ASSUME NEW i \in 1 .. Len(q) PROVE r[i] = q[i]
    <3>1. i \in 1 .. n /\ i \in 1 .. n + piece
      BY <2>4, <2>5
    <3> QED
      BY <2>5, <2>6, <3>1
  <2>11. ASSUME trust = "all", NEW i \in 1 .. piece PROVE r[Len(q) + i] = p[i]
    <3>1. n + i \in 1 .. n + piece /\ i \in 1 .. left
      BY <2>4, <2>5
    <3>3. Len(src) - left + i = off + i
      BY <2>4
    <3>2. r[n + i] = src[off + i]
      BY <2>6, <2>9, <2>11, <3>1
    <3> QED
      BY <2>5, <2>7, <3>1, <3>2, <3>3
  <2>12. ASSUME NEW i \in 1 .. Len(u) PROVE u[i] = p[piece + i]
    <3>1. i \in 1 .. left' /\ piece + i \in 1 .. left
          /\ Len(src) - left' + i = Len(src) - left + (piece + i)
      BY <2>4, <2>8
    <3> QED
      BY <2>7, <2>8, <3>1
  <2>13. piece \in 0 .. Len(p) /\ Len(u) = Len(p) - piece /\ Len(r) = Len(q) + piece
    BY <2>4, <2>5, <2>6, <2>7, <2>8
  <2>14. trust = "all" => r \o u = q \o p
    <3> SUFFICES ASSUME trust = "all" PROVE r \o u = q \o p
      OBVIOUS
    <3>1. q \in Seq(Byte) /\ p \in Seq(Byte) /\ r \in Seq(Byte) /\ u \in Seq(Byte)
      BY <2>5, <2>6, <2>7, <2>8
    <3>2. /\ \A i \in 1 .. Len(q) : r[i] = q[i]
          /\ \A i \in 1 .. piece : r[Len(q) + i] = p[i]
          /\ \A i \in 1 .. Len(u) : u[i] = p[piece + i]
      BY <2>10, <2>11, <2>12
    <3>3. Moved(q, p, r, u, piece)
      BY <2>13, <3>1, <3>2, Zenon DEF Moved
    <3>4. SameJoined(q, p, r, u)
      BY <3>3, SameJoin, Zenon
    <3> QED
      BY <3>4, Zenon DEF SameJoined
  <2>15. Len(u) < Len(p) /\ Len(r) + Len(u) = Len(q) + Len(p)
    <3>1. Len(p) \in Nat /\ Len(q) \in Nat
      BY <2>5, <2>7
    <3> QED
      BY <2>4, <2>13, <3>1
  <2>16. Q!AppendPiece
    <3>1. u = SubSeq(src', Len(src') - left' + 1, Len(src'))
          /\ p = SubSeq(src, Len(src) - left + 1, Len(src))
      BY DEF u, p, Last
    <3> QED
      BY <2>5, <2>14, <2>15, <3>1, Zenon DEF Q!AppendPiece
  <2> QED
    BY <2>16 DEF Q!Next
<1> QED
  BY <1>1, <1>2

(* The wrap changes nothing, since the places are counted round the ring.  *)
LEMMA QueueWrap ==
    ASSUME RamInv, Wrap
    PROVE  Q!Next \/ UNCHANGED << contents, Last(src, left), out, trust >>
<1>0. CASE trust = "none"
  BY <1>0, QueueMess DEF Wrap
<1>1. RamInv' /\ (trust # "none" => RAM_buflen(head', tail) = RAM_buflen(head, tail))
  BY WrapKeeps
<1>2. UNCHANGED << tail, mem, out, trust >>
  BY DEF Wrap
<1>3. trust # "none" => contents' = contents
  BY <1>1, <1>2, Zenon DEF contents
<1>4. left = todo /\ left' = todo /\ (src' = src \/ (left = 0 /\ src' = << >>))
  <2>1. todo \in Nat /\ wpc = "wrap" /\ todo' = todo
    BY RingAssumption, TwoPieces DEF Wrap, RamInv, RamTypeOK
  <2>2. wpc' \in {"cut", "idle"} /\ (src' = src \/ (todo = 0 /\ src' = << >>))
    BY <2>1 DEF Wrap, NextPiece
  <2> QED
    BY <2>1, <2>2 DEF left
<1>5. src \in Seq(Byte)
  BY Mapped DEF Maps
<1>6. Last(src', left') = Last(src, left)
  <2>1. CASE src' = src
    BY <1>4, <2>1
  <2>2. CASE left = 0 /\ left' = 0 /\ src' = << >>
    BY <1>5, <2>2 DEF Last
  <2> QED
    BY <1>4, <2>1, <2>2
<1> QED
  BY <1>0, <1>2, <1>3, <1>6 DEF Last

(* RAM_bufget takes the first bytes of the queue.                          *)
LEMMA QueueTake ==
    ASSUME RamInv, Get
    PROVE  Q!Take
<1>1. /\ tail + BLOCK <= RAM_BUFSIZE
      /\ tail' = Ring(tail + BLOCK) /\ tail' \in 0 .. RAM_BUFSIZE - 1
      /\ RAM_buflen(head, tail') = RAM_buflen(head, tail) - BLOCK
  BY BlockTaken DEF Get, RamInv, RamTypeOK, SpaceInv
<1>2. RamInv' /\ Maps /\ Maps'
  BY GetKeeps, Mapped, MappedNext
<1>3. UNCHANGED << head, mem, src, left, trust >>
  BY DEF Get, put, left
<1> DEFINE q == Bytes(head, tail, mem)
           r == Bytes(head, tail', mem)
           n == RAM_buflen(head, tail)
<1>4. /\ contents = q /\ q \in Seq(Byte) /\ Len(q) = n /\ n \in Nat /\ n > BLOCK
      /\ \A i \in 1 .. n : q[i] = mem[Ring(tail + i - 1)]
      /\ BLOCK \in Nat /\ tail \in Nat
  BY <1>2, RingAssumption DEF Maps, Get, RamInv, RamTypeOK
<1>5. /\ contents' = r /\ r \in Seq(Byte) /\ Len(r) = n - BLOCK
      /\ \A i \in 1 .. n - BLOCK : r[i] = mem[Ring(tail' + i - 1)]
  <2>1. /\ contents' = Bytes(head', tail', mem')
        /\ Bytes(head', tail', mem') \in Seq(Byte)
        /\ Len(Bytes(head', tail', mem')) = RAM_buflen(head', tail')
        /\ \A i \in 1 .. RAM_buflen(head', tail') :
               Bytes(head', tail', mem')[i] = mem'[Ring(tail' + i - 1)]
    BY <1>2 DEF Maps, Ring
  <2> QED
    BY <1>1, <1>3, <2>1, Zenon
<1>6. /\ out' \in Seq(Byte) /\ Len(out') = BLOCK
      /\ trust = "all" => \A i \in 1 .. BLOCK : out'[i] = mem[tail + i - 1]
  <2>2. out' \in [1 .. BLOCK -> Byte]
    <3>1. \A i \in 1 .. BLOCK : tail + i - 1 \in 0 .. RAM_BUFSIZE - 1
      BY <1>1, <1>4, RingAssumption DEF RAM_BUFSIZE
    <3>2. [i \in 1 .. BLOCK |-> mem[tail + i - 1]] \in [1 .. BLOCK -> Byte]
      BY <3>1 DEF RamInv, RamTypeOK
    <3> QED
      BY <3>2 DEF Get
  <2>4. out' \in Seq(Byte) /\ Len(out') = BLOCK
    BY <1>4, <2>2
  <2>3. ASSUME trust = "all" PROVE out' = [i \in 1 .. BLOCK |-> mem[tail + i - 1]]
    <3>1. ~stray
      BY <2>3 DEF RamInv, PieceInv
    <3> QED
      BY <3>1, Zenon DEF Get
  <2>5. trust = "all" => \A i \in 1 .. BLOCK : out'[i] = mem[tail + i - 1]
    BY <2>3, Zenon
  <2> QED
    BY <2>4, <2>5
<1>7. ASSUME NEW i \in 1 .. BLOCK PROVE Ring(tail + i - 1) = tail + i - 1
  BY <1>1, <1>4, RingAssumption DEF Ring, RAM_BUFSIZE
<1>8. ASSUME NEW i \in 1 .. n - BLOCK
      PROVE  Ring(tail' + i - 1) = Ring(tail + (BLOCK + i) - 1)
  <2>1. n <= RAM_BUFSIZE /\ tail \in 0 .. RAM_BUFSIZE - 1
    BY RingAssumption DEF RamInv, RamTypeOK, RAM_buflen, RAM_BUFSIZE
  <2> QED
    BY <1>1, <1>4, <2>1, RingAssumption DEF Ring, RAM_BUFSIZE
<1> HIDE DEF q, r, n
<1>9. << >> \in Seq(Byte) /\ Len(<< >>) = 0
  OBVIOUS
<1>10. ASSUME trust = "all", NEW i \in 1 .. BLOCK PROVE out'[i] = q[i]
  <2>1. i \in 1 .. n
    BY <1>4
  <2> QED
    BY <1>4, <1>6, <1>7, <1>10, <2>1
<1>11. ASSUME NEW i \in 1 .. Len(r) PROVE r[i] = q[BLOCK + i]
  <2>1. i \in 1 .. n - BLOCK /\ BLOCK + i \in 1 .. n
    BY <1>4, <1>5
  <2> QED
    BY <1>4, <1>5, <1>8, <2>1
<1>12. BLOCK \in 0 .. Len(q) /\ Len(r) = Len(q) - BLOCK /\ Len(out') = Len(<< >>) + BLOCK
  BY <1>4, <1>5, <1>6, <1>9
<1>13. trust = "all" => \A i \in 1 .. BLOCK : out'[Len(<< >>) + i] = q[i]
  BY <1>4, <1>9, <1>10
<1>14. \A i \in 1 .. Len(<< >>) : out'[i] = << >>[i]
  BY <1>9
<1>15. ASSUME trust = "all" PROVE out' \o r = << >> \o q
  <2> DEFINE e == << >>
  <2>1. e \in Seq(Byte) /\ q \in Seq(Byte) /\ out' \in Seq(Byte) /\ r \in Seq(Byte)
    BY <1>4, <1>5, <1>6, <1>9
  <2>2. /\ \A i \in 1 .. Len(e) : out'[i] = e[i]
        /\ \A i \in 1 .. BLOCK : out'[Len(e) + i] = q[i]
        /\ \A i \in 1 .. Len(r) : r[i] = q[BLOCK + i]
    BY <1>11, <1>13, <1>14, <1>15
  <2>3. BLOCK \in 0 .. Len(q) /\ Len(r) = Len(q) - BLOCK /\ Len(out') = Len(e) + BLOCK
    BY <1>12
  <2> HIDE DEF e
  <2>4. Moved(e, q, out', r, BLOCK)
    BY <2>1, <2>2, <2>3, Zenon DEF Moved
  <2>5. SameJoined(e, q, out', r)
    BY <2>4, SameJoin, Zenon
  <2>6. out' \o r = e \o q
    BY <2>5, Zenon DEF SameJoined
  <2> QED
    BY <2>6 DEF e
<1>16. << >> \o q = q
  BY <1>4, ConcatEmptySeq
<1>17. trust = "all" => q = out' \o r
  BY <1>15, <1>16, Zenon
<1> QED
  BY <1>3, <1>4, <1>5, <1>6, <1>17 DEF Q!Take

(* resetbuff empties the queue, with nothing left to be put.               *)
LEMMA QueueClear ==
    ASSUME RamInv, Reset
    PROVE  Q!Clear
<1>1. RAM_buflen(head', tail') = 0
  BY DEF Reset, RAM_buflen
<1>2. contents' = << >>
  BY <1>1 DEF contents
<1>3. src = << >> /\ left = 0 /\ UNCHANGED << src, left, out >>
  BY DEF Reset, put, RamInv, PutInv, left
<1>4. Last(src, left) = << >>
  BY <1>3 DEF Last
<1>5. trust' \in {"all", "length"}
  BY DEF Reset
<1> QED
  BY <1>2, <1>3, <1>4, <1>5 DEF Q!Clear, Last

(* A cut leaves as much to be put as before.                               *)
LEMMA QueueCut ==
    ASSUME RamInv, Cut
    PROVE  UNCHANGED << contents, src, left, out, trust >>
<1>1. UNCHANGED << contents, src, out, trust >>
  BY DEF Cut, contents
<1>2. left' = left
  BY RingAssumption, TwoPieces DEF Cut, RamInv, RamTypeOK, left, Piece
<1> QED
  BY <1>1, <1>2

(* The types of the buffer, for chips of any size with whole blocks.       *)
THEOREM RamTypes == RamSpec => []RamTypeOK
<1>1. RamInv => RamTypeOK
  BY DEF RamInv
<1> QED
  BY <1>1, RamInvariance, PTL

(* The ring over two chips is a queue of bytes: what RAM_bufput is given   *)
(* comes out of RAM_bufget once and in order, whatever the cuts, splits,   *)
(* wraps and time-outs of the mutex; after a transfer that is not reported *)
(* in time, with a channel left enabled, as many bytes come out as before; *)
(* and only a header's bytes without room for them break that.             *)
THEOREM RingIsAQueue == RamSpec => QueueSpec
<1>1. RamInit => Q!Init
  <2> SUFFICES ASSUME RamInit PROVE Q!Init
    OBVIOUS
  <2>1. contents = << >>
    <3>1. RAM_buflen(head, tail) = 0
      BY DEF RamInit, RAM_buflen
    <3> QED
      BY <3>1 DEF contents
  <2>2. src = << >> /\ left = 0 /\ out = << >> /\ trust = "all"
    BY DEF RamInit, left
  <2>3. Last(src, left) = << >>
    BY <2>2 DEF Last
  <2> QED
    BY <2>1, <2>2, <2>3 DEF Q!Init, Last
<1>2. RamInv /\ [RamNext]_ramVars => [Q!Next]_(Q!vars)
  <2> SUFFICES ASSUME RamInv, [RamNext]_ramVars PROVE [Q!Next]_(Q!vars)
    OBVIOUS
  <2>0. RamInv'
    BY RamStep
  <2>1. ASSUME UNCHANGED << contents, src, left, out, trust >> PROVE UNCHANGED Q!vars
    BY <2>1 DEF Q!vars
  <2>2. CASE UNCHANGED ramVars
    <3>1. UNCHANGED << contents, src, left, out, trust >>
      BY <2>2 DEF ramVars, put, contents, left
    <3> QED
      BY <2>1, <3>1
  <2>3. CASE \E d \in Chunk, asks \in BOOLEAN : Call(d, asks)
    BY <2>3, QueueOffer DEF Q!Next
  <2>4. CASE Cut
    BY <2>1, <2>4, QueueCut
  <2>5. CASE Timeout
    BY <2>5, QueueLose DEF Q!Next
  <2>6. CASE WriteAll \/ WriteSplit
    BY <2>1, <2>6, QueueWrite
  <2>7. CASE SetHead
    <3>0. UNCHANGED << tail, mem, out, trust, src, todo >> /\ wpc' = "wrap" /\ todo \in Nat
      BY <2>7, RingAssumption, TwoPieces DEF SetHead, put, RamInv, RamTypeOK
    <3>1. UNCHANGED << tail, mem, out, trust, src >> /\ left' = todo
      BY <3>0 DEF left
    <3> QED
      BY <2>0, <2>7, <3>1, QueueAppend DEF SetHead
  <2>8. CASE Wrap
    BY <2>8, QueueWrap DEF Q!vars, Last
  <2>9. CASE LateHead
    <3>1. UNCHANGED << tail, mem, out, trust >> /\ wpc = "late" /\ AdvanceHead
      BY <2>9 DEF LateHead
    <3>2. todo \in Nat /\ todo' = todo /\ wpc' \in {"cut", "idle"}
          /\ (src' = src \/ (todo = 0 /\ src' = << >>))
      BY <2>9, TwoPieces, RingAssumption DEF LateHead, NextPiece, RamInv, RamTypeOK
    <3>3. left' = todo
      BY <3>2 DEF left
    <3> QED
      BY <2>0, <3>1, <3>2, <3>3, QueueAppend
  <2>10. CASE Stray
    BY <2>10, QueueStray
  <2>11. CASE Get
    BY <2>11, QueueTake DEF Q!Next
  <2>12. CASE Reset
    BY <2>12, QueueClear DEF Q!Next
  <2> QED
    BY <2>2, <2>3, <2>4, <2>5, <2>6, <2>7, <2>8, <2>9, <2>10, <2>11, <2>12 DEF RamNext
<1> QED
  BY <1>1, <1>2, RamInvariance, PTL DEF RamSpec, QueueSpec, Q!Spec
=============================================================================
