------------------------------ MODULE IcyDemux ------------------------------
(***************************************************************************)
(* Telling audio from metadata in a shoutcast stream: shoutcast() and      *)
(* get_metadata().  The stream is METAINT bytes of audio, a byte with the  *)
(* length of a metadata block in units of UNIT bytes, the block, and so on *)
(* again.  It comes in segments that know nothing of this; the code counts *)
(* bytes in DataCounter, and when a block is cut by the end of a segment   *)
(* keeps in eState and LeftMetaDataFrame how it goes on, in static         *)
(* variables that live longer than a connection.                           *)
(*                                                                         *)
(* A byte is the place it has in the stream; the title is left out, so     *)
(* that MODE2, MODE3 and MODE4 differ only in what was found of it.        *)
(*                                                                         *)
(* Segments and breaks are as they come: a header that is not received, a  *)
(* break inside a block, a block in three segments.  Where this brings the *)
(* parser out of step with the stream the history variable lost says so;   *)
(* the next header that finds it in MODE1 brings it back.                  *)
(***************************************************************************)
EXTENDS Integers, Sequences

CONSTANTS METAINT,      \* RadioInf.MetaInt
          UNIT,         \* 16
          MAXMETA,      \* largest length byte
          MAXCHUNK,     \* bytes one netconn_recv returns, at most
          CAPACITY,     \* RAM_buffree() of an empty buffer
          WORD,         \* 2^32: RAM_buffree() makes comparisons unsigned
          HDRDATA       \* bound: stream bytes in the segment of the header

(* A segment is no longer than an interval and fits the buffer.            *)
ASSUME DemuxAssumption ==
    /\ METAINT \in Nat /\ UNIT \in Nat \ {0} /\ MAXMETA \in Nat
    /\ MAXCHUNK \in 1 .. METAINT /\ HDRDATA \in 0 .. MAXCHUNK
    /\ CAPACITY \in Nat /\ CAPACITY >= MAXCHUNK
    /\ WORD \in Nat /\ WORD > CAPACITY + UNIT * MAXMETA

VARIABLES
  pc,                   \* "header", "recv", "demux" or "room"
  metadata,             \* RadioInf.Metadata
  at, blk,              \* the server: place of the next byte, length byte
  lost,                 \* history: the parser is not in step with the server
  skip, from, CpBytes,  \* the segment: header bytes, place of its first
                        \* stream byte, length
  DataCounter, eState, LeftMetaDataFrame,
  plan,                 \* calls of RAM_bufput to come, << first, length >>
  sent                  \* indexes of mybuf put for this segment, in order

server == << at, blk, metadata, lost >>
segment == << skip, from, CpBytes >>
parser == << DataCounter, eState, LeftMetaDataFrame >>
vars == << pc, server, segment, parser, plan, sent >>

(* The place in the stream i bytes behind place p, with length byte b.     *)
Place(p, i, b) == (p + i) % (METAINT + 1 + UNIT * b)

(* Byte i of mybuf is audio.                                               *)
IsAudio(i) == i >= skip /\ (metadata => Place(from, i - skip, blk) < METAINT)

Indexes(first, length) == [j \in 1 .. length |-> first + j - 1]

Init ==
    /\ pc = "header"
    /\ metadata = FALSE /\ at = 0 /\ blk = 0 /\ lost = FALSE
    /\ skip = 0 /\ from = 0 /\ CpBytes = 0
    /\ DataCounter = 0 /\ eState = "MODE1" /\ LeftMetaDataFrame = 0
    /\ plan = << >> /\ sent = << >>

(* The segment with the end of the header: h bytes of it, then d of the    *)
(* stream.  It puts mybuf, not mybuf + HeaderLen.  The count starts anew,  *)
(* eState does not; and of a header in pieces only the last one tells of   *)
(* the metadata.                                                           *)
Header(h, d, icy) ==
    /\ pc = "header"
    /\ metadata' = icy
    /\ skip' = h /\ CpBytes' = h + d
    /\ from' = 0 /\ at' = d /\ blk' = 0
    /\ lost' \in {TRUE, icy /\ eState # "MODE1"}
    /\ DataCounter' = d
    /\ sent' = Indexes(0, d)
    /\ pc' = "recv"
    /\ UNCHANGED << eState, LeftMetaDataFrame, plan >>

(* netconn_recv fails before the end of the header was found, as when the  *)
(* server needs more than 30 seconds: what comes then is taken for stream, *)
(* with the counts of the connection before.                               *)
HeaderFails ==
    /\ pc = "header"
    /\ metadata' \in BOOLEAN
    /\ lost' = TRUE
    /\ pc' = "recv"
    /\ UNCHANGED << at, blk, segment, parser, plan, sent >>

(* A segment of n bytes; b is the length byte if there is one in it.       *)
Recv(n, b) ==
    /\ pc = "recv"
    /\ IF metadata /\ at <= METAINT /\ at + n > METAINT THEN TRUE ELSE b = blk
    /\ blk' = b
    /\ skip' = 0 /\ from' = at /\ CpBytes' = n
    /\ at' = IF metadata THEN Place(at, n, b) ELSE 0
    /\ sent' = << >>
    /\ pc' = "demux"
    /\ UNCHANGED << metadata, lost, parser, plan >>

(* The connection is lost; the parser keeps its state.                     *)
Disconnect ==
    /\ pc = "recv"
    /\ pc' = "header"
    /\ UNCHANGED << server, segment, parser, plan, sent >>

(***************************************************************************)
(* get_metadata() and the two ways round it.                               *)
(***************************************************************************)
Puts(calls) == plan' = calls /\ pc' = "room"

counter == DataCounter + CpBytes
HoldsMetadata == metadata /\ counter > METAINT

D_Plain ==
    /\ pc = "demux"
    /\ ~ HoldsMetadata
    /\ DataCounter' = IF metadata THEN counter ELSE DataCounter
    /\ Puts(<< << 0, CpBytes >> >>)
    /\ UNCHANGED << server, segment, eState, LeftMetaDataFrame, sent >>

(* Where MODE1 looks for the length byte, and what it can find there.      *)
MDLpos == CpBytes - (counter - METAINT)
LengthByte == IF ~lost /\ Place(from, MDLpos, blk) = METAINT THEN {blk} ELSE 0 .. MAXMETA

(* The block is in the segment as a whole.                                 *)
WholeBlock(len) == len = 0 \/ CpBytes - MDLpos - 1 >= len

SkipBlock(len) ==
    /\ DataCounter' = counter - METAINT - len - 1
    /\ Puts(<< << 0, MDLpos >>,
               << MDLpos + len + 1, CpBytes - MDLpos - len - 1 >> >>)
    /\ UNCHANGED << eState, LeftMetaDataFrame >>

(* Mutant: the bytes of the block in this segment are not counted.         *)
MutantWholeBlockLeft(len) ==
    /\ LeftMetaDataFrame' = len
    /\ DataCounter' = METAINT
    /\ eState' \in {"MODE2", "MODE3", "MODE4"}
    /\ Puts(<< << 0, MDLpos >> >>)

(* The end of the block is still to come; the counter is set so that the   *)
(* next segment comes here again.                                          *)
CutBlock(len) ==
    /\ LeftMetaDataFrame' = len - (CpBytes - MDLpos - 1)
    /\ DataCounter' = METAINT
    /\ eState' \in {"MODE2", "MODE3", "MODE4"}
    /\ Puts(<< << 0, MDLpos >> >>)

D_Block ==
    /\ pc = "demux"
    /\ HoldsMetadata /\ eState = "MODE1"
    /\ \E b \in LengthByte :
         IF WholeBlock(UNIT * b) THEN SkipBlock(UNIT * b) ELSE CutBlock(UNIT * b)
    /\ UNCHANGED << server, segment, sent >>

(* "Dane po metadanych": the rest of the block, then audio.  That the rest *)
(* may be cut again is not asked.                                          *)
D_Rest ==
    /\ pc = "demux"
    /\ HoldsMetadata /\ eState # "MODE1"
    /\ DataCounter' = CpBytes - LeftMetaDataFrame
    /\ eState' = "MODE1"
    /\ Puts(<< << LeftMetaDataFrame, CpBytes - LeftMetaDataFrame >> >>)
    /\ UNCHANGED << server, segment, LeftMetaDataFrame, sent >>

(* while (RAM_buffree() < length): length is converted to unsigned.        *)
Room(length) == length % WORD

Put ==
    /\ pc = "room"
    /\ LET first == Head(plan)[1]
           length == Head(plan)[2]
       IN /\ Room(length) <= CAPACITY
          /\ sent' = sent \o Indexes(first, length)
    /\ plan' = Tail(plan)
    /\ pc' = IF Len(plan) = 1 THEN "recv" ELSE "room"
    /\ UNCHANGED << server, segment, parser >>

Next ==
    \/ \E h \in 1 .. 2, d \in 0 .. HDRDATA, icy \in BOOLEAN : Header(h, d, icy)
    \/ \E n \in 1 .. MAXCHUNK, b \in 0 .. MAXMETA : Recv(n, b)
    \/ HeaderFails \/ Disconnect \/ D_Plain \/ D_Block \/ D_Rest \/ Put

Spec == Init /\ [][Next]_vars

-----------------------------------------------------------------------------
TypeOK ==
    /\ pc \in {"header", "recv", "demux", "room"}
    /\ metadata \in BOOLEAN /\ lost \in BOOLEAN
    /\ at \in 0 .. METAINT + UNIT * MAXMETA /\ from \in 0 .. METAINT + UNIT * MAXMETA
    /\ blk \in 0 .. MAXMETA
    /\ skip \in 0 .. 2 /\ CpBytes \in 0 .. MAXCHUNK + 2
    /\ DataCounter \in -UNIT * MAXMETA .. METAINT
    /\ eState \in {"MODE1", "MODE2", "MODE3", "MODE4"}
    /\ LeftMetaDataFrame \in 0 .. UNIT * MAXMETA
    /\ pc = "room" <=> plan # << >>

(* What is put for a segment of a stream the parser is in step with is its *)
(* audio, all of it and in order ("Dane przed meta danymi", "Dane po       *)
(* metadanych"; shoutcast.c:588, 643), whatever happened to the            *)
(* connections and segments before.                                        *)
PutsTheAudio ==
    pc = "recv" /\ skip = 0 /\ ~lost =>
        /\ \A j, k \in DOMAIN sent : j < k => sent[j] < sent[k]
        /\ { sent[k] : k \in DOMAIN sent } = { i \in 0 .. CpBytes - 1 : IsAudio(i) }

(* The whole segment is from inside a block, and not the end of it.        *)
InsideBlock == from > METAINT /\ from + CpBytes < METAINT + 1 + UNIT * blk

(* "Sprawdz czy jest miejsce w buforze vs" (shoutcast.c:640): an empty     *)
(* buffer has the room that is waited for, except where a rest of a block  *)
(* is longer than the segment.  A parser in step with the stream meets     *)
(* that only when the server sends a piece from inside a block.            *)
RoomIsPossible ==
    \A i \in DOMAIN plan :
        Room(plan[i][2]) > CAPACITY =>
            LeftMetaDataFrame > CpBytes /\ (lost \/ InsideBlock)
=============================================================================
