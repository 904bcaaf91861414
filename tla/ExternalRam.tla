----------------------------- MODULE ExternalRam -----------------------------
(***************************************************************************)
(* The bytes in the audio buffer of src/external_RAM.c: RAM_bufput cuts    *)
(* what it is given into pieces, splits a piece between the two chips,     *)
(* moves RAM_bufhead and wraps it; RAM_bufget takes a block at             *)
(* RAM_buftail.  Both hold xSPI1_Mutex while they move bytes, so a block   *)
(* is read between two pieces or not at all; module Playback has the tasks *)
(* and the mutex.  The code goes on as well when a transfer does not end in*)
(* time ("No semph ch0 1" to "6"): head advances over bytes that may not   *)
(* have been sent, and the channel may still send or report later.         *)
(***************************************************************************)
EXTENDS RamRing, Sequences

CONSTANTS Byte,         \* values of a byte
          MAXPUT        \* longest len_in of RAM_bufput

(* data = data_in + 4095 points at the second piece for good: the code is  *)
(* right for two pieces, and mybuf holds no more (6144 bytes).             *)
ASSUME TwoPieces == MAXPUT \in 1 .. 2 * MAXDMA /\ Byte # {}

VARIABLES head, tail,   \* RAM_bufhead, RAM_buftail
          mem,          \* the cells of both chips, by ring address
          wpc,          \* place in RAM_bufput, "idle" outside
          src, off,     \* data_in, and data as an offset into it
          todo,         \* len_in
          shead, piece, written,        \* head, len, written_data
          out,          \* the block RAM_bufget returned last
          stray,        \* channel 0 may be enabled, or its token due, after
                        \* the task has gone on
          trust         \* what is true of the contents: "all", their
                        \* "length", or "none"

put == << src, off, todo, shead, piece, written >>
ramVars == << head, tail, mem, wpc, put, out, stray, trust >>

Chunk == UNION {[1 .. n -> Byte] : n \in 1 .. MAXPUT}

RamInit ==
    /\ head = 0 /\ tail = 0
    /\ mem = [a \in 0 .. RAM_BUFSIZE - 1 |-> CHOOSE b \in Byte : TRUE]
    /\ wpc = "idle"
    /\ src = << >> /\ off = 0 /\ todo = 0
    /\ shead = 0 /\ piece = 0 /\ written = 0
    /\ out = << >>
    /\ stray = FALSE /\ trust = "all"

(* RAM_buffree is unsigned: one byte too few is room for anything.         *)
HasRoom(n) == RAM_buffree(head, tail) < 0 \/ n <= RAM_buffree(head, tail)

(* RAM_bufput(data_in, len_in).  Every caller but the header's, which asks *)
(* for nothing (shoutcast.c:198), has waited for the room.                 *)
Call(data_in, asks) ==
    /\ wpc = "idle"
    /\ asks => HasRoom(Len(data_in))
    /\ trust' = IF Len(data_in) <= RAM_buffree(head, tail) THEN trust ELSE "none"
    /\ src' = data_in /\ off' = 0 /\ todo' = Len(data_in)
    /\ wpc' = "cut"
    /\ UNCHANGED << head, tail, mem, shead, piece, written, out, stray >>

(* Cut off a piece, with the mutex.                                        *)
Cut ==
    /\ wpc = "cut"
    /\ piece' = Piece(todo)
    /\ todo' = todo - Piece(todo)
    /\ shead' = head /\ written' = 0
    /\ wpc' = "write"
    /\ UNCHANGED << head, tail, mem, src, off, out, stray, trust >>

(* Mutant: the data pointer is not moved to the second piece.              *)
MutantSameData ==
    /\ off' = 0
    /\ IF todo' > 0 THEN wpc' = "cut" /\ UNCHANGED src
       ELSE wpc' = "idle" /\ src' = << >>

(* The next round of the loop, or the end of the call.                     *)
NextPiece ==
    /\ off' = MAXDMA
    /\ IF todo' > 0 THEN wpc' = "cut" /\ UNCHANGED src
       ELSE wpc' = "idle" /\ src' = << >>

(* "bufput mutex timeout".                                                 *)
Timeout ==
    /\ wpc = "cut"
    /\ todo' = todo - Piece(todo)
    /\ NextPiece
    /\ UNCHANGED << head, tail, mem, shead, piece, written, out, stray, trust >>

(* One transfer: len bytes of data go to the chip, from address a on.      *)
Transfer(a, data, len) ==
    mem' = [c \in DOMAIN mem |-> IF c \in a .. a + len - 1
                                 THEN src[data + (c - a) + 1] ELSE mem[c]]

(* The token of the transfer: all bytes have gone, unless the token was    *)
(* due from an earlier transfer and this one is stalled.                   *)
InTime(a, data, len) ==
    \E n \in 0 .. len :
        /\ n = len \/ stray
        /\ Transfer(a, data, n)
        /\ stray' \in {stray, FALSE}
        /\ UNCHANGED trust

(* "No semph ch0": some bytes have gone.  DMA_Config leaves a stalled      *)
(* channel enabled (DMA.c:33-44).                                          *)
TooLate(a, data, len) ==
    \E n \in 0 .. len :
        /\ Transfer(a, data, n)
        /\ stray' \in BOOLEAN
        /\ trust' = IF trust = "all" /\ (n < len \/ stray') THEN "length" ELSE trust

WriteAll ==
    /\ wpc = "write"
    /\ FitsChip(shead, piece - written)
    /\ \/ InTime(shead, off + written, piece - written) /\ wpc' = "head"
       \/ TooLate(shead, off + written, piece - written) /\ wpc' = "late"
    /\ UNCHANGED << head, tail, put, out >>

WriteSplit ==
    /\ wpc = "write"
    /\ ~ FitsChip(shead, piece - written)
    /\ \/ InTime(shead, off, ChipEnd(shead) - shead)
       \/ TooLate(shead, off, ChipEnd(shead) - shead)
    /\ written' = ChipEnd(shead) - shead
    /\ shead' = OtherChip(shead)
    /\ UNCHANGED << head, tail, wpc, src, off, todo, piece, out >>

AdvanceHead == head' = shead + (piece - written)

SetHead ==
    /\ wpc = "head"
    /\ AdvanceHead
    /\ wpc' = "wrap"
    /\ UNCHANGED << tail, mem, put, out, stray, trust >>

Wrap ==
    /\ wpc = "wrap"
    /\ head' = IF head >= RAM_BUFSIZE THEN 0 ELSE head
    /\ todo' = todo
    /\ NextPiece
    /\ UNCHANGED << tail, mem, shead, piece, written, out, stray, trust >>

(* The branches without the token do not wrap head.                        *)
LateHead ==
    /\ wpc = "late"
    /\ AdvanceHead
    /\ todo' = todo
    /\ NextPiece
    /\ UNCHANGED << tail, mem, shead, piece, written, out, stray, trust >>

(* A channel left enabled sends in the middle of another access, and that  *)
(* one goes to any address.                                                *)
Stray ==
    /\ stray
    /\ \E c \in DOMAIN mem, b \in Byte : mem' = [mem EXCEPT ![c] = b]
    /\ stray' \in BOOLEAN
    /\ UNCHANGED << head, tail, wpc, put, out, trust >>

(* RAM_bufget for a block, called when there is more than a block.         *)
Get ==
    /\ wpc \in {"idle", "cut"}
    /\ RAM_buflen(head, tail) > BLOCK
    /\ out' \in IF stray THEN [1 .. BLOCK -> Byte]
                ELSE { [i \in 1 .. BLOCK |-> mem[tail + i - 1]] }
    /\ tail' = NextTail(tail, BLOCK)
    /\ UNCHANGED << head, mem, wpc, put, stray, trust >>

(* resetbuff, called with the reader suspended.                            *)
Reset ==
    /\ wpc = "idle"
    /\ tail' = 0 /\ head' = 0
    /\ trust' = IF stray THEN "length" ELSE "all"
    /\ UNCHANGED << mem, wpc, put, out, stray >>

RamNext ==
    \/ \E d \in Chunk, asks \in BOOLEAN : Call(d, asks)
    \/ Cut \/ Timeout \/ WriteAll \/ WriteSplit \/ SetHead \/ Wrap \/ LateHead
    \/ Stray \/ Get \/ Reset

RamSpec == RamInit /\ [][RamNext]_ramVars

-----------------------------------------------------------------------------
RamTypeOK ==
    /\ head \in 0 .. RAM_BUFSIZE /\ tail \in 0 .. RAM_BUFSIZE - 1
    /\ mem \in [0 .. RAM_BUFSIZE - 1 -> Byte]
    /\ wpc \in {"idle", "cut", "write", "head", "wrap", "late"}
    /\ src \in Chunk \cup {<< >>} /\ off \in {0, MAXDMA}
    /\ todo \in 0 .. MAXPUT /\ piece \in 0 .. MAXDMA
    /\ shead \in 0 .. RAM_BUFSIZE /\ written \in 0 .. MAXDMA
    /\ out \in [1 .. BLOCK -> Byte] \cup {<< >>}
    /\ stray \in BOOLEAN /\ trust \in {"all", "length", "none"}

(* The contents as a queue, and the bytes not handed over yet.             *)
contents == [i \in 1 .. RAM_buflen(head, tail) |-> mem[(tail + i - 1) % RAM_BUFSIZE]]
left == todo + (IF wpc \in {"write", "head", "late"} THEN piece ELSE 0)

Q == INSTANCE AudioQueue
     WITH CAPACITY <- RAM_BUFSIZE - 1, queue <- contents, out <- out, trust <- trust,
          pending <- SubSeq(src, Len(src) - left + 1, Len(src))

(* The ring over two chips is a queue: every byte comes out once, in       *)
(* order, whatever the cuts, splits and wraps.  After a transfer that did  *)
(* not end in time as many bytes come out as before, but not the same; a   *)
(* header's bytes without room break even that, until resetbuff.           *)
QueueSpec == Q!Spec
=============================================================================
