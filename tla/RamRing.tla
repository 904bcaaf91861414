------------------------------ MODULE RamRing ------------------------------
(***************************************************************************)
(* The address arithmetic of the audio buffer of src/external_RAM.c: a     *)
(* ring of RAM_BUFSIZE bytes laid over two serial SRAM chips of            *)
(* RAM_CHIPSIZE bytes each.  RAM_bufhead is the next byte to write,        *)
(* RAM_buftail the next byte to read; one byte of the ring always stays    *)
(* free, so that head = tail means "empty".                                *)
(*                                                                         *)
(* A write is cut into pieces of at most MAXDMA bytes (the largest DMA     *)
(* transfer) and a piece that does not fit the chip it starts in is        *)
(* written as two parts, one in each chip.  The VS decoder task reads      *)
(* blocks of BLOCK bytes.  Addresses are bytes, as in the code.            *)
(***************************************************************************)
EXTENDS Integers

CONSTANTS CHIPSIZE,     \* RAM_CHIPSIZE, 256*1024
          BLOCK,        \* bytes the decoder takes at a time, 32
          MAXDMA        \* largest DMA transfer of RAM_bufput, 4095

(* A multiple of BLOCK: the only addresses RAM_buftail ever takes.         *)
Aligned(a) == \E k \in 0 .. a : a = k * BLOCK

ASSUME RingAssumption ==
    /\ BLOCK \in Nat \ {0}
    /\ CHIPSIZE \in Nat \ {0}
    /\ Aligned(CHIPSIZE)
    /\ MAXDMA \in 1 .. CHIPSIZE

RAM_BUFSIZE == 2 * CHIPSIZE

(* RAM_buflen: bytes between tail and head.  A head equal to RAM_BUFSIZE   *)
(* (a wrap that has not happened yet) is legal.                            *)
RAM_buflen(head, tail) ==
    IF head > tail THEN head - tail
    ELSE IF head < tail THEN RAM_BUFSIZE - (tail - head)
    ELSE 0

(* Mutant: the ring may be filled to the last byte.                        *)
MutantNoFreeByte(head, tail) == RAM_BUFSIZE - RAM_buflen(head, tail)

RAM_buffree(head, tail) == RAM_BUFSIZE - RAM_buflen(head, tail) - 1

(* First address behind the chip that address a lies in; RAM_BUFSIZE       *)
(* itself belongs to the second chip (the test is head < RAM_CHIPSIZE).    *)
ChipEnd(a) == IF a < CHIPSIZE THEN CHIPSIZE ELSE RAM_BUFSIZE

(* "enough space in first (second) ram?"                                   *)
FitsChip(a, len) == ChipEnd(a) - a >= len

(* Where the second part of a split access starts.                         *)
OtherChip(a) == IF a < CHIPSIZE THEN CHIPSIZE ELSE 0

(* RAM_bufget's new tail: wrapped after a read that fits the second chip,  *)
(* counted from the start of the first chip after a split one.             *)
NextTail(tail, len) ==
    IF tail < CHIPSIZE THEN tail + len
    ELSE IF ~ FitsChip(tail, len) THEN len - (RAM_BUFSIZE - tail)
    ELSE IF tail + len >= RAM_BUFSIZE THEN 0 ELSE tail + len

(* The piece of a write of len_in bytes that one DMA transfer takes.       *)
Piece(len_in) == IF len_in > MAXDMA THEN MAXDMA ELSE len_in
=============================================================================
