----------------------------- MODULE AudioQueue -----------------------------
(***************************************************************************)
(* What the audio buffer promises: a queue of bytes.  The writer hands a   *)
(* sequence of bytes over piece by piece; each piece comes to the end of   *)
(* the queue as it is, or is lost as a whole; the reader gets blocks from  *)
(* the front.  Bytes can be damaged, then only their number is right; and  *)
(* the writer can come with more than there is room for, then nothing is,  *)
(* until the queue is cleared.                                             *)
(***************************************************************************)
EXTENDS Integers, Sequences

CONSTANTS CAPACITY, BLOCK
VARIABLES queue,        \* the bytes in the buffer
          pending,      \* what the writer has not handed over yet
          out,          \* the block the reader got last
          trust         \* "all" of the queue is right, its "length", "none"

vars == << queue, pending, out, trust >>

Init == queue = << >> /\ pending = << >> /\ out = << >> /\ trust = "all"

(* The writer comes with bytes, and may have too many of them.             *)
Offer ==
    /\ pending = << >> /\ pending' # << >>
    /\ trust' = IF Len(queue) + Len(pending') <= CAPACITY THEN trust ELSE "none"
    /\ UNCHANGED << queue, out >>

(* A piece goes from the front of pending to the end of the queue.         *)
AppendPiece ==
    /\ Len(pending') < Len(pending)
    /\ Len(queue') + Len(pending') = Len(queue) + Len(pending)
    /\ trust = "all" => queue' \o pending' = queue \o pending
    /\ UNCHANGED << out, trust >>

(* A piece from the front of pending is lost.                              *)
Lose ==
    /\ \E n \in 1 .. Len(pending) : pending' = SubSeq(pending, n + 1, Len(pending))
    /\ UNCHANGED << queue, out, trust >>

Take ==
    /\ Len(queue) > BLOCK
    /\ Len(out') = BLOCK /\ Len(queue') = Len(queue) - BLOCK
    /\ trust = "all" => queue = out' \o queue'
    /\ UNCHANGED << pending, trust >>

(* Bytes in the buffer or on their way to it become others.                *)
Damage ==
    /\ Len(queue') = Len(queue)
    /\ trust # "none" /\ trust' = "length"
    /\ UNCHANGED << pending, out >>

(* There were too many bytes.                                              *)
Mess == trust = "none" /\ UNCHANGED trust

Clear ==
    /\ pending = << >> /\ queue' = << >>
    /\ trust' \in {"all", "length"}
    /\ UNCHANGED << pending, out >>

Next == Offer \/ AppendPiece \/ Lose \/ Take \/ Damage \/ Mess \/ Clear

Spec == Init /\ [][Next]_vars
=============================================================================
