------------------------------- MODULE Player -------------------------------
(***************************************************************************)
(* What the audio path promises to a listener, without tasks, chips or     *)
(* transfers: a player with a buffer of CAPACITY bytes.  It starts playing *)
(* only with more than TRESH bytes in store, then sends blocks to the      *)
(* decoder as long as more than a block is there, and stops only when less *)
(* than a block is left, which it throws away.  Bytes of the stream come   *)
(* at any time, at most MAXDMA at once.  Those that exceed the capacity    *)
(* spoil the store: nothing is promised about its level, or about when the *)
(* player starts, until it stops and throws the store away.                *)
(***************************************************************************)
EXTENDS Integers

CONSTANTS CAPACITY, TRESH, BLOCK, MAXDMA
VARIABLES level, mode, spoilt

Init == level = 0 /\ mode = "STOP" /\ spoilt = FALSE

Fill == /\ ~ spoilt
        /\ level' \in level + 1 .. CAPACITY
        /\ UNCHANGED << mode, spoilt >>

Feed == /\ ~ spoilt
        /\ mode = "PLAY" /\ level > BLOCK
        /\ level' = level - BLOCK
        /\ UNCHANGED << mode, spoilt >>

Start == /\ mode = "STOP"
         /\ spoilt \/ level > TRESH
         /\ mode' = "PLAY"
         /\ UNCHANGED << level, spoilt >>

Starve == /\ mode = "PLAY"
          /\ spoilt \/ level < BLOCK
          /\ mode' = "STOP" /\ level' = 0 /\ spoilt' = FALSE

Spoil == /\ ~ spoilt
         /\ level + MAXDMA > CAPACITY
         /\ spoilt' = TRUE /\ level' = 0
         /\ UNCHANGED mode

Next == Fill \/ Feed \/ Start \/ Starve \/ Spoil

Spec == Init /\ [][Next]_<< level, mode, spoilt >>
=============================================================================
