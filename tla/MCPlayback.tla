----------------------------- MODULE MCPlayback -----------------------------
(***************************************************************************)
(* Instances of Playback for TLC: rings of eight bytes with blocks of two, *)
(* so that head and tail wrap, pieces are cut and split, and segments of   *)
(* every size relative to a block and a transfer occur.                    *)
(***************************************************************************)
EXTENDS PlaybackInv

ASSUME HeaderRoomHere == HeaderRoom
=============================================================================
