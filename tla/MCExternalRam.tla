---------------------------- MODULE MCExternalRam ----------------------------
(***************************************************************************)
(* Instances of ExternalRam for TLC: two values of a byte tell any two     *)
(* positions of the stream apart in some behaviour.                        *)
(***************************************************************************)
EXTENDS ExternalRam
=============================================================================
