---------------------------- MODULE MCConfigSort ----------------------------
(* Bounded instances of ConfigSort for TLC. *)
EXTENDS ConfigSort

FiveKeys == 1 .. 5
=============================================================================
