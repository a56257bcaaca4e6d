--------------------------- MODULE MCTypedGetters ---------------------------
(* Bounded instances of TypedGetters for TLC. *)
EXTENDS TypedGetters
=============================================================================
