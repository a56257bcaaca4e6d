---------------------------- MODULE MCLifecycle ----------------------------
(* Bounded instances of Lifecycle for TLC. *)
EXTENDS Lifecycle
=============================================================================
