-------------------------- MODULE MCErrorCollector --------------------------
(* Bounded instances of ErrorCollector for TLC. *)
EXTENDS ErrorCollector
=============================================================================
