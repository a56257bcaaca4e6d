---------------------------- MODULE MCConfigLoad ----------------------------
(* Bounded instances of ConfigLoad for TLC. *)
EXTENDS ConfigLoad
=============================================================================
