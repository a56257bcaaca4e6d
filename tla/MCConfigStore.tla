--------------------------- MODULE MCConfigStore ---------------------------
(* Bounded instances of ConfigStore for TLC. *)
EXTENDS ConfigStore

FourKeys == 1 .. 4
=============================================================================
