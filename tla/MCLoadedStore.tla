---------------------------- MODULE MCLoadedStore ----------------------------
(* Bounded instances of LoadedStore for TLC. *)
EXTENDS LoadedStore

ThreeKeys == 1 .. 3
ItemsOfThree == {"file", "cut", "environment", "arguments"} \X (1 .. 3)
=============================================================================
