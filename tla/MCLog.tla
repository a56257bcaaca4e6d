------------------------------- MODULE MCLog -------------------------------
(* Bounded instances of Log for TLC. *)
EXTENDS Log, TLC

OneLevel == {0}
TwoLevels == {0, 2}
OneSize == {2}
TwoSizes == {1, 2}
BufferSymmetry == Permutations(Buffers)
ThreadSymmetry == Permutations(Threads)
============================================================================
