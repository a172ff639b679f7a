--------------------------- MODULE MCMmapCounter ---------------------------
(* Instances of MmapCounter for TLC.                                       *)
EXTENDS MmapCounter, TLC

CONSTANTS t1, t2, s1, s2

ThreadAndTraceSymmetry == Permutations(Thread) \cup Permutations(StackTrace)
=============================================================================
