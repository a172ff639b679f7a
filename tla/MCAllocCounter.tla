--------------------------- MODULE MCAllocCounter ---------------------------
(* Instances of AllocCounter for TLC.                                      *)
EXTENDS AllocCounterRefinement, TLC

CONSTANTS a1, a2, a3, t1, t2, s1, s2, f1

\* Two code paths that share a fingerprint.
CollidingFingerprints == [s \in StackTrace |-> [n \in Size |-> f1]]

AddressAndThreadSymmetry == Permutations(Address) \cup Permutations(Thread)
=============================================================================
