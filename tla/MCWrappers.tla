----------------------------- MODULE MCWrappers -----------------------------
(* Instances of Wrappers for TLC.                                          *)
EXTENDS Wrappers, TLC

CONSTANTS a1, a2, t1, t2, s1, f1

OneFingerprint == [s \in StackTrace |-> [n \in Size |-> f1]]

SixteenSizes == 0..15

AddressAndThreadSymmetry == Permutations(Address) \cup Permutations(Thread)
=============================================================================
