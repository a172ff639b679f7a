------------------------- MODULE MCMemoryProtector -------------------------
(* Instances of MemoryProtector for TLC.                                   *)
EXTENDS MemoryProtector

CONSTANTS t1, t2

\* A block of two pages, and one of a page right behind it.
AdjacentBlocks == {[start |-> 0, end |-> 2], [start |-> 2, end |-> 3]}
=============================================================================
