------------------------- MODULE InternedStackTrace -------------------------
(***************************************************************************)
(* The stack traces that mmap-counter shares between allocations           *)
(* (interned-stack-trace.h).  s_stackTraces is a function from the traces  *)
(* in the table to the use_count() of their shared_ptr: one for the table, *)
(* and one for every InternedStackTrace that holds it.                     *)
(*                                                                         *)
(* The class declares a destructor and so has no move constructor: moving  *)
(* an MMapAllocation copies its InternedStackTrace.                        *)
(***************************************************************************)
EXTENDS Integers

noStackTraces == << >>

withCount(table, s, count) ==
    [u \in DOMAIN table \cup {s} |-> IF u = s THEN count ELSE table[u]]

\* The constructor: another holder of a known trace, or table and holder of a new one.
intern(table, s) == withCount(table, s, IF s \in DOMAIN table THEN table[s] + 1 ELSE 2)

copy(table, s) == withCount(table, s, table[s] + 1)

\* Mutant: the table is looked at after the holder let go of the trace.
destroyLate(table, s) ==
    IF table[s] = 1 THEN [u \in DOMAIN table \ {s} |-> table[u]]
    ELSE withCount(table, s, table[s] - 1)

\* The destructor: the last holder but the table takes the trace out of it.
destroy(table, s) ==
    IF table[s] = 2 THEN [u \in DOMAIN table \ {s} |-> table[u]]
    ELSE withCount(table, s, table[s] - 1)

\* What the destructor asserts first.
mayDestroy(table, s) == s \in DOMAIN table /\ table[s] >= 2
=============================================================================
