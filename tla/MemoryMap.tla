----------------------------- MODULE MemoryMap -----------------------------
(***************************************************************************)
(* The map of known anonymous memory of mmap-counter (memory-map.h): a     *)
(* std::map from the start of a slice to its size and the MMapAllocation   *)
(* it came from, as a function whose domain is the set of keys.  Slices    *)
(* split from one mapping share their allocation, which is destroyed with  *)
(* the last of them.                                                       *)
(*                                                                         *)
(* Nothing here prevents slices from overlapping: that is up to the calls. *)
(***************************************************************************)
EXTENDS Integers, FiniteSetsExt

emptyMemoryMap == << >>

\* The addresses of a slice that starts at start.
inSlice(map, start, pointer) == start <= pointer /\ pointer < start + map[start].size

\* The allocations that some slice still points to.
allocationsIn(map) == {map[k].allocation : k \in DOMAIN map}

\* Splits the slice with the greatest start up to pointer, if it contains
\* pointer.  A second slice that contains it, too, is not looked for.
splitAt(map, pointer) ==
    LET before == {k \in DOMAIN map : k <= pointer}
        start  == Max(before)
        parts  == [k \in {start, pointer} |->
                      [map[start] EXCEPT !.size = IF k = start THEN pointer - start
                                                  ELSE start + @ - pointer]]
    IN  IF before = {} \/ pointer = start \/ ~inSlice(map, start, pointer) THEN map
        ELSE [k \in DOMAIN map \cup {pointer} |-> IF k \in DOMAIN parts THEN parts[k] ELSE map[k]]

\* std::map::insert() leaves the map as it is when the key is present.
registerMap(map, start, size, allocation) ==
    IF start \in DOMAIN map THEN map
    ELSE [k \in DOMAIN map \cup {start} |->
            IF k = start THEN [size |-> size, allocation |-> allocation] ELSE map[k]]

\* Mutant: splitAt(end) is forgotten.
registerUnmapSplitsOnce(map, start, size) ==
    LET split  == splitAt(map, start)
        erased == {k \in DOMAIN split : start <= k /\ k < start + size}
    IN  [map |-> Restrict(split, DOMAIN split \ erased), erased |-> erased # {}]

\* What the map becomes, and the result: whether a slice was erased.  (The code
\* compares an iterator it has just erased with the end of the erased range;
\* they are the same node exactly when the range was empty.)
registerUnmap(map, start, size) ==
    LET split  == splitAt(splitAt(map, start), start + size)
        erased == {k \in DOMAIN split : start <= k /\ k < start + size}
    IN  [map |-> Restrict(split, DOMAIN split \ erased), erased |-> erased # {}]
=============================================================================
