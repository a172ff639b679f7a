--------------------------- MODULE MmapLogParser ---------------------------
(***************************************************************************)
(* parse-mmap-log.py: replays the event log of mmap-counter on a map of    *)
(* its own and keeps the memory in use.  What the script knows after a     *)
(* line depends on the lines up to it only, so its state is advanced as    *)
(* each line is written, and no log has to be kept.                        *)
(*                                                                         *)
(* dict maps the start of a slice to its size and the id of its stack      *)
(* trace.  accum_memory counts the slices whose id passes the filter, with *)
(* which generate_memory_log() is called.  status is "running", or what    *)
(* ended the script.  Reading times and printing is left out.              *)
(***************************************************************************)
EXTENDS Integers, FiniteSetsExt

CONSTANTS
    PageSize,    \* 4096
    StackFilter  \* the ids that stack_filter accepts

ASSUME ParserAssumption ==
    /\ PageSize \in Nat \ {0}
    /\ StackFilter \subseteq Nat

round_up_page(size) == ((size + (PageSize - 1)) \div PageSize) * PageSize

newParser == [dict |-> << >>, accum_memory |-> 0, status |-> "running"]

\* The assertion of _split_at: a slice that is to be split at pointer has no
\* other slice starting there.
splitAsserts(dict, pointer) ==
    LET before == {k \in DOMAIN dict : k < pointer} IN
    \/ before = {}
    \/ pointer >= Max(before) + dict[Max(before)].size
    \/ pointer \notin DOMAIN dict

\* Mutant: the two sides of the split are swapped.
splitDictSwapped(dict, pointer) ==
    LET before == {k \in DOMAIN dict : k < pointer}
        start  == Max(before)
        end    == start + dict[start].size
    IN  IF before = {} \/ pointer >= end THEN dict
        ELSE [k \in DOMAIN dict \cup {pointer} |->
                 CASE k = start   -> [dict[start] EXCEPT !.size = end - pointer]
                   [] k = pointer -> [dict[start] EXCEPT !.size = pointer - start]
                   [] OTHER       -> dict[k]]

\* _split_at
splitDict(dict, pointer) ==
    LET before == {k \in DOMAIN dict : k < pointer}
        start  == Max(before)
        end    == start + dict[start].size
    IN  IF before = {} \/ pointer >= end THEN dict
        ELSE [k \in DOMAIN dict \cup {pointer} |->
                 CASE k = start   -> [dict[start] EXCEPT !.size = pointer - start]
                   [] k = pointer -> [dict[start] EXCEPT !.size = end - pointer]
                   [] OTHER       -> dict[k]]

splitBothEnds(dict, start, size) == splitDict(splitDict(dict, start), start + size)

erasedKeys(dict, start, size) ==
    {k \in DOMAIN splitBothEnds(dict, start, size) : start <= k /\ k < start + size}

register_unmap(dict, start, size) ==
    LET split == splitBothEnds(dict, start, size) IN
    Restrict(split, DOMAIN split \ erasedKeys(dict, start, size))

\* Mutant: what the new mapping overwrites is not removed.
register_mapOver(dict, start, size, id) ==
    [k \in DOMAIN dict \cup {start} |->
        IF k = start THEN [size |-> size, stack_trace_id |-> id] ELSE dict[k]]

register_map(dict, start, size, id) ==
    LET kept == register_unmap(dict, start, size) IN
    [k \in DOMAIN kept \cup {start} |->
        IF k = start THEN [size |-> size, stack_trace_id |-> id] ELSE kept[k]]

\* The bytes of the slices with the given keys whose id passes the filter.
sumOfSizes(dict, keys, filter) ==
    LET sizeOf(k) == dict[k].size IN
    MapThenSumSet(sizeOf, {k \in keys : dict[k].stack_trace_id \in filter})

erasedBytes(dict, start, size, filter) ==
    sumOfSizes(splitBothEnds(dict, start, size), erasedKeys(dict, start, size), filter)

calculate_memory_by_stack_id(dict, id) == sumOfSizes(dict, DOMAIN dict, {id})

AllIds(dict) == {dict[k].stack_trace_id : k \in DOMAIN dict}

asserts(dict, start, size) ==
    splitAsserts(dict, start) /\ splitAsserts(splitDict(dict, start), start + size)

\* The script ends with an error, and what it knew is lost.
stop(why) == [newParser EXCEPT !.status = why]

\* Mutant: the slices a mapping overwrites are not subtracted.
replayMapAddOnly(parser, pointer, len, id) ==
    LET size == round_up_page(len) IN
    IF size = 0 THEN stop("size is zero")
    ELSE IF ~asserts(parser.dict, pointer, size) THEN stop("pointer in dict")
    ELSE [parser EXCEPT
            !.dict = register_map(parser.dict, pointer, size, id),
            !.accum_memory = @ + (IF id \in StackFilter THEN size ELSE 0)]

\* A line " MAP: <pointer> (<len> bytes) stackTrace=<id>".
replayMap(parser, pointer, len, id) ==
    LET size == round_up_page(len) IN
    IF size = 0 THEN stop("size is zero")
    ELSE IF ~asserts(parser.dict, pointer, size) THEN stop("pointer in dict")
    ELSE [parser EXCEPT
            !.dict = register_map(parser.dict, pointer, size, id),
            !.accum_memory = @ + (IF id \in StackFilter THEN size ELSE 0)
                               - erasedBytes(parser.dict, pointer, size, StackFilter)]

\* Mutant: the whole range is subtracted.
replayUnmapWholeRange(parser, pointer, len) ==
    LET size == round_up_page(len)
        dict == parser.dict
    IN  IF size = 0 THEN stop("size is zero")
        ELSE IF erasedKeys(dict, pointer, size) = {} THEN stop("nothing erased")
        ELSE [parser EXCEPT
                !.dict = register_unmap(dict, pointer, size),
                !.accum_memory = @ - size]

\* A line " UNMAP: <pointer> (<len> bytes)".
replayUnmap(parser, pointer, len) ==
    LET size == round_up_page(len)
        dict == parser.dict
    IN  IF size = 0 THEN stop("size is zero")
        ELSE IF ~asserts(dict, pointer, size) THEN stop("pointer in dict")
        ELSE IF erasedKeys(dict, pointer, size) = {} THEN stop("nothing erased")
        ELSE IF erasedBytes(dict, pointer, size, AllIds(dict)) > size
             THEN stop("erased too much")
        ELSE [parser EXCEPT
                !.dict = register_unmap(dict, pointer, size),
                !.accum_memory = @ - erasedBytes(dict, pointer, size, StackFilter)]

\* parse_mmap_log() raises RuntimeError on any other line.
replayUnknownLine == stop("unknown line")

\* The script reads the lines in the order of the log and never past an error.
replay(parser, line) ==
    IF parser.status # "running" THEN parser
    ELSE CASE line.type = "MAP"   -> replayMap(parser, line.pointer, line.len, line.stackTraceId)
           [] line.type = "UNMAP" -> replayUnmap(parser, line.pointer, line.len)
           [] OTHER               -> replayUnknownLine
=============================================================================
