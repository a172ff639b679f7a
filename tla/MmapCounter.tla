---------------------------- MODULE MmapCounter ----------------------------
(***************************************************************************)
(* A process under mmap-counter (wrapper-mmap.cpp): threads that map and   *)
(* unmap memory, the map of known slices, and the log parser that follows  *)
(* the event log.                                                          *)
(*                                                                         *)
(* A wrapped call has two steps.  The first is the real call, made with no *)
(* lock.  The second, under wrappedMmapMutex, is everything the wrapper    *)
(* notes about it.  A file mapping has the first step only.                *)
(*                                                                         *)
(* The application is a correct one: it unmaps ranges in which it has      *)
(* something mapped, and unmaps or overwrites (MAP_FIXED) no range that    *)
(* another thread is mapping or unmapping at the time.  The kernel may     *)
(* hand out a range as soon as it was unmapped.  Mappings made inside the  *)
(* library go straight to the kernel and are left out.                     *)
(***************************************************************************)
EXTENDS MemoryMap, InternedStackTrace, MmapLogParser

CONSTANTS
    Thread,
    StackTrace,
    LowestPage,   \* the address of the first page the process can map
    PageCount,
    Size,         \* the lengths the application asks for
    UIntModulus,  \* 2^32: roundUpToPageMultiple() returns a uint32_t
    Top,          \* MAP_FAILED as the log has it, unsigned
    MaxCalls      \* bound on the number of calls

\* MAP_FAILED as an intptr_t.
MAP_FAILED == -1

Page == {LowestPage + i * PageSize : i \in 0..(PageCount - 1)}

EndOfMemory == LowestPage + PageCount * PageSize

\* Programs map nothing in the first bytes of memory, so that a slice at
\* MAP_FAILED meets no other; Top is past every mapping.
ASSUME MmapAssumption ==
    /\ PageCount \in Nat \ {0} /\ UIntModulus \in Nat \ {0} /\ MaxCalls \in Nat
    /\ LowestPage \in Nat /\ LowestPage >= UIntModulus
    /\ Size \subseteq Nat
    /\ Top \in Nat /\ Top >= EndOfMemory

VARIABLES
    kernel,                   \* what the kernel has mapped at each page (external)
    memoryMap,
    s_stackTraces,            \* the use counts of the interned stack traces
    knownStackTraceHashToId,  \* the id of each stack trace seen
    parser,
    call,                     \* for each thread, the real call made and not yet noted
    calls,
    disturbed                 \* history: something happened that the tool cannot follow

vars == <<kernel, memoryMap, s_stackTraces, knownStackTraceHashToId, parser, call, calls, disturbed>>

NoCall == [type |-> "none"]

MmapCall == [type : {"mmap"}, start : Page \cup {MAP_FAILED}, len : Size, stackTrace : StackTrace]
MunmapCall == [type : {"munmap"}, start : Page, len : Size, ret : {0, -1}]

\* (size + (pageSize - 1)) & ~(pageSize - 1), returned as a uint32_t
roundUpToPageMultiple(size) == round_up_page(size) % UIntModulus

PagesIn(start, bytes) == {p \in Page : start <= p /\ p < start + bytes}

\* The pages that the real calls of a type have mapped or unmapped and that are
\* not noted yet.  The kernel rounds with no loss.
PagesInFlight(type) ==
    LET succeeded(c) == c.type = type /\ (IF type = "mmap" THEN c.start # MAP_FAILED ELSE c.ret = 0)
    IN  UNION {PagesIn(call[t].start, call[t].len) : t \in {u \in Thread : succeeded(call[u])}}

Init ==
    /\ kernel = [p \in Page |-> "free"]
    /\ memoryMap = emptyMemoryMap
    /\ s_stackTraces = noStackTraces
    /\ knownStackTraceHashToId = << >>
    /\ parser = newParser
    /\ call = [t \in Thread |-> NoCall]
    /\ calls = 0
    /\ disturbed = FALSE

mayCall(t) == call[t] = NoCall /\ calls < MaxCalls /\ calls' = calls + 1

fits(start, len) == len > 0 /\ start + len <= EndOfMemory

\* The length does not survive the truncation to a uint32_t.
isWide(len) == round_up_page(len) >= UIntModulus
-----------------------------------------------------------------------------
\* real_mmap() of free memory, which may be memory that another thread has
\* unmapped and not noted yet.
RealMmap(t) ==
    /\ mayCall(t)
    /\ \E start \in Page, len \in Size, s \in StackTrace :
          LET range == PagesIn(start, len) IN
          /\ fits(start, len)
          /\ \A p \in range : kernel[p] = "free"
          /\ kernel' = [p \in Page |-> IF p \in range THEN "anonymous" ELSE kernel[p]]
          /\ call' = [call EXCEPT ![t] =
                        [type |-> "mmap", start |-> start, len |-> len, stackTrace |-> s]]
          /\ disturbed' = (\/ disturbed \/ isWide(len)
                           \/ range \cap PagesInFlight("munmap") # {})
    /\ UNCHANGED <<memoryMap, s_stackTraces, knownStackTraceHashToId, parser>>

\* The same with MAP_FIXED, over memory that is mapped already.
RealMmapFixed(t) ==
    /\ mayCall(t)
    /\ \E start \in Page, len \in Size, s \in StackTrace :
          LET range == PagesIn(start, len) IN
          /\ fits(start, len)
          /\ \E p \in range : kernel[p] # "free"
          /\ range \cap (PagesInFlight("mmap") \cup PagesInFlight("munmap")) = {}
          /\ kernel' = [p \in Page |-> IF p \in range THEN "anonymous" ELSE kernel[p]]
          /\ call' = [call EXCEPT ![t] =
                        [type |-> "mmap", start |-> start, len |-> len, stackTrace |-> s]]
          /\ disturbed' = (\/ disturbed \/ isWide(len)
                           \/ \E p \in range : kernel[p] = "anonymous")
    /\ UNCHANGED <<memoryMap, s_stackTraces, knownStackTraceHashToId, parser>>

\* A mapping of a file, with or without MAP_FIXED: it returns unnoted.
MmapFile(t) ==
    /\ mayCall(t)
    /\ \E start \in Page, len \in Size :
          LET range == PagesIn(start, len) IN
          /\ fits(start, len)
          /\ \/ \A p \in range : kernel[p] = "free"
             \/ range \cap (PagesInFlight("mmap") \cup PagesInFlight("munmap")) = {}
          /\ kernel' = [p \in Page |-> IF p \in range THEN "file" ELSE kernel[p]]
          /\ disturbed' = (disturbed \/ \E p \in range : kernel[p] = "anonymous")
    /\ UNCHANGED <<memoryMap, s_stackTraces, knownStackTraceHashToId, parser, call>>

\* real_mmap() of anonymous memory returns MAP_FAILED, which is not nullptr.
RealMmapFails(t) ==
    /\ mayCall(t)
    /\ \E len \in Size, s \in StackTrace :
          call' = [call EXCEPT ![t] =
                     [type |-> "mmap", start |-> MAP_FAILED, len |-> len, stackTrace |-> s]]
    /\ UNCHANGED <<kernel, memoryMap, s_stackTraces, knownStackTraceHashToId, parser, disturbed>>

RealMunmap(t) ==
    /\ mayCall(t)
    /\ \E start \in Page, len \in Size :
          LET range == PagesIn(start, len) IN
          /\ fits(start, len)
          /\ \E p \in range : kernel[p] # "free"
          /\ range \cap (PagesInFlight("mmap") \cup PagesInFlight("munmap")) = {}
          /\ kernel' = [p \in Page |-> IF p \in range THEN "free" ELSE kernel[p]]
          /\ call' = [call EXCEPT ![t] =
                        [type |-> "munmap", start |-> start, len |-> len, ret |-> 0]]
          /\ disturbed' = (disturbed \/ isWide(len))
    /\ UNCHANGED <<memoryMap, s_stackTraces, knownStackTraceHashToId, parser>>

RealMunmapFails(t) ==
    /\ mayCall(t)
    /\ \E start \in Page, len \in Size :
          call' = [call EXCEPT ![t] =
                     [type |-> "munmap", start |-> start, len |-> len, ret |-> -1]]
    /\ UNCHANGED <<kernel, memoryMap, s_stackTraces, knownStackTraceHashToId, parser, disturbed>>
-----------------------------------------------------------------------------
\* The ids known once a stack trace was looked up.
getOrAssignStackId(s) ==
    LET known == knownStackTraceHashToId IN
    IF s \in DOMAIN known THEN known
    ELSE [u \in DOMAIN known \cup {s} |-> IF u = s THEN Cardinality(DOMAIN known) + 1 ELSE known[u]]

\* A pointer as the log shows it.
logged(start) == IF start = MAP_FAILED THEN Top ELSE start

\* A number for a new MMapAllocation, to tell it from those alive.
freshId == Min((0..MaxCalls) \ {a.id : a \in allocationsIn(memoryMap)})

\* mmap() has a local allocation, and registerMap() one for the slice, which
\* is destroyed again if insert() does not take the slice; then the local one.
stackTracesAfterMap(s, inserted) ==
    LET both == copy(intern(s_stackTraces, s), s) IN
    destroy(IF inserted THEN both ELSE destroy(both, s), s)

\* The allocations that lost their last slice are destroyed.
stackTracesAfterUnmap(map) ==
    LET destroyed == allocationsIn(memoryMap) \ allocationsIn(map)
    IN  FoldSet(LAMBDA a, table : destroy(table, a.stackTrace), s_stackTraces, destroyed)

\* The rest of mmap(), under wrappedMmapMutex.
NoteMmap(t) ==
    /\ call[t].type = "mmap"
    /\ LET c == call[t] IN
          /\ knownStackTraceHashToId' = getOrAssignStackId(c.stackTrace)
          /\ parser' = replay(parser,
                [type |-> "MAP", pointer |-> logged(c.start), len |-> c.len,
                 stackTraceId |-> knownStackTraceHashToId'[c.stackTrace]])
          /\ memoryMap' = registerMap(memoryMap, c.start, roundUpToPageMultiple(c.len),
                                      [id |-> freshId, stackTrace |-> c.stackTrace])
          /\ s_stackTraces' = stackTracesAfterMap(c.stackTrace, c.start \notin DOMAIN memoryMap)
    /\ call' = [call EXCEPT ![t] = NoCall]
    /\ UNCHANGED <<kernel, calls, disturbed>>

\* Mutant: every successful munmap() is logged.
NoteMunmapAlways(t) ==
    /\ call[t].type = "munmap" /\ call[t].ret = 0
    /\ LET c == call[t] IN
          /\ memoryMap' = registerUnmap(memoryMap, c.start, roundUpToPageMultiple(c.len)).map
          /\ s_stackTraces' = stackTracesAfterUnmap(memoryMap')
          /\ parser' = replay(parser, [type |-> "UNMAP", pointer |-> c.start, len |-> c.len])
    /\ call' = [call EXCEPT ![t] = NoCall]
    /\ UNCHANGED <<kernel, knownStackTraceHashToId, calls, disturbed>>

\* The rest of munmap(), under wrappedMmapMutex, when the kernel agreed.
NoteMunmap(t) ==
    /\ call[t].type = "munmap" /\ call[t].ret = 0
    /\ LET c == call[t]
           unmapped == registerUnmap(memoryMap, c.start, roundUpToPageMultiple(c.len))
       IN  /\ memoryMap' = unmapped.map
           /\ s_stackTraces' = stackTracesAfterUnmap(unmapped.map)
           /\ parser' = IF unmapped.erased
                        THEN replay(parser, [type |-> "UNMAP", pointer |-> c.start, len |-> c.len])
                        ELSE parser
    /\ call' = [call EXCEPT ![t] = NoCall]
    /\ UNCHANGED <<kernel, knownStackTraceHashToId, calls, disturbed>>

\* ... and when it refused: a line " ERROR: UNMAP FAILED: ".
NoteMunmapFailed(t) ==
    /\ call[t].type = "munmap" /\ call[t].ret # 0
    /\ parser' = replay(parser, [type |-> "ERROR"])
    /\ call' = [call EXCEPT ![t] = NoCall]
    /\ UNCHANGED <<kernel, memoryMap, s_stackTraces, knownStackTraceHashToId, calls, disturbed>>

\* The application makes no call and waits for none.
Idle ==
    /\ \A t \in Thread : call[t] = NoCall
    /\ UNCHANGED vars

Next ==
    \/ Idle
    \/ \E t \in Thread :
        \/ RealMmap(t) \/ RealMmapFixed(t) \/ RealMmapFails(t) \/ MmapFile(t)
        \/ RealMunmap(t) \/ RealMunmapFails(t)
        \/ NoteMmap(t) \/ NoteMunmap(t) \/ NoteMunmapFailed(t)

Spec == Init /\ [][Next]_vars
-----------------------------------------------------------------------------
Address == {MAP_FAILED} \cup Nat

ParserStatus == {"running", "size is zero", "pointer in dict", "nothing erased",
                 "erased too much", "unknown line"}

\* Every variable holds a value of its type.  No slice of the parser ever has
\* a negative size, which parse-mmap-log.py:121-122 computes by subtraction.
TypeOK ==
    /\ kernel \in [Page -> {"free", "anonymous", "file"}]
    /\ DOMAIN memoryMap \subseteq Address
    /\ \A k \in DOMAIN memoryMap :
          memoryMap[k] \in [size : Nat, allocation : [id : 0..MaxCalls, stackTrace : StackTrace]]
    /\ DOMAIN s_stackTraces \subseteq StackTrace
    /\ \A s \in DOMAIN s_stackTraces : s_stackTraces[s] \in Nat
    /\ DOMAIN knownStackTraceHashToId \subseteq StackTrace
    /\ \A s \in DOMAIN knownStackTraceHashToId : knownStackTraceHashToId[s] \in Nat \ {0}
    /\ DOMAIN parser.dict \subseteq Nat
    /\ \A k \in DOMAIN parser.dict :
          parser.dict[k] \in [size : Nat \ {0}, stack_trace_id : Nat \ {0}]
    /\ parser.accum_memory \in Nat /\ parser.status \in ParserStatus
    /\ call \in [Thread -> {NoCall} \cup MmapCall \cup MunmapCall]
    /\ calls \in 0..MaxCalls /\ disturbed \in BOOLEAN

\* The slices of the parser that contain an address.
dictSlicesAt(a) ==
    {k \in DOMAIN parser.dict : k <= a /\ a < k + parser.dict[k].size}

\* The known slices that contain an address.
slicesAt(a) == {k \in DOMAIN memoryMap : inSlice(memoryMap, k, a)}

\* As long as nothing disturbed the tool, registerMap() and registerUnmap() keep
\* exactly the anonymous memory of the process, each page in one slice, once
\* the calls on it are noted: whatever is split, whatever the order of the calls.
SlicesDescribeKernel ==
    ~disturbed =>
        \A p \in Page \ (PagesInFlight("mmap") \cup PagesInFlight("munmap")) :
            Cardinality(slicesAt(p)) = IF kernel[p] = "anonymous" THEN 1 ELSE 0

\* As long as nothing disturbed the tool, the parser has the very slices the
\* process had when it logged the line, those of failed calls left aside, though its
\* _split_at() and splitAt() look for them in different ways.
ParserFollowsMap ==
    ~disturbed /\ parser.status = "running" =>
        LET slices == {k \in DOMAIN parser.dict : k < Top} IN
        /\ slices = DOMAIN memoryMap \ {MAP_FAILED}
        /\ \A k \in slices : parser.dict[k].size = memoryMap[k].size

\* The slices of the parser never overlap, MAP_FIXED, races and truncated sizes
\* included: the assertions at parse-mmap-log.py:119 and :148 cannot fail.
ParserSlicesDisjoint ==
    /\ \A k, l \in DOMAIN parser.dict : k < l => k + parser.dict[k].size <= l
    /\ parser.status \notin {"pointer in dict", "erased too much"}

\* generate_memory_log() and generate_ranking() agree: the running total, changed
\* event by event, is what counting the slices gives, id by id, for the ids that
\* calculate_memory_by_stack_id() lists and the filter accepts.
TotalIsSumOfSlices ==
    LET memoryOf(id) == calculate_memory_by_stack_id(parser.dict, id) IN
    parser.accum_memory = MapThenSumSet(memoryOf, AllIds(parser.dict) \cap StackFilter)

\* As long as nothing disturbed the tool, every UNMAP line of the log erases a slice
\* (parse-mmap-log.py:147).
LoggedUnmapErases == ~disturbed => parser.status # "nothing erased"

\* The table of interned stack traces has exactly the traces of the mappings
\* that are still known, with a use count of one more than there are such
\* mappings, however they are split, ignored or unmapped together: no trace
\* is kept for ever or dropped too early, and the assertions of the destructor
\* (interned-stack-trace.h:22, :25) hold for every mapping still to go.
TracesOfLiveMappings ==
    LET mappingsOf(s) == {a \in allocationsIn(memoryMap) : a.stackTrace = s} IN
    /\ DOMAIN s_stackTraces = {a.stackTrace : a \in allocationsIn(memoryMap)}
    /\ \A s \in DOMAIN s_stackTraces :
          /\ mayDestroy(s_stackTraces, s)
          /\ s_stackTraces[s] = 1 + Cardinality(mappingsOf(s))

\* "At least one slice should have been deleted... Otherwise the event should
\* not have been logged." (parse-mmap-log.py:146), whatever the process does.
LoggedUnmapAlwaysErases == parser.status # "nothing erased"
=============================================================================
