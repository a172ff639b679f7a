-------------------------- MODULE AllocationTable --------------------------
(***************************************************************************)
(* The table at the centre of alloc-counter (allocation-table.h): a light  *)
(* record for each block of an unsuspicious call site, a closely watched   *)
(* record for sampled blocks of suspicious ones, and the statistics of     *)
(* every watched stack trace.  Each body that runs under m_mutex is one    *)
(* action operator here; the answer of the underlying allocator is its     *)
(* last parameter, "memory", with NULL for a failure.                      *)
(*                                                                         *)
(* Left out: the contents of blocks (zero fill, the copied bytes), and the *)
(* fields of AllocationStats that only scale the printed rates.            *)
(***************************************************************************)
EXTENDS Integers, FiniteSets, WatchedStackTraceInfo

CONSTANTS
    Address,        \* where the underlying allocator can place a block
    NULL,
    NoRecord,       \* "no entry under this key" in the two tables
    StackTrace,
    Fingerprint,
    Size,           \* the sizes the application asks for
    FingerprintOf,  \* the fingerprint of a stack trace and a size, lossy both ways
    PageSize,
    TimeForAllocationToBecomeSuspicious,       \* ALLOC_TIME_SUSPICIOUS
    CloselyWatchedAllocationsAccessMaxInterval \* ALLOC_MAX_ACCESS_INTERVAL

ASSUME TableAssumption ==
    /\ IsFiniteSet(Address) /\ IsFiniteSet(Fingerprint)
    /\ NULL \notin Address
    /\ Size \subseteq Nat
    /\ FingerprintOf \in [StackTrace -> [Size -> Fingerprint]]
    /\ PageSize \in Nat \ {0}
    /\ UIntModulus \in Nat \ {0}
    /\ TimeForAllocationToBecomeSuspicious \in Nat \ {0}
    /\ CloselyWatchedAllocationsAccessMaxInterval \in Nat \ {0}

\* The WatchedStackTraceInfo of a stack trace lives in the table of the
\* fingerprint under which the trace was captured.
InfoKey == Fingerprint \X StackTrace

uint32(n) == n % UIntModulus

\* Mutant: the size is rounded down.
roundDownToPageMultiple(size) == (uint32(size) \div PageSize) * PageSize

\* Environment::roundUpToPageMultiple: uint32_t in, uint32_t arithmetic.
roundUpToPageMultiple(size) ==
    (uint32(uint32(size) + (PageSize - 1)) \div PageSize) * PageSize

LightAllocation == [requestedSize : Nat, deadline : Nat, fingerprint : Fingerprint]

CloselyWatchedAllocation ==
    [requestedSize : Nat, deadline : Nat,
     state : {"NotYetSuspicious", "Suspicious"},
     allocationTime : Nat, info : InfoKey]

ASSUME NoRecordAssumption ==
    /\ NoRecord \notin LightAllocation
    /\ NoRecord \notin CloselyWatchedAllocation

VARIABLES
    m_light,                   \* m_lightAllocationsByAddress
    m_closely,                 \* m_closelyWatchedAllocationsByAddress
    m_suspiciousFingerprints,  \* its keys
    m_infos,                   \* the WatchedStackTraceInfos it holds
    allTraces,                 \* countLiveCloselyWatchedAllocationsAllTraces
    m_stats,
    heap,   \* the underlying allocator: usable bytes of live blocks (external)
    clock,  \* time(nullptr), in seconds, and CLOCK_MONOTONIC; it is never set back
    fault   \* "none", or the undefined behaviour that ended the process

tableVars == <<m_light, m_closely, m_suspiciousFingerprints, m_infos, allTraces, m_stats>>

NotLive == -1

AllocationStats ==
    [allocationCount : Nat, allocationWithSuspiciousFingerprintCount : Nat,
     freeCount : Nat, reallocCount : Nat]

TableTypeOK ==
    /\ m_light \in [Address \cup {NULL} -> LightAllocation \cup {NoRecord}]
    /\ m_closely \in [Address -> CloselyWatchedAllocation \cup {NoRecord}]
    /\ m_suspiciousFingerprints \subseteq Fingerprint
    /\ m_infos \in [InfoKey -> WatchedStackTraceInfo]
    /\ allTraces \in Nat
    /\ m_stats \in AllocationStats
    /\ heap \in [Address -> Nat \cup {NotLive}]
    /\ clock \in Nat
    /\ fault \in {"none", "nullWrite", "overrun"}

TableInit ==
    /\ m_light = [a \in Address \cup {NULL} |-> NoRecord]
    /\ m_closely = [a \in Address |-> NoRecord]
    /\ m_suspiciousFingerprints = {}
    /\ m_infos = [p \in InfoKey |-> newWatchedStackTraceInfo]
    /\ allTraces = 0
    /\ m_stats = [allocationCount |-> 0, allocationWithSuspiciousFingerprintCount |-> 0,
                  freeCount |-> 0, reallocCount |-> 0]
    /\ heap = [a \in Address |-> NotLive]
    /\ clock = 0
    /\ fault = "none"

-----------------------------------------------------------------------------
(* The underlying allocator (glibc), as the wrappers use it: it hands out  *)
(* any address that holds no live block, and any request may fail.         *)

RealAllocate(size, memory) ==
    \/ memory = NULL /\ UNCHANGED heap
    \/ /\ memory \in Address
       /\ heap[memory] = NotLive
       /\ heap' = [heap EXCEPT ![memory] = size]

RealReallocate(old, size, memory) ==
    \/ memory = NULL /\ UNCHANGED heap
    \/ memory = old /\ heap' = [heap EXCEPT ![old] = size]
    \/ /\ memory \in Address
       /\ heap[memory] = NotLive
       /\ heap' = [heap EXCEPT ![old] = NotLive, ![memory] = size]

\* free(old), or realloc(old, 0), which may answer a pointer to an empty block.
RealFree(old, memory) ==
    \/ memory = NULL /\ heap' = [heap EXCEPT ![old] = NotLive]
    \/ /\ memory \in Address
       /\ memory = old \/ heap[memory] = NotLive
       /\ heap' = [heap EXCEPT ![old] = NotLive, ![memory] = 0]

-----------------------------------------------------------------------------
(* instrumentedAllocate                                                    *)

\* Unsuspicious fingerprint: the block gets a light record.
allocateLight(size, trace, memory) ==
    LET fingerprint == FingerprintOf[trace][size] IN
    /\ fingerprint \notin m_suspiciousFingerprints
    /\ RealAllocate(size, memory)
    /\ m_light' = IF memory = NULL THEN m_light
                  ELSE [m_light EXCEPT ![memory] =
                          [requestedSize |-> uint32(size),
                           deadline |-> clock + TimeForAllocationToBecomeSuspicious,
                           fingerprint |-> fingerprint]]
    /\ m_stats' = [m_stats EXCEPT !.allocationCount = @ + 1]
    /\ UNCHANGED <<m_closely, m_suspiciousFingerprints, m_infos, allTraces, fault>>

countSuspiciousAllocation ==
    m_stats' = [m_stats EXCEPT !.allocationCount = @ + 1,
                               !.allocationWithSuspiciousFingerprintCount = @ + 1]

\* Suspicious fingerprint, but no more samples of this trace are wanted.
allocateSkipped(size, trace, memory) ==
    LET key == <<FingerprintOf[trace][size], trace>> IN
    /\ key[1] \in m_suspiciousFingerprints
    /\ ~ needsMoreCloselyWatchedAllocations(m_infos[key], allTraces)
    /\ m_infos' = [m_infos EXCEPT ![key] = countSkipped(@)]
    /\ RealAllocate(size, memory)
    /\ countSuspiciousAllocation
    /\ UNCHANGED <<m_light, m_closely, m_suspiciousFingerprints, allTraces, fault>>

\* Suspicious fingerprint: the block is page aligned, a multiple of the page
\* in size, and closely watched.
allocateCloselyWatched(size, trace, memory) ==
    LET key == <<FingerprintOf[trace][size], trace>> IN
    /\ key[1] \in m_suspiciousFingerprints
    /\ needsMoreCloselyWatchedAllocations(m_infos[key], allTraces)
    /\ RealAllocate(roundUpToPageMultiple(size), memory)
    /\ countSuspiciousAllocation
    /\ IF memory = NULL
       THEN UNCHANGED <<m_infos, allTraces, m_closely>>
       ELSE /\ m_infos' = [m_infos EXCEPT ![key] = countWatched(@)]
            /\ allTraces' = allTraces + 1
            /\ m_closely' = [m_closely EXCEPT ![memory] =
                  [requestedSize |-> uint32(size),
                   deadline |-> clock + TimeForAllocationToBecomeSuspicious,
                   state |-> "NotYetSuspicious",
                   allocationTime |-> clock,
                   info |-> key]]
    /\ UNCHANGED <<m_light, m_suspiciousFingerprints, fault>>

instrumentedAllocate(size, trace, memory) ==
    \/ allocateLight(size, trace, memory)
    \/ allocateSkipped(size, trace, memory)
    \/ allocateCloselyWatched(size, trace, memory)

-----------------------------------------------------------------------------
(* instrumentedReallocate                                                  *)

\* Mutant: the record is erased and not inserted anew.
movedErased(table, old, new, record) == [table EXCEPT ![old] = NoRecord]

\* std::unordered_map::insert leaves an existing entry alone.  It may rehash,
\* which by the standard invalidates the iterator that is erased next; that of
\* libstdc++ points to the entry itself and stays good.
moved(table, old, new, record) ==
    LET inserted == IF table[new] = NoRecord THEN [table EXCEPT ![new] = record] ELSE table
    IN  [inserted EXCEPT ![old] = NoRecord]

\* The record follows the answer of realloc(), a failure's NULL included.
reallocateLight(old, size, memory) ==
    LET record == [m_light[old] EXCEPT !.requestedSize = uint32(size)] IN
    /\ m_light[old] # NoRecord
    /\ RealReallocate(old, size, memory)
    /\ m_light' = IF memory = old THEN [m_light EXCEPT ![old] = record]
                                  ELSE moved(m_light, old, memory, record)
    /\ UNCHANGED <<m_closely, fault>>

\* Mutant: the size in the record is not rounded up.
keepsPagesUnrounded(record, size) == record.requestedSize = roundUpToPageMultiple(size)

\* Mutant: a block that grows is left as it is.
keepsPagesUnlessSmaller(record, size) ==
    roundUpToPageMultiple(record.requestedSize) <= roundUpToPageMultiple(size)

\* The underlying size in pages is the same.
keepsPages(record, size) ==
    roundUpToPageMultiple(record.requestedSize) = roundUpToPageMultiple(size)

\* Mutant: the new size is copied.
overrunsWithNewSize(old, newActualSize) == newActualSize > heap[old]

\* memcpy() copies the old requested size: past the end of a smaller block,
\* or of an old one whose rounded size wrapped.
overruns(old, newActualSize) ==
    \/ m_closely[old].requestedSize > newActualSize
    \/ m_closely[old].requestedSize > heap[old]

\* A closely watched block whose size in pages changes is copied to a new
\* one and left behind, never freed.  When memalign() fails memcpy() writes
\* to NULL, which is undefined for an empty block too (a memcpy() of no bytes).
reallocateCloselyMoved(old, size, memory) ==
    LET record == m_closely[old]
        newActualSize == roundUpToPageMultiple(size)
    IN
    /\ m_light[old] = NoRecord
    /\ record # NoRecord
    /\ ~ keepsPages(record, size)
    /\ RealAllocate(newActualSize, memory)
    /\ IF memory = NULL \/ overruns(old, newActualSize)
       THEN /\ fault' = IF memory = NULL THEN "nullWrite" ELSE "overrun"
            /\ UNCHANGED m_closely
       ELSE /\ m_closely' = moved(m_closely, old, memory,
                                  [record EXCEPT !.requestedSize = uint32(size)])
            /\ UNCHANGED fault
    /\ UNCHANGED m_light

reallocateCloselyInPlace(old, size, memory) ==
    LET record == m_closely[old] IN
    /\ m_light[old] = NoRecord
    /\ record # NoRecord
    /\ keepsPages(record, size)
    /\ memory = old
    /\ m_closely' = [m_closely EXCEPT ![old].requestedSize = uint32(size)]
    /\ UNCHANGED <<m_light, heap, fault>>

reallocateUntracked(old, size, memory) ==
    /\ m_light[old] = NoRecord
    /\ m_closely[old] = NoRecord
    /\ RealReallocate(old, size, memory)
    /\ UNCHANGED <<m_light, m_closely, fault>>

instrumentedReallocate(old, size, memory) ==
    /\ \/ reallocateLight(old, size, memory)
       \/ reallocateCloselyMoved(old, size, memory)
       \/ reallocateCloselyInPlace(old, size, memory)
       \/ reallocateUntracked(old, size, memory)
    /\ m_stats' = [m_stats EXCEPT !.reallocCount = @ + 1]
    /\ UNCHANGED <<m_suspiciousFingerprints, m_infos, allTraces>>

-----------------------------------------------------------------------------
(* instrumentedFree, of a pointer that is not NULL                         *)

\* Mutant: the light record outlives its block.
freeLightKeepsRecord(old) ==
    /\ m_light[old] # NoRecord
    /\ UNCHANGED <<m_light, m_closely, m_infos, allTraces>>

freeLight(old) ==
    /\ m_light[old] # NoRecord
    /\ m_light' = [m_light EXCEPT ![old] = NoRecord]
    /\ UNCHANGED <<m_closely, m_infos, allTraces>>

\* Mutant: the sample is counted as freed and its record stays.
freeCloselyKeepsRecord(old) ==
    /\ m_light[old] = NoRecord
    /\ m_closely[old] # NoRecord
    /\ m_infos' = [m_infos EXCEPT ![m_closely[old].info] = countFreed(@)]
    /\ allTraces' = allTraces - 1
    /\ UNCHANGED <<m_light, m_closely>>

freeClosely(old) ==
    /\ m_light[old] = NoRecord
    /\ m_closely[old] # NoRecord
    /\ m_infos' = [m_infos EXCEPT ![m_closely[old].info] = countFreed(@)]
    /\ allTraces' = allTraces - 1
    /\ m_closely' = [m_closely EXCEPT ![old] = NoRecord]
    /\ UNCHANGED m_light

freeUntracked(old) ==
    /\ m_light[old] = NoRecord
    /\ m_closely[old] = NoRecord
    /\ UNCHANGED <<m_light, m_closely, m_infos, allTraces>>

instrumentedFree(old, memory) ==
    /\ freeLight(old) \/ freeClosely(old) \/ freeUntracked(old)
    /\ RealFree(old, memory)
    /\ m_stats' = [m_stats EXCEPT !.freeCount = @ + 1]
    /\ UNCHANGED <<m_suspiciousFingerprints, fault>>

-----------------------------------------------------------------------------
(* patrolThreadUpdateAllocationStates, one record per step.  "now" was     *)
(* read before m_mutex was taken.                                          *)

Expired(table, now) == {a \in DOMAIN table : table[a] # NoRecord /\ table[a].deadline < now}

expireLight(a) ==
    /\ m_suspiciousFingerprints' = m_suspiciousFingerprints \cup {m_light[a].fingerprint}
    /\ m_light' = [m_light EXCEPT ![a] = NoRecord]
    /\ UNCHANGED <<m_closely, m_infos, allTraces, m_stats>>

\* Mutant: the block gets no second interval.
becomeSuspiciousOldDeadline(a, now) ==
    /\ m_closely[a].state = "NotYetSuspicious"
    /\ m_closely' = [m_closely EXCEPT ![a].state = "Suspicious"]
    /\ UNCHANGED <<m_light, m_suspiciousFingerprints, m_infos, allTraces, m_stats>>

becomeSuspicious(a, now) ==
    /\ m_closely[a].state = "NotYetSuspicious"
    /\ m_closely' = [m_closely EXCEPT
            ![a].state = "Suspicious",
            ![a].deadline = now + CloselyWatchedAllocationsAccessMaxInterval]
    /\ UNCHANGED <<m_light, m_suspiciousFingerprints, m_infos, allTraces, m_stats>>

declareLeak(a) ==
    LET record == m_closely[a] IN
    /\ record.state = "Suspicious"
    /\ m_infos' = [m_infos EXCEPT ![record.info] = countLeaked(@, record.requestedSize)]
    /\ allTraces' = allTraces - 1
    /\ m_closely' = [m_closely EXCEPT ![a] = NoRecord]
    /\ UNCHANGED <<m_light, m_suspiciousFingerprints, m_stats>>

\* Mutant: the undecided traces are reported too.
makeLeakReportWithUnknowns == {p \in InfoKey : hasLeaks(m_infos[p]) # "False"}

\* patrolThreadMakeLeakReport: the traces the leak report lists.
patrolThreadMakeLeakReport == {p \in InfoKey : hasLeaks(m_infos[p]) = "True"}

-----------------------------------------------------------------------------
\* Each sample ends at most once, as freed or as leaked: leakRatio() is never
\* above 1 and created - live never wraps.
SamplesEndOnce == \A p \in InfoKey : m_infos[p].leaked + m_infos[p].live <= m_infos[p].created
=============================================================================
