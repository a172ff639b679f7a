---------------------------- MODULE AllocCounter ----------------------------
(***************************************************************************)
(* A process that runs with liballoc-counter preloaded: application        *)
(* threads call malloc(), realloc() and free(); the wrappers               *)
(* (wrapper-malloc.cpp) lead them to the allocation table, which they      *)
(* share with the patrol thread; alloc-counter-start, another program,     *)
(* turns the watching on.                                                  *)
(*                                                                         *)
(* A call has two steps.  The first enters the wrapper, where the watch    *)
(* state is read with no lock held; the second is the body: under m_mutex  *)
(* when it is instrumented, the underlying allocator alone when it is not. *)
(* The application is a correct client: it hands each block to one call at *)
(* a time and never uses a block it freed.                                 *)
(***************************************************************************)
EXTENDS PatrolThread, FiniteSetsExt

CONSTANTS
    Thread,
    OtherProcesses,  \* whether other preloaded programs start meanwhile
    MaxCalls,        \* bound on the instrumented calls of a behaviour
    Horizon          \* bound on the clock while nothing waits for time

ASSUME AllocCounterAssumption ==
    /\ OtherProcesses \in BOOLEAN
    /\ MaxCalls \in Nat
    /\ Horizon \in Nat

VARIABLES
    asked,  \* the size the application asked for, of each block it was given
    call    \* the call each thread is in

appVars == <<asked, call>>
vars == <<tableVars, heap, clock, fault, patrolVars, appVars>>

NotGiven == -1

Alive == fault = "none"

Idle == [op |-> "none", memory |-> NULL, size |-> 0, trace |-> NULL, watch |-> "NotWatching"]

\* "watch" is the watch state the call read when it entered.
Call ==
    {Idle}
    \cup [op : {"allocate"}, memory : {NULL}, size : Size, trace : StackTrace, watch : WatchState]
    \cup [op : {"reallocate"}, memory : Address, size : Size, trace : {NULL}, watch : WatchState]
    \cup [op : {"free", "reallocateToZero"}, memory : Address, size : {0}, trace : {NULL},
          watch : WatchState]

Init ==
    /\ TableInit
    /\ PatrolInit
    /\ asked = [a \in Address |-> NotGiven]
    /\ call = [t \in Thread |-> Idle]

-----------------------------------------------------------------------------
(* Entering a wrapper.  Its early test of the watch state decides whether  *)
(* the call is instrumented; the answer may be stale when the body runs.   *)

instrumented(t) == call[t].watch = "Watching"

callsSoFar ==
    m_stats.allocationCount + m_stats.reallocCount + m_stats.freeCount
        + Cardinality({t \in Thread : instrumented(t)})

\* The application's own blocks that no call has in its hands.
AtHand == {a \in Address : asked[a] # NotGiven /\ \A t \in Thread : call[t].memory # a}

Enter(t, op, memory, size, trace) ==
    /\ Alive
    /\ call[t] = Idle
    /\ watchState = "Watching" => callsSoFar < MaxCalls
    /\ call' = [call EXCEPT ![t] =
          [op |-> op, memory |-> memory, size |-> size, trace |-> trace,
           watch |-> watchState]]
    /\ UNCHANGED <<tableVars, heap, clock, fault, patrolVars, asked>>

\* malloc(), calloc(), memalign() and its kin, and realloc(NULL, size)
EnterAllocate(t) ==
    \E size \in Size, trace \in StackTrace : Enter(t, "allocate", NULL, size, trace)

EnterReallocate(t) ==
    \E a \in AtHand, size \in Size \ {0} : Enter(t, "reallocate", a, size, NULL)

EnterFree(t) == \E a \in AtHand : Enter(t, "free", a, 0, NULL)

\* realloc(a, 0) goes to instrumentedFree() with realloc() as the way to free.
EnterReallocateToZero(t) == \E a \in AtHand : Enter(t, "reallocateToZero", a, 0, NULL)

-----------------------------------------------------------------------------
(* The body of a call, and its return to the application.                  *)

ReturnFromAllocate(t, memory) ==
    /\ asked' = IF memory = NULL THEN asked ELSE [asked EXCEPT ![memory] = call[t].size]
    /\ call' = [call EXCEPT ![t] = Idle]

\* A failed realloc() leaves the application with the block it had.
ReturnFromReallocate(t, memory) ==
    /\ asked' = IF memory = NULL \/ fault' # "none" THEN asked
                ELSE [asked EXCEPT ![call[t].memory] = NotGiven, ![memory] = call[t].size]
    /\ call' = [call EXCEPT ![t] = Idle]

ReturnFromFree(t, memory) ==
    /\ asked' = IF memory = NULL THEN [asked EXCEPT ![call[t].memory] = NotGiven]
                ELSE [asked EXCEPT ![call[t].memory] = NotGiven, ![memory] = 0]
    /\ call' = [call EXCEPT ![t] = Idle]

Answers(t) == IF call[t].op = "free" THEN {NULL} ELSE Address \cup {NULL}

ExecuteAllocate(t) ==
    /\ Alive
    /\ call[t].op = "allocate"
    /\ \E memory \in Answers(t) :
          /\ IF instrumented(t)
             THEN mutexIsFree /\ instrumentedAllocate(call[t].size, call[t].trace, memory)
             ELSE RealAllocate(call[t].size, memory) /\ UNCHANGED <<tableVars, fault>>
          /\ ReturnFromAllocate(t, memory)
    /\ UNCHANGED <<clock, patrolVars>>

ExecuteReallocate(t) ==
    /\ Alive
    /\ call[t].op = "reallocate"
    /\ \E memory \in Answers(t) :
          /\ IF instrumented(t)
             THEN mutexIsFree /\ instrumentedReallocate(call[t].memory, call[t].size, memory)
             ELSE /\ RealReallocate(call[t].memory, call[t].size, memory)
                  /\ UNCHANGED <<tableVars, fault>>
          /\ ReturnFromReallocate(t, memory)
    /\ UNCHANGED <<clock, patrolVars>>

ExecuteFree(t) ==
    /\ Alive
    /\ call[t].op \in {"free", "reallocateToZero"}
    /\ \E memory \in Answers(t) :
          /\ IF instrumented(t)
             THEN mutexIsFree /\ instrumentedFree(call[t].memory, memory)
             ELSE RealFree(call[t].memory, memory) /\ UNCHANGED <<tableVars, fault>>
          /\ ReturnFromFree(t, memory)
    /\ UNCHANGED <<clock, patrolVars>>

-----------------------------------------------------------------------------
(* The world around the application threads.                               *)

\* The program alloc-counter-start.
StartSignal ==
    /\ Alive
    /\ watchState' = "Watching"
    /\ UNCHANGED <<tableVars, heap, clock, fault, patrolPc, patrolNow, foundLeaks,
                   stackTraceToOccurrences, timeNextLeakReport, leakReport, appVars>>

\* Another program starts with the library preloaded: its initCommMemory()
\* writes NotWatching to the file that all of them map.
OtherProcessStarts ==
    /\ Alive
    /\ OtherProcesses
    /\ watchState' = "NotWatching"
    /\ UNCHANGED <<tableVars, heap, clock, fault, patrolPc, patrolNow, foundLeaks,
                   stackTraceToOccurrences, timeNextLeakReport, leakReport, appVars>>

Patrol == Alive /\ patrolStep /\ UNCHANGED <<heap, clock, fault, appVars>>

\* Some deadline, or an unreported leak's report, is still ahead.
SomethingWaits ==
    \/ \E a \in DOMAIN m_light : m_light[a] # NoRecord /\ m_light[a].deadline >= clock
    \/ \E a \in DOMAIN m_closely : m_closely[a] # NoRecord /\ m_closely[a].deadline >= clock
    \/ ~ (patrolThreadMakeLeakReport \subseteq leakReport) /\ timeNextLeakReport >= clock

Tick ==
    /\ Alive
    /\ clock < Horizon \/ SomethingWaits
    /\ clock' = clock + 1
    /\ UNCHANGED <<tableVars, heap, fault, patrolVars, appVars>>

\* Undefined behaviour has ended the process; nothing is said of what follows.
Dead == ~ Alive /\ UNCHANGED vars

Next ==
    \/ \E t \in Thread :
          \/ EnterAllocate(t) \/ EnterReallocate(t) \/ EnterFree(t) \/ EnterReallocateToZero(t)
          \/ ExecuteAllocate(t) \/ ExecuteReallocate(t) \/ ExecuteFree(t)
    \/ Patrol
    \/ StartSignal
    \/ OtherProcessStarts
    \/ Tick
    \/ Dead

Spec == Init /\ [][Next]_vars

\* The patrol thread is scheduled again and again, m_mutex is never held
\* across a wait, and time passes.
Fairness == WF_vars(Patrol) /\ WF_vars(Tick)

FairSpec == Spec /\ Fairness

-----------------------------------------------------------------------------
(* Invariants                                                              *)

\* Every variable holds values of its kind.  That the counters are naturals
\* says that no uint32_t counter of allocation-table.h wraps below zero.
TypeOK ==
    /\ TableTypeOK
    /\ PatrolTypeOK
    /\ asked \in [Address -> Nat \cup {NotGiven}]
    /\ call \in [Thread -> Call]

WatchedBlocks == {a \in Address : m_closely[a] # NoRecord}
WatchedBlocksOf(p) == {a \in WatchedBlocks : m_closely[a].info = p}

\* The counters that limit the watching, kept by hand in allocate, free and
\* the patrol scan, always equal the number of records in the table.
CountersMatchTable ==
    /\ allTraces = Cardinality(WatchedBlocks)
    /\ \A p \in InfoKey : m_infos[p].live = Cardinality(WatchedBlocksOf(p))

\* ALLOC_MAX_CLOSELY_WATCHED and ALLOC_GLOBAL_MAX_CLOSELY_WATCHED bound the
\* records themselves, whatever moves them between allocate and free.
LimitsRespected ==
    /\ Cardinality(WatchedBlocks) <= GlobalMaxLiveCloselyWatchedAllocations
    /\ \A p \in InfoKey :
          Cardinality(WatchedBlocksOf(p)) <= MaxLiveCloselyWatchedAllocationsPerTrace

\* A block has one record at most, and a record under an address describes a
\* block the allocator still holds live: free() removes it before the address
\* can be handed out again.  The record that a failed realloc() leaves under
\* the NULL key describes no block: LightRecordsFollowTheirBlocks is about it.
RecordsDescribeLiveBlocks ==
    \A a \in Address :
        /\ m_light[a] # NoRecord \/ m_closely[a] # NoRecord => heap[a] # NotLive
        /\ m_light[a] = NoRecord \/ m_closely[a] = NoRecord

\* What malloc() and realloc() promise through all the paths of the table:
\* the application's blocks are live and as large as it asked.
MallocContract == \A a \in Address : asked[a] # NotGiven => heap[a] >= asked[a]

fraction(x, op(_, _), n) == x[2] > 0 /\ op(x[1], n * x[2])

\* The numbers of the leak report make sense, whichever samples ended in which
\* order and however many allocations the limits kept from being sampled:
\* nothing is divided by zero, no trace is said to have lost more allocations
\* than the table saw of all suspicious ones, nor fewer allocations or bytes
\* than its samples alone did.  (The last two up to 2^32 allocations of the
\* trace, where countTotalAllocations() wraps.)
EstimatesInRange ==
    \A p \in patrolThreadMakeLeakReport :
        LET info  == m_infos[p]
            seen  == m_stats.allocationWithSuspiciousFingerprintCount
        IN  /\ fraction(leakRatio(info), \leq, 1)
            /\ fraction(lostAllocationsEstimated(info), \leq, seen)
            /\ info.skipped + info.created < UIntModulus =>
                  /\ fraction(lostAllocationsEstimated(info), \geq, info.leaked)
                  /\ fraction(lostBytesEstimated(info), \geq, info.leakedMemory)

leakedOf(infos, s) == MapThenSumSet(LAMBDA f : infos[<<f, s>>].leaked, Fingerprint)

\* /tmp/alloc-report and the statistics tell the same story: a stack trace
\* was announced, or is about to be, as many times as its leaks were counted.
AnnouncedAsCounted ==
    \A s \in StackTrace :
        stackTraceToOccurrences[s] + occurrencesIn(foundLeaks, s) = leakedOf(m_infos, s)

\* A trace in the leak report has been announced in /tmp/alloc-report.
ReportedWasAnnounced == \A p \in leakReport : stackTraceToOccurrences[p[2]] > 0

-----------------------------------------------------------------------------
(* Action properties                                                       *)

\* A leak is declared only for a block that is live and has been allocated
\* for longer than both intervals together, although "now" is read before
\* the lock is taken and the block may have moved since.
LeaksAreOldLiveBlocks ==
    [][\A p \in InfoKey : m_infos'[p].leaked > m_infos[p].leaked =>
          \E a \in WatchedBlocksOf(p) :
              /\ m_closely'[a] = NoRecord
              /\ heap[a] # NotLive
              /\ clock > m_closely[a].allocationTime + TimeForAllocationToBecomeSuspicious
                            + CloselyWatchedAllocationsAccessMaxInterval]_vars

\* hasLeaks() never takes a verdict back: leaky stays leaky, and a trace that
\* has enough samples never needs samples again for want of them.
VerdictsStand ==
    [][\A p \in InfoKey :
          /\ hasLeaks(m_infos[p]) = "True" => hasLeaks(m_infos'[p]) = "True"
          /\ hasLeaks(m_infos[p]) = "False" => hasLeaks(m_infos'[p]) # "Unknown"]_vars

\* An innocent trace gets no more samples, and once its last sample has ended
\* nothing brings the samples or the suspicion back: the counters never fall
\* behind the table.
InnocentTracesAreLeftAlone ==
    [][\A p \in InfoKey : hasLeaks(m_infos[p]) = "False" =>
          /\ m_infos'[p].created = m_infos[p].created
          /\ m_infos[p].live = 0 => m_infos'[p].live = 0 /\ hasLeaks(m_infos'[p]) = "False"]_vars

\* The application reallocates a closely watched block to another number of
\* pages.
ResizesSample(t) ==
    /\ call[t].op = "reallocate"
    /\ m_closely[call[t].memory] # NoRecord
    /\ roundUpToPageMultiple(call[t].size)
          # roundUpToPageMultiple(m_closely[call[t].memory].requestedSize)

\* A live block that the application does not have.
Orphaned(a) == heap[a] # NotLive /\ asked[a] = NotGiven

\* Of all the ways through the wrappers and the table, failures and calls that
\* began before the watching included, the resizing of a watched block alone
\* leaves a block behind, the one that was resized.  A block left behind is
\* never given out again.
OnlyResizedSamplesAreOrphaned ==
    [][\A a \in Address :
          /\ Orphaned(a)' /\ ~ Orphaned(a) /\ Alive' =>
                \E t \in Thread : ResizesSample(t) /\ call[t].memory = a
          /\ Orphaned(a) => Orphaned(a)']_vars

\* The light record of a is now that of b, with another size at most.
CarriedTo(a, b) ==
    /\ m_light'[b] # NoRecord
    /\ m_light'[b].deadline = m_light[a].deadline
    /\ m_light'[b].fingerprint = m_light[a].fingerprint

\* A call frees the block at a, moves it, or fails to.
MovedOrFreed(a) ==
    \E t \in Thread :
        /\ call[t].memory = a
        /\ \/ call[t].op \in {"free", "reallocateToZero"}
           \/ /\ call[t].op = "reallocate" /\ asked'[a] = NotGiven
              /\ \E b \in Address : asked[b] = NotGiven /\ asked'[b] = call[t].size /\ CarriedTo(a, b)
           \/ /\ call[t].op = "reallocate" /\ asked'[a] = asked[a]
              /\ m_light'[a] = NoRecord
              /\ m_light[NULL] # NoRecord \/ CarriedTo(a, NULL)

LightRecordFollows(a) ==
    \/ CarriedTo(a, a)
    \/ m_light[a].deadline < clock /\ m_light[a].fingerprint \in m_suspiciousFingerprints'
    \/ MovedOrFreed(a)

\* A light record gets another size at most, until its block is freed or its
\* deadline makes the fingerprint suspicious.  It follows its block through
\* realloc(); when that fails it goes to the NULL key, where nothing but the
\* deadline ends it, although the block may be freed meanwhile.
LightRecordsFollowTheirBlocks ==
    [][\A a \in DOMAIN m_light : m_light[a] # NoRecord => LightRecordFollows(a)]_vars

\* Of the undefined behaviour that the model has, the memcpy() of
\* instrumentedReallocate() alone is within reach of the calls, and it writes
\* past the end of a block only when one shrinks.
OnlyResizingIsFatal ==
    [][Alive /\ ~ Alive' =>
          \E t \in Thread :
              /\ ResizesSample(t)
              /\ fault' = "overrun" => call[t].size < m_closely[call[t].memory].requestedSize]_vars

-----------------------------------------------------------------------------
(* Liveness, under FairSpec                                                *)

\* Every closely watched block is decided: freed, moved or declared a leak.
WatchedBlocksAreDecided ==
    \A a \in Address : m_closely[a] # NoRecord ~> m_closely[a] = NoRecord \/ ~ Alive

\* Every counted leak is in some later leak report.
LeaksAreReported ==
    \A p \in InfoKey : m_infos[p].leaked > 0 ~> p \in leakReport \/ ~ Alive

-----------------------------------------------------------------------------
(* What the documentation says and the code does not do.                   *)

\* environment.h: a stack trace with enough clean samples "will be consider
\* innocent and no more allocations coming from it will be closely watched".
InnocentForGood ==
    [][\A p \in InfoKey : hasLeaks(m_infos[p]) = "False" => hasLeaks(m_infos'[p]) = "False"]_vars

\* README: the application "should seem to continue running normally".  Then
\* each live block is one the application was given and has not released.
NoBlockIsOrphaned ==
    Alive => \A a \in Address : ~ Orphaned(a)

\* allocation-table.h, of a watched record's requestedSize: "less or equal
\* the size actually allocated".
RequestedFitsActual ==
    \A a \in Address : m_closely[a] # NoRecord => m_closely[a].requestedSize <= heap[a]
=============================================================================
