----------------------- MODULE WatchedStackTraceInfo -----------------------
(***************************************************************************)
(* The statistics alloc-counter keeps for one watched stack trace          *)
(* (alloc-counter/watched-stack-trace-info.h) as pure operators on a       *)
(* record.  Field names are short forms of the source's:                   *)
(*   created       countTotalCloselyWatchedAllocationsEverCreated          *)
(*   live          countLiveCloselyWatchedAllocations                      *)
(*   leaked        countLeakedCloselyWatchedAllocations                    *)
(*   leakedMemory  countTotalLeakedMemory                                  *)
(*   skipped       countSkippedAllocations                                 *)
(* The stack trace itself is the key under which the record is stored.     *)
(***************************************************************************)
EXTENDS Naturals

CONSTANTS
    EnoughSamplesToProveNoLeak,                \* ALLOC_ENOUGH_SAMPLES_TO_PROVE_NO_LEAK
    MaxLiveCloselyWatchedAllocationsPerTrace,  \* ALLOC_MAX_CLOSELY_WATCHED
    GlobalMaxLiveCloselyWatchedAllocations,    \* ALLOC_GLOBAL_MAX_CLOSELY_WATCHED
    UIntModulus                                \* 2^32, the width of every uint32_t

\* parseEnvironIntGreaterThanZero() (environment.cpp) never yields zero for
\* a variable whose default is not zero.
ASSUME LimitsAssumption ==
    /\ EnoughSamplesToProveNoLeak \in Nat \ {0}
    /\ MaxLiveCloselyWatchedAllocationsPerTrace \in Nat \ {0}
    /\ GlobalMaxLiveCloselyWatchedAllocations \in Nat \ {0}

WatchedStackTraceInfo ==
    [created : Nat, live : Nat, leaked : Nat, leakedMemory : Nat, skipped : Nat]

newWatchedStackTraceInfo ==
    [created |-> 0, live |-> 0, leaked |-> 0, leakedMemory |-> 0, skipped |-> 0]

countFinishedWatchedAllocations(info) == info.created - info.live

\* Mutant: the samples are looked at before the leaks.
hasLeaksSamplesFirst(info) ==
    IF countFinishedWatchedAllocations(info) >= EnoughSamplesToProveNoLeak THEN "False"
    ELSE IF info.leaked > 0 THEN "True" ELSE "Unknown"

\* Mutant: the leaks must be the majority of the samples.
hasLeaksByMajority(info) ==
    IF 2 * info.leaked > info.created THEN "True"
    ELSE IF countFinishedWatchedAllocations(info) >= EnoughSamplesToProveNoLeak
         THEN "False"
         ELSE "Unknown"

\* hasLeaks() answers a Trilean.
hasLeaks(info) ==
    IF info.leaked > 0 THEN "True"
    ELSE IF countFinishedWatchedAllocations(info) >= EnoughSamplesToProveNoLeak
         THEN "False"
         ELSE "Unknown"

\* Mutant: a limit that lets one more in.
needsMoreUpToTheLimit(info, allTraces) ==
    /\ info.live <= MaxLiveCloselyWatchedAllocationsPerTrace
    /\ allTraces < GlobalMaxLiveCloselyWatchedAllocations
    /\ hasLeaks(info) # "False"

\* Mutant: innocent traces are sampled like any other.
needsMoreWhateverTheVerdict(info, allTraces) ==
    /\ info.live < MaxLiveCloselyWatchedAllocationsPerTrace
    /\ allTraces < GlobalMaxLiveCloselyWatchedAllocations

\* allTraces is the static countLiveCloselyWatchedAllocationsAllTraces.
needsMoreCloselyWatchedAllocations(info, allTraces) ==
    /\ info.live < MaxLiveCloselyWatchedAllocationsPerTrace
    /\ allTraces < GlobalMaxLiveCloselyWatchedAllocations
    /\ hasLeaks(info) # "False"

-----------------------------------------------------------------------------
(* The estimates that the leak report prints, as fractions: a pair of      *)
(* numerator and denominator.                                              *)

\* The 64 bits of countSkippedAllocations are cut to a uint32_t.
countTotalAllocations(info) == (info.skipped + info.created) % UIntModulus

leakRatio(info) == <<info.leaked, countFinishedWatchedAllocations(info)>>

lostAllocationsEstimated(info) ==
    IF countFinishedWatchedAllocations(info) = 0 THEN <<0, 1>>
    ELSE <<countTotalAllocations(info) * leakRatio(info)[1], leakRatio(info)[2]>>

\* countTotalLeakedMemory / watchRate()
lostBytesEstimated(info) == <<info.leakedMemory * countTotalAllocations(info), info.created>>

-----------------------------------------------------------------------------
(* How the allocation table updates a record.                              *)

\* Mutant: a skipped allocation is counted twice.
countSkippedTwice(info) == [info EXCEPT !.skipped = @ + 2]

countSkipped(info) == [info EXCEPT !.skipped = @ + 1]

countWatched(info) == [info EXCEPT !.live = @ + 1, !.created = @ + 1]

\* Mutant: a freed sample is taken off twice.
countFreedTwice(info) == [info EXCEPT !.live = @ - 2]

countFreed(info) == [info EXCEPT !.live = @ - 1]

\* Mutant: a leaked sample stays live.
countLeakedStillLive(info, size) ==
    [info EXCEPT !.leaked = @ + 1, !.leakedMemory = @ + size]

countLeaked(info, size) ==
    [info EXCEPT !.leaked = @ + 1, !.live = @ - 1, !.leakedMemory = @ + size]
=============================================================================
