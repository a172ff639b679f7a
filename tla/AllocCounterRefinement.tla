----------------------- MODULE AllocCounterRefinement -----------------------
(***************************************************************************)
(* AllocCounter implements LeakDetector.  A site is a stack trace under a  *)
(* fingerprint.  The code counts samples created, live and leaked; what    *)
(* was freed and what was lost follows: a sample is lost when it is still  *)
(* counted live and no record of it is left.                               *)
(***************************************************************************)
EXTENDS AllocCounter

\* "No entry" is no sample either.
ASSUME NoSampleAssumption == NoRecord \notin [site : InfoKey, since : Nat]

traceOf(p) == p[2]

sampleAt(a) ==
    IF m_closely[a] = NoRecord THEN NoRecord
    ELSE [site |-> m_closely[a].info, since |-> m_closely[a].allocationTime]

freedOf(p) == m_infos[p].created - m_infos[p].live - m_infos[p].leaked

lostOf(p) == m_infos[p].live - Cardinality(WatchedBlocksOf(p))

Detector == INSTANCE LeakDetector WITH
    Site <- InfoKey,
    Trace <- StackTrace,
    TraceOf <- traceOf,
    Patience <- TimeForAllocationToBecomeSuspicious + CloselyWatchedAllocationsAccessMaxInterval,
    NoSample <- NoRecord,
    now <- clock,
    watched <- [a \in Address |-> sampleAt(a)],
    freed <- [p \in InfoKey |-> freedOf(p)],
    leaked <- [p \in InfoKey |-> m_infos[p].leaked],
    lost <- [p \in InfoKey |-> lostOf(p)],
    announced <- {s \in StackTrace : stackTraceToOccurrences[s] > 0},
    report <- leakReport

\* Whatever the threads, the patrol thread and other processes do, in any
\* order, the process behaves as the leak detector: no fate of a sample is
\* changed or counted twice, leaks are old enough by the clock although "now"
\* was read before the lock, and a report lists exactly the sites with leaks,
\* after all of them were announced.
ImplementsLeakDetector == Detector!Spec
=============================================================================
