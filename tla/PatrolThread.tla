---------------------------- MODULE PatrolThread ----------------------------
(***************************************************************************)
(* The patrol thread (patrol-thread.cpp, PatrolThread::monitorMain): an    *)
(* endless loop that wakes, moves the records that passed their deadline,  *)
(* announces the leaks it found and now and then writes a leak report.     *)
(*                                                                         *)
(* sleep() returns early when a signal arrives and the loop ignores what   *)
(* is left of it, so the thread may wake at any time.  Progress lines and  *)
(* rates are formatting and left out.                                      *)
(***************************************************************************)
EXTENDS AllocationTable

CONSTANTS
    LeakReportInterval,  \* ALLOC_LEAK_REPORT_INTERVAL
    AutoStart            \* whether ALLOC_AUTO_START_TIME is set

ASSUME PatrolAssumption ==
    /\ LeakReportInterval \in Nat \ {0}
    /\ AutoStart \in BOOLEAN

VARIABLES
    watchState,               \* *__commMemory, shared through /tmp/alloc-comm
    patrolPc,
    patrolNow,                \* the local now, then reportTime; 0 where neither is alive
    foundLeaks,               \* the leaks of the current scan
    stackTraceToOccurrences,
    timeNextLeakReport,
    leakReport                \* what the last leak report lists

patrolVars == <<watchState, patrolPc, patrolNow, foundLeaks,
                stackTraceToOccurrences, timeNextLeakReport, leakReport>>

WatchState == {"NotWatching", "Watching"}

FoundLeak == [stackTrace : StackTrace, memory : Address, size : Nat]

PatrolTypeOK ==
    /\ watchState \in WatchState
    /\ patrolPc \in {"autoStart", "sleeping", "locking", "scanLight", "scanClosely",
                     "announcing", "reporting"}
    /\ patrolNow \in Nat
    /\ foundLeaks \subseteq FoundLeak /\ IsFiniteSet(foundLeaks)
    /\ stackTraceToOccurrences \in [StackTrace -> Nat]
    /\ timeNextLeakReport \in Nat
    /\ leakReport \subseteq InfoKey

PatrolInit ==
    /\ watchState = "NotWatching"  \* initCommMemory()
    /\ patrolPc = IF AutoStart THEN "autoStart" ELSE "sleeping"
    /\ patrolNow = 0
    /\ foundLeaks = {}
    /\ stackTraceToOccurrences = [s \in StackTrace |-> 0]
    /\ timeNextLeakReport = 0
    /\ leakReport = {}

\* The scan holds m_mutex from its first record to its last.  The bodies of
\* the wrappers are atomic, so nobody else is ever seen holding it.
mutexIsFree == patrolPc \notin {"scanLight", "scanClosely"}

\* sleep(environment.autoStartTime); *__commMemory = Watching
patrolAutoStart ==
    /\ patrolPc = "autoStart"
    /\ watchState' = "Watching"
    /\ patrolPc' = "sleeping"
    /\ UNCHANGED <<tableVars, patrolNow, foundLeaks, stackTraceToOccurrences,
                   timeNextLeakReport, leakReport>>

\* Awake, and now = time(nullptr), with m_mutex not taken yet.
patrolWake ==
    /\ patrolPc = "sleeping"
    /\ patrolNow' = clock
    /\ patrolPc' = "locking"
    /\ UNCHANGED <<tableVars, watchState, foundLeaks, stackTraceToOccurrences,
                   timeNextLeakReport, leakReport>>

patrolLock ==
    /\ patrolPc = "locking"
    /\ foundLeaks' = {}
    /\ patrolPc' = "scanLight"
    /\ UNCHANGED <<tableVars, watchState, patrolNow, stackTraceToOccurrences,
                   timeNextLeakReport, leakReport>>

patrolExpireLight ==
    /\ patrolPc = "scanLight"
    /\ \E a \in Expired(m_light, patrolNow) : expireLight(a)
    /\ UNCHANGED patrolVars

patrolLightDone ==
    /\ patrolPc = "scanLight"
    /\ Expired(m_light, patrolNow) = {}
    /\ patrolPc' = "scanClosely"
    /\ UNCHANGED <<tableVars, watchState, patrolNow, foundLeaks,
                   stackTraceToOccurrences, timeNextLeakReport, leakReport>>

patrolBecomeSuspicious ==
    /\ patrolPc = "scanClosely"
    /\ \E a \in Expired(m_closely, patrolNow) : becomeSuspicious(a, patrolNow)
    /\ UNCHANGED patrolVars

\* Mutant: a scan remembers only its last leak.
patrolDeclareLeakForgetful ==
    /\ patrolPc = "scanClosely"
    /\ \E a \in Expired(m_closely, patrolNow) :
          /\ declareLeak(a)
          /\ foundLeaks' = {[stackTrace |-> m_closely[a].info[2], memory |-> a,
                             size |-> m_closely[a].requestedSize]}
    /\ UNCHANGED <<watchState, patrolPc, patrolNow, stackTraceToOccurrences,
                   timeNextLeakReport, leakReport>>

\* A record that became suspicious in this scan is not expired any more, its
\* new deadline being past patrolNow: no record is visited twice.
patrolDeclareLeak ==
    /\ patrolPc = "scanClosely"
    /\ \E a \in Expired(m_closely, patrolNow) :
          /\ declareLeak(a)
          /\ foundLeaks' = foundLeaks \cup
                {[stackTrace |-> m_closely[a].info[2], memory |-> a,
                  size |-> m_closely[a].requestedSize]}
    /\ UNCHANGED <<watchState, patrolPc, patrolNow, stackTraceToOccurrences,
                   timeNextLeakReport, leakReport>>

\* Mutant: the scan may stop before its last record.
patrolUnlockEarly ==
    /\ patrolPc = "scanClosely"
    /\ patrolNow' = 0
    /\ patrolPc' = "announcing"
    /\ UNCHANGED <<tableVars, watchState, foundLeaks,
                   stackTraceToOccurrences, timeNextLeakReport, leakReport>>

patrolUnlock ==
    /\ patrolPc = "scanClosely"
    /\ Expired(m_closely, patrolNow) = {}
    /\ patrolNow' = 0
    /\ patrolPc' = "announcing"
    /\ UNCHANGED <<tableVars, watchState, foundLeaks,
                   stackTraceToOccurrences, timeNextLeakReport, leakReport>>

occurrencesIn(leaks, s) == Cardinality({leak \in leaks : leak.stackTrace = s})

\* Announces the found leaks and decides whether a leak report is due.
patrolAnnounce ==
    /\ patrolPc = "announcing"
    /\ stackTraceToOccurrences' =
          [s \in StackTrace |-> stackTraceToOccurrences[s] + occurrencesIn(foundLeaks, s)]
    /\ foundLeaks' = {}
    /\ timeNextLeakReport' = IF timeNextLeakReport = 0 THEN clock + LeakReportInterval
                                                       ELSE timeNextLeakReport
    /\ IF clock > timeNextLeakReport'
       THEN patrolPc' = "reporting" /\ patrolNow' = clock
       ELSE patrolPc' = "sleeping" /\ patrolNow' = 0
    /\ UNCHANGED <<tableVars, watchState, leakReport>>

patrolReport ==
    /\ patrolPc = "reporting"
    /\ leakReport' = patrolThreadMakeLeakReport
    /\ timeNextLeakReport' = patrolNow + LeakReportInterval
    /\ patrolNow' = 0
    /\ patrolPc' = "sleeping"
    /\ UNCHANGED <<tableVars, watchState, foundLeaks, stackTraceToOccurrences>>

patrolStep ==
    \/ patrolAutoStart \/ patrolWake \/ patrolLock
    \/ patrolExpireLight \/ patrolLightDone
    \/ patrolBecomeSuspicious \/ patrolDeclareLeak \/ patrolUnlock
    \/ patrolAnnounce \/ patrolReport
=============================================================================
