------------------------- MODULE AllocCounterProofs -------------------------
(***************************************************************************)
(* Theorems about AllocCounter for every value of its constants: any       *)
(* number of threads, stack traces and calls, any finite heap, any limits. *)
(***************************************************************************)
EXTENDS AllocCounter, AllocationTableProofs, FiniteSums

-----------------------------------------------------------------------------
(* The invariant of the process.                                           *)

Accounting == TypeOK /\ TableAccounting

\* The process starts with every variable of its type and an empty table.
LEMMA InitAccounting == Init => Accounting
  <1>. SUFFICES ASSUME Init PROVE Accounting
    OBVIOUS
  <1>. USE DEF Init, PatrolInit
  <1>1. TableTypeOK /\ TableAccounting
    BY TableInitTypeOK, TableInitAccounting
  <1>2. /\ watchState \in WatchState
        /\ patrolPc \in {"autoStart", "sleeping"}
        /\ patrolNow \in Nat
        /\ foundLeaks \subseteq FoundLeak /\ IsFiniteSet(foundLeaks)
        /\ stackTraceToOccurrences \in [StackTrace -> Nat]
        /\ timeNextLeakReport \in Nat
        /\ leakReport \subseteq InfoKey
    BY PatrolAssumption, FS_EmptySet DEF WatchState
  <1>3. /\ asked \in [Address -> Nat \cup {NotGiven}]
        /\ call \in [Thread -> Call]
    BY DEF Call
  <1>. QED  BY <1>1, <1>2, <1>3 DEF Accounting, TypeOK, PatrolTypeOK

-----------------------------------------------------------------------------
(* The steps of the whole system.                                          *)

\* Every step of the patrol thread preserves the invariant.
LEMMA PatrolAccounting == Accounting /\ Patrol => Accounting'
  <1>. SUFFICES ASSUME Accounting, Patrol PROVE Accounting'
    OBVIOUS
  <1>1. /\ TypeOK /\ TableAccounting /\ PatrolTypeOK /\ UNCHANGED <<heap, clock, fault, asked, call>>
        /\ clock \in Nat
    BY DEF Accounting, TypeOK, TableTypeOK, Patrol, appVars
  <1>. SUFFICES TableAccounting' /\ PatrolTypeOK'
    BY <1>1 DEF Accounting, TypeOK, TableAccounting
  <1>2. CASE patrolAutoStart \/ patrolWake \/ patrolLock \/ patrolLightDone \/ patrolUnlock
    <2>1. UNCHANGED tableVars
      BY <1>2 DEF patrolAutoStart, patrolWake, patrolLock, patrolLightDone, patrolUnlock
    <2>2. TableAccounting'
      BY <1>1, <2>1, CountersUntouched DEF tableVars, TableAccounting, TableTypeOK
    <2>3. PatrolTypeOK'
      BY <1>1, <1>2, FS_EmptySet
      DEF PatrolTypeOK, patrolAutoStart, patrolWake, patrolLock, patrolLightDone, patrolUnlock,
          WatchState
    <2>. QED  BY <2>2, <2>3
  <1>3. CASE patrolAnnounce \/ patrolReport
    <2>1. UNCHANGED tableVars
      BY <1>3 DEF patrolAnnounce, patrolReport
    <2>2. TableAccounting'
      BY <1>1, <2>1, CountersUntouched DEF tableVars, TableAccounting, TableTypeOK
    <2>3. CASE patrolAnnounce
      <3>1. ASSUME NEW s \in StackTrace PROVE occurrencesIn(foundLeaks, s) \in Nat
        <4>1. IsFiniteSet({leak \in foundLeaks : leak.stackTrace = s})
          BY <1>1, FS_Subset DEF PatrolTypeOK
        <4>. QED  BY <4>1, FS_CardinalityType DEF occurrencesIn
      <3>2. stackTraceToOccurrences' \in [StackTrace -> Nat]
        BY <1>1, <2>3, <3>1 DEF PatrolTypeOK, patrolAnnounce
      <3>3. timeNextLeakReport' \in Nat /\ patrolNow' \in Nat
        BY <1>1, <2>3, PatrolAssumption DEF PatrolTypeOK, patrolAnnounce
      <3>4. patrolPc' \in {"reporting", "sleeping"}
        BY <2>3 DEF patrolAnnounce
      <3>5. foundLeaks' \subseteq FoundLeak /\ IsFiniteSet(foundLeaks')
        BY <2>3, FS_EmptySet DEF patrolAnnounce
      <3>. QED
        BY <1>1, <2>2, <2>3, <3>2, <3>3, <3>4, <3>5 DEF PatrolTypeOK, patrolAnnounce
    <2>4. CASE patrolReport
      <3>1. leakReport' \subseteq InfoKey
        BY <2>4 DEF patrolReport, patrolThreadMakeLeakReport
      <3>2. timeNextLeakReport' \in Nat
        BY <1>1, <2>4, PatrolAssumption DEF PatrolTypeOK, patrolReport
      <3>. QED  BY <1>1, <2>2, <2>4, <3>1, <3>2 DEF PatrolTypeOK, patrolReport
    <2>. QED  BY <1>3, <2>3, <2>4
  <1>4. CASE patrolExpireLight
    <2>1. PICK a \in Expired(m_light, patrolNow) : expireLight(a)
      BY <1>4 DEF patrolExpireLight
    <2>2. a \in Address \cup {NULL} /\ m_light[a] # NoRecord
      BY <1>1 DEF Expired, TableAccounting, TableTypeOK
    <2>3. TableAccounting'
      BY <1>1, <2>1, <2>2, ExpireLightAccounting
    <2>. QED  BY <1>1, <1>4, <2>3 DEF patrolExpireLight, patrolVars, PatrolTypeOK
  <1>5. CASE patrolBecomeSuspicious
    <2>1. PICK a \in Expired(m_closely, patrolNow) : becomeSuspicious(a, patrolNow)
      BY <1>5 DEF patrolBecomeSuspicious
    <2>2. a \in Address /\ m_closely[a] # NoRecord /\ patrolNow \in Nat
      BY <1>1 DEF Expired, TableAccounting, TableTypeOK, PatrolTypeOK
    <2>3. TableAccounting'
      BY <1>1, <2>1, <2>2, BecomeSuspiciousAccounting
    <2>. QED  BY <1>1, <1>5, <2>3 DEF patrolBecomeSuspicious, patrolVars, PatrolTypeOK
  <1>6. CASE patrolDeclareLeak
    <2>1. PICK a \in Expired(m_closely, patrolNow) :
             /\ declareLeak(a)
             /\ foundLeaks' = foundLeaks \cup
                   {[stackTrace |-> m_closely[a].info[2], memory |-> a,
                     size |-> m_closely[a].requestedSize]}
      BY <1>6 DEF patrolDeclareLeak
    <2>2. a \in Address /\ m_closely[a] # NoRecord
      BY <1>1 DEF Expired, TableAccounting, TableTypeOK
    <2>3. TableAccounting'
      BY <1>1, <2>1, <2>2, DeclareLeakAccounting
    <2>4. m_closely[a].info[2] \in StackTrace /\ m_closely[a].requestedSize \in Nat
      BY <1>1, <2>2, WatchedIsCounted DEF InfoKey, CloselyWatchedAllocation
    <2>5. foundLeaks' \subseteq FoundLeak /\ IsFiniteSet(foundLeaks')
      <3>1. foundLeaks' \subseteq FoundLeak
        BY <1>1, <2>1, <2>2, <2>4 DEF FoundLeak, PatrolTypeOK
      <3>2. IsFiniteSet(foundLeaks')
        BY <1>1, <2>1, FS_AddElement DEF PatrolTypeOK
      <3>. QED  BY <3>1, <3>2
    <2>. QED  BY <1>1, <1>6, <2>3, <2>5 DEF patrolDeclareLeak, PatrolTypeOK
  <1>. QED  BY <1>2, <1>3, <1>4, <1>5, <1>6 DEF Patrol, patrolStep

\* A step that leaves the patrol thread alone preserves its type.
LEMMA PatrolUnchanged ==
  ASSUME PatrolTypeOK, UNCHANGED patrolVars
  PROVE  PatrolTypeOK'
  BY DEF PatrolTypeOK, patrolVars

\* A call in flight has the arguments of its kind.
LEMMA CallTypes ==
  ASSUME TypeOK, NEW t \in Thread
  PROVE  /\ call[t].op = "allocate" => call[t].size \in Size /\ call[t].trace \in StackTrace
         /\ call[t].op = "reallocate" => call[t].memory \in Address /\ call[t].size \in Size
         /\ call[t].op \in {"free", "reallocateToZero"} => call[t].memory \in Address
         /\ call[t].size \in Nat
  <1>1. call[t] \in Call
    BY DEF TypeOK
  <1>2. CASE call[t] = Idle
    BY <1>2 DEF Idle
  <1>3. CASE call[t] \in [op : {"allocate"}, memory : {NULL}, size : Size, trace : StackTrace,
                          watch : WatchState]
    BY <1>3, TableAssumption
  <1>4. CASE call[t] \in [op : {"reallocate"}, memory : Address, size : Size, trace : {NULL},
                          watch : WatchState]
    BY <1>4, TableAssumption
  <1>5. CASE call[t] \in [op : {"free", "reallocateToZero"}, memory : Address, size : {0},
                          trace : {NULL}, watch : WatchState]
    BY <1>5
  <1>. QED  BY <1>1, <1>2, <1>3, <1>4, <1>5 DEF Call

\* Entering a wrapper changes nothing but the call of its thread.
LEMMA EnterAccounting ==
  ASSUME Accounting, NEW t \in Thread,
         \/ EnterAllocate(t) \/ EnterReallocate(t) \/ EnterFree(t) \/ EnterReallocateToZero(t)
  PROVE  Accounting'
  <1>1. UNCHANGED <<tableVars, heap, clock, fault, patrolVars, asked>>
    BY DEF EnterAllocate, EnterReallocate, EnterFree, EnterReallocateToZero, Enter
  <1>2. watchState \in WatchState /\ call \in [Thread -> Call] /\ AtHand \subseteq Address
    BY DEF Accounting, TypeOK, PatrolTypeOK, AtHand
  <1>3. call' \in [Thread -> Call]
    <2>1. CASE EnterAllocate(t)
      BY <1>2, <2>1 DEF EnterAllocate, Enter, Call
    <2>2. CASE EnterReallocate(t)
      BY <1>2, <2>2 DEF EnterReallocate, Enter, Call
    <2>3. CASE EnterFree(t)
      BY <1>2, <2>3 DEF EnterFree, Enter, Call
    <2>4. CASE EnterReallocateToZero(t)
      BY <1>2, <2>4 DEF EnterReallocateToZero, Enter, Call
    <2>. QED  BY <2>1, <2>2, <2>3, <2>4
  <1>4. TableAccounting' /\ PatrolTypeOK'
    BY <1>1, TableUnchanged, PatrolUnchanged DEF Accounting, TypeOK
  <1>. QED  BY <1>1, <1>3, <1>4 DEF Accounting, TypeOK, TableAccounting

\* The body of a call, instrumented or not, preserves the invariant.
LEMMA ExecuteAccounting ==
  ASSUME Accounting, NEW t \in Thread,
         ExecuteAllocate(t) \/ ExecuteReallocate(t) \/ ExecuteFree(t)
  PROVE  Accounting'
  <1>1. /\ TypeOK /\ TableAccounting /\ PatrolTypeOK /\ UNCHANGED <<clock, patrolVars>>
        /\ asked \in [Address -> Nat \cup {NotGiven}] /\ call \in [Thread -> Call]
        /\ heap \in [Address -> Nat \cup {NotLive}]
    BY DEF Accounting, TypeOK, TableTypeOK, ExecuteAllocate, ExecuteReallocate, ExecuteFree
  <1>2. PatrolTypeOK'
    BY <1>1, PatrolUnchanged
  <1>3. call[t].size \in Nat /\ Idle \in Call /\ Answers(t) \subseteq Address \cup {NULL}
    BY <1>1, CallTypes DEF Call, Answers
  <1>. SUFFICES /\ TableAccounting'
                /\ asked' \in [Address -> Nat \cup {NotGiven}]
                /\ call' \in [Thread -> Call]
    BY <1>2 DEF Accounting, TypeOK, TableAccounting
  <1>4. CASE ExecuteAllocate(t)
    <2>1. PICK memory \in Answers(t) :
             /\ IF instrumented(t)
                THEN mutexIsFree /\ instrumentedAllocate(call[t].size, call[t].trace, memory)
                ELSE RealAllocate(call[t].size, memory) /\ UNCHANGED <<tableVars, fault>>
             /\ ReturnFromAllocate(t, memory)
      BY <1>4 DEF ExecuteAllocate
    <2>2. call[t].size \in Size /\ call[t].trace \in StackTrace /\ memory \in Address \cup {NULL}
      BY <1>1, <1>3, <1>4, CallTypes DEF ExecuteAllocate
    <2>3. TableAccounting'
      <3>1. CASE instrumented(t)
        BY <1>1, <2>1, <2>2, <3>1, AllocateLightAccounting, AllocateSkippedAccounting,
           AllocateCloselyWatchedAccounting
        DEF instrumentedAllocate
      <3>2. CASE ~ instrumented(t)
        <4>1. heap' \in [Address -> Nat \cup {NotLive}]
          BY <1>1, <1>3, <2>1, <3>2, RealAllocateType
        <4>2. TableTypeOK'
          BY <1>1, <2>1, <3>2, <4>1 DEF TableAccounting, TableTypeOK, tableVars
        <4>. QED  BY <1>1, <2>1, <3>2, <4>2, CountersUntouched DEF tableVars
      <3>. QED  BY <3>1, <3>2
    <2>4. asked' \in [Address -> Nat \cup {NotGiven}] /\ call' \in [Thread -> Call]
      BY <1>1, <1>3, <2>1 DEF ReturnFromAllocate
    <2>. QED  BY <2>3, <2>4
  <1>5. CASE ExecuteReallocate(t)
    <2>1. PICK memory \in Answers(t) :
             /\ IF instrumented(t)
                THEN mutexIsFree /\ instrumentedReallocate(call[t].memory, call[t].size, memory)
                ELSE /\ RealReallocate(call[t].memory, call[t].size, memory)
                     /\ UNCHANGED <<tableVars, fault>>
             /\ ReturnFromReallocate(t, memory)
      BY <1>5 DEF ExecuteReallocate
    <2>2. call[t].memory \in Address /\ call[t].size \in Size /\ memory \in Address \cup {NULL}
      BY <1>1, <1>3, <1>5, CallTypes DEF ExecuteReallocate
    <2>3. TableAccounting'
      <3>1. CASE instrumented(t)
        BY <1>1, <2>1, <2>2, <3>1, ReallocateAccounting
      <3>2. CASE ~ instrumented(t)
        <4>1. heap' \in [Address -> Nat \cup {NotLive}]
          BY <1>1, <1>3, <2>1, <2>2, <3>2, RealTypes
        <4>2. TableTypeOK'
          BY <1>1, <2>1, <3>2, <4>1 DEF TableAccounting, TableTypeOK, tableVars
        <4>. QED  BY <1>1, <2>1, <3>2, <4>2, CountersUntouched DEF tableVars
      <3>. QED  BY <3>1, <3>2
    <2>4. asked' \in [Address -> Nat \cup {NotGiven}] /\ call' \in [Thread -> Call]
      BY <1>1, <1>3, <2>1 DEF ReturnFromReallocate
    <2>. QED  BY <2>3, <2>4
  <1>6. CASE ExecuteFree(t)
    <2>1. PICK memory \in Answers(t) :
             /\ IF instrumented(t)
                THEN mutexIsFree /\ instrumentedFree(call[t].memory, memory)
                ELSE RealFree(call[t].memory, memory) /\ UNCHANGED <<tableVars, fault>>
             /\ ReturnFromFree(t, memory)
      BY <1>6 DEF ExecuteFree
    <2>2. call[t].memory \in Address
      BY <1>1, <1>6, CallTypes DEF ExecuteFree
    <2>3. TableAccounting'
      <3>1. CASE instrumented(t)
        BY <1>1, <2>1, <2>2, <3>1, FreeAccounting
      <3>2. CASE ~ instrumented(t)
        <4>1. heap' \in [Address -> Nat \cup {NotLive}]
          BY <1>1, <1>3, <2>1, <2>2, <3>2, RealTypes
        <4>2. TableTypeOK'
          BY <1>1, <2>1, <3>2, <4>1 DEF TableAccounting, TableTypeOK, tableVars
        <4>. QED  BY <1>1, <2>1, <3>2, <4>2, CountersUntouched DEF tableVars
      <3>. QED  BY <3>1, <3>2
    <2>4. asked' \in [Address -> Nat \cup {NotGiven}] /\ call' \in [Thread -> Call]
      BY <1>1, <1>3, <2>1 DEF ReturnFromFree
    <2>. QED  BY <2>3, <2>4
  <1>. QED  BY <1>4, <1>5, <1>6

\* Every step of the process, and every stuttering step, preserves the
\* accounting invariant.
LEMMA StepAccounting == Accounting /\ [Next]_vars => Accounting'
  <1>. SUFFICES ASSUME Accounting, [Next]_vars PROVE Accounting'
    OBVIOUS
  <1>1. CASE UNCHANGED vars
    <2>1. UNCHANGED <<tableVars, heap, clock, fault, patrolVars, asked, call>>
      BY <1>1 DEF vars, appVars
    <2>2. TableAccounting' /\ PatrolTypeOK'
      BY <2>1, TableUnchanged, PatrolUnchanged DEF Accounting, TypeOK
    <2>. QED  BY <2>1, <2>2 DEF Accounting, TypeOK, TableAccounting
  <1>2. CASE \E t \in Thread :
                \/ EnterAllocate(t) \/ EnterReallocate(t) \/ EnterFree(t) \/ EnterReallocateToZero(t)
    BY <1>2, EnterAccounting
  <1>3. CASE \E t \in Thread : ExecuteAllocate(t) \/ ExecuteReallocate(t) \/ ExecuteFree(t)
    BY <1>3, ExecuteAccounting
  <1>4. CASE Patrol
    BY <1>4, PatrolAccounting
  <1>5. CASE StartSignal \/ OtherProcessStarts
    <2>1. UNCHANGED <<tableVars, heap, clock, fault, asked, call>>
      BY <1>5 DEF StartSignal, OtherProcessStarts, appVars
    <2>2. PatrolTypeOK'
      BY <1>5 DEF StartSignal, OtherProcessStarts, Accounting, TypeOK, PatrolTypeOK, WatchState
    <2>3. TableAccounting'
      BY <2>1, TableUnchanged DEF Accounting
    <2>. QED  BY <2>1, <2>2, <2>3 DEF Accounting, TypeOK, TableAccounting
  <1>6. CASE Tick
    <2>1. UNCHANGED <<tableVars, heap, fault, patrolVars, asked, call>> /\ clock' = clock + 1
      BY <1>6 DEF Tick, appVars
    <2>2. PatrolTypeOK'
      BY <2>1, PatrolUnchanged DEF Accounting, TypeOK
    <2>3. TableTypeOK'
      BY <2>1 DEF Accounting, TableAccounting, TableTypeOK, tableVars
    <2>4. TableAccounting'
      BY <2>1, <2>3, CountersUntouched DEF Accounting, tableVars
    <2>. QED  BY <2>1, <2>2, <2>4 DEF Accounting, TypeOK, TableAccounting
  <1>. QED  BY <1>1, <1>2, <1>3, <1>4, <1>5, <1>6 DEF Next, Dead

-----------------------------------------------------------------------------
(* The theorems.                                                           *)

\* The accounting invariant holds in every reachable state, whatever threads,
\* the patrol thread and other processes do.
THEOREM AccountingInvariant == Spec => []Accounting
  BY InitAccounting, StepAccounting, PTL DEF Spec

\* Type correctness of allocation-table.h's state: in particular no counter
\* of WatchedStackTraceInfo is ever decremented below zero.
THEOREM TypeCorrect == Spec => []TypeOK
  <1>1. Accounting => TypeOK
    BY DEF Accounting
  <1>. QED  BY <1>1, AccountingInvariant, PTL

\* needsMoreCloselyWatchedAllocations() and the updates under m_mutex keep the
\* closely watched blocks within ALLOC_MAX_CLOSELY_WATCHED for each trace and
\* ALLOC_GLOBAL_MAX_CLOSELY_WATCHED for all, other processes or not.
THEOREM LimitsHold == Spec => []LimitsRespected
  <1>1. Accounting => LimitsRespected
    <2>. SUFFICES ASSUME Accounting PROVE LimitsRespected
      OBVIOUS
    <2>1. TableTypeOK /\ CountersCoverTable /\ CountersWithinLimits
      BY DEF Accounting, TableAccounting
    <2>2. WatchedBlocks = Keys(m_closely)
      BY DEF WatchedBlocks, Keys
    <2>3. Cardinality(WatchedBlocks) <= GlobalMaxLiveCloselyWatchedAllocations
      BY <2>1, <2>2, KeysFinite, LimitsAssumption
      DEF CountersCoverTable, CountersWithinLimits, TableTypeOK
    <2>4. ASSUME NEW p \in InfoKey
          PROVE  Cardinality(WatchedBlocksOf(p)) <= MaxLiveCloselyWatchedAllocationsPerTrace
      <3>1. WatchedBlocksOf(p) = KeysFor(m_closely, p)
        BY DEF WatchedBlocksOf, WatchedBlocks, KeysFor
      <3>2. Cardinality(KeysFor(m_closely, p)) \in Nat
        BY KeysFinite
      <3>3. m_infos[p].live \in Nat
        BY <2>1 DEF TableTypeOK, WatchedStackTraceInfo
      <3>. QED  BY <2>1, <3>1, <3>2, <3>3, LimitsAssumption
                DEF CountersCoverTable, CountersWithinLimits
    <2>. QED  BY <2>3, <2>4 DEF LimitsRespected
  <1>. QED  BY <1>1, AccountingInvariant, PTL

\* No sample of a stack trace is counted twice as ended: leaked and live
\* samples together never exceed the samples created, so that
\* countFinishedWatchedAllocations() never wraps and leakRatio() is a ratio.
THEOREM SamplesEndOnceAlways == Spec => []SamplesEndOnce
  <1>1. Accounting => SamplesEndOnce
    BY DEF Accounting, TableAccounting
  <1>. QED  BY <1>1, AccountingInvariant, PTL

-----------------------------------------------------------------------------
(* Verdicts stand: the counts behind hasLeaks() only ever grow.            *)

Later(info, new) ==
    /\ new.leaked >= info.leaked
    /\ countFinishedWatchedAllocations(new) >= countFinishedWatchedAllocations(info)

InfosLater == \A p \in InfoKey : Later(m_infos[p], m_infos'[p])

\* None of the table's four updates makes a count behind hasLeaks() smaller.
LEMMA UpdatesAreLater ==
  ASSUME NEW info \in WatchedStackTraceInfo, NEW size \in Nat
  PROVE  /\ Later(info, info)
         /\ Later(info, countSkipped(info))
         /\ Later(info, countWatched(info))
         /\ Later(info, countFreed(info))
         /\ Later(info, countLeaked(info, size))
  BY DEF WatchedStackTraceInfo, Later, countFinishedWatchedAllocations, countSkipped,
         countWatched, countFreed, countLeaked

\* Updating the statistics of one trace leaves the others as they were.
LEMMA OneUpdateIsLater ==
  ASSUME TableTypeOK, NEW key \in InfoKey, NEW new,
         m_infos' = [m_infos EXCEPT ![key] = new], Later(m_infos[key], new)
  PROVE  InfosLater
  <1>. SUFFICES ASSUME NEW p \in InfoKey PROVE Later(m_infos[p], m_infos'[p])
    BY DEF InfosLater
  <1>1. m_infos[p] \in WatchedStackTraceInfo /\ DOMAIN m_infos = InfoKey
    BY DEF TableTypeOK
  <1>2. CASE p = key
    BY <1>1, <1>2
  <1>3. CASE p # key
    <2>1. m_infos'[p] = m_infos[p]
      BY <1>1, <1>3
    <2>. QED  BY <1>1, <2>1, UpdatesAreLater
  <1>. QED  BY <1>2, <1>3

\* The statistics of a step that does not touch them are no earlier.
LEMMA SameIsLater ==
  ASSUME TableTypeOK, UNCHANGED m_infos
  PROVE  InfosLater
  <1>1. \A p \in InfoKey : m_infos[p] \in WatchedStackTraceInfo
    BY DEF TableTypeOK
  <1>. QED  BY <1>1, UpdatesAreLater DEF InfosLater

\* In every step of the process, the leaks and the finished samples of each
\* trace stay or grow.
LEMMA StepIsLater ==
  ASSUME Accounting, [Next]_vars
  PROVE  InfosLater
  <1>1. /\ TypeOK /\ TableTypeOK /\ m_infos \in [InfoKey -> WatchedStackTraceInfo]
        /\ call \in [Thread -> Call] /\ m_closely \in [Address -> Records]
    BY DEF Accounting, TypeOK, TableTypeOK, Records
  <1>2. CASE UNCHANGED m_infos
    BY <1>1, <1>2, SameIsLater
  <1>3. ASSUME NEW t \in Thread, ExecuteAllocate(t), m_infos' # m_infos  PROVE InfosLater
    <2>1. PICK memory : instrumentedAllocate(call[t].size, call[t].trace, memory)
      BY <1>3 DEF ExecuteAllocate, tableVars
    <2>2. call[t].size \in Size /\ call[t].trace \in StackTrace
      BY <1>1, <1>3, CallTypes DEF ExecuteAllocate
    <2>. DEFINE key == <<FingerprintOf[call[t].trace][call[t].size], call[t].trace>>
    <2>3. key \in InfoKey
      BY <2>2, TableAssumption DEF InfoKey
    <2>4. \/ m_infos' = [m_infos EXCEPT ![key] = countSkipped(m_infos[key])]
          \/ m_infos' = [m_infos EXCEPT ![key] = countWatched(m_infos[key])]
      BY <1>3, <2>1 DEF instrumentedAllocate, allocateLight, allocateSkipped, allocateCloselyWatched
    <2>. HIDE DEF key
    <2>5. m_infos[key] \in WatchedStackTraceInfo
      BY <1>1, <2>3
    <2>6. Later(m_infos[key], countSkipped(m_infos[key])) /\ Later(m_infos[key], countWatched(m_infos[key]))
      BY <2>5, UpdatesAreLater
    <2>. QED  BY <1>1, <2>3, <2>4, <2>6, OneUpdateIsLater
  <1>4. ASSUME NEW t \in Thread, ExecuteFree(t), m_infos' # m_infos  PROVE InfosLater
    <2>1. PICK memory : instrumentedFree(call[t].memory, memory)
      BY <1>4 DEF ExecuteFree, tableVars
    <2>2. call[t].memory \in Address
      BY <1>1, <1>4, CallTypes DEF ExecuteFree
    <2>. DEFINE key == m_closely[call[t].memory].info
    <2>3. /\ m_infos' = [m_infos EXCEPT ![key] = countFreed(m_infos[key])]
          /\ m_closely[call[t].memory] # NoRecord
      BY <1>4, <2>1 DEF instrumentedFree, freeLight, freeClosely, freeUntracked
    <2>4. key \in InfoKey
      BY <1>1, <2>2, <2>3 DEF Records, CloselyWatchedAllocation
    <2>. HIDE DEF key
    <2>5. Later(m_infos[key], countFreed(m_infos[key]))
      BY <1>1, <2>4, UpdatesAreLater
    <2>. QED  BY <1>1, <2>3, <2>4, <2>5, OneUpdateIsLater
  <1>5. ASSUME Patrol, m_infos' # m_infos  PROVE InfosLater
    <2>1. PICK a \in Expired(m_closely, patrolNow) : declareLeak(a)
      BY <1>5 DEF Patrol, patrolStep, patrolAutoStart, patrolWake, patrolLock, patrolExpireLight,
                  expireLight, patrolLightDone, patrolBecomeSuspicious, becomeSuspicious,
                  patrolDeclareLeak, patrolUnlock, patrolAnnounce, patrolReport, tableVars
    <2>2. a \in Address /\ m_closely[a] # NoRecord
      BY <1>1, <2>1 DEF Expired
    <2>. DEFINE key == m_closely[a].info
                new == countLeaked(m_infos[key], m_closely[a].requestedSize)
    <2>3. key \in InfoKey /\ m_closely[a].requestedSize \in Nat
      BY <1>1, <2>2 DEF Records, CloselyWatchedAllocation
    <2>4. m_infos' = [m_infos EXCEPT ![key] = new]
      BY <2>1 DEF declareLeak
    <2>. HIDE DEF key
    <2>5. Later(m_infos[key], new)
      BY <1>1, <2>3, UpdatesAreLater
    <2>. HIDE DEF new
    <2>. QED  BY <1>1, <2>3, <2>4, <2>5, OneUpdateIsLater
  <1>6. ASSUME m_infos' # m_infos
        PROVE  \/ \E t \in Thread : ExecuteAllocate(t) \/ ExecuteFree(t)
               \/ Patrol
    BY <1>6 DEF Next, vars, tableVars, appVars, EnterAllocate, EnterReallocate, EnterFree,
                EnterReallocateToZero, Enter, ExecuteReallocate, instrumentedReallocate,
                StartSignal, OtherProcessStarts, Tick, Dead
  <1>. QED  BY <1>2, <1>3, <1>4, <1>5, <1>6

\* hasLeaks() never takes a verdict back: a leaky trace stays leaky and an
\* innocent one never needs samples again for want of them.
THEOREM VerdictsStandAlways == Spec => VerdictsStand
  <1>1. ASSUME Accounting, [Next]_vars
        PROVE  \A p \in InfoKey :
                  /\ hasLeaks(m_infos[p]) = "True" => hasLeaks(m_infos'[p]) = "True"
                  /\ hasLeaks(m_infos[p]) = "False" => hasLeaks(m_infos'[p]) # "Unknown"
    <2>. SUFFICES ASSUME NEW p \in InfoKey
                  PROVE  /\ hasLeaks(m_infos[p]) = "True" => hasLeaks(m_infos'[p]) = "True"
                         /\ hasLeaks(m_infos[p]) = "False" => hasLeaks(m_infos'[p]) # "Unknown"
      OBVIOUS
    <2>1. Later(m_infos[p], m_infos'[p])
      BY <1>1, StepIsLater DEF InfosLater
    <2>2. Accounting'
      BY <1>1, StepAccounting
    <2>3. m_infos[p] \in WatchedStackTraceInfo /\ m_infos'[p] \in WatchedStackTraceInfo
      BY <1>1, <2>2 DEF Accounting, TypeOK, TableTypeOK
    <2>. QED  BY <2>1, <2>3, LimitsAssumption
              DEF Later, hasLeaks, countFinishedWatchedAllocations, WatchedStackTraceInfo
  <1>. QED  BY <1>1, AccountingInvariant, PTL DEF Spec, VerdictsStand

(***************************************************************************)
(* The life of a sample: a closely watched block, from the allocation that *)
(* is sampled to the end that is counted.                                  *)
(***************************************************************************)

-----------------------------------------------------------------------------
(* What a step can do to the watched records and to their counts.          *)

InfosUpdated(key, new) == m_infos' = [m_infos EXCEPT ![key] = new]

SameCounts ==
    /\ allTraces' = allTraces
    /\ \A p \in InfoKey : /\ m_infos'[p].live = m_infos[p].live
                          /\ m_infos'[p].created = m_infos[p].created
                          /\ m_infos'[p].leaked = m_infos[p].leaked

newSample(size, key) ==
    [requestedSize |-> uint32(size), deadline |-> clock + TimeForAllocationToBecomeSuspicious,
     state |-> "NotYetSuspicious", allocationTime |-> clock, info |-> key]

SampleAdded(a, size, key) ==
    /\ heap[a] = NotLive
    /\ needsMoreCloselyWatchedAllocations(m_infos[key], allTraces)
    /\ m_closely' = [m_closely EXCEPT ![a] = newSample(size, key)]
    /\ InfosUpdated(key, countWatched(m_infos[key]))
    /\ allTraces' = allTraces + 1

SampleFreed(a) ==
    /\ m_closely[a] # NoRecord
    /\ m_closely' = [m_closely EXCEPT ![a] = NoRecord]
    /\ InfosUpdated(m_closely[a].info, countFreed(m_infos[m_closely[a].info]))
    /\ allTraces' = allTraces - 1

SampleMoved(a, b, size) ==
    /\ m_closely[a] # NoRecord
    /\ heap[b] = NotLive
    /\ m_closely' = moved(m_closely, a, b, [m_closely[a] EXCEPT !.requestedSize = uint32(size)])
    /\ SameCounts

SampleResized(a, size) ==
    /\ m_closely[a] # NoRecord
    /\ m_closely' = [m_closely EXCEPT ![a].requestedSize = uint32(size)]
    /\ SameCounts

SampleSuspected(a) ==
    /\ a \in Expired(m_closely, patrolNow)
    /\ becomeSuspicious(a, patrolNow)

SampleLeaked(a) ==
    /\ a \in Expired(m_closely, patrolNow)
    /\ declareLeak(a)

\* What a body of a call, by its thread, does to the samples.
CalledOnSamples(t) ==
    \/ UNCHANGED m_closely /\ SameCounts
    \/ \E a \in Address, size \in Size, key \in InfoKey : SampleAdded(a, size, key)
    \/ /\ call[t].memory \in Address
       /\ \/ SampleFreed(call[t].memory)
          \/ \E b \in Address, size \in Size : SampleMoved(call[t].memory, b, size)
          \/ \E size \in Size : SampleResized(call[t].memory, size)

\* The three bodies, whichever path they take.
LEMMA ExecuteOnSamples ==
  ASSUME Accounting, NEW t \in Thread,
         ExecuteAllocate(t) \/ ExecuteReallocate(t) \/ ExecuteFree(t)
  PROVE  CalledOnSamples(t) /\ (m_closely' # m_closely => fault' = "none")
  <1>1. TypeOK /\ TableTypeOK /\ m_infos \in [InfoKey -> WatchedStackTraceInfo] /\ fault = "none"
    BY DEF Accounting, TypeOK, TableTypeOK, ExecuteAllocate, ExecuteReallocate, ExecuteFree, Alive
  <1>2. CASE UNCHANGED <<m_closely, m_infos, allTraces>>
    BY <1>2 DEF CalledOnSamples, SameCounts
  <1>3. CASE ExecuteAllocate(t)
    <2>1. PICK memory \in Answers(t) :
             IF instrumented(t)
             THEN mutexIsFree /\ instrumentedAllocate(call[t].size, call[t].trace, memory)
             ELSE RealAllocate(call[t].size, memory) /\ UNCHANGED <<tableVars, fault>>
      BY <1>3 DEF ExecuteAllocate
    <2>2. /\ call[t].size \in Size /\ call[t].size \in Nat /\ call[t].trace \in StackTrace
          /\ memory \in Address \cup {NULL}
      BY <1>1, <1>3, CallTypes DEF ExecuteAllocate, Answers
    <2>. DEFINE key == <<FingerprintOf[call[t].trace][call[t].size], call[t].trace>>
    <2>3. key \in InfoKey
      BY <2>2, TableAssumption DEF InfoKey
    <2>4. CASE allocateSkipped(call[t].size, call[t].trace, memory)
      <3>1. /\ UNCHANGED <<m_closely, allTraces>>
            /\ m_infos' = [m_infos EXCEPT ![key] = countSkipped(@)]
        BY <2>4 DEF allocateSkipped
      <3>. HIDE DEF key
      <3>2. SameCounts
        BY <1>1, <2>3, <3>1 DEF SameCounts, countSkipped, WatchedStackTraceInfo
      <3>. QED  BY <3>1, <3>2 DEF CalledOnSamples
    <2>5. CASE allocateCloselyWatched(call[t].size, call[t].trace, memory) /\ memory # NULL
      <3>1. /\ memory \in Address /\ heap[memory] = NotLive /\ fault' = fault
            /\ needsMoreCloselyWatchedAllocations(m_infos[key], allTraces)
            /\ m_infos' = [m_infos EXCEPT ![key] = countWatched(m_infos[key])]
            /\ allTraces' = allTraces + 1
            /\ m_closely' = [m_closely EXCEPT ![memory] = newSample(call[t].size, key)]
        BY <2>2, <2>5 DEF allocateCloselyWatched, RealAllocate, newSample
      <3>. HIDE DEF key
      <3>2. SampleAdded(memory, call[t].size, key)
        BY <3>1 DEF SampleAdded, InfosUpdated
      <3>. QED  BY <1>1, <2>2, <2>3, <3>1, <3>2 DEF CalledOnSamples
    <2>6. CASE allocateLight(call[t].size, call[t].trace, memory)
      BY <1>2, <2>6 DEF allocateLight
    <2>7. CASE allocateCloselyWatched(call[t].size, call[t].trace, memory) /\ memory = NULL
      BY <1>2, <2>7 DEF allocateCloselyWatched
    <2>. QED  BY <1>2, <2>1, <2>4, <2>5, <2>6, <2>7 DEF instrumentedAllocate, tableVars
  <1>4. CASE ExecuteReallocate(t)
    <2>1. PICK memory \in Answers(t) :
             IF instrumented(t)
             THEN mutexIsFree /\ instrumentedReallocate(call[t].memory, call[t].size, memory)
             ELSE /\ RealReallocate(call[t].memory, call[t].size, memory)
                  /\ UNCHANGED <<tableVars, fault>>
      BY <1>4 DEF ExecuteReallocate
    <2>2. call[t].memory \in Address /\ call[t].size \in Size /\ memory \in Address \cup {NULL}
      BY <1>1, <1>4, CallTypes DEF ExecuteReallocate, Answers
    <2>3. UNCHANGED <<m_infos, allTraces>> /\ SameCounts
      BY <2>1 DEF instrumentedReallocate, tableVars, SameCounts
    <2>4. CASE reallocateCloselyMoved(call[t].memory, call[t].size, memory) /\ m_closely' # m_closely
      <3>1. SampleMoved(call[t].memory, memory, call[t].size) /\ memory \in Address /\ fault' = fault
        BY <2>2, <2>3, <2>4 DEF reallocateCloselyMoved, RealAllocate, SampleMoved
      <3>. QED  BY <1>1, <2>2, <3>1 DEF CalledOnSamples
    <2>5. CASE reallocateCloselyInPlace(call[t].memory, call[t].size, memory)
      BY <1>1, <2>2, <2>3, <2>5 DEF reallocateCloselyInPlace, SampleResized, CalledOnSamples
    <2>6. CASE m_closely' = m_closely
      BY <1>2, <2>3, <2>6
    <2>. QED  BY <2>1, <2>4, <2>5, <2>6
              DEF instrumentedReallocate, tableVars, reallocateLight, reallocateUntracked
  <1>5. CASE ExecuteFree(t)
    <2>1. PICK memory \in Answers(t) :
             IF instrumented(t)
             THEN mutexIsFree /\ instrumentedFree(call[t].memory, memory)
             ELSE RealFree(call[t].memory, memory) /\ UNCHANGED <<tableVars, fault>>
      BY <1>5 DEF ExecuteFree
    <2>0. call[t].memory \in Address
      BY <1>1, <1>5, CallTypes DEF ExecuteFree
    <2>2. CASE freeClosely(call[t].memory)
      BY <1>1, <2>0, <2>1, <2>2
      DEF freeClosely, SampleFreed, InfosUpdated, CalledOnSamples, instrumentedFree, tableVars
    <2>. QED  BY <1>2, <2>1, <2>2 DEF instrumentedFree, freeLight, freeUntracked, tableVars
  <1>. QED  BY <1>3, <1>4, <1>5

\* The steps of the patrol thread.
LEMMA PatrolOnSamples ==
  ASSUME Accounting, Patrol
  PROVE  \/ UNCHANGED m_closely /\ SameCounts
         \/ patrolBecomeSuspicious /\ \E a \in Address : SampleSuspected(a)
         \/ patrolDeclareLeak /\ \E a \in Address : SampleLeaked(a)
  <1>1. m_closely \in [Address -> Records]
    BY DEF Accounting, TypeOK, TableTypeOK, Records
  <1>2. CASE patrolBecomeSuspicious
    BY <1>1, <1>2 DEF patrolBecomeSuspicious, SampleSuspected, Expired
  <1>3. CASE patrolDeclareLeak
    BY <1>1, <1>3 DEF patrolDeclareLeak, SampleLeaked, Expired
  <1>4. CASE ~ patrolBecomeSuspicious /\ ~ patrolDeclareLeak
    BY <1>4 DEF Patrol, patrolStep, patrolAutoStart, patrolWake, patrolLock, patrolExpireLight,
                expireLight, patrolLightDone, patrolUnlock, patrolAnnounce, patrolReport,
                tableVars, SameCounts
  <1>. QED  BY <1>2, <1>3, <1>4

\* Any step: the samples change in a body of a call or in the patrol scan.
LEMMA StepOnSamples ==
  ASSUME Accounting, [Next]_vars
  PROVE  \/ UNCHANGED m_closely /\ SameCounts
         \/ \E t \in Thread : /\ ExecuteAllocate(t) \/ ExecuteReallocate(t) \/ ExecuteFree(t)
                              /\ CalledOnSamples(t)
         \/ Patrol /\ patrolBecomeSuspicious /\ \E a \in Address : SampleSuspected(a)
         \/ Patrol /\ patrolDeclareLeak /\ \E a \in Address : SampleLeaked(a)
  <1>1. CASE \E t \in Thread : ExecuteAllocate(t) \/ ExecuteReallocate(t) \/ ExecuteFree(t)
    BY <1>1, ExecuteOnSamples
  <1>2. CASE Patrol
    BY <1>2, PatrolOnSamples
  <1>3. CASE ~ Patrol /\ ~ \E t \in Thread : ExecuteAllocate(t) \/ ExecuteReallocate(t) \/ ExecuteFree(t)
    <2>1. UNCHANGED tableVars
      BY <1>3 DEF Next, vars, EnterAllocate, EnterReallocate, EnterFree, EnterReallocateToZero,
                  Enter, StartSignal, OtherProcessStarts, Tick, Dead
    <2>. QED  BY <2>1 DEF tableVars, SameCounts
  <1>. QED  BY <1>1, <1>2, <1>3

-----------------------------------------------------------------------------
(* The age of a sample.                                                    *)

\* The deadline of a record, in terms of the time of its allocation.
Ripens(record) ==
    LET ripe == record.allocationTime + TimeForAllocationToBecomeSuspicious IN
    /\ record.state = "NotYetSuspicious" => record.deadline >= ripe
    /\ record.state = "Suspicious" =>
          record.deadline > ripe + CloselyWatchedAllocationsAccessMaxInterval

\* "now" is never ahead of the clock, and every record ripens.
Ages ==
    /\ patrolNow <= clock
    /\ \A a \in Address : m_closely[a] # NoRecord => Ripens(m_closely[a])

\* The patrol thread's "now" is read from the clock and only grows older.
LEMMA NowIsPast ==
  ASSUME Accounting, Ages, [Next]_vars
  PROVE  patrolNow' <= clock'
  <1>1. patrolNow \in Nat /\ clock \in Nat /\ patrolNow <= clock
    BY DEF Accounting, TypeOK, TableTypeOK, PatrolTypeOK, Ages
  <1>2. CASE Patrol
    <2>1. clock' = clock /\ patrolNow' \in {patrolNow, clock, 0}
      BY <1>2 DEF Patrol, patrolStep, patrolAutoStart, patrolWake, patrolLock, patrolExpireLight,
                  patrolLightDone, patrolBecomeSuspicious, patrolDeclareLeak, patrolUnlock,
                  patrolAnnounce, patrolReport, patrolVars
    <2>. QED  BY <1>1, <2>1
  <1>3. CASE ~ Patrol
    <2>1. patrolNow' = patrolNow /\ clock' \in {clock, clock + 1}
      BY <1>3 DEF Next, vars, EnterAllocate, EnterReallocate, EnterFree, EnterReallocateToZero,
                  Enter, ExecuteAllocate, ExecuteReallocate, ExecuteFree, StartSignal,
                  OtherProcessStarts, Tick, Dead, patrolVars
    <2>. QED  BY <1>1, <2>1
  <1>. QED  BY <1>2, <1>3

\* A record ripens from its allocation on, also when it moves or is resized,
\* and becoming suspicious gives it the second interval.
LEMMA RecordsRipen ==
  ASSUME Accounting, Ages, [Next]_vars
  PROVE  \A a \in Address : m_closely'[a] # NoRecord => Ripens(m_closely'[a])
  <1>1. /\ m_closely \in [Address -> Records] /\ clock \in Nat /\ patrolNow \in Nat
        /\ \A a \in Address : m_closely[a] # NoRecord => Ripens(m_closely[a])
    BY DEF Accounting, TypeOK, TableTypeOK, PatrolTypeOK, Records, Ages
  <1>2. CASE UNCHANGED m_closely
    BY <1>1, <1>2
  <1>3. ASSUME NEW a \in Address, NEW size \in Nat, NEW key \in InfoKey, SampleAdded(a, size, key)
        PROVE  \A b \in Address : m_closely'[b] # NoRecord => Ripens(m_closely'[b])
    <2>1. Ripens(newSample(size, key))
      BY <1>1, TableAssumption DEF Ripens, newSample
    <2>. QED  BY <1>1, <1>3, <2>1 DEF SampleAdded
  <1>4. ASSUME NEW a \in Address, m_closely[a] # NoRecord, NEW size \in Nat
        PROVE  Ripens([m_closely[a] EXCEPT !.requestedSize = uint32(size)])
    BY <1>1, <1>4 DEF Ripens, Records, CloselyWatchedAllocation
  <1>5. ASSUME NEW t \in Thread, CalledOnSamples(t)
        PROVE  \A a \in Address : m_closely'[a] # NoRecord => Ripens(m_closely'[a])
    <2>1. CASE SampleFreed(call[t].memory)
      BY <1>1, <2>1 DEF SampleFreed
    <2>2. ASSUME call[t].memory \in Address, NEW b \in Address, NEW size \in Nat,
                 SampleMoved(call[t].memory, b, size)
          PROVE  \A a \in Address : m_closely'[a] # NoRecord => Ripens(m_closely'[a])
      <3>. DEFINE record == [m_closely[call[t].memory] EXCEPT !.requestedSize = uint32(size)]
      <3>1. Ripens(record) /\ m_closely' = moved(m_closely, call[t].memory, b, record)
        BY <1>4, <2>2 DEF SampleMoved
      <3>. HIDE DEF record
      <3>. QED  BY <1>1, <2>2, <3>1 DEF moved
    <2>3. ASSUME call[t].memory \in Address, NEW size \in Nat, SampleResized(call[t].memory, size)
          PROVE  \A a \in Address : m_closely'[a] # NoRecord => Ripens(m_closely'[a])
      BY <1>1, <1>4, <2>3 DEF SampleResized
    <2>. QED  BY <1>2, <1>3, <1>5, <2>1, <2>2, <2>3, TableAssumption DEF CalledOnSamples
  <1>6. ASSUME NEW a \in Address, SampleSuspected(a)
        PROVE  \A b \in Address : m_closely'[b] # NoRecord => Ripens(m_closely'[b])
    <2>1. /\ m_closely[a] # NoRecord /\ m_closely[a].deadline < patrolNow
          /\ m_closely[a] \in CloselyWatchedAllocation
          /\ m_closely[a].state = "NotYetSuspicious"
      BY <1>1, <1>6 DEF SampleSuspected, Expired, becomeSuspicious, Records
    <2>2. m_closely' = [m_closely EXCEPT
              ![a].state = "Suspicious",
              ![a].deadline = patrolNow + CloselyWatchedAllocationsAccessMaxInterval]
      BY <1>6 DEF SampleSuspected, becomeSuspicious
    <2>3. /\ m_closely'[a].state = "Suspicious"
          /\ m_closely'[a].deadline = patrolNow + CloselyWatchedAllocationsAccessMaxInterval
          /\ m_closely'[a].allocationTime = m_closely[a].allocationTime
      BY <1>1, <2>1, <2>2 DEF CloselyWatchedAllocation
    <2>4. /\ m_closely[a].allocationTime \in Nat /\ m_closely[a].deadline \in Nat
          /\ m_closely[a].deadline >= m_closely[a].allocationTime + TimeForAllocationToBecomeSuspicious
      BY <1>1, <2>1 DEF CloselyWatchedAllocation, Ripens
    <2>5. Ripens(m_closely'[a])
      BY <1>1, <2>1, <2>3, <2>4, TableAssumption DEF Ripens
    <2>6. \A b \in Address : b # a => m_closely'[b] = m_closely[b]
      BY <1>1, <2>2
    <2>. QED  BY <1>1, <2>5, <2>6
  <1>7. ASSUME NEW a \in Address, SampleLeaked(a)
        PROVE  \A b \in Address : m_closely'[b] # NoRecord => Ripens(m_closely'[b])
    BY <1>1, <1>7 DEF SampleLeaked, declareLeak
  <1>. QED  BY <1>2, <1>5, <1>6, <1>7, StepOnSamples

\* Every step keeps the ages, from the start on.
LEMMA AgesInvariant == Spec => [](Accounting /\ Ages)
  <1>1. Init => Ages
    BY DEF Init, TableInit, PatrolInit, Ages
  <1>2. Accounting /\ Ages /\ [Next]_vars => (Accounting /\ Ages)'
    <2>. SUFFICES ASSUME Accounting, Ages, [Next]_vars PROVE (Accounting /\ Ages)'
      OBVIOUS
    <2>1. Ages'
      BY NowIsPast, RecordsRipen DEF Ages
    <2>. QED  BY <2>1, StepAccounting
  <1>. QED  BY <1>1, <1>2, InitAccounting, PTL DEF Spec

-----------------------------------------------------------------------------
(* Innocence.                                                              *)

\* One end of a sample: it was counted live, and the samples ever created
\* stay as they are.
LEMMA EndedWasLive ==
  ASSUME Accounting, NEW a \in Address, SampleFreed(a) \/ SampleLeaked(a), NEW p \in InfoKey
  PROVE  \/ m_infos'[p] = m_infos[p]
         \/ m_infos[p].live >= 1 /\ m_infos'[p].created = m_infos[p].created
  <1>1. /\ TableAccounting /\ m_infos \in [InfoKey -> WatchedStackTraceInfo]
        /\ m_closely \in [Address -> Records]
    BY DEF Accounting, TypeOK, TableTypeOK, Records
  <1>2. m_closely[a] # NoRecord
    BY <1>1 DEF SampleFreed, SampleLeaked, Expired
  <1>3. PICK key \in InfoKey : key = m_closely[a].info
    BY <1>1, <1>2, WatchedIsCounted
  <1>4. /\ m_infos[key] \in WatchedStackTraceInfo /\ m_infos[key].live >= 1
        /\ m_closely[a].requestedSize \in Nat
    BY <1>1, <1>2, <1>3, WatchedIsCounted DEF CloselyWatchedAllocation
  <1>5. PICK info : /\ m_infos' = [m_infos EXCEPT ![key] = info]
                    /\ info.created = m_infos[key].created
    <2>1. CASE SampleFreed(a)
      BY <1>3, <1>4, <2>1, CountFreed DEF SampleFreed, InfosUpdated
    <2>2. CASE SampleLeaked(a)
      <3>1. PICK size \in Nat : size = m_closely[a].requestedSize
        BY <1>4
      <3>2. m_infos' = [m_infos EXCEPT ![key] = countLeaked(m_infos[key], size)]
        BY <1>3, <2>2, <3>1 DEF SampleLeaked, declareLeak
      <3>3. countLeaked(m_infos[key], size).created = m_infos[key].created
        BY <1>4, CountLeaked
      <3>. QED  BY <3>2, <3>3
    <2>. QED  BY <2>1, <2>2
  <1>. QED  BY <1>1, <1>3, <1>4, <1>5

\* An innocent trace gets no more samples, and stays innocent once its last
\* sample has ended: what the documentation promises, but for the samples that
\* are live when the verdict falls.  (The run innocent shows one of them.)
THEOREM InnocentTracesAreLeftAloneAlways == Spec => InnocentTracesAreLeftAlone
  <1>1. ASSUME Accounting, [Next]_vars, NEW p \in InfoKey, hasLeaks(m_infos[p]) = "False"
        PROVE  /\ m_infos'[p].created = m_infos[p].created
               /\ m_infos[p].live = 0 => m_infos'[p].live = 0 /\ hasLeaks(m_infos'[p]) = "False"
    <2>1. m_infos \in [InfoKey -> WatchedStackTraceInfo]
      BY <1>1 DEF Accounting, TypeOK, TableTypeOK
    <2>2. CASE SameCounts
      BY <1>1, <2>2 DEF SameCounts, hasLeaks, countFinishedWatchedAllocations
    <2>3. CASE m_infos'[p] = m_infos[p]
      BY <1>1, <2>3
    <2>4. ASSUME NEW a \in Address, NEW size \in Size, NEW key \in InfoKey, SampleAdded(a, size, key)
          PROVE  m_infos'[p] = m_infos[p]
      <3>1. /\ hasLeaks(m_infos[key]) # "False"
            /\ m_infos' = [m_infos EXCEPT ![key] = countWatched(m_infos[key])]
        BY <2>4 DEF SampleAdded, InfosUpdated, needsMoreCloselyWatchedAllocations
      <3>. QED  BY <1>1, <2>1, <3>1
    <2>5. ASSUME NEW a \in Address, SampleFreed(a) \/ SampleLeaked(a)
          PROVE  m_infos'[p] = m_infos[p] \/
                 (m_infos[p].live # 0 /\ m_infos'[p].created = m_infos[p].created)
      <3>1. \/ m_infos'[p] = m_infos[p]
            \/ m_infos[p].live >= 1 /\ m_infos'[p].created = m_infos[p].created
        BY <1>1, <2>5, EndedWasLive
      <3>. QED  BY <2>1, <3>1 DEF WatchedStackTraceInfo
    <2>6. CASE \E a \in Address : SampleFreed(a) \/ SampleLeaked(a)
      BY <2>3, <2>5, <2>6
    <2>7. CASE \E a \in Address : SampleSuspected(a)
      BY <2>3, <2>7 DEF SampleSuspected, becomeSuspicious
    <2>8. ASSUME NEW t \in Thread, CalledOnSamples(t)
          PROVE  \/ SameCounts \/ m_infos'[p] = m_infos[p]
                 \/ \E a \in Address : SampleFreed(a) \/ SampleLeaked(a)
      BY <2>4, <2>8 DEF CalledOnSamples, SampleMoved, SampleResized
    <2>. QED  BY <1>1, <2>2, <2>3, <2>6, <2>7, <2>8, StepOnSamples
  <1>2. ASSUME Accounting, [Next]_vars
        PROVE  \A p \in InfoKey : hasLeaks(m_infos[p]) = "False" =>
                  /\ m_infos'[p].created = m_infos[p].created
                  /\ m_infos[p].live = 0 => m_infos'[p].live = 0 /\ hasLeaks(m_infos'[p]) = "False"
    BY <1>1, <1>2
  <1>. QED  BY <1>2, AccountingInvariant, PTL DEF Spec, InnocentTracesAreLeftAlone

-----------------------------------------------------------------------------
(* Leaks that are counted and leaks that are announced.                    *)

LeakyTrace(s) == \E f \in Fingerprint : m_infos[<<f, s>>].leaked > 0

Found(s) == \E leak \in foundLeaks : leak.stackTrace = s

\* A trace has leaks exactly if it was announced, or is about to be: what a
\* scan found is kept until it is announced.
LeaksAreAnnounced ==
    /\ \A s \in StackTrace : LeakyTrace(s) <=> stackTraceToOccurrences[s] > 0 \/ Found(s)
    /\ foundLeaks # {} => patrolPc \in {"scanClosely", "announcing"}

\* Only the patrol scan counts leaks.
LEMMA OthersCountNoLeak ==
  ASSUME Accounting, [Next]_vars, ~ (Patrol /\ patrolDeclareLeak), NEW p \in InfoKey
  PROVE  m_infos'[p].leaked = m_infos[p].leaked
  <1>1. m_infos \in [InfoKey -> WatchedStackTraceInfo] /\ TableAccounting
    BY DEF Accounting, TypeOK, TableTypeOK
  <1>2. CASE SameCounts
    BY <1>2 DEF SameCounts
  <1>3. ASSUME NEW a \in Address, NEW size \in Nat, NEW key \in InfoKey, SampleAdded(a, size, key)
        PROVE  m_infos'[p].leaked = m_infos[p].leaked
    <2>1. m_infos' = [m_infos EXCEPT ![key] = countWatched(m_infos[key])]
      BY <1>3 DEF SampleAdded, InfosUpdated
    <2>2. countWatched(m_infos[key]).leaked = m_infos[key].leaked
      BY <1>1, CountWatched
    <2>. QED  BY <1>1, <2>1, <2>2
  <1>4. ASSUME NEW a \in Address, SampleFreed(a)
        PROVE  m_infos'[p].leaked = m_infos[p].leaked
    <2>. DEFINE key == m_closely[a].info
    <2>1. m_infos' = [m_infos EXCEPT ![key] = countFreed(m_infos[key])]
      BY <1>4 DEF SampleFreed, InfosUpdated
    <2>2. countFreed(m_infos[key]).leaked = m_infos[key].leaked
      BY <1>1, <1>4, WatchedIsCounted, CountFreed DEF SampleFreed
    <2>. HIDE DEF key
    <2>. QED  BY <1>1, <2>1, <2>2
  <1>5. ASSUME NEW a \in Address, SampleSuspected(a)
        PROVE  m_infos'[p].leaked = m_infos[p].leaked
    BY <1>5 DEF SampleSuspected, becomeSuspicious
  <1>. QED  BY <1>2, <1>3, <1>4, <1>5, TableAssumption, StepOnSamples
            DEF CalledOnSamples, SampleMoved, SampleResized

\* The scan that counts a leak also remembers its trace.
LEMMA DeclareLeakAnnounced ==
  ASSUME Accounting, LeaksAreAnnounced, patrolDeclareLeak
  PROVE  LeaksAreAnnounced'
  <1>1. PICK a \in Expired(m_closely, patrolNow) :
           /\ declareLeak(a)
           /\ foundLeaks' = foundLeaks \cup
                 {[stackTrace |-> m_closely[a].info[2], memory |-> a,
                   size |-> m_closely[a].requestedSize]}
    BY DEF patrolDeclareLeak
  <1>2. /\ TableAccounting /\ m_infos \in [InfoKey -> WatchedStackTraceInfo]
        /\ a \in Address /\ m_closely[a] # NoRecord
    BY DEF Accounting, TypeOK, TableTypeOK, Expired
  <1>. DEFINE key == m_closely[a].info
              new == countLeaked(m_infos[key], m_closely[a].requestedSize)
  <1>3. /\ key \in InfoKey /\ m_infos[key].leaked \in Nat
        /\ new.leaked = m_infos[key].leaked + 1
    BY <1>2, WatchedIsCounted, CountLeaked DEF CloselyWatchedAllocation, WatchedStackTraceInfo
  <1>4. m_infos' = [m_infos EXCEPT ![key] = new]
    BY <1>1 DEF declareLeak
  <1>5. key = <<key[1], key[2]>> /\ key[1] \in Fingerprint /\ key[2] \in StackTrace
    BY <1>3 DEF InfoKey
  <1>6. \A s \in StackTrace : Found(s)' <=> Found(s) \/ s = key[2]
    <2>. DEFINE leak == [stackTrace |-> key[2], memory |-> a, size |-> m_closely[a].requestedSize]
    <2>1. leak.stackTrace = key[2] /\ foundLeaks' = foundLeaks \cup {leak}
      BY <1>1
    <2>. HIDE DEF leak, key
    <2>. QED  BY <2>1 DEF Found
  <1>7. UNCHANGED <<patrolPc, stackTraceToOccurrences>> /\ patrolPc = "scanClosely"
    BY DEF patrolDeclareLeak
  <1>. HIDE DEF key, new
  <1>8. \A f \in Fingerprint, s \in StackTrace : <<f, s>> \in InfoKey
    BY DEF InfoKey
  <1>9. ASSUME NEW s \in StackTrace PROVE LeakyTrace(s)' <=> LeakyTrace(s) \/ s = key[2]
    <2>1. CASE s = key[2]
      <3>1. m_infos'[<<key[1], s>>].leaked > 0
        BY <1>2, <1>3, <1>4, <1>5, <2>1
      <3>. QED  BY <1>5, <2>1, <3>1 DEF LeakyTrace
    <2>2. CASE s # key[2]
      <3>1. \A f \in Fingerprint : <<f, s>> # key
        BY <1>5, <2>2
      <3>2. \A f \in Fingerprint : m_infos'[<<f, s>>] = m_infos[<<f, s>>]
        BY <1>2, <1>4, <1>8, <3>1
      <3>. QED  BY <2>2, <3>2 DEF LeakyTrace
    <2>. QED  BY <2>1, <2>2
  <1>. QED  BY <1>6, <1>7, <1>9 DEF LeaksAreAnnounced

\* occurrencesIn() counts at least one exactly for the traces that were found.
LEMMA OccurrencesCount ==
  ASSUME IsFiniteSet(foundLeaks), NEW s
  PROVE  occurrencesIn(foundLeaks, s) \in Nat /\ (occurrencesIn(foundLeaks, s) > 0 <=> Found(s))
  <1>. DEFINE mine == {leak \in foundLeaks : leak.stackTrace = s}
  <1>1. IsFiniteSet(mine)
    BY FS_Subset
  <1>2. Cardinality(mine) \in Nat /\ (Cardinality(mine) = 0 <=> mine = {})
    BY <1>1, FS_CardinalityType, FS_EmptySet
  <1>. QED  BY <1>2 DEF occurrencesIn, Found

\* The steps of the patrol thread between two scans.
LEMMA PatrolAnnounced ==
  ASSUME Accounting, LeaksAreAnnounced, Patrol
  PROVE  LeaksAreAnnounced'
  <1>1. CASE patrolDeclareLeak
    BY <1>1, DeclareLeakAnnounced
  <1>2. CASE ~ patrolDeclareLeak
    <2>1. \A s \in StackTrace : LeakyTrace(s)' <=> LeakyTrace(s)
      <3>1. \A f \in Fingerprint, s \in StackTrace :
                m_infos'[<<f, s>>].leaked = m_infos[<<f, s>>].leaked
        BY <1>2, OthersCountNoLeak DEF InfoKey, Next
      <3>. QED  BY <3>1 DEF LeakyTrace
    <2>2. CASE patrolAnnounce
      <3>1. /\ foundLeaks' = {} /\ stackTraceToOccurrences \in [StackTrace -> Nat]
            /\ IsFiniteSet(foundLeaks)
            /\ \A s \in StackTrace :
                  stackTraceToOccurrences'[s] = stackTraceToOccurrences[s] + occurrencesIn(foundLeaks, s)
        BY <2>2 DEF patrolAnnounce, Accounting, TypeOK, PatrolTypeOK
      <3>2. \A s \in StackTrace :
                stackTraceToOccurrences'[s] > 0 <=> stackTraceToOccurrences[s] > 0 \/ Found(s)
        BY <3>1, OccurrencesCount
      <3>. QED  BY <2>1, <3>1, <3>2 DEF LeaksAreAnnounced, Found
    <2>3. CASE ~ patrolAnnounce
      <3>1. /\ UNCHANGED stackTraceToOccurrences
            /\ foundLeaks' = foundLeaks
            /\ foundLeaks # {} => patrolPc' \in {"scanClosely", "announcing"}
        BY <1>2, <2>3
        DEF Patrol, patrolStep, patrolAutoStart, patrolWake, patrolLock, patrolExpireLight,
            patrolLightDone, patrolBecomeSuspicious, patrolUnlock, patrolReport, patrolVars,
            LeaksAreAnnounced
      <3>. QED  BY <2>1, <3>1 DEF LeaksAreAnnounced, Found
    <2>. QED  BY <2>2, <2>3
  <1>. QED  BY <1>1, <1>2

\* The leak report comes after the announcement.
LEMMA ReportAnnounced ==
  ASSUME Accounting, LeaksAreAnnounced, ReportedWasAnnounced, [Next]_vars
  PROVE  ReportedWasAnnounced'
  <1>1. stackTraceToOccurrences \in [StackTrace -> Nat] /\ leakReport \subseteq InfoKey
        /\ m_infos \in [InfoKey -> WatchedStackTraceInfo] /\ IsFiniteSet(foundLeaks)
    BY DEF Accounting, TypeOK, TableTypeOK, PatrolTypeOK
  <1>2. \A p \in InfoKey : p[2] \in StackTrace /\ p[1] \in Fingerprint /\ p = <<p[1], p[2]>>
    BY DEF InfoKey
  <1>3. CASE Patrol /\ patrolReport
    <2>1. foundLeaks = {} /\ leakReport' = patrolThreadMakeLeakReport
          /\ UNCHANGED stackTraceToOccurrences
      BY <1>3 DEF patrolReport, LeaksAreAnnounced
    <2>2. ASSUME NEW p \in leakReport' PROVE stackTraceToOccurrences[p[2]] > 0
      <3>1. p \in InfoKey /\ m_infos[p].leaked > 0
        BY <2>1, <2>2 DEF patrolThreadMakeLeakReport, hasLeaks
      <3>2. LeakyTrace(p[2])
        BY <1>2, <3>1 DEF LeakyTrace
      <3>. QED  BY <1>2, <2>1, <3>1, <3>2 DEF LeaksAreAnnounced, Found
    <2>. QED  BY <2>1, <2>2 DEF ReportedWasAnnounced
  <1>4. CASE Patrol /\ patrolAnnounce
    <2>1. UNCHANGED leakReport /\ \A s \in StackTrace :
              stackTraceToOccurrences'[s] = stackTraceToOccurrences[s] + occurrencesIn(foundLeaks, s)
      BY <1>4 DEF patrolAnnounce
    <2>2. \A s \in StackTrace : stackTraceToOccurrences[s] > 0 => stackTraceToOccurrences'[s] > 0
      BY <1>1, <2>1, OccurrencesCount
    <2>. QED  BY <1>1, <1>2, <2>1, <2>2 DEF ReportedWasAnnounced
  <1>5. CASE ~ (Patrol /\ patrolReport) /\ ~ (Patrol /\ patrolAnnounce)
    <2>1. UNCHANGED <<stackTraceToOccurrences, leakReport>>
      BY <1>5
      DEF Next, vars, EnterAllocate, EnterReallocate, EnterFree, EnterReallocateToZero,
          Enter, ExecuteAllocate, ExecuteReallocate, ExecuteFree, StartSignal,
          OtherProcessStarts, Tick, Dead, patrolVars, Patrol, patrolStep, patrolAutoStart,
          patrolWake, patrolLock, patrolExpireLight, patrolLightDone, patrolBecomeSuspicious,
          patrolDeclareLeak, patrolUnlock
    <2>. QED  BY <2>1 DEF ReportedWasAnnounced
  <1>. QED  BY <1>3, <1>4, <1>5

\* Every step keeps the announcements and the counts in step.
LEMMA AnnouncedInvariant == Spec => [](Accounting /\ LeaksAreAnnounced /\ ReportedWasAnnounced)
  <1>1. Init => LeaksAreAnnounced /\ ReportedWasAnnounced
    <2>. SUFFICES ASSUME Init PROVE LeaksAreAnnounced /\ ReportedWasAnnounced
      OBVIOUS
    <2>1. \A s \in StackTrace : ~ LeakyTrace(s)
      <3>1. \A f \in Fingerprint, s \in StackTrace : <<f, s>> \in InfoKey
        BY DEF InfoKey
      <3>2. \A p \in InfoKey : m_infos[p].leaked = 0
        BY DEF Init, TableInit, newWatchedStackTraceInfo
      <3>3. ASSUME NEW f \in Fingerprint, NEW s \in StackTrace
            PROVE  ~ (m_infos[<<f, s>>].leaked > 0)
        <4>1. m_infos[<<f, s>>].leaked = 0
          BY <3>1, <3>2, Zenon
        <4>. QED  BY <4>1
      <3>. QED  BY <3>3, Zenon DEF LeakyTrace
    <2>2. /\ \A s \in StackTrace : ~ (stackTraceToOccurrences[s] > 0)
          /\ foundLeaks = {} /\ leakReport = {}
      BY DEF Init, PatrolInit
    <2>3. LeaksAreAnnounced
      BY <2>1, <2>2 DEF LeaksAreAnnounced, Found
    <2>4. ReportedWasAnnounced
      BY <2>2 DEF ReportedWasAnnounced
    <2>. QED  BY <2>3, <2>4
  <1>2. ASSUME Accounting, LeaksAreAnnounced, ReportedWasAnnounced, [Next]_vars
        PROVE  (Accounting /\ LeaksAreAnnounced /\ ReportedWasAnnounced)'
    <2>1. CASE Patrol
      BY <1>2, <2>1, PatrolAnnounced, ReportAnnounced, StepAccounting
    <2>2. CASE ~ Patrol
      <3>1. UNCHANGED <<stackTraceToOccurrences, foundLeaks, patrolPc>>
        BY <1>2, <2>2
        DEF Next, vars, EnterAllocate, EnterReallocate, EnterFree, EnterReallocateToZero,
            Enter, ExecuteAllocate, ExecuteReallocate, ExecuteFree, StartSignal,
            OtherProcessStarts, Tick, Dead, patrolVars
      <3>2. \A f \in Fingerprint, s \in StackTrace :
                m_infos'[<<f, s>>].leaked = m_infos[<<f, s>>].leaked
        BY <1>2, <2>2, OthersCountNoLeak DEF InfoKey
      <3>3. LeaksAreAnnounced'
        BY <1>2, <3>1, <3>2 DEF LeaksAreAnnounced, LeakyTrace, Found
      <3>. QED  BY <1>2, <3>3, ReportAnnounced, StepAccounting
    <2>. QED  BY <2>1, <2>2
  <1>. QED  BY <1>1, <1>2, InitAccounting, PTL DEF Spec

\* A trace that the leak report lists was announced in /tmp/alloc-report
\* before: patrolThreadMakeLeakReport() runs after the leaks of the scan that
\* counted them were printed.
THEOREM ReportsFollowAnnouncements == Spec => []ReportedWasAnnounced
  BY AnnouncedInvariant, PTL

-----------------------------------------------------------------------------
(* Announcements and counts agree in number.                               *)

leaksByFingerprint(infos, s) == [f \in Fingerprint |-> infos[<<f, s>>].leaked]

\* The leaks of a trace are the sum over the fingerprints it was captured under.
LEMMA LeakedIsSum ==
  ASSUME NEW infos, NEW s
  PROVE  leakedOf(infos, s) = SumOver(leaksByFingerprint(infos, s), Fingerprint)
  <1>. DEFINE F == leaksByFingerprint(infos, s)
              Q(g) == g = [T \in SUBSET Fingerprint |->
                              IF T = {} THEN 0
                              ELSE infos[<<pick(T), s>>].leaked + g[T \ {pick(T)}]]
  <1>1. \A T \in SUBSET Fingerprint : T # {} => F[pick(T)] = infos[<<pick(T), s>>].leaked
    BY DEF pick, leaksByFingerprint
  <1>. HIDE DEF F
  <1>2. ASSUME NEW g PROVE AddsUp(F, Fingerprint, g) <=> Q(g)
    BY <1>1 DEF AddsUp, AddsUpOn
  <1>3. leakedOf(infos, s) = (CHOOSE g : Q(g))[Fingerprint]
    BY DEF leakedOf, MapThenSumSet, MapThenFoldSet, pick
  <1>. HIDE DEF Q
  <1>4. (CHOOSE g : Q(g)) = (CHOOSE g : AddsUp(F, Fingerprint, g))
    BY <1>2, Zenon
  <1>5. SumOver(F, Fingerprint) = (CHOOSE g : AddsUp(F, Fingerprint, g))[Fingerprint]
    BY SumIsChoice
  <1>. QED  BY <1>3, <1>4, <1>5 DEF F

\* One more leak under one fingerprint is one more leak of the trace.
LEMMA OneMoreLeaked ==
  ASSUME NEW F, NEW G, NEW f \in Fingerprint,
         NaturalSummands(F, Fingerprint), G[f] = F[f] + 1,
         \A g \in Fingerprint \ {f} : G[g] = F[g]
  PROVE  SumOver(G, Fingerprint) = SumOver(F, Fingerprint) + 1
  <1>. DEFINE Others == Fingerprint \ {f}
  <1>1. IsFiniteSet(Fingerprint) /\ IsFiniteSet(Others)
    BY TableAssumption, FS_RemoveElement
  <1>2. NaturalSummands(G, Fingerprint) /\ NaturalSummands(F, Others) /\ F[f] \in Nat
    BY DEF NaturalSummands
  <1>3. /\ SumOver(F, Fingerprint) = F[f] + SumOver(F, Others)
        /\ SumOver(G, Fingerprint) = G[f] + SumOver(G, Others)
    BY <1>1, <1>2, SumRemove
  <1>4. SumOver(F, Others) \in Nat
    BY <1>1, <1>2, SumType
  <1>. HIDE DEF Others
  <1>5. SumOver(G, Others) = SumOver(F, Others)
    BY <1>1, SumSame DEF Others
  <1>. QED  BY <1>2, <1>3, <1>4, <1>5

\* The blocks that a scan has declared leaks have no record while it lasts, as
\* the scan holds m_mutex: it finds none of them again.
FoundAreGone ==
    patrolPc = "scanClosely" => \A leak \in foundLeaks : m_closely[leak.memory] = NoRecord

LEMMA StepFoundAreGone ==
  ASSUME Accounting, LeaksAreAnnounced, FoundAreGone, [Next]_vars
  PROVE  FoundAreGone'
  <1>1. /\ m_closely \in [Address -> CloselyWatchedAllocation \cup {NoRecord}]
        /\ \A leak \in foundLeaks : leak.memory \in Address
    BY DEF Accounting, TypeOK, TableTypeOK, PatrolTypeOK, FoundLeak
  <1>2. CASE Patrol
    <2>1. CASE patrolDeclareLeak
      <3>1. PICK a \in Expired(m_closely, patrolNow) :
               /\ declareLeak(a)
               /\ foundLeaks' = foundLeaks \cup
                     {[stackTrace |-> m_closely[a].info[2], memory |-> a,
                       size |-> m_closely[a].requestedSize]}
        BY <2>1 DEF patrolDeclareLeak
      <3>2. patrolPc = "scanClosely" /\ a \in Address
        BY <1>1, <2>1 DEF patrolDeclareLeak, Expired
      <3>3. m_closely' = [m_closely EXCEPT ![a] = NoRecord]
        BY <3>1 DEF declareLeak
      <3>. QED  BY <1>1, <3>1, <3>2, <3>3 DEF FoundAreGone
    <2>2. CASE patrolBecomeSuspicious
      <3>1. PICK a \in Expired(m_closely, patrolNow) : becomeSuspicious(a, patrolNow)
        BY <2>2 DEF patrolBecomeSuspicious
      <3>2. a \in Address /\ m_closely[a] # NoRecord
        BY <1>1 DEF Expired
      <3>3. \A b \in Address : b # a => m_closely'[b] = m_closely[b]
        BY <1>1, <3>1, <3>2 DEF becomeSuspicious
      <3>4. UNCHANGED <<patrolPc, foundLeaks>> /\ patrolPc = "scanClosely"
        BY <2>2 DEF patrolBecomeSuspicious, patrolVars
      <3>. QED  BY <1>1, <3>2, <3>3, <3>4 DEF FoundAreGone
    <2>3. CASE ~ patrolDeclareLeak /\ ~ patrolBecomeSuspicious
      <3>1. \/ patrolPc' # "scanClosely"
            \/ patrolPc = "scanLight" /\ UNCHANGED foundLeaks
        BY <1>2, <2>3
        DEF Patrol, patrolStep, patrolAutoStart, patrolWake, patrolLock, patrolExpireLight,
            patrolLightDone, patrolUnlock, patrolAnnounce, patrolReport, patrolVars
      <3>. QED  BY <3>1 DEF FoundAreGone, LeaksAreAnnounced
    <2>. QED  BY <2>1, <2>2, <2>3
  <1>3. CASE ~ Patrol
    <2>1. UNCHANGED <<foundLeaks, patrolPc>>
      BY <1>3
      DEF Next, vars, EnterAllocate, EnterReallocate, EnterFree, EnterReallocateToZero,
          Enter, ExecuteAllocate, ExecuteReallocate, ExecuteFree, StartSignal,
          OtherProcessStarts, Tick, Dead, patrolVars
    <2>2. patrolPc = "scanClosely" => UNCHANGED m_closely
      BY <1>3
      DEF Next, vars, EnterAllocate, EnterReallocate, EnterFree, EnterReallocateToZero,
          Enter, ExecuteAllocate, ExecuteReallocate, ExecuteFree, StartSignal,
          OtherProcessStarts, Tick, Dead, tableVars, mutexIsFree
    <2>. QED  BY <2>1, <2>2 DEF FoundAreGone
  <1>. QED  BY <1>2, <1>3

\* The leak that a scan declares is counted once and will be announced once.
LEMMA DeclareLeakCounts ==
  ASSUME Accounting, FoundAreGone, AnnouncedAsCounted, patrolDeclareLeak
  PROVE  AnnouncedAsCounted'
  <1>1. PICK a \in Expired(m_closely, patrolNow) :
           /\ declareLeak(a)
           /\ foundLeaks' = foundLeaks \cup
                 {[stackTrace |-> m_closely[a].info[2], memory |-> a,
                   size |-> m_closely[a].requestedSize]}
    BY DEF patrolDeclareLeak
  <1>2. /\ TableAccounting /\ m_infos \in [InfoKey -> WatchedStackTraceInfo]
        /\ a \in Address /\ m_closely[a] # NoRecord /\ IsFiniteSet(foundLeaks)
        /\ stackTraceToOccurrences \in [StackTrace -> Nat]
    BY DEF Accounting, TypeOK, TableTypeOK, PatrolTypeOK, Expired
  <1>. DEFINE key == m_closely[a].info
              new == countLeaked(m_infos[key], m_closely[a].requestedSize)
              leak == [stackTrace |-> key[2], memory |-> a, size |-> m_closely[a].requestedSize]
  <1>3. /\ key \in InfoKey /\ m_infos[key].leaked \in Nat
        /\ new.leaked = m_infos[key].leaked + 1
    BY <1>2, WatchedIsCounted, CountLeaked DEF CloselyWatchedAllocation, WatchedStackTraceInfo
  <1>4. m_infos' = [m_infos EXCEPT ![key] = new]
    BY <1>1 DEF declareLeak
  <1>5. key = <<key[1], key[2]>> /\ key[1] \in Fingerprint /\ key[2] \in StackTrace
    BY <1>3 DEF InfoKey
  <1>6. UNCHANGED stackTraceToOccurrences /\ patrolPc = "scanClosely"
    BY DEF patrolDeclareLeak
  <1>7. leak \notin foundLeaks /\ leak.stackTrace = key[2] /\ foundLeaks' = foundLeaks \cup {leak}
    BY <1>1, <1>2, <1>6 DEF FoundAreGone
  <1>8. \A f \in Fingerprint, s \in StackTrace :
            <<f, s>> \in InfoKey /\ m_infos[<<f, s>>].leaked \in Nat
    BY <1>2 DEF InfoKey, WatchedStackTraceInfo
  <1>. HIDE DEF key, new, leak
  <1>9. ASSUME NEW s \in StackTrace
        PROVE  stackTraceToOccurrences[s] + occurrencesIn(foundLeaks', s) = leakedOf(m_infos', s)
    <2>. DEFINE mine == {l \in foundLeaks : l.stackTrace = s}
                mineNow == {l \in foundLeaks' : l.stackTrace = s}
                F == leaksByFingerprint(m_infos, s)
                G == leaksByFingerprint(m_infos', s)
    <2>1. IsFiniteSet(mine) /\ Cardinality(mine) \in Nat
      BY <1>2, FS_Subset, FS_CardinalityType
    <2>2. NaturalSummands(F, Fingerprint) /\ IsFiniteSet(Fingerprint)
      BY <1>8, TableAssumption DEF NaturalSummands, leaksByFingerprint
    <2>3. stackTraceToOccurrences[s] + Cardinality(mine) = SumOver(F, Fingerprint)
      BY LeakedIsSum DEF AnnouncedAsCounted, occurrencesIn
    <2>4. stackTraceToOccurrences[s] + Cardinality(mineNow) = SumOver(G, Fingerprint)
      <3>1. CASE s = key[2]
        <4>1. mineNow = mine \cup {leak} /\ leak \notin mine
          BY <1>7, <3>1
        <4>2. Cardinality(mineNow) = Cardinality(mine) + 1
          BY <2>1, <4>1, FS_AddElement
        <4>3. G[key[1]] = F[key[1]] + 1
          BY <1>2, <1>3, <1>4, <1>5, <3>1 DEF leaksByFingerprint
        <4>4. \A f \in Fingerprint \ {key[1]} : G[f] = F[f]
          BY <1>2, <1>4, <1>5, <1>8, <3>1 DEF leaksByFingerprint
        <4>. HIDE DEF F, G
        <4>5. SumOver(G, Fingerprint) = SumOver(F, Fingerprint) + 1
          BY <1>5, <2>2, <4>3, <4>4, OneMoreLeaked
        <4>. HIDE DEF mine, mineNow
        <4>. QED  BY <1>2, <2>1, <2>3, <4>2, <4>5
      <3>2. CASE s # key[2]
        <4>1. mineNow = mine
          BY <1>7, <3>2
        <4>2. \A f \in Fingerprint : <<f, s>> # key
          BY <1>5, <3>2
        <4>3. \A f \in Fingerprint : G[f] = F[f]
          BY <1>2, <1>4, <1>8, <4>2 DEF leaksByFingerprint
        <4>. HIDE DEF F, G
        <4>4. SumOver(G, Fingerprint) = SumOver(F, Fingerprint)
          BY <2>2, <4>3, SumSame
        <4>. QED  BY <2>3, <4>1, <4>4
      <3>. QED  BY <3>1, <3>2
    <2>. QED  BY <2>4, LeakedIsSum DEF occurrencesIn
  <1>. QED  BY <1>6, <1>9 DEF AnnouncedAsCounted

\* Every other step leaves the sum of announced and found leaks as it was.
LEMMA OthersKeepCounts ==
  ASSUME Accounting, LeaksAreAnnounced, AnnouncedAsCounted, [Next]_vars,
         ~ (Patrol /\ patrolDeclareLeak)
  PROVE  AnnouncedAsCounted'
  <1>1. /\ stackTraceToOccurrences \in [StackTrace -> Nat] /\ IsFiniteSet(foundLeaks)
    BY DEF Accounting, TypeOK, PatrolTypeOK
  <1>2. ASSUME NEW s \in StackTrace PROVE leakedOf(m_infos', s) = leakedOf(m_infos, s)
    <2>. DEFINE F == leaksByFingerprint(m_infos, s)
                G == leaksByFingerprint(m_infos', s)
    <2>1. \A f \in Fingerprint : G[f] = F[f]
      BY OthersCountNoLeak DEF InfoKey, leaksByFingerprint
    <2>. HIDE DEF F, G
    <2>2. SumOver(G, Fingerprint) = SumOver(F, Fingerprint)
      BY <2>1, SumSame, TableAssumption
    <2>. QED  BY <2>2, LeakedIsSum DEF F, G
  <1>3. ASSUME NEW s \in StackTrace
        PROVE  stackTraceToOccurrences'[s] + occurrencesIn(foundLeaks', s)
                 = stackTraceToOccurrences[s] + occurrencesIn(foundLeaks, s)
    <2>1. CASE Patrol /\ patrolAnnounce
      <3>1. /\ stackTraceToOccurrences'[s] = stackTraceToOccurrences[s] + occurrencesIn(foundLeaks, s)
            /\ foundLeaks' = {}
        BY <2>1 DEF patrolAnnounce
      <3>2. occurrencesIn({}, s) = 0
        <4>1. {leak \in {} : leak.stackTrace = s} = {}
          OBVIOUS
        <4>. QED  BY <4>1, FS_EmptySet, Zenon DEF occurrencesIn
      <3>. QED  BY <1>1, <3>1, <3>2, OccurrencesCount
    <2>2. CASE ~ (Patrol /\ patrolAnnounce)
      <3>1. UNCHANGED <<stackTraceToOccurrences, foundLeaks>>
        BY <2>2
        DEF Next, vars, EnterAllocate, EnterReallocate, EnterFree, EnterReallocateToZero,
            Enter, ExecuteAllocate, ExecuteReallocate, ExecuteFree, StartSignal,
            OtherProcessStarts, Tick, Dead, patrolVars, Patrol, patrolStep, patrolAutoStart,
            patrolWake, patrolLock, patrolExpireLight, patrolLightDone, patrolBecomeSuspicious,
            patrolUnlock, patrolReport, LeaksAreAnnounced
      <3>. QED  BY <3>1
    <2>. QED  BY <2>1, <2>2
  <1>. QED  BY <1>2, <1>3 DEF AnnouncedAsCounted

\* At the start nothing is counted and nothing is announced.
LEMMA InitAnnouncedAsCounted == Init => AnnouncedAsCounted /\ FoundAreGone
  <1>. SUFFICES ASSUME Init PROVE AnnouncedAsCounted /\ FoundAreGone
    OBVIOUS
  <1>1. foundLeaks = {} /\ stackTraceToOccurrences = [s \in StackTrace |-> 0]
    BY DEF Init, PatrolInit
  <1>2. ASSUME NEW s \in StackTrace PROVE leakedOf(m_infos, s) = 0
    <2>. DEFINE F == leaksByFingerprint(m_infos, s)
                Good == {T \in SUBSET Fingerprint : SumOver(F, T) = 0}
    <2>1. ASSUME NEW f \in Fingerprint PROVE F[f] = 0
      <3>1. <<f, s>> \in InfoKey
        BY DEF InfoKey
      <3>2. \A p \in InfoKey : m_infos[p].leaked = 0
        BY DEF Init, TableInit, newWatchedStackTraceInfo
      <3>3. m_infos[<<f, s>>].leaked = 0
        BY <3>1, <3>2, Zenon
      <3>. QED  BY <3>3 DEF leaksByFingerprint
    <2>. HIDE DEF F
    <2>2. {} \in Good
      BY SumEmpty
    <2>3. ASSUME NEW T \in SUBSET Fingerprint, NEW f \in Fingerprint \ T, T \in Good
          PROVE  T \cup {f} \in Good
      <3>1. IsFiniteSet(T) /\ NaturalSummands(F, T) /\ F[f] = 0 /\ SumOver(F, T) = 0
        BY <2>1, <2>3, FS_Subset, TableAssumption DEF NaturalSummands
      <3>2. SumOver(F, T \cup {f}) = SumOver(F, T) + F[f]
        BY <3>1, SumAdd
      <3>. QED  BY <3>1, <3>2
    <2>4. Fingerprint \in Good
      <3>. HIDE DEF Good
      <3>. QED  BY <2>2, <2>3, SubsetInduction, TableAssumption
    <2>. QED  BY <2>4, LeakedIsSum DEF F
  <1>3. ASSUME NEW s PROVE occurrencesIn(foundLeaks, s) = 0
    <2>1. {leak \in foundLeaks : leak.stackTrace = s} = {}
      BY <1>1
    <2>. QED  BY <2>1, FS_EmptySet, Zenon DEF occurrencesIn
  <1>. QED  BY <1>1, <1>2, <1>3 DEF AnnouncedAsCounted, FoundAreGone

\* /tmp/alloc-report and the statistics of the table tell the same story: at
\* every moment the announcements of a trace, with those about to be made, are
\* as many as its leaks counted, whatever fingerprints they were counted under.
THEOREM AnnouncedAsCountedAlways == Spec => []AnnouncedAsCounted
  <1>1. ASSUME Accounting, LeaksAreAnnounced, FoundAreGone, AnnouncedAsCounted, [Next]_vars
        PROVE  FoundAreGone' /\ AnnouncedAsCounted'
    BY <1>1, StepFoundAreGone, DeclareLeakCounts, OthersKeepCounts
  <1>. QED  BY <1>1, InitAnnouncedAsCounted, AnnouncedInvariant, PTL DEF Spec

-----------------------------------------------------------------------------
(* The numbers of the leak report.                                         *)

\* Multiplication of naturals is monotone.
LEMMA TimesMonotone ==
  ASSUME NEW i \in Nat, NEW j \in Nat, NEW k \in Nat, i <= j
  PROVE  i * k \in Nat /\ j * k \in Nat /\ k * i <= k * j /\ i * k <= j * k
  OBVIOUS

\* A number below the modulus survives the cast to uint32_t.
LEMMA CastIsExact ==
  ASSUME NEW n \in Nat, n < UIntModulus
  PROVE  n % UIntModulus = n
  BY TableAssumption

\* The cast to uint32_t never makes a number larger.
LEMMA CastIsSmaller ==
  ASSUME NEW n \in Nat
  PROVE  n % UIntModulus \in Nat /\ n % UIntModulus <= n
  BY TableAssumption

\* An allocation that counts for a trace was counted as a suspicious one first.
SeenCovers ==
    \A p \in InfoKey :
        m_infos[p].skipped + m_infos[p].created <= m_stats.allocationWithSuspiciousFingerprintCount

\* An allocation counts for one trace at most, and only with its fingerprint
\* suspicious.
LEMMA AllocateSeen ==
  ASSUME Accounting, SeenCovers, NEW size, NEW trace, NEW memory,
         instrumentedAllocate(size, trace, memory)
  PROVE  SeenCovers'
  <1>1. /\ m_infos \in [InfoKey -> WatchedStackTraceInfo]
        /\ m_stats \in AllocationStats
    BY DEF Accounting, TypeOK, TableTypeOK
  <1>2. \A p \in InfoKey : m_infos[p].skipped \in Nat /\ m_infos[p].created \in Nat
    BY <1>1 DEF WatchedStackTraceInfo
  <1>3. m_stats.allocationWithSuspiciousFingerprintCount \in Nat
    BY <1>1 DEF AllocationStats
  <1>4. CASE allocateLight(size, trace, memory)
    <2>1. /\ m_infos' = m_infos
          /\ m_stats'.allocationWithSuspiciousFingerprintCount
                = m_stats.allocationWithSuspiciousFingerprintCount
      BY <1>1, <1>4 DEF allocateLight, AllocationStats
    <2>. QED  BY <2>1 DEF SeenCovers
  <1>5. CASE allocateSkipped(size, trace, memory) \/ allocateCloselyWatched(size, trace, memory)
    <2>1. m_stats'.allocationWithSuspiciousFingerprintCount
             = m_stats.allocationWithSuspiciousFingerprintCount + 1
      BY <1>1, <1>5
      DEF allocateSkipped, allocateCloselyWatched, countSuspiciousAllocation, AllocationStats
    <2>2. PICK key : \/ m_infos' = [m_infos EXCEPT ![key] = countSkipped(@)]
                     \/ m_infos' = [m_infos EXCEPT ![key] = countWatched(@)]
                     \/ m_infos' = m_infos
      BY <1>5 DEF allocateSkipped, allocateCloselyWatched
    <2>3. ASSUME NEW info \in WatchedStackTraceInfo
          PROVE  /\ countSkipped(info).skipped = info.skipped + 1
                 /\ countSkipped(info).created = info.created
                 /\ countWatched(info).skipped = info.skipped
                 /\ countWatched(info).created = info.created + 1
      BY DEF countSkipped, countWatched, WatchedStackTraceInfo
    <2>4. ASSUME NEW p \in InfoKey
          PROVE  /\ m_infos'[p].skipped + m_infos'[p].created \in Nat
                 /\ m_infos'[p].skipped + m_infos'[p].created
                       <= m_infos[p].skipped + m_infos[p].created + 1
      <3>1. \/ m_infos'[p] = countSkipped(m_infos[p])
            \/ m_infos'[p] = countWatched(m_infos[p])
            \/ m_infos'[p] = m_infos[p]
        BY <1>1, <2>2
      <3>2. m_infos[p] \in WatchedStackTraceInfo
        BY <1>1
      <3>. QED  BY <1>2, <2>3, <3>1, <3>2
    <2>. QED  BY <1>2, <1>3, <2>1, <2>4 DEF SeenCovers
  <1>. QED  BY <1>4, <1>5 DEF instrumentedAllocate

\* Every other step leaves both counts as they were.
LEMMA StepSeen ==
  ASSUME Accounting, SeenCovers, [Next]_vars
  PROVE  SeenCovers'
  <1>1. /\ m_infos \in [InfoKey -> WatchedStackTraceInfo]
        /\ m_stats \in AllocationStats
    BY DEF Accounting, TypeOK, TableTypeOK
  <1>. DEFINE SameSeen ==
         /\ m_stats'.allocationWithSuspiciousFingerprintCount
               = m_stats.allocationWithSuspiciousFingerprintCount
         /\ \A p \in InfoKey : /\ m_infos'[p].skipped = m_infos[p].skipped
                               /\ m_infos'[p].created = m_infos[p].created
  <1>2. SameSeen => SeenCovers'
    BY DEF SeenCovers
  <1>3. ASSUME NEW key, NEW size,
               \/ m_infos' = [m_infos EXCEPT ![key] = countFreed(@)]
               \/ m_infos' = [m_infos EXCEPT ![key] = countLeaked(@, size)]
               \/ m_infos' = m_infos,
               m_stats'.allocationWithSuspiciousFingerprintCount
                  = m_stats.allocationWithSuspiciousFingerprintCount
        PROVE  SameSeen
    <2>. SUFFICES ASSUME NEW p \in InfoKey
                  PROVE  /\ m_infos'[p].skipped = m_infos[p].skipped
                         /\ m_infos'[p].created = m_infos[p].created
      BY <1>3
    <2>1. \/ m_infos'[p] = countFreed(m_infos[p])
          \/ m_infos'[p] = countLeaked(m_infos[p], size)
          \/ m_infos'[p] = m_infos[p]
      BY <1>1, <1>3
    <2>2. m_infos[p] \in WatchedStackTraceInfo
      BY <1>1
    <2>. QED  BY <2>1, <2>2 DEF countFreed, countLeaked, WatchedStackTraceInfo
  <1>. HIDE DEF SameSeen
  <1>4. CASE UNCHANGED tableVars
    BY <1>1, <1>2, <1>3, <1>4 DEF tableVars
  <1>5. ASSUME NEW t \in Thread, ExecuteAllocate(t) PROVE SeenCovers'
    BY <1>4, <1>5, AllocateSeen DEF ExecuteAllocate
  <1>6. ASSUME NEW t \in Thread, ExecuteReallocate(t) PROVE SeenCovers'
    <2>1. ASSUME NEW old, NEW size, NEW memory, instrumentedReallocate(old, size, memory)
          PROVE  SeenCovers'
      <3>1. m_infos' = m_infos
            /\ m_stats'.allocationWithSuspiciousFingerprintCount
                  = m_stats.allocationWithSuspiciousFingerprintCount
        BY <1>1, <2>1 DEF instrumentedReallocate, AllocationStats
      <3>. QED  BY <1>2, <1>3, <3>1
    <2>. QED  BY <1>4, <1>6, <2>1 DEF ExecuteReallocate
  <1>7. ASSUME NEW t \in Thread, ExecuteFree(t) PROVE SeenCovers'
    <2>1. ASSUME NEW old, NEW memory, instrumentedFree(old, memory)
          PROVE  SeenCovers'
      <3>1. m_stats'.allocationWithSuspiciousFingerprintCount
                = m_stats.allocationWithSuspiciousFingerprintCount
        BY <1>1, <2>1 DEF instrumentedFree, AllocationStats
      <3>2. \/ m_infos' = m_infos
            \/ m_infos' = [m_infos EXCEPT ![m_closely[old].info] = countFreed(@)]
        BY <2>1 DEF instrumentedFree, freeLight, freeClosely, freeUntracked
      <3>. QED  BY <1>2, <1>3, <3>1, <3>2
    <2>. QED  BY <1>4, <1>7, <2>1 DEF ExecuteFree
  <1>8. CASE Patrol
    <2>1. m_stats' = m_stats
      BY <1>8
      DEF Patrol, patrolStep, patrolAutoStart, patrolWake, patrolLock, patrolExpireLight,
          patrolLightDone, patrolBecomeSuspicious, patrolDeclareLeak, patrolUnlock,
          patrolAnnounce, patrolReport, expireLight, becomeSuspicious, declareLeak, tableVars
    <2>2. \/ m_infos' = m_infos
          \/ \E a : m_infos' = [m_infos EXCEPT ![m_closely[a].info]
                                   = countLeaked(@, m_closely[a].requestedSize)]
      BY <1>8
      DEF Patrol, patrolStep, patrolAutoStart, patrolWake, patrolLock, patrolExpireLight,
          patrolLightDone, patrolBecomeSuspicious, patrolDeclareLeak, patrolUnlock,
          patrolAnnounce, patrolReport, expireLight, becomeSuspicious, declareLeak, tableVars
    <2>. QED  BY <1>2, <1>3, <2>1, <2>2
  <1>9. CASE ~ Patrol /\ ~ \E t \in Thread : ExecuteAllocate(t) \/ ExecuteReallocate(t) \/ ExecuteFree(t)
    <2>1. UNCHANGED tableVars
      BY <1>9 DEF Next, vars, EnterAllocate, EnterReallocate, EnterFree, EnterReallocateToZero,
                  Enter, StartSignal, OtherProcessStarts, Tick, Dead
    <2>. QED  BY <1>4, <2>1
  <1>. QED  BY <1>5, <1>6, <1>7, <1>8, <1>9

\* At any time.
LEMMA SeenInvariant == Spec => [](Accounting /\ SeenCovers)
  <1>1. Init => SeenCovers
    <2>. SUFFICES ASSUME Init PROVE SeenCovers
      OBVIOUS
    <2>1. \A p \in InfoKey : m_infos[p].skipped = 0 /\ m_infos[p].created = 0
      BY DEF Init, TableInit, newWatchedStackTraceInfo
    <2>2. m_stats.allocationWithSuspiciousFingerprintCount = 0
      BY DEF Init, TableInit
    <2>. QED  BY <2>1, <2>2 DEF SeenCovers
  <1>2. Accounting /\ SeenCovers /\ [Next]_vars => (Accounting /\ SeenCovers)'
    BY StepAccounting, StepSeen
  <1>. QED  BY <1>1, <1>2, InitAccounting, PTL DEF Spec

\* leakRatio(), lostAllocationsEstimated() and lostBytesEstimated() divide by
\* no zero and never estimate more lost allocations than the table saw, even
\* where countTotalAllocations() wraps; up to 2^32 allocations of a trace they
\* never estimate less than the samples show.
THEOREM EstimatesAreInRange == Spec => []EstimatesInRange
  <1>1. Accounting /\ SeenCovers => EstimatesInRange
    <2>. SUFFICES ASSUME Accounting, SeenCovers, NEW p \in patrolThreadMakeLeakReport
                  PROVE  LET info == m_infos[p]
                             seen == m_stats.allocationWithSuspiciousFingerprintCount
                         IN  /\ fraction(leakRatio(info), \leq, 1)
                             /\ fraction(lostAllocationsEstimated(info), \leq, seen)
                             /\ info.skipped + info.created < UIntModulus =>
                                   /\ fraction(lostAllocationsEstimated(info), \geq, info.leaked)
                                   /\ fraction(lostBytesEstimated(info), \geq, info.leakedMemory)
      BY DEF EstimatesInRange, fraction
    <2>. DEFINE info == m_infos[p]
                seen == m_stats.allocationWithSuspiciousFingerprintCount
                created == info.created
                leaked == info.leaked
                memory == info.leakedMemory
                all == info.skipped + created
                total == all % UIntModulus
                finished == created - info.live
    <2>1. p \in InfoKey /\ leaked > 0
      BY DEF patrolThreadMakeLeakReport, hasLeaks
    <2>2. info \in WatchedStackTraceInfo /\ leaked + info.live <= created
      BY <2>1 DEF Accounting, TypeOK, TableTypeOK, TableAccounting, SamplesEndOnce
    <2>3. /\ created \in Nat /\ leaked \in Nat /\ memory \in Nat /\ all \in Nat
          /\ finished \in Nat /\ finished > 0 /\ leaked <= finished /\ finished <= all
          /\ created > 0 /\ created <= all
      BY <2>1, <2>2 DEF WatchedStackTraceInfo
    <2>4. all <= seen /\ seen \in Nat
      BY <2>1 DEF SeenCovers, Accounting, TypeOK, TableTypeOK, AllocationStats
    <2>5. total \in Nat /\ total <= all /\ (all < UIntModulus => total = all)
      <3>. HIDE DEF all
      <3>. QED  BY <2>3, CastIsSmaller, CastIsExact
    <2>6. countFinishedWatchedAllocations(info) = finished
      BY DEF countFinishedWatchedAllocations
    <2>7. /\ leakRatio(info) = <<leaked, finished>>
          /\ lostAllocationsEstimated(info) = <<total * leaked, finished>>
          /\ lostBytesEstimated(info) = <<memory * total, created>>
      BY <2>3, <2>6
      DEF leakRatio, lostAllocationsEstimated, lostBytesEstimated, countTotalAllocations
    <2>. HIDE DEF info, seen, created, leaked, memory, all, total, finished
    <2>8. fraction(leakRatio(info), \leq, 1)
      BY <2>3, <2>7 DEF fraction
    <2>9. fraction(lostAllocationsEstimated(info), \leq, seen)
      <3>1. total * leaked <= total * finished
        BY <2>3, <2>5, TimesMonotone
      <3>2. total <= seen
        BY <2>3, <2>4, <2>5
      <3>3. total * finished <= seen * finished
        BY <2>3, <2>4, <2>5, <3>2, TimesMonotone
      <3>4. total * leaked \in Nat /\ total * finished \in Nat /\ seen * finished \in Nat
        BY <2>3, <2>4, <2>5, <3>2, TimesMonotone
      <3>5. total * leaked <= seen * finished
        BY <3>1, <3>3, <3>4
      <3>. QED  BY <2>3, <2>7, <3>5 DEF fraction
    <2>10. ASSUME all < UIntModulus
           PROVE  /\ fraction(lostAllocationsEstimated(info), \geq, leaked)
                  /\ fraction(lostBytesEstimated(info), \geq, memory)
      <3>1. total = all
        BY <2>5, <2>10
      <3>2. leaked * finished <= total * leaked /\ memory * created <= memory * total
        BY <2>3, <3>1, TimesMonotone
      <3>. QED  BY <2>3, <2>7, <3>2 DEF fraction
    <2>. QED  BY <2>8, <2>9, <2>10 DEF info, seen, leaked, memory, all, created, fraction
  <1>. QED  BY <1>1, SeenInvariant, PTL
=============================================================================
