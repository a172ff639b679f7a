-------------------- MODULE AllocCounterOwnershipProofs --------------------
(***************************************************************************)
(* Theorems about AllocCounter that need to know who owns a block: the     *)
(* table, the underlying allocator and the application agree on what is    *)
(* live as long as nobody turns the watching off again, which only another *)
(* preloaded process does.  The hypothesis of most theorems is therefore   *)
(* ~ OtherProcesses; the run falseLeak shows what happens without it.      *)
(* Which blocks are lost needs no such hypothesis.                         *)
(***************************************************************************)
EXTENDS AllocCounterProofs

-----------------------------------------------------------------------------
(* Ownership of a block.                                                   *)

Tracked(a) == m_light[a] # NoRecord \/ m_closely[a] # NoRecord

\* What holds of each address: a block that is tracked was given out by the
\* table and is still in the application's hands, so that the allocator
\* cannot hand it out again; and a watched one has the size its record says.
Owned(a) ==
    /\ asked[a] # NotGiven => heap[a] # NotLive
    /\ Tracked(a) => asked[a] # NotGiven /\ watchState = "Watching"
    /\ m_light[a] = NoRecord \/ m_closely[a] = NoRecord
    /\ m_closely[a] # NoRecord => heap[a] = roundUpToPageMultiple(m_closely[a].requestedSize)

CallsHoldGivenBlocks ==
    \A t \in Thread : call[t].memory \in Address =>
        /\ asked[call[t].memory] # NotGiven
        /\ \A u \in Thread : call[u].memory = call[t].memory => u = t

\* A call that read NotWatching when it entered has in its hands a block from
\* before the watching began.
StaleCallsHoldUntracked ==
    \A t \in Thread :
        IF call[t].watch = "Watching" THEN watchState = "Watching"
        ELSE call[t].memory \in Address => ~ Tracked(call[t].memory)

Ownership == (\A a \in Address : Owned(a)) /\ CallsHoldGivenBlocks /\ StaleCallsHoldUntracked

\* A step that leaves all that concerns an address as it was.
Untouched(a) ==
    /\ asked'[a] = asked[a]
    /\ heap'[a] = heap[a]
    /\ m_light'[a] = m_light[a]
    /\ m_closely'[a] = m_closely[a]

\* Nothing is given out or tracked when the process starts.
LEMMA InitOwnership == Init => Ownership
  <1>. SUFFICES ASSUME Init PROVE Ownership
    OBVIOUS
  <1>1. \A a \in Address : Owned(a)
    BY DEF Init, TableInit, Owned, Tracked
  <1>2. \A t \in Thread : call[t] = Idle /\ call[t].memory \notin Address
    BY TableAssumption DEF Init, Idle
  <1>. QED  BY <1>1, <1>2 DEF Ownership, CallsHoldGivenBlocks, StaleCallsHoldUntracked, Idle

\* A call that touches only the block it was given and the one it answers, a
\* fresh one if it is another, leaves the other calls their blocks.
LEMMA CallEnds ==
  ASSUME TypeOK, Ownership, NEW t \in Thread, NEW memory,
         call' = [call EXCEPT ![t] = Idle], UNCHANGED watchState,
         memory \in Address => memory = call[t].memory \/ heap[memory] = NotLive,
         \A a \in Address : Untouched(a) \/ (a \in {call[t].memory, memory} /\ Owned(a)')
  PROVE  Ownership'
  <1>1. \A a \in Address : Owned(a)'
    BY DEF Ownership, Untouched, Owned, Tracked
  <1>2. \A u \in Thread : IF u = t THEN call'[u] = Idle ELSE call'[u] = call[u]
    BY DEF TypeOK
  <1>3. Idle.memory \notin Address /\ Idle.watch = "NotWatching"
    BY TableAssumption DEF Idle
  <1>4. ASSUME NEW u \in Thread, u # t, call[u].memory \in Address
        PROVE  Untouched(call[u].memory)
    <2>1. /\ call[u].memory # call[t].memory
          /\ heap[call[u].memory] # NotLive
      BY <1>4 DEF Ownership, CallsHoldGivenBlocks, Owned
    <2>. QED  BY <1>4, <2>1
  <1>5. CallsHoldGivenBlocks'
    BY <1>2, <1>3, <1>4 DEF Ownership, CallsHoldGivenBlocks, Untouched
  <1>6. StaleCallsHoldUntracked'
    BY <1>2, <1>3, <1>4 DEF Ownership, StaleCallsHoldUntracked, Untouched, Tracked
  <1>. QED  BY <1>1, <1>5, <1>6 DEF Ownership

\* Allocation: malloc() and its kin.
LEMMA AllocateOwnership ==
  ASSUME Accounting, Ownership, NEW t \in Thread, ExecuteAllocate(t)
  PROVE  Ownership'
  <1>1. PICK memory \in Answers(t) :
           /\ IF instrumented(t)
              THEN mutexIsFree /\ instrumentedAllocate(call[t].size, call[t].trace, memory)
              ELSE RealAllocate(call[t].size, memory) /\ UNCHANGED <<tableVars, fault>>
           /\ ReturnFromAllocate(t, memory)
    BY DEF ExecuteAllocate
  <1>2. /\ TypeOK /\ TableTypeOK /\ memory \in Address \cup {NULL}
        /\ call' = [call EXCEPT ![t] = Idle] /\ UNCHANGED watchState
    BY <1>1 DEF ExecuteAllocate, ReturnFromAllocate, patrolVars, Accounting, TypeOK, Answers
  <1>3. call[t].size \in Nat /\ NULL \notin Address
    BY <1>2, CallTypes, TableAssumption
  <1>4. PICK actual \in Nat : RealAllocate(actual, memory)
    BY <1>1, <1>3, SizeTypes
    DEF instrumentedAllocate, allocateLight, allocateSkipped, allocateCloselyWatched
  <1>5. \A a \in Address : a # memory => Untouched(a)
    BY <1>1, <1>2, <1>3, <1>4
    DEF Untouched, RealAllocate, ReturnFromAllocate, tableVars, instrumentedAllocate,
        allocateLight, allocateSkipped, allocateCloselyWatched, TypeOK, TableTypeOK
  <1>6. ASSUME memory \in Address PROVE heap[memory] = NotLive /\ Owned(memory)'
    <2>1. /\ heap[memory] = NotLive /\ heap' = [heap EXCEPT ![memory] = actual]
          /\ heap'[memory] = actual
      BY <1>2, <1>3, <1>4, <1>6 DEF RealAllocate, TableTypeOK
    <2>2. ~ Tracked(memory)
      BY <1>6, <2>1 DEF Ownership, Owned
    <2>3. asked'[memory] = call[t].size
      BY <1>1, <1>2, <1>3, <1>6 DEF ReturnFromAllocate, TypeOK
    <2>4. asked'[memory] # NotGiven /\ heap'[memory] # NotLive
      BY <1>3, <2>1, <2>3 DEF NotGiven, NotLive
    <2>5. CASE ~ instrumented(t)
      BY <1>1, <2>1, <2>2, <2>4, <2>5 DEF Owned, Tracked, tableVars
    <2>6. CASE instrumented(t)
      <3>1. watchState' = "Watching"
        BY <1>2, <2>6 DEF instrumented, Ownership, StaleCallsHoldUntracked
      <3>2. m_light'[memory] = NoRecord \/ m_closely'[memory] = NoRecord
        BY <1>1, <2>2, <2>6 DEF Tracked, instrumentedAllocate, allocateLight, allocateSkipped,
                            allocateCloselyWatched
      <3>3. m_closely'[memory] # NoRecord =>
                heap'[memory] = roundUpToPageMultiple(m_closely'[memory].requestedSize)
        <4>1. CASE allocateCloselyWatched(call[t].size, call[t].trace, memory)
          <5>1. m_closely'[memory].requestedSize = uint32(call[t].size)
            <6>1. PICK record :
                     /\ record.requestedSize = uint32(call[t].size)
                     /\ m_closely' = [m_closely EXCEPT ![memory] = record]
              BY <1>3, <1>6, <4>1 DEF allocateCloselyWatched
            <6>2. DOMAIN m_closely = Address
              BY <1>2 DEF TableTypeOK
            <6>. QED  BY <1>6, <6>1, <6>2
          <5>2. heap'[memory] = roundUpToPageMultiple(call[t].size)
            BY <1>2, <1>3, <1>6, <4>1 DEF allocateCloselyWatched, RealAllocate, TableTypeOK
          <5>. QED  BY <1>3, <5>1, <5>2, RoundingOfCast
        <4>2. CASE \/ allocateLight(call[t].size, call[t].trace, memory)
                   \/ allocateSkipped(call[t].size, call[t].trace, memory)
          BY <2>2, <4>2 DEF Tracked, allocateLight, allocateSkipped
        <4>. QED  BY <1>1, <2>6, <4>1, <4>2 DEF instrumentedAllocate
      <3>. QED  BY <2>1, <2>4, <3>1, <3>2, <3>3 DEF Owned
    <2>. QED  BY <2>1, <2>5, <2>6
  <1>. QED  BY <1>2, <1>5, <1>6, CallEnds

\* What realloc() of the underlying allocator does, address by address.
LEMMA RealReallocateEffect ==
  ASSUME TypeOK, Ownership, NEW old \in Address, asked[old] # NotGiven, NEW size \in Nat,
         NEW memory \in Address \cup {NULL}, RealReallocate(old, size, memory)
  PROVE  /\ memory \in Address => memory = old \/ (heap[memory] = NotLive /\ memory # old)
         /\ \A a \in Address : heap'[a] = IF a = memory THEN size
                                          ELSE IF a = old /\ memory # NULL THEN NotLive
                                          ELSE heap[a]
  <1>1. heap[old] # NotLive /\ NULL \notin Address
    BY TableAssumption DEF Ownership, Owned
  <1>. QED  BY <1>1 DEF RealReallocate, TypeOK, TableTypeOK

\* Nothing is tracked at an address that holds no live block.
LEMMA FreshIsUntracked ==
  ASSUME Ownership, NEW a \in Address, heap[a] = NotLive
  PROVE  ~ Tracked(a) /\ asked[a] = NotGiven
  BY DEF Ownership, Owned

\* realloc() of a block that is not tracked, instrumented or not.
LEMMA UntrackedReallocateOwnership ==
  ASSUME TypeOK, Ownership, NEW t \in Thread, NEW memory \in Address \cup {NULL},
         NEW old \in Address, old = call[t].memory, call[t].size \in Nat, ~ Tracked(old),
         RealReallocate(call[t].memory, call[t].size, memory),
         UNCHANGED <<m_light, m_closely, watchState>>, fault' = "none",
         ReturnFromReallocate(t, memory)
  PROVE  Ownership'
  <1>1. asked[old] # NotGiven /\ NULL \notin Address
    BY TableAssumption DEF Ownership, CallsHoldGivenBlocks
  <1>2. /\ memory \in Address => memory = old \/ (heap[memory] = NotLive /\ memory # old)
        /\ \A a \in Address : heap'[a] = IF a = memory THEN call[t].size
                                         ELSE IF a = old /\ memory # NULL THEN NotLive
                                         ELSE heap[a]
    BY <1>1, RealReallocateEffect
  <1>3. \A a \in Address : asked'[a] = IF a = memory THEN call[t].size
                                       ELSE IF a = old /\ memory # NULL THEN NotGiven
                                       ELSE asked[a]
    BY <1>1 DEF ReturnFromReallocate, TypeOK
  <1>4. call' = [call EXCEPT ![t] = Idle]
    BY DEF ReturnFromReallocate
  <1>5. memory \in Address => ~ Tracked(memory)
    BY <1>2, FreshIsUntracked
  <1>6. \A a \in Address : a \notin {old, memory} => Untouched(a)
    BY <1>2, <1>3 DEF Untouched
  <1>7. Owned(old)' /\ (memory \in Address => Owned(memory)')
    BY <1>1, <1>2, <1>3, <1>5 DEF Owned, Tracked, NotGiven, NotLive, Ownership
  <1>. QED  BY <1>2, <1>4, <1>6, <1>7, CallEnds

\* realloc() of a block with a light record, which follows the answer.
LEMMA LightReallocateOwnership ==
  ASSUME TypeOK, Ownership, NEW t \in Thread, NEW memory \in Address \cup {NULL},
         NEW old \in Address, old = call[t].memory, call[t].size \in Nat, watchState = "Watching",
         reallocateLight(call[t].memory, call[t].size, memory),
         UNCHANGED watchState, fault' = "none", ReturnFromReallocate(t, memory)
  PROVE  Ownership'
  <1>. DEFINE record == [m_light[old] EXCEPT !.requestedSize = uint32(call[t].size)]
  <1>1. asked[old] # NotGiven /\ NULL \notin Address
    BY TableAssumption DEF Ownership, CallsHoldGivenBlocks
  <1>2. /\ memory \in Address => memory = old \/ (heap[memory] = NotLive /\ memory # old)
        /\ \A a \in Address : heap'[a] = IF a = memory THEN call[t].size
                                         ELSE IF a = old /\ memory # NULL THEN NotLive
                                         ELSE heap[a]
    BY <1>1, RealReallocateEffect DEF reallocateLight
  <1>3. \A a \in Address : asked'[a] = IF a = memory THEN call[t].size
                                       ELSE IF a = old /\ memory # NULL THEN NotGiven
                                       ELSE asked[a]
    BY <1>1 DEF ReturnFromReallocate, TypeOK
  <1>4. call' = [call EXCEPT ![t] = Idle] /\ UNCHANGED m_closely
    BY DEF ReturnFromReallocate, reallocateLight
  <1>5. m_closely[old] = NoRecord /\ (memory \in Address => m_closely[memory] = NoRecord)
    BY <1>2, FreshIsUntracked DEF Ownership, Owned, Tracked, reallocateLight
  <1>6. \A a \in Address : \/ m_light'[a] = m_light[a]
                           \/ a = old \/ a = memory
    BY DEF reallocateLight, moved, TypeOK, TableTypeOK
  <1>7. memory # old => m_light'[old] = NoRecord
    BY DEF reallocateLight, moved, TypeOK, TableTypeOK
  <1>8. \A a \in Address : a \notin {old, memory} => Untouched(a)
    BY <1>2, <1>3, <1>4, <1>6 DEF Untouched
  <1>9. Owned(old)' /\ (memory \in Address => Owned(memory)')
    BY <1>1, <1>2, <1>3, <1>4, <1>5, <1>7 DEF Owned, Tracked, NotGiven, NotLive, Ownership
  <1>. QED  BY <1>2, <1>4, <1>8, <1>9, CallEnds

\* realloc() of a watched block whose size in pages changes: it is copied, or
\* the copy goes wrong and the process ends with the records it had.
LEMMA MovedReallocateOwnership ==
  ASSUME TypeOK, Ownership, NEW t \in Thread, NEW memory \in Address \cup {NULL},
         NEW old \in Address, old = call[t].memory, call[t].size \in Nat, watchState = "Watching",
         reallocateCloselyMoved(call[t].memory, call[t].size, memory), fault = "none",
         UNCHANGED watchState, ReturnFromReallocate(t, memory)
  PROVE  Ownership'
  <1>. DEFINE record == [m_closely[old] EXCEPT !.requestedSize = uint32(call[t].size)]
              actual == roundUpToPageMultiple(call[t].size)
  <1>1. /\ asked[old] # NotGiven /\ NULL \notin Address /\ heap[old] # NotLive /\ actual \in Nat
        /\ m_closely[old] \in CloselyWatchedAllocation
    BY TableAssumption, SizeTypes
    DEF Ownership, CallsHoldGivenBlocks, Owned, reallocateCloselyMoved, TypeOK, TableTypeOK
  <1>2. /\ memory \in Address => heap[memory] = NotLive /\ memory # old
        /\ \A a \in Address : heap'[a] = IF a = memory THEN actual ELSE heap[a]
    BY <1>1 DEF reallocateCloselyMoved, RealAllocate, TypeOK, TableTypeOK
  <1>3. /\ call' = [call EXCEPT ![t] = Idle] /\ UNCHANGED m_light /\ m_light[old] = NoRecord
        /\ memory \in Address => ~ Tracked(memory) /\ asked[memory] = NotGiven
    BY <1>2, FreshIsUntracked DEF ReturnFromReallocate, reallocateCloselyMoved
  <1>4. CASE fault' # "none"
    <2>1. UNCHANGED <<asked, m_closely>>
      BY <1>4 DEF ReturnFromReallocate, reallocateCloselyMoved
    <2>2. \A a \in Address : a # memory => Untouched(a)
      BY <1>2, <1>3, <2>1 DEF Untouched
    <2>3. memory \in Address => Owned(memory)'
      BY <1>3, <2>1 DEF Owned, Tracked
    <2>. QED  BY <1>2, <1>3, <2>2, <2>3, CallEnds
  <1>5. CASE fault' = "none"
    <2>1. memory \in Address /\ m_closely' = moved(m_closely, old, memory, record)
      BY <1>5 DEF reallocateCloselyMoved
    <2>2. record \in CloselyWatchedAllocation /\ record.requestedSize = uint32(call[t].size)
      BY <1>1, SizeTypes DEF CloselyWatchedAllocation
    <2>. HIDE DEF record
    <2>3. \A a \in Address : m_closely'[a] = IF a = old THEN NoRecord
                                             ELSE IF a = memory THEN record
                                             ELSE m_closely[a]
      BY <1>3, <2>1 DEF moved, TypeOK, TableTypeOK, Tracked
    <2>4. \A a \in Address : asked'[a] = IF a = memory THEN call[t].size
                                         ELSE IF a = old THEN NotGiven
                                         ELSE asked[a]
      BY <1>1, <1>5, <2>1 DEF ReturnFromReallocate, TypeOK
    <2>5. \A a \in Address : a \notin {old, memory} => Untouched(a)
      BY <1>2, <1>3, <2>3, <2>4 DEF Untouched
    <2>6. roundUpToPageMultiple(record.requestedSize) = actual
      BY <2>2, RoundingOfCast
    <2>. HIDE DEF actual
    <2>7. Owned(old)' /\ Owned(memory)'
      BY <1>1, <1>2, <1>3, <2>1, <2>3, <2>4, <2>6 DEF Owned, Tracked, NotGiven, NotLive
    <2>. QED  BY <1>2, <1>3, <2>5, <2>7, CallEnds
  <1>. QED  BY <1>4, <1>5

\* realloc() of a watched block that keeps its size in pages, and its place.
LEMMA InPlaceReallocateOwnership ==
  ASSUME TypeOK, Ownership, NEW t \in Thread, NEW memory \in Address \cup {NULL},
         NEW old \in Address, old = call[t].memory, call[t].size \in Nat, watchState = "Watching",
         reallocateCloselyInPlace(call[t].memory, call[t].size, memory),
         UNCHANGED watchState, fault' = "none", ReturnFromReallocate(t, memory)
  PROVE  Ownership'
  <1>1. /\ memory = old /\ UNCHANGED <<m_light, heap>> /\ m_light[old] = NoRecord
        /\ call' = [call EXCEPT ![t] = Idle]
        /\ m_closely[old] \in CloselyWatchedAllocation
        /\ m_closely' = [m_closely EXCEPT ![old].requestedSize = uint32(call[t].size)]
    BY DEF reallocateCloselyInPlace, ReturnFromReallocate, TypeOK, TableTypeOK
  <1>2. /\ m_closely'[old].requestedSize = uint32(call[t].size)
        /\ \A a \in Address : a # old => m_closely'[a] = m_closely[a]
    BY <1>1 DEF TypeOK, TableTypeOK, CloselyWatchedAllocation
  <1>3. \A a \in Address : asked'[a] = IF a = old THEN call[t].size ELSE asked[a]
    BY <1>1, TableAssumption DEF ReturnFromReallocate, TypeOK
  <1>4. heap'[old] = roundUpToPageMultiple(m_closely'[old].requestedSize) /\ heap'[old] # NotLive
    BY <1>1, <1>2, RoundingOfCast
    DEF Ownership, CallsHoldGivenBlocks, Owned, reallocateCloselyInPlace, keepsPages
  <1>5. \A a \in Address : a # old => Untouched(a)
    BY <1>1, <1>2, <1>3 DEF Untouched
  <1>6. Owned(old)'
    BY <1>1, <1>3, <1>4 DEF Owned, Tracked, NotGiven
  <1>. QED  BY <1>1, <1>5, <1>6, CallEnds

\* Reallocation, every path.
LEMMA ReallocateOwnership ==
  ASSUME Accounting, Ownership, NEW t \in Thread, ExecuteReallocate(t)
  PROVE  Ownership'
  <1>1. PICK memory \in Answers(t) :
           /\ IF instrumented(t)
              THEN mutexIsFree /\ instrumentedReallocate(call[t].memory, call[t].size, memory)
              ELSE /\ RealReallocate(call[t].memory, call[t].size, memory)
                   /\ UNCHANGED <<tableVars, fault>>
           /\ ReturnFromReallocate(t, memory)
    BY DEF ExecuteReallocate
  <1>2. /\ TypeOK /\ memory \in Address \cup {NULL} /\ UNCHANGED watchState /\ fault = "none"
    BY DEF ExecuteReallocate, patrolVars, Accounting, TypeOK, Answers, Alive
  <1>3. call[t].memory \in Address /\ call[t].size \in Nat
    BY <1>2, CallTypes DEF ExecuteReallocate
  <1>4. CASE ~ instrumented(t)
    <2>1. ~ Tracked(call[t].memory)
      BY <1>3, <1>4 DEF instrumented, Ownership, StaleCallsHoldUntracked
    <2>. QED  BY <1>1, <1>2, <1>3, <1>4, <2>1, UntrackedReallocateOwnership DEF tableVars
  <1>5. CASE instrumented(t)
    <2>1. watchState = "Watching"
      BY <1>5 DEF instrumented, Ownership, StaleCallsHoldUntracked
    <2>2. CASE reallocateUntracked(call[t].memory, call[t].size, memory)
      BY <1>1, <1>2, <1>3, <2>2, UntrackedReallocateOwnership DEF reallocateUntracked, Tracked
    <2>3. CASE reallocateLight(call[t].memory, call[t].size, memory)
      BY <1>1, <1>2, <1>3, <2>1, <2>3, LightReallocateOwnership DEF reallocateLight
    <2>4. CASE reallocateCloselyMoved(call[t].memory, call[t].size, memory)
      BY <1>1, <1>2, <1>3, <2>1, <2>4, MovedReallocateOwnership
    <2>5. CASE reallocateCloselyInPlace(call[t].memory, call[t].size, memory)
      BY <1>1, <1>2, <1>3, <2>1, <2>5, InPlaceReallocateOwnership DEF reallocateCloselyInPlace
    <2>. QED  BY <1>1, <1>5, <2>2, <2>3, <2>4, <2>5 DEF instrumentedReallocate
  <1>. QED  BY <1>4, <1>5

\* free(), and realloc(a, 0), which may answer an empty block.
LEMMA FreeOwnership ==
  ASSUME Accounting, Ownership, NEW t \in Thread, ExecuteFree(t)
  PROVE  Ownership'
  <1>1. PICK memory \in Answers(t) :
           /\ IF instrumented(t)
              THEN mutexIsFree /\ instrumentedFree(call[t].memory, memory)
              ELSE RealFree(call[t].memory, memory) /\ UNCHANGED <<tableVars, fault>>
           /\ ReturnFromFree(t, memory)
    BY DEF ExecuteFree
  <1>2. /\ TypeOK /\ memory \in Address \cup {NULL} /\ UNCHANGED watchState
        /\ call' = [call EXCEPT ![t] = Idle]
    BY <1>1 DEF ExecuteFree, ReturnFromFree, patrolVars, Accounting, TypeOK, Answers
  <1>3. PICK old \in Address : old = call[t].memory
    BY <1>2, CallTypes DEF ExecuteFree
  <1>4. RealFree(old, memory)
    BY <1>1, <1>3 DEF instrumentedFree
  <1>5. /\ memory \in Address => memory = old \/ (heap[memory] = NotLive /\ memory # old)
        /\ \A a \in Address : heap'[a] = IF a = memory THEN 0 ELSE IF a = old THEN NotLive ELSE heap[a]
    BY <1>2, <1>4, TableAssumption DEF RealFree, TypeOK, TableTypeOK, Ownership, Owned,
                                       CallsHoldGivenBlocks
  <1>6. \A a \in Address : asked'[a] = IF a = memory THEN 0 ELSE IF a = old THEN NotGiven ELSE asked[a]
    BY <1>1, <1>2, <1>3, TableAssumption DEF ReturnFromFree, TypeOK
  <1>7. /\ ~ Tracked(old)'
        /\ \A a \in Address : a # old => m_light'[a] = m_light[a] /\ m_closely'[a] = m_closely[a]
    <2>1. CASE ~ instrumented(t)
      BY <1>1, <1>3, <2>1 DEF instrumented, Ownership, StaleCallsHoldUntracked, Tracked, tableVars
    <2>2. CASE instrumented(t)
      BY <1>1, <1>2, <1>3, <2>2
      DEF instrumentedFree, freeLight, freeClosely, freeUntracked, Tracked, Ownership, Owned,
          TypeOK, TableTypeOK
    <2>. QED  BY <2>1, <2>2
  <1>8. memory \in Address /\ memory # old => ~ Tracked(memory)'
    BY <1>5, <1>7, FreshIsUntracked DEF Tracked
  <1>9. \A a \in Address : a \notin {old, memory} => Untouched(a)
    BY <1>5, <1>6, <1>7 DEF Untouched
  <1>10. Owned(old)' /\ (memory \in Address => Owned(memory)')
    BY <1>5, <1>6, <1>7, <1>8 DEF Owned, Tracked, NotGiven, NotLive
  <1>11. memory \in Address => memory = call[t].memory \/ heap[memory] = NotLive
    BY <1>3, <1>5
  <1>12. \A a \in Address : Untouched(a) \/ (a \in {call[t].memory, memory} /\ Owned(a)')
    <2>. SUFFICES ASSUME NEW a \in Address, a \in {old, memory} PROVE Owned(a)'
      BY <1>3, <1>9
    <2>. QED  BY <1>10
  <1>. QED  BY <1>2, <1>11, <1>12, CallEnds

\* Entering a wrapper: the application hands over a block that no call has,
\* and before the watching begins no block is tracked.
LEMMA EnterOwnership ==
  ASSUME Accounting, Ownership, NEW t \in Thread,
         \/ EnterAllocate(t) \/ EnterReallocate(t) \/ EnterFree(t) \/ EnterReallocateToZero(t)
  PROVE  Ownership'
  <1>1. PICK op, memory, size, trace : /\ Enter(t, op, memory, size, trace)
                                       /\ memory = NULL \/ memory \in AtHand
    BY DEF EnterAllocate, EnterReallocate, EnterFree, EnterReallocateToZero
  <1>2. /\ UNCHANGED <<m_light, m_closely, heap, watchState, asked>>
        /\ watchState \in WatchState /\ NULL \notin Address
    BY <1>1, TableAssumption DEF Enter, tableVars, patrolVars, Accounting, TypeOK, PatrolTypeOK
  <1>3. /\ call'[t].memory = memory /\ call'[t].watch = watchState
        /\ \A u \in Thread : u # t => call'[u] = call[u]
    BY <1>1 DEF Enter, Accounting, TypeOK
  <1>4. \A a \in Address : Owned(a)' /\ (Tracked(a)' <=> Tracked(a))
    BY <1>2 DEF Ownership, Owned, Tracked
  <1>5. CallsHoldGivenBlocks'
    BY <1>1, <1>2, <1>3 DEF Ownership, CallsHoldGivenBlocks, AtHand
  <1>6. StaleCallsHoldUntracked'
    BY <1>2, <1>3, <1>4 DEF Ownership, StaleCallsHoldUntracked, Owned, WatchState
  <1>. QED  BY <1>4, <1>5, <1>6 DEF Ownership

\* The patrol thread only takes records away, and may begin the watching.
LEMMA PatrolOwnership ==
  ASSUME Accounting, Ownership, Patrol
  PROVE  Ownership'
  <1>1. /\ m_closely \in [Address -> Records] /\ UNCHANGED <<heap, asked, call>>
        /\ m_light \in [Address \cup {NULL} -> LightAllocation \cup {NoRecord}]
    BY DEF Accounting, TypeOK, TableTypeOK, Records, Patrol, appVars
  <1>2. watchState' \in {watchState, "Watching"}
    BY DEF Patrol, patrolStep, patrolAutoStart, patrolWake, patrolLock, patrolExpireLight,
           patrolLightDone, patrolBecomeSuspicious, patrolDeclareLeak, patrolUnlock,
           patrolAnnounce, patrolReport, patrolVars
  <1>3. ASSUME NEW a \in Address
        PROVE  /\ m_light'[a] \in {m_light[a], NoRecord}
               /\ \/ m_closely'[a] = NoRecord
                  \/ /\ m_closely[a] # NoRecord
                     /\ m_closely'[a].requestedSize = m_closely[a].requestedSize
    <2>1. CASE patrolExpireLight
      BY <1>1, <2>1 DEF patrolExpireLight, expireLight
    <2>2. CASE patrolBecomeSuspicious
      <3>1. PICK b \in Expired(m_closely, patrolNow) : becomeSuspicious(b, patrolNow)
        BY <2>2 DEF patrolBecomeSuspicious
      <3>2. b \in Address /\ m_closely[b] # NoRecord /\ m_light' = m_light
            /\ m_closely[b] \in CloselyWatchedAllocation
        BY <1>1, <3>1 DEF Expired, becomeSuspicious, Records
      <3>3. m_closely'[b].requestedSize = m_closely[b].requestedSize
        BY <1>1, <3>1, <3>2 DEF becomeSuspicious, CloselyWatchedAllocation
      <3>4. a # b => m_closely'[a] = m_closely[a]
        BY <1>1, <3>1 DEF becomeSuspicious
      <3>. QED  BY <3>2, <3>3, <3>4
    <2>3. CASE patrolDeclareLeak
      BY <1>1, <2>3 DEF patrolDeclareLeak, declareLeak
    <2>4. CASE ~ patrolExpireLight /\ ~ patrolBecomeSuspicious /\ ~ patrolDeclareLeak
      <3>1. UNCHANGED tableVars
        BY <2>4 DEF Patrol, patrolStep, patrolAutoStart, patrolWake, patrolLock, patrolLightDone,
                    patrolUnlock, patrolAnnounce, patrolReport
      <3>. QED  BY <3>1 DEF tableVars
    <2>. QED  BY <2>1, <2>2, <2>3, <2>4
  <1>4. \A a \in Address : Tracked(a)' => Tracked(a)
    BY <1>3 DEF Tracked
  <1>5. \A a \in Address : Owned(a)'
    BY <1>1, <1>2, <1>3, <1>4 DEF Ownership, Owned
  <1>6. CallsHoldGivenBlocks' /\ StaleCallsHoldUntracked'
    BY <1>1, <1>2, <1>4 DEF Ownership, CallsHoldGivenBlocks, StaleCallsHoldUntracked
  <1>. QED  BY <1>5, <1>6 DEF Ownership

\* Every step preserves ownership when no other process turns the watching off.
LEMMA StepOwnership ==
  ASSUME ~ OtherProcesses, Accounting, Ownership, [Next]_vars
  PROVE  Ownership'
  <1>1. CASE \E t \in Thread :
                \/ EnterAllocate(t) \/ EnterReallocate(t) \/ EnterFree(t) \/ EnterReallocateToZero(t)
    BY <1>1, EnterOwnership
  <1>2. CASE \E t \in Thread : ExecuteAllocate(t) \/ ExecuteReallocate(t) \/ ExecuteFree(t)
    BY <1>2, AllocateOwnership, ReallocateOwnership, FreeOwnership
  <1>3. CASE Patrol
    BY <1>3, PatrolOwnership
  <1>4. CASE StartSignal \/ Tick \/ UNCHANGED vars
    <2>1. /\ UNCHANGED <<m_light, m_closely, heap, asked, call>>
          /\ watchState' \in {watchState, "Watching"}
      BY <1>4 DEF StartSignal, Tick, vars, tableVars, appVars, patrolVars
    <2>. QED  BY <2>1 DEF Ownership, Owned, Tracked, CallsHoldGivenBlocks, StaleCallsHoldUntracked
  <1>. QED  BY <1>1, <1>2, <1>3, <1>4 DEF Next, OtherProcessStarts, Dead

\* The accounting and the ownership hold in every reachable state.
LEMMA OwnershipInvariant ==
  ASSUME ~ OtherProcesses
  PROVE  Spec => [](Accounting /\ Ownership)
  <1>1. Init => Accounting /\ Ownership
    BY InitAccounting, InitOwnership
  <1>2. Accounting /\ Ownership /\ [Next]_vars => (Accounting /\ Ownership)'
    BY StepAccounting, StepOwnership
  <1>. QED  BY <1>1, <1>2, PTL DEF Spec

-----------------------------------------------------------------------------
(* What follows.                                                           *)

\* A record under an address, in either table, describes a block that the
\* underlying allocator still holds live, and no block has two records:
\* free() and realloc() take the record away before the address can be handed
\* out again, also in calls that race with the start of the watching.
THEOREM RecordsDescribeLiveBlocksAlways ==
  ASSUME ~ OtherProcesses
  PROVE  Spec => []RecordsDescribeLiveBlocks
  <1>1. Accounting /\ Ownership => RecordsDescribeLiveBlocks
    BY DEF Ownership, Owned, Tracked, RecordsDescribeLiveBlocks
  <1>. QED  BY <1>1, OwnershipInvariant, PTL

\* A new light record never falls on another.
LEMMA AllocateFollows ==
  ASSUME Accounting, Ownership, NEW t \in Thread, ExecuteAllocate(t),
         NEW a \in Address \cup {NULL}, m_light[a] # NoRecord
  PROVE  m_light'[a] = m_light[a]
  <1>1. PICK memory \in Answers(t) :
           \/ instrumentedAllocate(call[t].size, call[t].trace, memory)
           \/ UNCHANGED tableVars
    BY DEF ExecuteAllocate
  <1>2. m_light \in [Address \cup {NULL} -> LightAllocation \cup {NoRecord}]
    BY DEF Accounting, TypeOK, TableTypeOK
  <1>3. CASE allocateLight(call[t].size, call[t].trace, memory) /\ memory # NULL
    <2>1. memory \in Address /\ heap[memory] = NotLive
      BY <1>3 DEF allocateLight, RealAllocate
    <2>2. m_light[memory] = NoRecord
      BY <2>1, FreshIsUntracked DEF Tracked
    <2>. QED  BY <1>2, <1>3, <2>1, <2>2 DEF allocateLight
  <1>. QED  BY <1>1, <1>3 DEF instrumentedAllocate, allocateLight, allocateSkipped,
                              allocateCloselyWatched, tableVars

\* The record of a block that realloc() moves goes with it, and that of a
\* block that it fails to move to the NULL key unless one is there.
LEMMA ReallocateFollows ==
  ASSUME Accounting, Ownership, NEW t \in Thread, ExecuteReallocate(t),
         NEW a \in Address \cup {NULL}, m_light[a] # NoRecord
  PROVE  LightRecordFollows(a)
  <1>1. PICK memory \in Answers(t) :
           /\ \/ instrumentedReallocate(call[t].memory, call[t].size, memory)
              \/ UNCHANGED <<tableVars, fault>>
           /\ ReturnFromReallocate(t, memory)
    BY DEF ExecuteReallocate
  <1>2. /\ TypeOK /\ memory \in Address \cup {NULL} /\ fault = "none" /\ call[t].op = "reallocate"
        /\ m_light \in [Address \cup {NULL} -> LightAllocation \cup {NoRecord}]
        /\ NULL \notin Address
    BY TableAssumption DEF ExecuteReallocate, Accounting, TypeOK, TableTypeOK, Answers, Alive
  <1>3. PICK old \in Address : old = call[t].memory /\ call[t].size \in Nat
    BY <1>2, CallTypes
  <1>4. CASE m_light'[a] = m_light[a]
    BY <1>4 DEF LightRecordFollows, CarriedTo
  <1>5. CASE reallocateLight(old, call[t].size, memory)
    <2>. DEFINE record == [m_light[old] EXCEPT !.requestedSize = uint32(call[t].size)]
    <2>1. asked[old] # NotGiven /\ fault' = "none"
      BY <1>2, <1>3, <1>5 DEF Ownership, CallsHoldGivenBlocks, reallocateLight
    <2>2. m_light[old] \in LightAllocation /\ m_light[old] # NoRecord
      BY <1>2, <1>5 DEF reallocateLight
    <2>3. /\ record # NoRecord
          /\ record.deadline = m_light[old].deadline
          /\ record.fingerprint = m_light[old].fingerprint
      <3>1. record \in LightAllocation
        BY <1>3, <2>2, SizeTypes DEF LightAllocation
      <3>. QED  BY <2>2, <3>1, NoRecordAssumption DEF LightAllocation
    <2>4. m_light' = IF memory = old THEN [m_light EXCEPT ![old] = record]
                                     ELSE moved(m_light, old, memory, record)
      BY <1>5 DEF reallocateLight
    <2>. HIDE DEF record
    <2>5. memory \in Address /\ memory # old =>
             m_light[memory] = NoRecord /\ asked[memory] = NotGiven
      <3>1. memory \in Address /\ memory # old => heap[memory] = NotLive
        BY <1>2, <1>3, <1>5, <2>1, RealReallocateEffect DEF reallocateLight
      <3>. QED  BY <3>1, FreshIsUntracked DEF Tracked
    <2>6. CASE a # old
      <3>1. m_light'[a] = m_light[a]
        BY <1>2, <2>4, <2>5, <2>6 DEF moved
      <3>. QED  BY <1>4, <3>1
    <2>7. CASE a = old /\ memory = old
      BY <1>2, <2>3, <2>4, <2>7 DEF LightRecordFollows, CarriedTo
    <2>8. CASE a = old /\ memory = NULL
      <3>1. asked' = asked
        BY <1>1, <2>8 DEF ReturnFromReallocate
      <3>2. /\ m_light'[a] = NoRecord
            /\ m_light[NULL] = NoRecord => m_light'[NULL] = record
        BY <1>2, <2>4, <2>8 DEF moved
      <3>3. m_light[NULL] # NoRecord \/ CarriedTo(a, NULL)
        BY <2>3, <2>8, <3>2 DEF CarriedTo
      <3>. QED  BY <1>2, <1>3, <2>8, <3>1, <3>2, <3>3 DEF LightRecordFollows, MovedOrFreed
    <2>9. CASE a = old /\ memory # old /\ memory # NULL
      <3>1. memory \in Address /\ m_light[memory] = NoRecord /\ asked[memory] = NotGiven
        BY <1>2, <2>5, <2>9
      <3>2. asked'[a] = NotGiven /\ asked'[memory] = call[t].size
        BY <1>1, <1>2, <1>3, <2>1, <2>9 DEF ReturnFromReallocate, TypeOK
      <3>3. m_light'[memory] = record
        BY <1>2, <2>4, <2>9, <3>1 DEF moved
      <3>4. CarriedTo(a, memory)
        BY <2>3, <2>9, <3>3 DEF CarriedTo
      <3>. QED  BY <1>2, <1>3, <2>9, <3>1, <3>2, <3>4 DEF LightRecordFollows, MovedOrFreed
    <2>. QED  BY <2>6, <2>7, <2>8, <2>9
  <1>. QED  BY <1>1, <1>3, <1>4, <1>5
            DEF instrumentedReallocate, reallocateCloselyMoved, reallocateCloselyInPlace,
                reallocateUntracked, tableVars

\* free() takes no record but that of the block that is freed.
LEMMA FreeFollows ==
  ASSUME Accounting, NEW t \in Thread, ExecuteFree(t),
         NEW a \in Address \cup {NULL}, m_light[a] # NoRecord
  PROVE  m_light'[a] = m_light[a] \/ MovedOrFreed(a)
  <1>1. /\ m_light \in [Address \cup {NULL} -> LightAllocation \cup {NoRecord}]
        /\ call[t].op \in {"free", "reallocateToZero"}
    BY DEF Accounting, TypeOK, TableTypeOK, ExecuteFree
  <1>2. CASE call[t].memory = a
    BY <1>1, <1>2 DEF MovedOrFreed
  <1>3. CASE call[t].memory # a
    BY <1>1, <1>3 DEF ExecuteFree, instrumentedFree, freeLight, freeClosely, freeUntracked, tableVars
  <1>. QED  BY <1>2, <1>3

\* The patrol scan takes only records past their deadline, also under the
\* "now" that it read before the lock.
LEMMA PatrolFollows ==
  ASSUME Accounting, Ages, Patrol, NEW a \in Address \cup {NULL}, m_light[a] # NoRecord
  PROVE  LightRecordFollows(a)
  <1>1. /\ m_light \in [Address \cup {NULL} -> LightAllocation \cup {NoRecord}]
        /\ patrolNow \in Nat /\ clock \in Nat /\ patrolNow <= clock
    BY DEF Accounting, TypeOK, TableTypeOK, PatrolTypeOK, Ages
  <1>2. CASE m_light'[a] = m_light[a]
    BY <1>2 DEF LightRecordFollows, CarriedTo
  <1>3. CASE patrolExpireLight
    <2>1. PICK b \in Expired(m_light, patrolNow) : expireLight(b)
      BY <1>3 DEF patrolExpireLight
    <2>2. b # a => m_light'[a] = m_light[a]
      BY <1>1, <2>1 DEF expireLight
    <2>3. CASE b = a
      <3>1. m_light[a].deadline < patrolNow /\ m_light[a].deadline \in Nat
        BY <1>1, <2>1, <2>3 DEF Expired, LightAllocation
      <3>2. m_light[a].fingerprint \in m_suspiciousFingerprints'
        BY <2>1, <2>3 DEF expireLight
      <3>. QED  BY <1>1, <3>1, <3>2 DEF LightRecordFollows
    <2>. QED  BY <1>2, <2>2, <2>3
  <1>4. CASE ~ patrolExpireLight
    <2>1. m_light' = m_light
      BY <1>4
      DEF Patrol, patrolStep, patrolAutoStart, patrolWake, patrolLock, patrolLightDone,
          patrolBecomeSuspicious, patrolDeclareLeak, patrolUnlock, patrolAnnounce, patrolReport,
          becomeSuspicious, declareLeak, tableVars
    <2>. QED  BY <1>2, <2>1
  <1>. QED  BY <1>3, <1>4

\* A light record follows its block through realloc() and is dropped only by
\* free() or past its deadline, which makes the fingerprint suspicious; the
\* one of a failed realloc() stays under the NULL key until then.
THEOREM LightRecordsFollowTheirBlocksAlways ==
  ASSUME ~ OtherProcesses
  PROVE  Spec => LightRecordsFollowTheirBlocks
  <1>1. ASSUME Accounting, Ownership, Ages, [Next]_vars,
               NEW a \in Address \cup {NULL}, m_light[a] # NoRecord
        PROVE  LightRecordFollows(a)
    <2>1. CASE m_light'[a] = m_light[a] \/ MovedOrFreed(a)
      BY <1>1, <2>1 DEF LightRecordFollows, CarriedTo
    <2>2. CASE \E t \in Thread : ExecuteAllocate(t) \/ ExecuteReallocate(t) \/ ExecuteFree(t)
      BY <1>1, <2>1, <2>2, AllocateFollows, ReallocateFollows, FreeFollows
    <2>3. CASE Patrol
      BY <1>1, <2>3, PatrolFollows
    <2>4. CASE ~ Patrol /\ ~ \E t \in Thread : ExecuteAllocate(t) \/ ExecuteReallocate(t) \/ ExecuteFree(t)
      <3>1. UNCHANGED tableVars
        BY <1>1, <2>4 DEF Next, vars, EnterAllocate, EnterReallocate, EnterFree, EnterReallocateToZero,
                    Enter, StartSignal, OtherProcessStarts, Tick, Dead
      <3>. QED  BY <2>1, <3>1 DEF tableVars
    <2>. QED  BY <2>2, <2>3, <2>4
  <1>2. Accounting => DOMAIN m_light = Address \cup {NULL}
    BY DEF Accounting, TypeOK, TableTypeOK
  <1>3. ASSUME Accounting, Ownership, Ages, [Next]_vars
        PROVE  \A a \in DOMAIN m_light : m_light[a] # NoRecord => LightRecordFollows(a)
    BY <1>1, <1>2, <1>3
  <1>. QED  BY <1>3, OwnershipInvariant, AgesInvariant, PTL
            DEF Spec, LightRecordsFollowTheirBlocks

\* The body of a call changes the counters and the records alike: a new or
\* moved sample never falls on another record.
LEMMA CalledMatches ==
  ASSUME Accounting, Ownership, CountersMatchTable, NEW t \in Thread, CalledOnSamples(t)
  PROVE  CountersMatchTable'
  <1>1. /\ TableAccounting /\ m_closely \in [Address -> Records]
        /\ m_infos \in [InfoKey -> WatchedStackTraceInfo] /\ allTraces \in Nat
        /\ clock \in Nat
    BY DEF Accounting, TableAccounting, TableTypeOK, Records
  <1>2. /\ allTraces = Cardinality(Keys(m_closely))
        /\ \A p \in InfoKey : m_infos[p].live = Cardinality(KeysFor(m_closely, p))
    BY DEF CountersMatchTable, WatchedBlocks, WatchedBlocksOf, Keys, KeysFor
  <1>. SUFFICES /\ allTraces' = Cardinality(Keys(m_closely'))
                /\ \A p \in InfoKey : m_infos'[p].live = Cardinality(KeysFor(m_closely', p))
    BY DEF CountersMatchTable, WatchedBlocks, WatchedBlocksOf, Keys, KeysFor
  <1>3. CASE UNCHANGED m_closely /\ SameCounts
    BY <1>2, <1>3 DEF SameCounts
  <1>4. ASSUME NEW a \in Address, NEW size \in Nat, NEW key \in InfoKey, SampleAdded(a, size, key)
        PROVE  /\ allTraces' = Cardinality(Keys(m_closely'))
               /\ \A p \in InfoKey : m_infos'[p].live = Cardinality(KeysFor(m_closely', p))
    <2>1. m_closely[a] = NoRecord
      BY <1>4, FreshIsUntracked DEF SampleAdded, Tracked
    <2>. DEFINE record == newSample(size, key)
    <2>2. record \in CloselyWatchedAllocation /\ record.info = key
      BY <1>1, SizeTypes, TableAssumption DEF newSample, CloselyWatchedAllocation
    <2>3. /\ m_closely' = [m_closely EXCEPT ![a] = record]
          /\ m_infos' = [m_infos EXCEPT ![key] = countWatched(m_infos[key])]
          /\ allTraces' = allTraces + 1
      BY <1>4 DEF SampleAdded, InfosUpdated
    <2>. HIDE DEF record
    <2>4. \A p \in InfoKey : m_infos'[p].live = IF p = key THEN m_infos[p].live + 1 ELSE m_infos[p].live
      BY <1>1, <2>3, CountWatched
    <2>5. Cardinality(Keys(m_closely')) = Cardinality(Keys(m_closely)) + 1
      BY <1>1, <2>1, <2>2, <2>3, PutKeys
    <2>6. ASSUME NEW p \in InfoKey
          PROVE  /\ p = key => Cardinality(KeysFor(m_closely', p)) =
                                  Cardinality(KeysFor(m_closely, p)) + 1
                 /\ p # key => Cardinality(KeysFor(m_closely', p)) =
                                  Cardinality(KeysFor(m_closely, p))
      BY <1>1, <2>1, <2>2, <2>3, PutKeys
    <2>. QED  BY <1>2, <2>3, <2>4, <2>5, <2>6
  <1>5. ASSUME NEW a \in Address, SampleFreed(a)
        PROVE  /\ allTraces' = Cardinality(Keys(m_closely'))
               /\ \A p \in InfoKey : m_infos'[p].live = Cardinality(KeysFor(m_closely', p))
    <2>1. PICK key \in InfoKey : key = m_closely[a].info
      BY <1>1, <1>5, WatchedIsCounted DEF SampleFreed
    <2>2. /\ m_closely[a] # NoRecord /\ m_closely' = [m_closely EXCEPT ![a] = NoRecord]
          /\ m_infos' = [m_infos EXCEPT ![key] = countFreed(m_infos[key])]
          /\ allTraces' = allTraces - 1
      BY <1>5, <2>1 DEF SampleFreed, InfosUpdated
    <2>3. countFreed(m_infos[key]).live = m_infos[key].live - 1
      BY <1>1, <2>1, <2>2, CountFreed, WatchedIsCounted
    <2>4. \A p \in InfoKey : m_infos'[p].live = IF p = key THEN m_infos[p].live - 1 ELSE m_infos[p].live
      BY <1>1, <2>2, <2>3
    <2>5. Cardinality(Keys(m_closely')) = Cardinality(Keys(m_closely)) - 1
      BY <1>1, <2>2, EraseKeys
    <2>6. ASSUME NEW p \in InfoKey
          PROVE  /\ p = key => Cardinality(KeysFor(m_closely', p)) =
                                  Cardinality(KeysFor(m_closely, p)) - 1
                 /\ p # key => Cardinality(KeysFor(m_closely', p)) =
                                  Cardinality(KeysFor(m_closely, p))
      BY <1>1, <2>1, <2>2, EraseKeys
    <2>. QED  BY <1>2, <2>2, <2>4, <2>5, <2>6
  <1>6. ASSUME call[t].memory \in Address, NEW b \in Address, NEW size \in Nat,
               SampleMoved(call[t].memory, b, size)
        PROVE  /\ allTraces' = Cardinality(Keys(m_closely'))
               /\ \A p \in InfoKey : m_infos'[p].live = Cardinality(KeysFor(m_closely', p))
    <2>1. b # call[t].memory /\ m_closely[b] = NoRecord
      BY <1>6, FreshIsUntracked
      DEF SampleMoved, Tracked, Ownership, CallsHoldGivenBlocks, Owned
    <2>. DEFINE record == [m_closely[call[t].memory] EXCEPT !.requestedSize = uint32(size)]
    <2>2. /\ record \in CloselyWatchedAllocation
          /\ record.info = m_closely[call[t].memory].info
          /\ m_closely[call[t].memory] # NoRecord
          /\ m_closely' = moved(m_closely, call[t].memory, b, record)
      BY <1>1, <1>6, SizeTypes DEF SampleMoved, CloselyWatchedAllocation, Records
    <2>. HIDE DEF record
    <2>3. Cardinality(Keys(m_closely')) = Cardinality(Keys(m_closely))
      BY <1>1, <1>6, <2>1, <2>2, MovedKeys
    <2>4. \A p \in InfoKey : Cardinality(KeysFor(m_closely', p)) = Cardinality(KeysFor(m_closely, p))
      BY <1>1, <1>6, <2>1, <2>2, MovedKeys
    <2>. QED  BY <1>2, <1>6, <2>3, <2>4 DEF SampleMoved, SameCounts
  <1>7. ASSUME call[t].memory \in Address, NEW size \in Nat, SampleResized(call[t].memory, size)
        PROVE  /\ allTraces' = Cardinality(Keys(m_closely'))
               /\ \A p \in InfoKey : m_infos'[p].live = Cardinality(KeysFor(m_closely', p))
    <2>. DEFINE record == [m_closely[call[t].memory] EXCEPT !.requestedSize = uint32(size)]
    <2>1. /\ record \in CloselyWatchedAllocation
          /\ record.info = m_closely[call[t].memory].info
          /\ m_closely[call[t].memory] # NoRecord
          /\ m_closely' = [m_closely EXCEPT ![call[t].memory] = record]
      BY <1>1, <1>7, SizeTypes DEF SampleResized, CloselyWatchedAllocation, Records
    <2>. HIDE DEF record
    <2>2. Cardinality(Keys(m_closely')) = Cardinality(Keys(m_closely))
      BY <1>1, <1>7, <2>1, UpdateKeys
    <2>3. \A p \in InfoKey : Cardinality(KeysFor(m_closely', p)) = Cardinality(KeysFor(m_closely, p))
      BY <1>1, <1>7, <2>1, UpdateKeys
    <2>. QED  BY <1>2, <1>7, <2>2, <2>3 DEF SampleResized, SameCounts
  <1>. QED  BY <1>3, <1>4, <1>5, <1>6, <1>7, TableAssumption DEF CalledOnSamples

\* The patrol scan changes the counters and the records alike.
LEMMA ScannedMatches ==
  ASSUME Accounting, CountersMatchTable, NEW a \in Address, SampleSuspected(a) \/ SampleLeaked(a)
  PROVE  CountersMatchTable'
  <1>1. /\ TableAccounting /\ m_closely \in [Address -> Records]
        /\ m_infos \in [InfoKey -> WatchedStackTraceInfo] /\ allTraces \in Nat
        /\ patrolNow \in Nat /\ m_closely[a] # NoRecord
    BY DEF Accounting, TypeOK, PatrolTypeOK, TableAccounting, TableTypeOK, Records,
           SampleSuspected, SampleLeaked, Expired
  <1>2. /\ allTraces = Cardinality(Keys(m_closely))
        /\ \A p \in InfoKey : m_infos[p].live = Cardinality(KeysFor(m_closely, p))
    BY DEF CountersMatchTable, WatchedBlocks, WatchedBlocksOf, Keys, KeysFor
  <1>. SUFFICES /\ allTraces' = Cardinality(Keys(m_closely'))
                /\ \A p \in InfoKey : m_infos'[p].live = Cardinality(KeysFor(m_closely', p))
    BY DEF CountersMatchTable, WatchedBlocks, WatchedBlocksOf, Keys, KeysFor
  <1>3. CASE SampleSuspected(a)
    <2>. DEFINE one == [m_closely[a] EXCEPT !.state = "Suspicious"]
                record == [one EXCEPT
                             !.deadline = patrolNow + CloselyWatchedAllocationsAccessMaxInterval]
    <2>1. m_closely' = [m_closely EXCEPT ![a] = record] /\ UNCHANGED <<m_infos, allTraces>>
      BY <1>1, <1>3 DEF SampleSuspected, becomeSuspicious, CloselyWatchedAllocation
    <2>2. one \in CloselyWatchedAllocation /\ one.info = m_closely[a].info
      BY <1>1, WatchedIsCounted DEF CloselyWatchedAllocation
    <2>. HIDE DEF one
    <2>3. record \in CloselyWatchedAllocation /\ record.info = m_closely[a].info
      BY <1>1, <2>2, TableAssumption DEF CloselyWatchedAllocation
    <2>. HIDE DEF record
    <2>4. Cardinality(Keys(m_closely')) = Cardinality(Keys(m_closely))
      BY <1>1, <2>1, <2>3, UpdateKeys
    <2>5. \A p \in InfoKey : Cardinality(KeysFor(m_closely', p)) = Cardinality(KeysFor(m_closely, p))
      BY <1>1, <2>1, <2>3, UpdateKeys
    <2>. QED  BY <1>2, <2>1, <2>4, <2>5
  <1>4. CASE SampleLeaked(a)
    <2>1. PICK key \in InfoKey : key = m_closely[a].info
      BY <1>1, WatchedIsCounted
    <2>2. m_closely[a].requestedSize \in Nat
      BY <1>1, WatchedIsCounted DEF CloselyWatchedAllocation
    <2>. DEFINE new == countLeaked(m_infos[key], m_closely[a].requestedSize)
    <2>3. /\ m_closely' = [m_closely EXCEPT ![a] = NoRecord]
          /\ m_infos' = [m_infos EXCEPT ![key] = new]
          /\ allTraces' = allTraces - 1
      BY <1>4, <2>1 DEF SampleLeaked, declareLeak
    <2>4. new.live = m_infos[key].live - 1
      BY <1>1, <2>1, <2>2, CountLeaked, WatchedIsCounted
    <2>. HIDE DEF new
    <2>5. \A p \in InfoKey : m_infos'[p].live = IF p = key THEN m_infos[p].live - 1 ELSE m_infos[p].live
      BY <1>1, <2>3, <2>4
    <2>6. Cardinality(Keys(m_closely')) = Cardinality(Keys(m_closely)) - 1
      BY <1>1, <2>3, EraseKeys
    <2>7. ASSUME NEW p \in InfoKey
          PROVE  /\ p = key => Cardinality(KeysFor(m_closely', p)) =
                                  Cardinality(KeysFor(m_closely, p)) - 1
                 /\ p # key => Cardinality(KeysFor(m_closely', p)) =
                                  Cardinality(KeysFor(m_closely, p))
      BY <1>1, <2>1, <2>3, EraseKeys
    <2>. QED  BY <1>2, <2>3, <2>5, <2>6, <2>7
  <1>. QED  BY <1>3, <1>4

\* The counters that limit the watching equal the number of records, exactly,
\* at every moment: no record is lost, overwritten or counted twice while
\* realloc() moves records and the patrol scan removes them.
THEOREM CountersMatchTableAlways ==
  ASSUME ~ OtherProcesses
  PROVE  Spec => []CountersMatchTable
  <1>1. Init => CountersMatchTable
    <2>. SUFFICES ASSUME Init PROVE CountersMatchTable
      OBVIOUS
    <2>1. WatchedBlocks = {} /\ \A p \in InfoKey : WatchedBlocksOf(p) = {}
      BY DEF Init, TableInit, WatchedBlocks, WatchedBlocksOf
    <2>. QED  BY <2>1, FS_EmptySet
              DEF Init, TableInit, CountersMatchTable, newWatchedStackTraceInfo
  <1>2. /\ Accounting /\ Ownership /\ CountersMatchTable /\ [Next]_vars
        => CountersMatchTable'
    <2>. SUFFICES ASSUME Accounting, Ownership, CountersMatchTable, [Next]_vars
                  PROVE  CountersMatchTable'
      OBVIOUS
    <2>1. CASE UNCHANGED m_closely /\ SameCounts
      BY <2>1 DEF SameCounts, CountersMatchTable, WatchedBlocks, WatchedBlocksOf
    <2>. QED  BY <2>1, StepOnSamples, CalledMatches, ScannedMatches
  <1>. QED  BY <1>1, <1>2, OwnershipInvariant, PTL DEF Spec

\* The patrol scan declares a leak only of a block that is live and has been
\* allocated for longer than both intervals by the clock, although "now" was
\* read before m_mutex was taken and realloc() may have moved the block.
THEOREM LeaksAreOldLiveBlocksAlways ==
  ASSUME ~ OtherProcesses
  PROVE  Spec => LeaksAreOldLiveBlocks
  <1>. DEFINE Old(a) == /\ m_closely'[a] = NoRecord
                        /\ heap[a] # NotLive
                        /\ clock > m_closely[a].allocationTime + TimeForAllocationToBecomeSuspicious
                                      + CloselyWatchedAllocationsAccessMaxInterval
              Declared == \A p \in InfoKey : m_infos'[p].leaked > m_infos[p].leaked =>
                              \E a \in WatchedBlocksOf(p) : Old(a)
  <1>1. Accounting /\ Ages /\ Ownership /\ [Next]_vars => [Declared]_vars
    <2>. SUFFICES ASSUME Accounting, Ages, Ownership, [Next]_vars, NEW p \in InfoKey,
                         m_infos'[p].leaked > m_infos[p].leaked
                  PROVE  \E a \in WatchedBlocksOf(p) : Old(a)
      OBVIOUS
    <2>1. /\ TableAccounting /\ m_closely \in [Address -> Records] /\ clock \in Nat
          /\ m_infos \in [InfoKey -> WatchedStackTraceInfo] /\ patrolNow \in Nat
          /\ \A q \in InfoKey : m_infos[q].leaked \in Nat
      BY DEF Accounting, TypeOK, PatrolTypeOK, TableTypeOK, Records, WatchedStackTraceInfo
    <2>2. Patrol /\ patrolDeclareLeak
      BY <2>1, OthersCountNoLeak
    <2>3. PICK a \in Address : SampleLeaked(a)
      BY <2>1, <2>2 DEF patrolDeclareLeak, SampleLeaked, Expired
    <2>4. /\ m_closely[a] # NoRecord /\ m_closely[a].deadline < patrolNow
          /\ m_closely[a].state = "Suspicious"
          /\ m_closely' = [m_closely EXCEPT ![a] = NoRecord]
          /\ m_infos' = [m_infos EXCEPT ![m_closely[a].info] =
                           countLeaked(m_infos[m_closely[a].info], m_closely[a].requestedSize)]
      BY <2>3 DEF SampleLeaked, Expired, declareLeak
    <2>5. m_closely[a].info = p
      BY <2>1, <2>4
    <2>6. /\ m_closely[a].deadline \in Nat /\ m_closely[a].allocationTime \in Nat
          /\ m_closely[a].deadline > m_closely[a].allocationTime + TimeForAllocationToBecomeSuspicious
                                        + CloselyWatchedAllocationsAccessMaxInterval
          /\ patrolNow <= clock
      BY <2>1, <2>4, WatchedIsCounted DEF CloselyWatchedAllocation, Ages, Ripens
    <2>7. clock > m_closely[a].allocationTime + TimeForAllocationToBecomeSuspicious
                     + CloselyWatchedAllocationsAccessMaxInterval
      BY <2>1, <2>4, <2>6, TableAssumption
    <2>8. heap[a] # NotLive
      BY <2>4 DEF Ownership, Owned, Tracked
    <2>9. Old(a)
      BY <2>1, <2>4, <2>7, <2>8
    <2>. QED  BY <2>4, <2>5, <2>9 DEF WatchedBlocksOf, WatchedBlocks
  <1>. QED  BY <1>1, AgesInvariant, OwnershipInvariant, PTL DEF Spec, LeaksAreOldLiveBlocks

-----------------------------------------------------------------------------
(* What the application gets.                                              *)

\* No size the application asks for wraps when it is rounded up to pages in
\* uint32_t arithmetic.
SizesFit == \A size \in Size : size + PageSize <= UIntModulus

\* Then no size becomes smaller.
LEMMA FittingSizes ==
  ASSUME SizesFit, NEW size \in Size
  PROVE  roundUpToPageMultiple(size) \in Nat /\ roundUpToPageMultiple(size) >= size
  BY RoundingCovers, TableAssumption DEF SizesFit

\* The body of a call leaves each block as it was, takes it back, or gives it
\* out large enough.
LEMMA BlocksAreLargeEnough ==
  ASSUME SizesFit, Accounting, Ownership, NEW t \in Thread,
         ExecuteAllocate(t) \/ ExecuteReallocate(t) \/ ExecuteFree(t), NEW a \in Address
  PROVE  \/ asked'[a] = asked[a] /\ heap'[a] = heap[a]
         \/ asked'[a] = NotGiven
         \/ heap'[a] >= asked'[a]
  <1>1. /\ TypeOK /\ heap \in [Address -> Nat \cup {NotLive}] /\ asked \in [Address -> Nat \cup {NotGiven}]
        /\ NULL \notin Address /\ fault = "none"
    BY TableAssumption
    DEF Accounting, TypeOK, TableTypeOK, ExecuteAllocate, ExecuteReallocate, ExecuteFree, Alive
  <1>2. CASE ExecuteAllocate(t)
    <2>1. PICK memory \in Answers(t) :
             /\ IF instrumented(t)
                THEN instrumentedAllocate(call[t].size, call[t].trace, memory)
                ELSE RealAllocate(call[t].size, memory)
             /\ ReturnFromAllocate(t, memory)
      BY <1>2 DEF ExecuteAllocate
    <2>2. call[t].size \in Size /\ call[t].size \in Nat
      BY <1>1, <1>2, CallTypes DEF ExecuteAllocate
    <2>3. PICK actual \in Nat : RealAllocate(actual, memory) /\ actual >= call[t].size
      <3>1. \/ RealAllocate(call[t].size, memory)
            \/ RealAllocate(roundUpToPageMultiple(call[t].size), memory)
        BY <2>1 DEF instrumentedAllocate, allocateLight, allocateSkipped, allocateCloselyWatched
      <3>. QED  BY <2>2, <3>1, FittingSizes
    <2>4. CASE a = memory
      <3>1. heap'[a] = actual
        BY <1>1, <2>3, <2>4 DEF RealAllocate
      <3>2. asked'[a] = call[t].size
        BY <1>1, <2>1, <2>4 DEF ReturnFromAllocate
      <3>. QED  BY <2>3, <3>1, <3>2
    <2>5. CASE a # memory
      <3>1. heap'[a] = heap[a]
        BY <1>1, <2>3, <2>5 DEF RealAllocate
      <3>2. asked'[a] = asked[a]
        BY <1>1, <2>1, <2>5 DEF ReturnFromAllocate
      <3>. QED  BY <3>1, <3>2
    <2>. QED  BY <2>4, <2>5
  <1>3. CASE ExecuteReallocate(t)
    <2>1. PICK memory \in Answers(t) :
             /\ IF instrumented(t)
                THEN instrumentedReallocate(call[t].memory, call[t].size, memory)
                ELSE /\ RealReallocate(call[t].memory, call[t].size, memory)
                     /\ UNCHANGED <<tableVars, fault>>
             /\ ReturnFromReallocate(t, memory)
      BY <1>3 DEF ExecuteReallocate
    <2>2. PICK old \in Address, size \in Size : old = call[t].memory /\ size = call[t].size
      BY <1>1, <1>3, CallTypes DEF ExecuteReallocate
    <2>3. size \in Nat
      BY TableAssumption
    <2>4. asked' = IF memory = NULL \/ fault' # "none" THEN asked
                   ELSE [asked EXCEPT ![old] = NotGiven, ![memory] = size]
      BY <2>1, <2>2 DEF ReturnFromReallocate
    <2>5. CASE RealReallocate(old, size, memory) /\ fault' = fault
      BY <1>1, <2>3, <2>4, <2>5 DEF RealReallocate
    <2>6. CASE reallocateCloselyMoved(old, size, memory)
      <3>1. PICK actual \in Nat : RealAllocate(actual, memory) /\ actual >= size
        BY <2>6, FittingSizes DEF reallocateCloselyMoved
      <3>2. memory = NULL => fault' # "none"
        BY <2>6 DEF reallocateCloselyMoved
      <3>3. memory \in Address => heap[memory] = NotLive /\ asked[memory] = NotGiven
        BY <1>1, <3>1 DEF RealAllocate, Ownership, Owned
      <3>. QED  BY <1>1, <2>3, <2>4, <3>1, <3>2, <3>3 DEF RealAllocate
    <2>7. CASE reallocateCloselyInPlace(old, size, memory)
      <3>1. memory = old /\ heap' = heap
        BY <2>7 DEF reallocateCloselyInPlace
      <3>2. heap[old] >= size
        BY <2>7, FittingSizes DEF reallocateCloselyInPlace, keepsPages, Ownership, Owned
      <3>. QED  BY <1>1, <2>3, <2>4, <3>1, <3>2
    <2>. QED  BY <2>1, <2>2, <2>5, <2>6, <2>7
              DEF instrumentedReallocate, reallocateLight, reallocateUntracked
  <1>4. CASE ExecuteFree(t)
    <2>1. PICK memory \in Answers(t) :
             /\ RealFree(call[t].memory, memory)
             /\ ReturnFromFree(t, memory)
      BY <1>4 DEF ExecuteFree, instrumentedFree
    <2>2. PICK old \in Address : old = call[t].memory
      BY <1>1, <1>4, CallTypes DEF ExecuteFree
    <2>. QED  BY <1>1, <2>1, <2>2 DEF RealFree, ReturnFromFree
  <1>. QED  BY <1>2, <1>3, <1>4

\* What malloc() and realloc() promise, through every path of the table: the
\* blocks the application holds are live and no smaller than it asked, if no
\* size it asks for wraps.  (The run sizeWrap shows one that does.)
THEOREM MallocContractAlways ==
  ASSUME ~ OtherProcesses, SizesFit
  PROVE  Spec => []MallocContract
  <1>1. Init => MallocContract
    BY DEF Init, TableInit, MallocContract
  <1>2. Accounting /\ Ownership /\ MallocContract /\ [Next]_vars => MallocContract'
    <2>. SUFFICES ASSUME Accounting, Ownership, MallocContract, [Next]_vars
                  PROVE  MallocContract'
      OBVIOUS
    <2>1. CASE \E t \in Thread : ExecuteAllocate(t) \/ ExecuteReallocate(t) \/ ExecuteFree(t)
      BY <2>1, BlocksAreLargeEnough DEF MallocContract
    <2>2. CASE ~ \E t \in Thread : ExecuteAllocate(t) \/ ExecuteReallocate(t) \/ ExecuteFree(t)
      <3>1. UNCHANGED <<heap, asked>>
        BY <2>2 DEF Next, vars, EnterAllocate, EnterReallocate, EnterFree, EnterReallocateToZero,
                    Enter, Patrol, StartSignal, OtherProcessStarts, Tick, Dead, appVars
      <3>. QED  BY <3>1 DEF MallocContract
    <2>. QED  BY <2>1, <2>2
  <1>. QED  BY <1>1, <1>2, OwnershipInvariant, PTL DEF Spec

-----------------------------------------------------------------------------
(* What is left behind, and what ends the process.  Here other processes   *)
(* may start at any time: the records may be wrong, the blocks are not.    *)

Possession ==
    /\ \A a \in Address : asked[a] # NotGiven => heap[a] # NotLive
    /\ CallsHoldGivenBlocks

\* What the body of a call may do to a block.
Kept(a) == asked'[a] = asked[a] /\ heap'[a] = heap[a]
Given(t, a) == /\ asked'[a] # NotGiven /\ heap'[a] # NotLive
               /\ a = call[t].memory \/ heap[a] = NotLive
Released(t, a) == a = call[t].memory /\ asked'[a] = NotGiven /\ heap'[a] = NotLive
LeftBehind(t, a) == /\ a = call[t].memory /\ ResizesSample(t)
                    /\ asked'[a] = NotGiven /\ heap'[a] = heap[a]
TakenByTheDying(t, a) == /\ fault' # "none" /\ ResizesSample(t)
                         /\ heap[a] = NotLive /\ heap'[a] # NotLive /\ asked'[a] = asked[a]

Handled(t, a) ==
    Kept(a) \/ Given(t, a) \/ Released(t, a) \/ LeftBehind(t, a) \/ TakenByTheDying(t, a)

\* A call that resizes a sample, as the step of the table sees it.
LEMMA MovedIsResized ==
  ASSUME NEW t \in Thread, call[t].op = "reallocate", NEW memory,
         reallocateCloselyMoved(call[t].memory, call[t].size, memory)
  PROVE  ResizesSample(t)
  BY DEF reallocateCloselyMoved, keepsPages, ResizesSample

LEMMA ReallocateHandles ==
  ASSUME Accounting, Possession, NEW t \in Thread, ExecuteReallocate(t), NEW a \in Address
  PROVE  Handled(t, a)
  <1>1. /\ TypeOK /\ heap \in [Address -> Nat \cup {NotLive}] /\ asked \in [Address -> Nat \cup {NotGiven}]
        /\ NULL \notin Address /\ fault = "none" /\ NotLive \notin Nat /\ NotGiven \notin Nat
    BY TableAssumption DEF Accounting, TypeOK, TableTypeOK, ExecuteReallocate, Alive, NotLive, NotGiven
  <1>2. PICK memory \in Address \cup {NULL} :
           /\ IF instrumented(t)
              THEN instrumentedReallocate(call[t].memory, call[t].size, memory)
              ELSE /\ RealReallocate(call[t].memory, call[t].size, memory)
                   /\ UNCHANGED <<tableVars, fault>>
           /\ ReturnFromReallocate(t, memory)
    BY DEF ExecuteReallocate, Answers
  <1>3. PICK old \in Address, size \in Nat : old = call[t].memory /\ size = call[t].size
    BY <1>1, CallTypes DEF ExecuteReallocate
  <1>4. asked' = IF memory = NULL \/ fault' # "none" THEN asked
                 ELSE [asked EXCEPT ![old] = NotGiven, ![memory] = size]
    BY <1>2, <1>3 DEF ReturnFromReallocate
  <1>5. CASE RealReallocate(old, size, memory) /\ fault' = fault
    <2>1. CASE memory = NULL
      BY <1>1, <1>4, <1>5, <2>1 DEF RealReallocate, Handled, Kept
    <2>2. CASE memory = old
      BY <1>1, <1>3, <1>4, <1>5, <2>2 DEF RealReallocate, Handled, Kept, Given, Possession
    <2>3. CASE memory \in Address /\ memory # old
      <3>1. /\ heap[memory] = NotLive
            /\ heap' = [heap EXCEPT ![old] = NotLive, ![memory] = size]
            /\ asked' = [asked EXCEPT ![old] = NotGiven, ![memory] = size]
        BY <1>1, <1>4, <1>5, <2>3 DEF RealReallocate
      <3>. QED  BY <1>1, <1>3, <2>3, <3>1 DEF Handled, Kept, Given, Released
    <2>. QED  BY <1>4, <2>1, <2>2, <2>3
  <1>6. CASE reallocateCloselyMoved(old, size, memory)
    <2>1. ResizesSample(t)
      BY <1>3, <1>6, MovedIsResized DEF ExecuteReallocate
    <2>2. PICK actual \in Nat : RealAllocate(actual, memory)
      BY <1>6, SizeTypes DEF reallocateCloselyMoved
    <2>3. CASE fault' # "none"
      BY <1>1, <1>4, <2>1, <2>2, <2>3 DEF RealAllocate, Handled, Kept, TakenByTheDying
    <2>4. CASE fault' = "none"
      <3>1. memory \in Address
        BY <1>6, <2>4 DEF reallocateCloselyMoved
      <3>2. heap[memory] = NotLive /\ heap' = [heap EXCEPT ![memory] = actual]
        BY <1>1, <2>2, <3>1 DEF RealAllocate
      <3>3. old # memory
        BY <1>3, <3>1, <3>2 DEF Possession, CallsHoldGivenBlocks
      <3>. QED  BY <1>1, <1>3, <1>4, <2>1, <2>4, <3>1, <3>2, <3>3 DEF Handled, Kept, Given, LeftBehind
    <2>. QED  BY <2>3, <2>4
  <1>7. CASE reallocateCloselyInPlace(old, size, memory)
    <2>1. memory = old /\ heap' = heap /\ fault' = fault
      BY <1>7 DEF reallocateCloselyInPlace
    <2>2. heap[old] # NotLive
      BY <1>3 DEF Possession, CallsHoldGivenBlocks
    <2>. QED  BY <1>1, <1>3, <1>4, <2>1, <2>2 DEF Handled, Kept, Given
  <1>. QED  BY <1>2, <1>3, <1>4, <1>5, <1>6, <1>7
            DEF instrumentedReallocate, reallocateLight, reallocateUntracked

LEMMA ExecuteHandles ==
  ASSUME Accounting, Possession, NEW t \in Thread,
         ExecuteAllocate(t) \/ ExecuteReallocate(t) \/ ExecuteFree(t), NEW a \in Address
  PROVE  Handled(t, a)
  <1>1. /\ TypeOK /\ heap \in [Address -> Nat \cup {NotLive}] /\ asked \in [Address -> Nat \cup {NotGiven}]
        /\ NULL \notin Address /\ NotLive \notin Nat /\ NotGiven \notin Nat
    BY TableAssumption DEF Accounting, TypeOK, TableTypeOK, NotLive, NotGiven
  <1>2. CASE ExecuteAllocate(t)
    <2>1. PICK memory \in Answers(t) :
             /\ IF instrumented(t)
                THEN instrumentedAllocate(call[t].size, call[t].trace, memory)
                ELSE RealAllocate(call[t].size, memory)
             /\ ReturnFromAllocate(t, memory)
      BY <1>2 DEF ExecuteAllocate
    <2>2. PICK size \in Nat : size = call[t].size
      BY <1>1, CallTypes
    <2>3. PICK actual \in Nat : RealAllocate(actual, memory)
      BY <2>1, <2>2, SizeTypes
      DEF instrumentedAllocate, allocateLight, allocateSkipped, allocateCloselyWatched
    <2>4. asked' = IF memory = NULL THEN asked ELSE [asked EXCEPT ![memory] = size]
      BY <2>1, <2>2 DEF ReturnFromAllocate
    <2>. QED  BY <1>1, <2>3, <2>4 DEF RealAllocate, Handled, Kept, Given
  <1>3. CASE ExecuteFree(t)
    <2>1. PICK memory : RealFree(call[t].memory, memory) /\ ReturnFromFree(t, memory)
      BY <1>3 DEF ExecuteFree, instrumentedFree
    <2>2. PICK old \in Address : old = call[t].memory
      BY <1>1, <1>3, CallTypes DEF ExecuteFree
    <2>3. CASE memory = NULL
      BY <1>1, <2>1, <2>2, <2>3 DEF RealFree, ReturnFromFree, Handled, Kept, Released
    <2>4. CASE memory # NULL
      BY <1>1, <2>1, <2>2, <2>4 DEF RealFree, ReturnFromFree, Handled, Kept, Given, Released
    <2>. QED  BY <2>3, <2>4
  <1>. QED  BY <1>2, <1>3, ReallocateHandles

\* A call takes from no other call, and what it gives is live.
LEMMA HandledPossession ==
  ASSUME Accounting, Possession, NEW t \in Thread, call' = [call EXCEPT ![t] = Idle],
         \A a \in Address : Handled(t, a)
  PROVE  Possession'
  <1>1. \A u \in Thread : IF u = t THEN call'[u] = Idle ELSE call'[u] = call[u]
    BY DEF Accounting, TypeOK
  <1>2. Idle.memory \notin Address
    BY TableAssumption DEF Idle
  <1>3. ASSUME NEW u \in Thread, u # t, call[u].memory \in Address
        PROVE  asked'[call[u].memory] # NotGiven
    <2>1. /\ call[u].memory # call[t].memory /\ asked[call[u].memory] # NotGiven
          /\ heap[call[u].memory] # NotLive
      BY <1>3 DEF Possession, CallsHoldGivenBlocks
    <2>2. Handled(t, call[u].memory)
      BY <1>3
    <2>. QED  BY <2>1, <2>2 DEF Handled, Kept, Given, Released, LeftBehind, TakenByTheDying
  <1>4. CallsHoldGivenBlocks'
    BY <1>1, <1>2, <1>3 DEF Possession, CallsHoldGivenBlocks
  <1>5. ASSUME NEW a \in Address, asked'[a] # NotGiven PROVE heap'[a] # NotLive
    <2>1. Handled(t, a)
      OBVIOUS
    <2>. QED  BY <1>5, <2>1 DEF Possession, Handled, Kept, Given, Released, LeftBehind, TakenByTheDying
  <1>. QED  BY <1>4, <1>5 DEF Possession

\* Every step of the process, other processes included.
LEMMA PossessionInvariant == Spec => [](Accounting /\ Possession)
  <1>1. Init => Possession
    <2>. SUFFICES ASSUME Init PROVE Possession
      OBVIOUS
    <2>1. \A t \in Thread : call[t].memory \notin Address
      BY TableAssumption DEF Init, Idle
    <2>. QED  BY <2>1 DEF Init, Possession, CallsHoldGivenBlocks
  <1>2. Accounting /\ Possession /\ [Next]_vars => (Accounting /\ Possession)'
    <2>. SUFFICES ASSUME Accounting, Possession, [Next]_vars PROVE Possession'
      BY StepAccounting
    <2>1. CASE \E t \in Thread : ExecuteAllocate(t) \/ ExecuteReallocate(t) \/ ExecuteFree(t)
      <3>1. PICK t \in Thread : ExecuteAllocate(t) \/ ExecuteReallocate(t) \/ ExecuteFree(t)
        BY <2>1
      <3>2. call' = [call EXCEPT ![t] = Idle]
        BY <3>1 DEF ExecuteAllocate, ExecuteReallocate, ExecuteFree, ReturnFromAllocate,
                    ReturnFromReallocate, ReturnFromFree
      <3>. QED  BY <3>1, <3>2, ExecuteHandles, HandledPossession
    <2>2. ASSUME NEW t \in Thread,
                 EnterAllocate(t) \/ EnterReallocate(t) \/ EnterFree(t) \/ EnterReallocateToZero(t)
          PROVE  Possession'
      <3>1. PICK op, memory, size, trace : /\ Enter(t, op, memory, size, trace)
                                           /\ memory = NULL \/ memory \in AtHand
        BY <2>2 DEF EnterAllocate, EnterReallocate, EnterFree, EnterReallocateToZero
      <3>2. /\ UNCHANGED <<heap, asked>> /\ NULL \notin Address /\ call'[t].memory = memory
            /\ \A u \in Thread : u # t => call'[u] = call[u]
        BY <3>1, TableAssumption DEF Enter, Accounting, TypeOK
      <3>. QED  BY <3>1, <3>2 DEF Possession, CallsHoldGivenBlocks, AtHand
    <2>3. CASE UNCHANGED <<heap, asked, call>>
      BY <2>3 DEF Possession, CallsHoldGivenBlocks
    <2>. QED  BY <2>1, <2>2, <2>3
              DEF Next, vars, Patrol, StartSignal, OtherProcessStarts, Tick, Dead, appVars
  <1>. QED  BY <1>1, <1>2, InitAccounting, PTL DEF Spec

\* Outside the bodies of the calls no block changes hands and nothing faults.
LEMMA BlocksChangeInCalls ==
  ASSUME [Next]_vars, ~ \E t \in Thread : ExecuteAllocate(t) \/ ExecuteReallocate(t) \/ ExecuteFree(t)
  PROVE  UNCHANGED <<heap, asked, fault>>
  BY DEF Next, vars, EnterAllocate, EnterReallocate, EnterFree, EnterReallocateToZero,
         Enter, Patrol, StartSignal, OtherProcessStarts, Tick, Dead, appVars

\* The step in which a watched block gets another number of pages.
SampleIsResized == \E t \in Thread : ResizesSample(t) /\ ExecuteReallocate(t)

LEMMA ExecuteOrphans ==
  ASSUME Accounting, Possession, NEW t \in Thread,
         ExecuteAllocate(t) \/ ExecuteReallocate(t) \/ ExecuteFree(t), NEW a \in Address
  PROVE  /\ Orphaned(a)' /\ ~ Orphaned(a) /\ Alive' =>
               ResizesSample(t) /\ ExecuteReallocate(t) /\ call[t].memory = a
         /\ Orphaned(a) => Orphaned(a)'
  <1>1. Handled(t, a)
    BY ExecuteHandles
  <1>2. a = call[t].memory => asked[a] # NotGiven
    BY DEF Possession, CallsHoldGivenBlocks
  <1>3. ResizesSample(t) => ExecuteReallocate(t)
    BY DEF ResizesSample, ExecuteAllocate, ExecuteFree
  <1>. QED  BY <1>1, <1>2, <1>3 DEF Handled, Kept, Given, Released, LeftBehind, TakenByTheDying,
                                    Orphaned, Alive

\* The copy of a watched block is the only thing that faults.
LEMMA ExecuteFaults ==
  ASSUME NEW t \in Thread, ExecuteAllocate(t) \/ ExecuteReallocate(t) \/ ExecuteFree(t), ~ Alive'
  PROVE  /\ ResizesSample(t) /\ ExecuteReallocate(t)
         /\ \E memory : reallocateCloselyMoved(call[t].memory, call[t].size, memory)
  <1>1. Alive
    BY DEF ExecuteAllocate, ExecuteReallocate, ExecuteFree
  <1>2. CASE ExecuteAllocate(t)
    BY <1>1, <1>2 DEF ExecuteAllocate, Alive, instrumentedAllocate, allocateLight, allocateSkipped,
                      allocateCloselyWatched
  <1>3. CASE ExecuteFree(t)
    BY <1>1, <1>3 DEF ExecuteFree, Alive, instrumentedFree
  <1>4. CASE ExecuteReallocate(t)
    <2>1. PICK memory : reallocateCloselyMoved(call[t].memory, call[t].size, memory)
      BY <1>1, <1>4 DEF ExecuteReallocate, Alive, instrumentedReallocate, reallocateLight,
                        reallocateCloselyInPlace, reallocateUntracked
    <2>. QED  BY <1>4, <2>1, MovedIsResized DEF ExecuteReallocate
  <1>. QED  BY <1>2, <1>3, <1>4

\* The resizing of a watched block alone leaves a block behind, the one that
\* was resized, and nobody gets it again; whatever other processes do, so that
\* neither missed calls nor stale records lose a block.
THEOREM OnlyResizedSamplesAreOrphanedAlways == Spec => OnlyResizedSamplesAreOrphaned
  <1>1. ASSUME Accounting, Possession, [Next]_vars
        PROVE  \A a \in Address :
                  /\ Orphaned(a)' /\ ~ Orphaned(a) /\ Alive' =>
                        \E t \in Thread : ResizesSample(t) /\ call[t].memory = a
                  /\ Orphaned(a) => Orphaned(a)'
    <2>1. ASSUME NEW t \in Thread, ExecuteAllocate(t) \/ ExecuteReallocate(t) \/ ExecuteFree(t),
                 NEW a \in Address
          PROVE  /\ Orphaned(a)' /\ ~ Orphaned(a) /\ Alive' => ResizesSample(t) /\ call[t].memory = a
                 /\ Orphaned(a) => Orphaned(a)'
      BY <1>1, <2>1, ExecuteOrphans DEF SampleIsResized
    <2>2. CASE UNCHANGED <<heap, asked>>
      BY <2>2 DEF Orphaned
    <2>. QED  BY <1>1, <2>1, <2>2, BlocksChangeInCalls
  <1>. QED  BY <1>1, PossessionInvariant, PTL DEF Spec, OnlyResizedSamplesAreOrphaned

\* A program that never reallocates a watched block to another number of pages
\* loses no block to the library and meets no undefined behaviour, whatever
\* else it does and whatever other processes do.  (The run reallocate shows
\* the block that is lost otherwise.)
THEOREM NothingIsLostUnlessResized ==
    Spec /\ [][~ SampleIsResized]_vars => [](Alive /\ NoBlockIsOrphaned)
  <1>1. Init => Alive /\ NoBlockIsOrphaned
    BY DEF Init, TableInit, Alive, NoBlockIsOrphaned, Orphaned
  <1>2. ASSUME Accounting, Possession, Alive, NoBlockIsOrphaned, [Next]_vars, [~ SampleIsResized]_vars
        PROVE  (Alive /\ NoBlockIsOrphaned)'
    <2>1. CASE UNCHANGED <<heap, asked, fault>>
      BY <1>2, <2>1 DEF Alive, NoBlockIsOrphaned, Orphaned
    <2>2. ASSUME NEW t \in Thread, ExecuteAllocate(t) \/ ExecuteReallocate(t) \/ ExecuteFree(t),
                 ~ SampleIsResized
          PROVE  (Alive /\ NoBlockIsOrphaned)'
      <3>1. Alive'
        BY <1>2, <2>2, ExecuteFaults DEF SampleIsResized
      <3>2. \A a \in Address : ~ Orphaned(a)'
        BY <1>2, <2>2, <3>1, ExecuteOrphans DEF NoBlockIsOrphaned, SampleIsResized
      <3>. QED  BY <3>1, <3>2 DEF NoBlockIsOrphaned
    <2>3. CASE ~ UNCHANGED vars
      BY <1>2, <2>1, <2>2, <2>3, BlocksChangeInCalls
    <2>. QED  BY <2>1, <2>3 DEF vars, appVars
  <1>. QED  BY <1>1, <1>2, PossessionInvariant, PTL DEF Spec

-----------------------------------------------------------------------------
(* The requested sizes in the table, when no size wraps.                   *)

\* Then the cast to uint32_t keeps a size, and every record rounds up.
RecordedSizesFit ==
    \A a \in Address : m_closely[a] # NoRecord => m_closely[a].requestedSize + PageSize <= UIntModulus

LEMMA CastFits ==
  ASSUME SizesFit, NEW size \in Size
  PROVE  uint32(size) = size /\ uint32(size) + PageSize <= UIntModulus
  <1>1. /\ size \in Nat /\ PageSize \in Nat /\ PageSize >= 1 /\ UIntModulus \in Nat
        /\ size + PageSize <= UIntModulus
    BY TableAssumption DEF SizesFit
  <1>2. size \in 0 .. (UIntModulus - 1)
    BY ONLY <1>1
  <1>3. size % UIntModulus = size
    BY ONLY <1>1, <1>2
  <1>. QED  BY <1>1, <1>3 DEF uint32

\* A size is written by the three calls alone, and none that wraps.
LEMMA StepKeepsSizes ==
  ASSUME SizesFit, Accounting, RecordedSizesFit, [Next]_vars
  PROVE  RecordedSizesFit'
  <1>. DEFINE Fits(record) == record # NoRecord => record.requestedSize + PageSize <= UIntModulus
  <1>1. /\ m_closely \in [Address -> Records] /\ \A a \in Address : Fits(m_closely[a])
    BY DEF Accounting, TypeOK, TableTypeOK, Records, RecordedSizesFit
  <1>2. ASSUME NEW a \in Address, m_closely[a] # NoRecord, NEW size \in Size
        PROVE  Fits([m_closely[a] EXCEPT !.requestedSize = uint32(size)])
    BY <1>1, <1>2, CastFits DEF Records, CloselyWatchedAllocation
  <1>3. ASSUME NEW key \in InfoKey, NEW size \in Size PROVE Fits(newSample(size, key))
    BY CastFits DEF newSample
  <1>4. ASSUME NEW a \in Address, SampleSuspected(a)
        PROVE  \A b \in Address : Fits(m_closely'[b])
    <2>1. m_closely[a] # NoRecord /\ m_closely[a] \in CloselyWatchedAllocation
      BY <1>1, <1>4 DEF SampleSuspected, Expired, Records
    <2>2. /\ m_closely'[a].requestedSize = m_closely[a].requestedSize
          /\ \A b \in Address : b # a => m_closely'[b] = m_closely[b]
      BY <1>1, <1>4, <2>1 DEF SampleSuspected, becomeSuspicious, CloselyWatchedAllocation
    <2>. QED  BY <1>1, <2>1, <2>2
  <1>5. Fits(NoRecord)
    OBVIOUS
  <1>. HIDE DEF Fits
  <1>6. ASSUME UNCHANGED m_closely PROVE \A a \in Address : Fits(m_closely'[a])
    BY <1>1, <1>6
  <1>7. ASSUME NEW a \in Address, NEW size \in Size, NEW key \in InfoKey, SampleAdded(a, size, key)
        PROVE  \A b \in Address : Fits(m_closely'[b])
    BY <1>1, <1>3, <1>7 DEF SampleAdded
  <1>8. ASSUME NEW a \in Address, SampleFreed(a) \/ SampleLeaked(a)
        PROVE  \A b \in Address : Fits(m_closely'[b])
    BY <1>1, <1>5, <1>8 DEF SampleFreed, SampleLeaked, declareLeak
  <1>9. ASSUME NEW a \in Address, NEW b \in Address, NEW size \in Size, SampleMoved(a, b, size)
        PROVE  \A c \in Address : Fits(m_closely'[c])
    <2>1. PICK record : /\ Fits(record)
                        /\ m_closely' = moved(m_closely, a, b, record)
      BY <1>2, <1>9 DEF SampleMoved
    <2>. QED  BY <1>1, <1>5, <2>1 DEF moved
  <1>10. ASSUME NEW a \in Address, NEW size \in Size, SampleResized(a, size)
         PROVE  \A b \in Address : Fits(m_closely'[b])
    BY <1>1, <1>2, <1>10 DEF SampleResized
  <1>11. ASSUME NEW t \in Thread, CalledOnSamples(t)
         PROVE  \A a \in Address : Fits(m_closely'[a])
    BY <1>1, <1>6, <1>7, <1>8, <1>9, <1>10, <1>11 DEF CalledOnSamples
  <1>12. \A a \in Address : Fits(m_closely'[a])
    BY <1>1, <1>4, <1>6, <1>8, <1>11, StepOnSamples
  <1>. QED  BY <1>12 DEF RecordedSizesFit, Fits

LEMMA SizesInvariant ==
  ASSUME ~ OtherProcesses, SizesFit
  PROVE  Spec => [](Accounting /\ Ownership /\ RecordedSizesFit)
  <1>1. Init => RecordedSizesFit
    BY DEF Init, TableInit, RecordedSizesFit
  <1>2. Accounting /\ RecordedSizesFit /\ [Next]_vars => RecordedSizesFit'
    BY StepKeepsSizes
  <1>. QED  BY <1>1, <1>2, OwnershipInvariant, PTL DEF Spec

\* A record never outgrows its block.
LEMMA RecordsFit == Accounting /\ Ownership /\ RecordedSizesFit => RequestedFitsActual
  <1>. SUFFICES ASSUME Accounting, Ownership, RecordedSizesFit, NEW a \in Address, m_closely[a] # NoRecord
                PROVE  m_closely[a].requestedSize <= heap[a]
    BY DEF RequestedFitsActual
  <1>1. PICK size \in Nat : size = m_closely[a].requestedSize
    BY WatchedIsCounted DEF Accounting, CloselyWatchedAllocation
  <1>2. size + PageSize <= UIntModulus /\ heap[a] = roundUpToPageMultiple(size)
    BY <1>1 DEF RecordedSizesFit, Ownership, Owned
  <1>. QED  BY <1>1, <1>2, RoundingCovers

\* A watched block is as large as its record says that was asked for, through
\* every reallocation, if no size wraps.  (The run sizeWrap shows one that does.)
THEOREM RequestedFitsActualAlways ==
  ASSUME ~ OtherProcesses, SizesFit
  PROVE  Spec => []RequestedFitsActual
  BY SizesInvariant, RecordsFit, PTL

\* The process ends only in the copy of a watched block that is resized, and
\* that copy overruns a block only when the application asked for less: an old
\* block is never read past its end.
THEOREM OnlyResizingIsFatalAlways ==
  ASSUME ~ OtherProcesses, SizesFit
  PROVE  Spec => OnlyResizingIsFatal
  <1>. DEFINE Shrinks(t) == call[t].size < m_closely[call[t].memory].requestedSize
  <1>1. ASSUME Accounting, Ownership, RecordedSizesFit, [Next]_vars, Alive, ~ Alive'
        PROVE  \E t \in Thread : ResizesSample(t) /\ (fault' = "overrun" => Shrinks(t))
    <2>1. PICK t \in Thread : ExecuteAllocate(t) \/ ExecuteReallocate(t) \/ ExecuteFree(t)
      BY <1>1, BlocksChangeInCalls DEF Alive
    <2>2. ResizesSample(t) /\ ExecuteReallocate(t)
      BY <1>1, <2>1, ExecuteFaults
    <2>3. PICK memory : reallocateCloselyMoved(call[t].memory, call[t].size, memory)
      BY <1>1, <2>1, ExecuteFaults
    <2>4. PICK old \in Address, size \in Size : old = call[t].memory /\ size = call[t].size
      BY <1>1, <2>2, CallTypes DEF ExecuteReallocate, Accounting
    <2>5. /\ m_closely[old] # NoRecord
          /\ fault' = "overrun" => overruns(old, roundUpToPageMultiple(size))
      BY <1>1, <2>3, <2>4 DEF reallocateCloselyMoved, Alive
    <2>6. PICK requested \in Nat : requested = m_closely[old].requestedSize
      BY <1>1, <2>5, WatchedIsCounted DEF Accounting, CloselyWatchedAllocation
    <2>7. requested <= heap[old] /\ heap[old] \in Int
      BY <1>1, <2>5, <2>6, RecordsFit DEF RequestedFitsActual, Accounting, TypeOK, TableTypeOK, NotLive
    <2>8. size \in Nat /\ roundUpToPageMultiple(size) \in Nat /\ roundUpToPageMultiple(size) >= size
      BY FittingSizes, TableAssumption
    <2>9. fault' = "overrun" => size < requested
      BY <2>5, <2>6, <2>7, <2>8 DEF overruns
    <2>. QED  BY <2>2, <2>4, <2>6, <2>9
  <1>2. ASSUME Accounting, Ownership, RecordedSizesFit, [Next]_vars
        PROVE  Alive /\ ~ Alive' =>
                  \E t \in Thread :
                      /\ ResizesSample(t)
                      /\ fault' = "overrun" => call[t].size < m_closely[call[t].memory].requestedSize
    BY <1>1, <1>2
  <1>. QED  BY <1>2, SizesInvariant, PTL DEF Spec, OnlyResizingIsFatal
=============================================================================
