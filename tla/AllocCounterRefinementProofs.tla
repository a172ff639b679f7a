-------------------- MODULE AllocCounterRefinementProofs --------------------
(***************************************************************************)
(* AllocCounter implements LeakDetector, whatever other processes do: the  *)
(* initial states map to initial states, and each step of the process maps *)
(* to one step of the detector or to none.                                 *)
(***************************************************************************)
EXTENDS AllocCounterRefinement, AllocCounterOwnershipProofs

-----------------------------------------------------------------------------
(* The steps of the detector.                                              *)

\* A record written over another one takes its place, also in the counts.
LEMMA OverwriteKeys ==
  ASSUME NEW table \in [Address -> Records], NEW a \in Address, table[a] # NoRecord,
         NEW record \in CloselyWatchedAllocation, NEW p
  PROVE  LET new == [table EXCEPT ![a] = record] IN
         /\ p = record.info /\ p # table[a].info =>
              Cardinality(KeysFor(new, p)) = Cardinality(KeysFor(table, p)) + 1
         /\ p # record.info /\ p = table[a].info =>
              Cardinality(KeysFor(new, p)) = Cardinality(KeysFor(table, p)) - 1
         /\ (p = record.info <=> p = table[a].info) =>
              Cardinality(KeysFor(new, p)) = Cardinality(KeysFor(table, p))
  <1>. DEFINE new == [table EXCEPT ![a] = record]
              old == [table EXCEPT ![a] = NoRecord]
  <1>1. old \in [Address -> Records] /\ old[a] = NoRecord
    BY DEF Records
  <1>2. /\ p = table[a].info => Cardinality(KeysFor(old, p)) = Cardinality(KeysFor(table, p)) - 1
        /\ p # table[a].info => Cardinality(KeysFor(old, p)) = Cardinality(KeysFor(table, p))
    BY EraseKeys
  <1>3. Cardinality(KeysFor(table, p)) \in Nat
    BY KeysFinite
  <1>4. new = [old EXCEPT ![a] = record]
    OBVIOUS
  <1>. HIDE DEF old, new
  <1>5. /\ p = record.info => Cardinality(KeysFor(new, p)) = Cardinality(KeysFor(old, p)) + 1
        /\ p # record.info => Cardinality(KeysFor(new, p)) = Cardinality(KeysFor(old, p))
    BY <1>1, <1>4, PutKeys, ZenonT(30)
  <1>. QED  BY <1>2, <1>3, <1>5 DEF new

\* A block is sampled: the detector watches it, and gives up a sample that
\* was thought to be at its address.
LEMMA AddedRefines ==
  ASSUME Accounting, NEW a \in Address, NEW size \in Nat, NEW key \in InfoKey,
         SampleAdded(a, size, key), UNCHANGED <<clock, stackTraceToOccurrences, leakReport>>
  PROVE  Detector!Watch(a, key)
  <1>. DEFINE record == newSample(size, key)
  <1>1. /\ TableAccounting /\ m_closely \in [Address -> Records] /\ clock \in Nat
        /\ m_infos \in [InfoKey -> WatchedStackTraceInfo]
        /\ \A p \in InfoKey : m_infos[p].live \in Nat /\ m_infos[p].created \in Nat /\ m_infos[p].leaked \in Nat
    BY DEF Accounting, TypeOK, TableTypeOK, Records, WatchedStackTraceInfo
  <1>2. /\ record \in CloselyWatchedAllocation /\ record # NoRecord
        /\ record.info = key /\ record.allocationTime = clock
    BY <1>1, SizeTypes, TableAssumption, NoRecordAssumption DEF newSample, CloselyWatchedAllocation
  <1>3. /\ m_closely' = [m_closely EXCEPT ![a] = record]
        /\ m_infos' = [m_infos EXCEPT ![key] = countWatched(m_infos[key])]
    BY DEF SampleAdded, InfosUpdated
  <1>. HIDE DEF record
  <1>4. \A p \in InfoKey :
           /\ m_infos'[p].live = m_infos[p].live + (IF p = key THEN 1 ELSE 0)
           /\ m_infos'[p].created = m_infos[p].created + (IF p = key THEN 1 ELSE 0)
           /\ m_infos'[p].leaked = m_infos[p].leaked
    BY <1>1, <1>3, CountWatched
  <1>5. \A p \in InfoKey : freedOf(p)' = freedOf(p)
    BY <1>1, <1>4 DEF freedOf
  <1>6. \A b \in Address : sampleAt(b)' = IF b = a THEN [site |-> key, since |-> clock] ELSE sampleAt(b)
    BY <1>1, <1>2, <1>3 DEF sampleAt
  <1>7. CASE m_closely[a] = NoRecord
    <2>1. ASSUME NEW p \in InfoKey
          PROVE  /\ p = key => Cardinality(KeysFor(m_closely', p)) =
                                  Cardinality(KeysFor(m_closely, p)) + 1
                 /\ p # key => Cardinality(KeysFor(m_closely', p)) =
                                  Cardinality(KeysFor(m_closely, p))
                 /\ Cardinality(KeysFor(m_closely, p)) \in Nat
      BY <1>1, <1>2, <1>3, <1>7, PutKeys, KeysFinite
    <2>2. ASSUME NEW p \in InfoKey PROVE lostOf(p)' = lostOf(p)
      <3>1. /\ lostOf(p) = m_infos[p].live - Cardinality(KeysFor(m_closely, p))
            /\ lostOf(p)' = m_infos'[p].live - Cardinality(KeysFor(m_closely', p))
        BY DEF lostOf, WatchedBlocksOf, WatchedBlocks, KeysFor
      <3>. QED  BY <1>1, <1>4, <2>1, <3>1
    <2>3. sampleAt(a) = NoRecord
      BY <1>7 DEF sampleAt
    <2>. QED  BY <1>4, <1>5, <1>6, <2>2, <2>3 DEF Detector!Watch, Detector!giveUp
  <1>8. CASE m_closely[a] # NoRecord
    <2>1. PICK site \in InfoKey : site = m_closely[a].info
      BY <1>1, <1>8, WatchedIsCounted
    <2>2. ASSUME NEW p \in InfoKey
          PROVE  /\ p = key /\ p # site => Cardinality(KeysFor(m_closely', p)) =
                                               Cardinality(KeysFor(m_closely, p)) + 1
                 /\ p # key /\ p = site => Cardinality(KeysFor(m_closely', p)) =
                                               Cardinality(KeysFor(m_closely, p)) - 1
                 /\ (p = key <=> p = site) => Cardinality(KeysFor(m_closely', p)) =
                                               Cardinality(KeysFor(m_closely, p))
                 /\ Cardinality(KeysFor(m_closely, p)) \in Nat
      <3>1. PICK table \in [Address -> Records] : table = m_closely
        BY <1>1
      <3>2. PICK new : new = [table EXCEPT ![a] = record]
        OBVIOUS
      <3>3. /\ p = key /\ p # site => Cardinality(KeysFor(new, p)) = Cardinality(KeysFor(table, p)) + 1
            /\ p # key /\ p = site => Cardinality(KeysFor(new, p)) = Cardinality(KeysFor(table, p)) - 1
            /\ (p = key <=> p = site) => Cardinality(KeysFor(new, p)) = Cardinality(KeysFor(table, p))
        <4>1. table[a] # NoRecord /\ table[a].info = site
          BY <1>8, <2>1, <3>1
        <4>2. /\ p = record.info /\ p # table[a].info =>
                    Cardinality(KeysFor(new, p)) = Cardinality(KeysFor(table, p)) + 1
              /\ p # record.info /\ p = table[a].info =>
                    Cardinality(KeysFor(new, p)) = Cardinality(KeysFor(table, p)) - 1
              /\ (p = record.info <=> p = table[a].info) =>
                    Cardinality(KeysFor(new, p)) = Cardinality(KeysFor(table, p))
          BY ONLY <1>2, <3>2, <4>1, a \in Address, table \in [Address -> Records], OverwriteKeys, ZenonT(60)
        <4>. QED  BY <1>2, <4>1, <4>2, Zenon
      <3>4. Cardinality(KeysFor(m_closely, p)) \in Nat
        BY KeysFinite
      <3>. QED  BY <1>3, <3>1, <3>2, <3>3, <3>4, Zenon
    <2>3. ASSUME NEW p \in InfoKey PROVE lostOf(p)' = IF p = site THEN lostOf(p) + 1 ELSE lostOf(p)
      <3>1. /\ lostOf(p) = m_infos[p].live - Cardinality(KeysFor(m_closely, p))
            /\ lostOf(p)' = m_infos'[p].live - Cardinality(KeysFor(m_closely', p))
        BY DEF lostOf, WatchedBlocksOf, WatchedBlocks, KeysFor
      <3>. QED  BY <1>1, <1>4, <2>2, <3>1
    <2>4. sampleAt(a) # NoRecord /\ sampleAt(a).site = site
      BY <1>1, <1>8, <2>1, NoSampleAssumption, WatchedIsCounted DEF sampleAt, CloselyWatchedAllocation
    <2>. QED  BY <1>4, <1>5, <1>6, <2>3, <2>4 DEF Detector!Watch, Detector!giveUp, Detector!addOne
  <1>. QED  BY <1>7, <1>8

\* A sampled block is freed.
LEMMA FreedRefines ==
  ASSUME Accounting, NEW a \in Address, SampleFreed(a),
         UNCHANGED <<clock, stackTraceToOccurrences, leakReport>>
  PROVE  Detector!Free(a)
  <1>1. /\ TableAccounting /\ m_closely \in [Address -> Records]
        /\ m_infos \in [InfoKey -> WatchedStackTraceInfo]
        /\ \A p \in InfoKey : m_infos[p].live \in Nat /\ m_infos[p].created \in Nat /\ m_infos[p].leaked \in Nat
    BY DEF Accounting, TypeOK, TableTypeOK, Records, WatchedStackTraceInfo
  <1>2. m_closely[a] # NoRecord /\ m_closely[a] \in CloselyWatchedAllocation
    BY <1>1, WatchedIsCounted DEF SampleFreed
  <1>3. PICK site \in InfoKey : site = m_closely[a].info
    BY <1>1, <1>2, WatchedIsCounted
  <1>4. /\ m_closely' = [m_closely EXCEPT ![a] = NoRecord]
        /\ m_infos' = [m_infos EXCEPT ![site] = countFreed(m_infos[site])]
    BY <1>3 DEF SampleFreed, InfosUpdated
  <1>5. /\ countFreed(m_infos[site]).live = m_infos[site].live - 1
        /\ countFreed(m_infos[site]).created = m_infos[site].created
        /\ countFreed(m_infos[site]).leaked = m_infos[site].leaked
    BY <1>1, <1>2, <1>3, WatchedIsCounted, CountFreed
  <1>6. \A p \in InfoKey :
           /\ m_infos'[p].live = m_infos[p].live - (IF p = site THEN 1 ELSE 0)
           /\ m_infos'[p].created = m_infos[p].created
           /\ m_infos'[p].leaked = m_infos[p].leaked
    BY <1>1, <1>4, <1>5
  <1>7. \A p \in InfoKey : freedOf(p)' = IF p = site THEN freedOf(p) + 1 ELSE freedOf(p)
    BY <1>1, <1>6 DEF freedOf
  <1>8. \A b \in Address : sampleAt(b)' = IF b = a THEN NoRecord ELSE sampleAt(b)
    BY <1>1, <1>4 DEF sampleAt
  <1>9. sampleAt(a) # NoRecord /\ sampleAt(a).site = site
    BY <1>2, <1>3, NoSampleAssumption DEF sampleAt, CloselyWatchedAllocation
  <1>10. ASSUME NEW p \in InfoKey PROVE lostOf(p)' = lostOf(p)
    <2>1. /\ p = site => Cardinality(KeysFor(m_closely', p)) = Cardinality(KeysFor(m_closely, p)) - 1
          /\ p # site => Cardinality(KeysFor(m_closely', p)) = Cardinality(KeysFor(m_closely, p))
          /\ Cardinality(KeysFor(m_closely, p)) \in Nat
      BY <1>1, <1>2, <1>3, <1>4, EraseKeys, KeysFinite
    <2>2. /\ lostOf(p) = m_infos[p].live - Cardinality(KeysFor(m_closely, p))
          /\ lostOf(p)' = m_infos'[p].live - Cardinality(KeysFor(m_closely', p))
      BY DEF lostOf, WatchedBlocksOf, WatchedBlocks, KeysFor
    <2>. QED  BY <1>1, <1>6, <2>1, <2>2
  <1>11. UNCHANGED <<clock, stackTraceToOccurrences, leakReport>>
    OBVIOUS
  <1>12. \A p \in InfoKey : m_infos'[p].leaked = m_infos[p].leaked
    BY <1>6
  <1>. QED  BY ONLY a \in Address, <1>3, <1>7, <1>8, <1>9, <1>10, <1>11, <1>12
            DEF Detector!Free, Detector!addOne

\* The patrol scan declares a leak: by the clock the sample is older than both
\* intervals.
LEMMA LeakedRefines ==
  ASSUME Accounting, Ages, NEW a \in Address, SampleLeaked(a),
         UNCHANGED <<clock, stackTraceToOccurrences, leakReport>>
  PROVE  Detector!Leak(a)
  <1>1. /\ TableAccounting /\ m_closely \in [Address -> Records] /\ clock \in Nat /\ patrolNow \in Nat
        /\ m_infos \in [InfoKey -> WatchedStackTraceInfo]
        /\ \A p \in InfoKey : m_infos[p].live \in Nat /\ m_infos[p].created \in Nat /\ m_infos[p].leaked \in Nat
    BY DEF Accounting, TypeOK, TableTypeOK, PatrolTypeOK, Records, WatchedStackTraceInfo
  <1>2. m_closely[a] # NoRecord /\ m_closely[a] \in CloselyWatchedAllocation
    BY <1>1, WatchedIsCounted DEF SampleLeaked, Expired
  <1>3. PICK site \in InfoKey, size \in Nat : site = m_closely[a].info /\ size = m_closely[a].requestedSize
    BY <1>2 DEF CloselyWatchedAllocation
  <1>4. /\ m_closely' = [m_closely EXCEPT ![a] = NoRecord]
        /\ m_infos' = [m_infos EXCEPT ![site] = countLeaked(m_infos[site], size)]
        /\ m_closely[a].deadline < patrolNow /\ m_closely[a].state = "Suspicious"
    BY <1>3 DEF SampleLeaked, declareLeak, Expired
  <1>5. /\ countLeaked(m_infos[site], size).live = m_infos[site].live - 1
        /\ countLeaked(m_infos[site], size).created = m_infos[site].created
        /\ countLeaked(m_infos[site], size).leaked = m_infos[site].leaked + 1
    BY <1>1, <1>2, <1>3, WatchedIsCounted, CountLeaked
  <1>6. \A p \in InfoKey :
           /\ m_infos'[p].live = m_infos[p].live - (IF p = site THEN 1 ELSE 0)
           /\ m_infos'[p].created = m_infos[p].created
           /\ m_infos'[p].leaked = IF p = site THEN m_infos[p].leaked + 1 ELSE m_infos[p].leaked
    BY <1>1, <1>4, <1>5
  <1>7. \A p \in InfoKey : freedOf(p)' = freedOf(p)
    BY <1>1, <1>6 DEF freedOf
  <1>8. \A b \in Address : sampleAt(b)' = IF b = a THEN NoRecord ELSE sampleAt(b)
    BY <1>1, <1>4 DEF sampleAt
  <1>9. /\ sampleAt(a) # NoRecord /\ sampleAt(a).site = site
        /\ sampleAt(a).since = m_closely[a].allocationTime
    BY <1>2, <1>3, NoSampleAssumption DEF sampleAt, CloselyWatchedAllocation
  <1>10. ASSUME NEW p \in InfoKey PROVE lostOf(p)' = lostOf(p)
    <2>1. /\ p = site => Cardinality(KeysFor(m_closely', p)) = Cardinality(KeysFor(m_closely, p)) - 1
          /\ p # site => Cardinality(KeysFor(m_closely', p)) = Cardinality(KeysFor(m_closely, p))
          /\ Cardinality(KeysFor(m_closely, p)) \in Nat
      BY <1>1, <1>2, <1>3, <1>4, EraseKeys, KeysFinite
    <2>2. /\ lostOf(p) = m_infos[p].live - Cardinality(KeysFor(m_closely, p))
          /\ lostOf(p)' = m_infos'[p].live - Cardinality(KeysFor(m_closely', p))
      BY DEF lostOf, WatchedBlocksOf, WatchedBlocks, KeysFor
    <2>. QED  BY <1>1, <1>6, <2>1, <2>2
  <1>11. clock > m_closely[a].allocationTime
                   + (TimeForAllocationToBecomeSuspicious + CloselyWatchedAllocationsAccessMaxInterval)
    <2>1. /\ m_closely[a].deadline \in Nat /\ m_closely[a].allocationTime \in Nat
          /\ m_closely[a].deadline > m_closely[a].allocationTime + TimeForAllocationToBecomeSuspicious
                                        + CloselyWatchedAllocationsAccessMaxInterval
          /\ patrolNow <= clock
      BY <1>2, <1>4 DEF CloselyWatchedAllocation, Ages, Ripens
    <2>. QED  BY <1>1, <1>4, <2>1, TableAssumption
  <1>12. UNCHANGED <<clock, stackTraceToOccurrences, leakReport>>
    OBVIOUS
  <1>13. \A p \in InfoKey : m_infos'[p].leaked = IF p = site THEN m_infos[p].leaked + 1
                                                 ELSE m_infos[p].leaked
    BY <1>6
  <1>14. clock > sampleAt(a).since
                   + (TimeForAllocationToBecomeSuspicious + CloselyWatchedAllocationsAccessMaxInterval)
    BY ONLY <1>9, <1>11, Zenon
  <1>15. sampleAt(a) # NoRecord /\ sampleAt(a).site = site
    BY ONLY <1>9
  <1>16. [b \in Address |-> sampleAt(b)'] = [[b \in Address |-> sampleAt(b)] EXCEPT ![a] = NoRecord]
    BY ONLY a \in Address, <1>8
  <1>17. [p \in InfoKey |-> m_infos'[p].leaked]
            = [[p \in InfoKey |-> m_infos[p].leaked] EXCEPT ![site] = @ + 1]
    BY ONLY site \in InfoKey, <1>13
  <1>18. /\ [p \in InfoKey |-> freedOf(p)'] = [p \in InfoKey |-> freedOf(p)]
         /\ [p \in InfoKey |-> lostOf(p)'] = [p \in InfoKey |-> lostOf(p)]
    BY ONLY <1>7, <1>10
  <1>. QED  BY ONLY a \in Address, <1>12, <1>14, <1>15, <1>16, <1>17, <1>18
            DEF Detector!Leak, Detector!addOne

\* realloc() moves a sampled block.  Where the table has a record of another
\* block at the new address, insert() keeps that one and the sample is lost.
LEMMA MovedRefines ==
  ASSUME Accounting, NEW a \in Address, NEW b \in Address, a # b, NEW size \in Nat,
         SampleMoved(a, b, size), UNCHANGED <<clock, stackTraceToOccurrences, leakReport>>
  PROVE  Detector!Move(a, b)
  <1>. DEFINE record == [m_closely[a] EXCEPT !.requestedSize = uint32(size)]
  <1>1. /\ TableAccounting /\ m_closely \in [Address -> Records]
        /\ \A p \in InfoKey : m_infos[p].live \in Nat
    BY DEF Accounting, TypeOK, TableTypeOK, Records, WatchedStackTraceInfo
  <1>2. m_closely[a] # NoRecord /\ m_closely[a] \in CloselyWatchedAllocation
    BY <1>1, WatchedIsCounted DEF SampleMoved
  <1>3. PICK site \in InfoKey : site = m_closely[a].info
    BY <1>2 DEF CloselyWatchedAllocation
  <1>4. /\ record \in CloselyWatchedAllocation /\ record # NoRecord /\ record.info = site
        /\ record.allocationTime = m_closely[a].allocationTime
    BY <1>2, <1>3, SizeTypes, NoRecordAssumption DEF CloselyWatchedAllocation
  <1>5. m_closely' = moved(m_closely, a, b, record) /\ SameCounts
    BY DEF SampleMoved
  <1>. HIDE DEF record
  <1>6. \A p \in InfoKey : freedOf(p)' = freedOf(p) /\ m_infos'[p].leaked = m_infos[p].leaked
                           /\ m_infos'[p].live = m_infos[p].live
    BY <1>5 DEF freedOf, SameCounts
  <1>7. /\ sampleAt(a) # NoRecord /\ sampleAt(a).site = site
        /\ sampleAt(a) = [site |-> site, since |-> m_closely[a].allocationTime]
    BY <1>2, <1>3, NoSampleAssumption DEF sampleAt, CloselyWatchedAllocation
  <1>8. CASE m_closely[b] = NoRecord
    <2>1. /\ m_closely'[a] = NoRecord /\ m_closely'[b] = record
          /\ \A c \in Address : c \notin {a, b} => m_closely'[c] = m_closely[c]
      BY <1>1, <1>5, <1>8 DEF moved
    <2>2. \A c \in Address : sampleAt(c)' = IF c = a THEN NoRecord
                                            ELSE IF c = b THEN sampleAt(a) ELSE sampleAt(c)
      BY <1>4, <1>7, <2>1 DEF sampleAt
    <2>3. ASSUME NEW p \in InfoKey PROVE lostOf(p)' = lostOf(p)
      <3>1. Cardinality(KeysFor(m_closely', p)) = Cardinality(KeysFor(m_closely, p))
        BY <1>1, <1>2, <1>3, <1>4, <1>5, <1>8, MovedKeys
      <3>2. /\ lostOf(p) = m_infos[p].live - Cardinality(KeysFor(m_closely, p))
            /\ lostOf(p)' = m_infos'[p].live - Cardinality(KeysFor(m_closely', p))
        BY DEF lostOf, WatchedBlocksOf, WatchedBlocks, KeysFor
      <3>. QED  BY <1>6, <3>1, <3>2
    <2>4. sampleAt(b) = NoRecord
      BY <1>8 DEF sampleAt
    <2>. QED  BY <1>6, <1>7, <2>2, <2>3, <2>4 DEF Detector!Move
  <1>9. CASE m_closely[b] # NoRecord
    <2>1. m_closely' = [m_closely EXCEPT ![a] = NoRecord]
      BY <1>5, <1>9 DEF moved
    <2>2. \A c \in Address : sampleAt(c)' = IF c = a THEN NoRecord ELSE sampleAt(c)
      BY <1>1, <2>1 DEF sampleAt
    <2>3. ASSUME NEW p \in InfoKey PROVE lostOf(p)' = IF p = site THEN lostOf(p) + 1 ELSE lostOf(p)
      <3>1. /\ p = site => Cardinality(KeysFor(m_closely', p)) = Cardinality(KeysFor(m_closely, p)) - 1
            /\ p # site => Cardinality(KeysFor(m_closely', p)) = Cardinality(KeysFor(m_closely, p))
            /\ Cardinality(KeysFor(m_closely, p)) \in Nat
        BY <1>1, <1>2, <1>3, <2>1, EraseKeys, KeysFinite
      <3>2. /\ lostOf(p) = m_infos[p].live - Cardinality(KeysFor(m_closely, p))
            /\ lostOf(p)' = m_infos'[p].live - Cardinality(KeysFor(m_closely', p))
        BY DEF lostOf, WatchedBlocksOf, WatchedBlocks, KeysFor
      <3>. QED  BY <1>1, <1>6, <3>1, <3>2
    <2>4. sampleAt(b) # NoRecord
      BY <1>1, <1>9, WatchedIsCounted, NoSampleAssumption DEF sampleAt, CloselyWatchedAllocation
    <2>. QED  BY <1>6, <1>7, <2>2, <2>3, <2>4 DEF Detector!Move, Detector!addOne
  <1>. QED  BY <1>8, <1>9

\* What the detector sees of the samples stays the same.
SameSamples ==
    /\ \A a \in Address : sampleAt(a)' = sampleAt(a)
    /\ \A p \in InfoKey : /\ freedOf(p)' = freedOf(p)
                          /\ lostOf(p)' = lostOf(p)
                          /\ m_infos'[p].leaked = m_infos[p].leaked

\* Changing the requested size, the state or the deadline of a record is
\* nothing to the detector.
LEMMA RecordsKept ==
  ASSUME SameCounts,
         \A a \in Address :
            /\ m_closely'[a] = NoRecord <=> m_closely[a] = NoRecord
            /\ m_closely[a] # NoRecord =>
                 /\ m_closely'[a].info = m_closely[a].info
                 /\ m_closely'[a].allocationTime = m_closely[a].allocationTime
  PROVE  SameSamples
  <1>1. \A a \in Address : sampleAt(a)' = sampleAt(a)
    BY DEF sampleAt
  <1>2. ASSUME NEW p \in InfoKey
        PROVE  /\ freedOf(p)' = freedOf(p)
               /\ lostOf(p)' = lostOf(p)
               /\ m_infos'[p].leaked = m_infos[p].leaked
    <2>1. WatchedBlocksOf(p)' = WatchedBlocksOf(p)
      BY DEF WatchedBlocksOf, WatchedBlocks
    <2>. QED  BY <2>1 DEF SameCounts, freedOf, lostOf
  <1>. QED  BY <1>1, <1>2 DEF SameSamples

\* A resized block is a sample as before.
LEMMA ResizedKeepsSamples ==
  ASSUME Accounting, NEW a \in Address, NEW size \in Nat, SampleResized(a, size)
  PROVE  SameSamples
  <1>. DEFINE record == [m_closely[a] EXCEPT !.requestedSize = uint32(size)]
  <1>1. m_closely \in [Address -> Records] /\ TableAccounting
    BY DEF Accounting, TypeOK, TableTypeOK, Records
  <1>2. m_closely[a] # NoRecord /\ m_closely[a] \in CloselyWatchedAllocation
    BY <1>1, WatchedIsCounted DEF SampleResized
  <1>3. m_closely' = [m_closely EXCEPT ![a] = record] /\ SameCounts
    BY <1>1 DEF SampleResized
  <1>4. /\ record \in CloselyWatchedAllocation /\ record # NoRecord
        /\ record.info = m_closely[a].info /\ record.allocationTime = m_closely[a].allocationTime
    BY <1>2, SizeTypes, NoRecordAssumption DEF CloselyWatchedAllocation
  <1>. HIDE DEF record
  <1>. QED  BY <1>1, <1>2, <1>3, <1>4, RecordsKept

\* A block that becomes suspicious is a sample as before.
LEMMA SuspectedKeepsSamples ==
  ASSUME Accounting, NEW a \in Address, SampleSuspected(a)
  PROVE  SameSamples
  <1>. DEFINE one == [m_closely[a] EXCEPT !.state = "Suspicious"]
              record == [one EXCEPT
                           !.deadline = patrolNow + CloselyWatchedAllocationsAccessMaxInterval]
  <1>1. m_closely \in [Address -> Records] /\ TableAccounting /\ patrolNow \in Nat
    BY DEF Accounting, TypeOK, TableTypeOK, PatrolTypeOK, Records
  <1>2. m_closely[a] # NoRecord /\ m_closely[a] \in CloselyWatchedAllocation
    BY <1>1, WatchedIsCounted DEF SampleSuspected, Expired
  <1>3. m_closely' = [m_closely EXCEPT ![a] = record] /\ SameCounts
    BY <1>1, <1>2 DEF SampleSuspected, becomeSuspicious, SameCounts, CloselyWatchedAllocation
  <1>4. /\ one \in CloselyWatchedAllocation
        /\ one.info = m_closely[a].info /\ one.allocationTime = m_closely[a].allocationTime
    BY <1>2 DEF CloselyWatchedAllocation
  <1>. HIDE DEF one
  <1>5. /\ record \in CloselyWatchedAllocation /\ record # NoRecord
        /\ record.info = m_closely[a].info /\ record.allocationTime = m_closely[a].allocationTime
    BY <1>1, <1>4, NoRecordAssumption, TableAssumption DEF CloselyWatchedAllocation
  <1>. HIDE DEF record
  <1>. QED  BY <1>1, <1>2, <1>3, <1>5, RecordsKept

\* A trace has leaks if one of its sites has.
LEMMA LeakyTracesAre ==
  Detector!LeakyTraces = {s \in StackTrace : LeakyTrace(s)}
  <1>1. Detector!LeakyTraces = {traceOf(p) : p \in {q \in InfoKey : m_infos[q].leaked > 0}}
    BY DEF Detector!LeakyTraces, Detector!LeakySites
  <1>2. ASSUME NEW s
        PROVE  s \in Detector!LeakyTraces <=> \E p \in InfoKey : m_infos[p].leaked > 0 /\ s = p[2]
    BY <1>1 DEF traceOf
  <1>3. ASSUME NEW p \in InfoKey
        PROVE  p = <<p[1], p[2]>> /\ p[1] \in Fingerprint /\ p[2] \in StackTrace
    BY DEF InfoKey
  <1>4. ASSUME NEW s \in StackTrace, LeakyTrace(s)
        PROVE  \E p \in InfoKey : m_infos[p].leaked > 0 /\ s = p[2]
    <2>1. PICK f \in Fingerprint : m_infos[<<f, s>>].leaked > 0
      BY <1>4 DEF LeakyTrace
    <2>2. <<f, s>> \in InfoKey /\ <<f, s>>[2] = s
      BY DEF InfoKey
    <2>. QED  BY <2>1, <2>2
  <1>5. ASSUME NEW p \in InfoKey, m_infos[p].leaked > 0
        PROVE  p[2] \in StackTrace /\ LeakyTrace(p[2])
    BY <1>3, <1>5 DEF LeakyTrace
  <1>. QED  BY <1>2, <1>4, <1>5

\* The patrol thread announces the leaks of its scan: then every trace with
\* leaks has been announced, and no other.
LEMMA AnnounceRefines ==
  ASSUME Accounting, LeaksAreAnnounced, SameSamples, Patrol, patrolAnnounce
  PROVE  Detector!Announce
  <1>1. /\ UNCHANGED <<clock, leakReport>>
        /\ \A s \in StackTrace : stackTraceToOccurrences'[s] =
                                   stackTraceToOccurrences[s] + occurrencesIn(foundLeaks, s)
    BY DEF Patrol, patrolAnnounce
  <1>2. stackTraceToOccurrences \in [StackTrace -> Nat] /\ IsFiniteSet(foundLeaks)
    BY DEF Accounting, TypeOK, PatrolTypeOK
  <1>3. \A s \in StackTrace : stackTraceToOccurrences'[s] > 0 <=> LeakyTrace(s)
    BY <1>1, <1>2, OccurrencesCount DEF LeaksAreAnnounced
  <1>4. {s \in StackTrace : stackTraceToOccurrences'[s] > 0} = Detector!LeakyTraces
    BY <1>3, LeakyTracesAre
  <1>. QED  BY <1>1, <1>4 DEF Detector!Announce, SameSamples

\* The leak report lists the sites with leaks, all of them announced.
LEMMA ReportRefines ==
  ASSUME Accounting, LeaksAreAnnounced, SameSamples, Patrol, patrolReport
  PROVE  Detector!Report
  <1>1. /\ UNCHANGED <<clock, stackTraceToOccurrences>> /\ foundLeaks = {}
        /\ leakReport' = {p \in InfoKey : m_infos[p].leaked > 0}
    BY DEF Patrol, patrolReport, LeaksAreAnnounced, patrolThreadMakeLeakReport, hasLeaks
  <1>2. leakReport' = Detector!LeakySites
    BY <1>1 DEF Detector!LeakySites
  <1>3. Detector!LeakyTraces \subseteq {s \in StackTrace : stackTraceToOccurrences[s] > 0}
    BY <1>1, LeakyTracesAre DEF LeaksAreAnnounced, Found
  <1>. QED  BY <1>1, <1>2, <1>3 DEF Detector!Report, SameSamples

\* Steps between which the samples do not change.
LEMMA QuietRefines ==
  ASSUME Accounting, LeaksAreAnnounced, SameSamples, [Next]_vars
  PROVE  [Detector!Next]_(Detector!vars)
  <1>1. CASE Patrol /\ patrolAnnounce
    BY <1>1, AnnounceRefines DEF Detector!Next
  <1>2. CASE Patrol /\ patrolReport
    BY <1>2, ReportRefines DEF Detector!Next
  <1>3. CASE Tick
    BY <1>3 DEF Tick, patrolVars, SameSamples, Detector!Next, Detector!Tick
  <1>4. CASE ~ (Patrol /\ patrolAnnounce) /\ ~ (Patrol /\ patrolReport) /\ ~ Tick
    <2>1. UNCHANGED <<clock, stackTraceToOccurrences, leakReport>>
      BY <1>4
      DEF Next, vars, EnterAllocate, EnterReallocate, EnterFree, EnterReallocateToZero,
          Enter, ExecuteAllocate, ExecuteReallocate, ExecuteFree, StartSignal,
          OtherProcessStarts, Dead, patrolVars, Patrol, patrolStep, patrolAutoStart,
          patrolWake, patrolLock, patrolExpireLight, patrolLightDone, patrolBecomeSuspicious,
          patrolDeclareLeak, patrolUnlock
    <2>. QED  BY <2>1 DEF SameSamples, Detector!vars
  <1>. QED  BY <1>1, <1>2, <1>3, <1>4

\* Every step of the process is a step of the detector or none.
LEMMA StepRefines ==
  ASSUME Accounting, Ages, LeaksAreAnnounced, Possession, [Next]_vars
  PROVE  [Detector!Next]_(Detector!vars)
  <1>1. CASE UNCHANGED m_closely /\ SameCounts
    BY <1>1, RecordsKept, QuietRefines
  <1>2. ASSUME NEW t \in Thread, ExecuteAllocate(t) \/ ExecuteReallocate(t) \/ ExecuteFree(t),
               CalledOnSamples(t)
        PROVE  [Detector!Next]_(Detector!vars)
    <2>1. UNCHANGED <<clock, stackTraceToOccurrences, leakReport>>
      BY <1>2 DEF ExecuteAllocate, ExecuteReallocate, ExecuteFree, patrolVars
    <2>2. ASSUME NEW a \in Address, NEW size \in Nat, NEW key \in InfoKey, SampleAdded(a, size, key)
          PROVE  [Detector!Next]_(Detector!vars)
      BY <2>1, <2>2, AddedRefines DEF Detector!Next
    <2>3. CASE call[t].memory \in Address /\ SampleFreed(call[t].memory)
      BY <2>1, <2>3, FreedRefines DEF Detector!Next
    <2>4. ASSUME call[t].memory \in Address, NEW b \in Address, NEW size \in Nat,
                 SampleMoved(call[t].memory, b, size)
          PROVE  [Detector!Next]_(Detector!vars)
      <3>1. call[t].memory # b
        BY <2>4 DEF SampleMoved, Possession, CallsHoldGivenBlocks
      <3>. QED  BY <2>1, <2>4, <3>1, MovedRefines DEF Detector!Next
    <2>5. ASSUME call[t].memory \in Address, NEW size \in Nat, SampleResized(call[t].memory, size)
          PROVE  [Detector!Next]_(Detector!vars)
      BY <2>5, ResizedKeepsSamples, QuietRefines
    <2>. QED  BY <1>1, <1>2, <2>2, <2>3, <2>4, <2>5, TableAssumption DEF CalledOnSamples
  <1>3. ASSUME Patrol, patrolBecomeSuspicious, NEW a \in Address, SampleSuspected(a)
        PROVE  [Detector!Next]_(Detector!vars)
    BY <1>3, SuspectedKeepsSamples, QuietRefines
  <1>4. ASSUME Patrol, patrolDeclareLeak, NEW a \in Address, SampleLeaked(a)
        PROVE  [Detector!Next]_(Detector!vars)
    <2>1. UNCHANGED <<clock, stackTraceToOccurrences, leakReport>>
      BY <1>4 DEF Patrol, patrolDeclareLeak
    <2>. QED  BY <1>4, <2>1, LeakedRefines DEF Detector!Next
  <1>. QED  BY <1>1, <1>2, <1>3, <1>4, StepOnSamples

\* The initial states of the process are initial states of the detector.
LEMMA InitRefines == Init => Detector!Init
  <1>. SUFFICES ASSUME Init PROVE Detector!Init
    OBVIOUS
  <1>1. \A a \in Address : sampleAt(a) = NoRecord
    BY DEF Init, TableInit, sampleAt
  <1>2. \A p \in InfoKey : /\ m_infos[p].created = 0 /\ m_infos[p].live = 0 /\ m_infos[p].leaked = 0
                           /\ WatchedBlocksOf(p) = {}
    BY DEF Init, TableInit, newWatchedStackTraceInfo, WatchedBlocks, WatchedBlocksOf
  <1>3. \A p \in InfoKey : freedOf(p) = 0 /\ lostOf(p) = 0
    BY <1>2, FS_EmptySet DEF freedOf, lostOf
  <1>. QED  BY <1>1, <1>2, <1>3 DEF Detector!Init, Init, TableInit, PatrolInit

\* alloc-counter implements the leak detector, for any number of threads,
\* blocks and traces, and whatever other processes do to the watch state: no
\* sample meets two fates or is counted twice, leaks are old enough by the
\* clock, and a report lists exactly the sites with leaks, after all of them
\* were announced.
THEOREM Refinement == Spec => ImplementsLeakDetector
  <1>1. Spec => [](Accounting /\ Ages /\ LeaksAreAnnounced /\ Possession)
    BY AgesInvariant, AnnouncedInvariant, PossessionInvariant, PTL
  <1>2. Accounting /\ Ages /\ LeaksAreAnnounced /\ Possession /\ [Next]_vars
          => [Detector!Next]_(Detector!vars)
    BY StepRefines
  <1>. QED  BY <1>1, <1>2, InitRefines, PTL DEF Spec, ImplementsLeakDetector, Detector!Spec
=============================================================================
