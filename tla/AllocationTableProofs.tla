----------------------- MODULE AllocationTableProofs -----------------------
(***************************************************************************)
(* Lemmas about the allocation table, for every value of its constants:    *)
(* how its records are counted, and that each of its operations preserves  *)
(* the accounting invariant.  The two systems that use the table, the      *)
(* process of AllocCounter and the entry points of Wrappers, build on them.*)
(***************************************************************************)
EXTENDS AllocationTable, FiniteSetTheorems, TLAPS

-----------------------------------------------------------------------------
(* Counting the records of a table.                                        *)

Records == CloselyWatchedAllocation \cup {NoRecord}

Keys(table) == {a \in Address : table[a] # NoRecord}
KeysFor(table, p) == {a \in Address : table[a] # NoRecord /\ table[a].info = p}

\* The watched blocks are finitely many, all of them and those of one trace.
LEMMA KeysFinite ==
  ASSUME NEW table, NEW p
  PROVE  /\ IsFiniteSet(Keys(table))
         /\ IsFiniteSet(KeysFor(table, p))
         /\ Cardinality(Keys(table)) \in Nat
         /\ Cardinality(KeysFor(table, p)) \in Nat
  <1>1. Keys(table) \subseteq Address /\ KeysFor(table, p) \subseteq Address
    BY DEF Keys, KeysFor
  <1>2. IsFiniteSet(Keys(table)) /\ IsFiniteSet(KeysFor(table, p))
    BY <1>1, FS_Subset, TableAssumption
  <1>. QED  BY <1>2, FS_CardinalityType

\* A new element makes a finite set larger by one.
LEMMA AddOne ==
  ASSUME NEW S, IsFiniteSet(S), NEW x, x \notin S
  PROVE  Cardinality(S \cup {x}) = Cardinality(S) + 1
  BY FS_AddElement

\* Taking an element out makes a finite set smaller by one.
LEMMA RemoveOne ==
  ASSUME NEW S, IsFiniteSet(S), NEW x, x \in S
  PROVE  /\ Cardinality(S \ {x}) = Cardinality(S) - 1
         /\ Cardinality(S) >= 1
  <1>1. Cardinality(S \ {x}) = Cardinality(S) - 1  BY FS_RemoveElement
  <1>2. IsFiniteSet(S \ {x})  BY FS_RemoveElement
  <1>3. Cardinality(S \ {x}) \in Nat /\ Cardinality(S) \in Nat  BY <1>2, FS_CardinalityType
  <1>. QED  BY <1>1, <1>3

\* Adding an element, new or not, adds one at most.
LEMMA AddMaybe ==
  ASSUME NEW S, IsFiniteSet(S), NEW x
  PROVE  Cardinality(S \cup {x}) <= Cardinality(S) + 1
  <1>0. Cardinality(S) \in Nat  BY FS_CardinalityType
  <1>1. CASE x \in S
    <2>1. S \cup {x} = S  BY <1>1
    <2>. QED  BY <1>0, <2>1
  <1>2. CASE x \notin S
    BY <1>0, <1>2, AddOne
  <1>. QED  BY <1>1, <1>2

\* Writing a record under a key.
LEMMA PutKeys ==
  ASSUME NEW table \in [Address -> Records], NEW a \in Address,
         NEW record \in CloselyWatchedAllocation, NEW p
  PROVE  LET new == [table EXCEPT ![a] = record] IN
         /\ Cardinality(Keys(new)) <= Cardinality(Keys(table)) + 1
         /\ p = record.info => Cardinality(KeysFor(new, p)) <= Cardinality(KeysFor(table, p)) + 1
         /\ p # record.info => Cardinality(KeysFor(new, p)) <= Cardinality(KeysFor(table, p))
         /\ table[a] = NoRecord =>
              /\ Cardinality(Keys(new)) = Cardinality(Keys(table)) + 1
              /\ p = record.info => Cardinality(KeysFor(new, p)) = Cardinality(KeysFor(table, p)) + 1
              /\ p # record.info => Cardinality(KeysFor(new, p)) = Cardinality(KeysFor(table, p))
  <1>. DEFINE new == [table EXCEPT ![a] = record]
  <1>0. /\ IsFiniteSet(Keys(table)) /\ IsFiniteSet(KeysFor(table, p))
        /\ Cardinality(Keys(table)) \in Nat /\ Cardinality(KeysFor(table, p)) \in Nat
    BY KeysFinite
  <1>1. /\ Keys(new) = Keys(table) \cup {a}
        /\ p = record.info => KeysFor(new, p) = KeysFor(table, p) \cup {a}
        /\ p # record.info => KeysFor(new, p) = KeysFor(table, p) \ {a}
    BY NoRecordAssumption DEF Keys, KeysFor, Records
  <1>. HIDE DEF new
  <1>2. table[a] = NoRecord => a \notin Keys(table) /\ a \notin KeysFor(table, p)
    BY DEF Keys, KeysFor
  <1>3. Cardinality(Keys(new)) <= Cardinality(Keys(table)) + 1
    BY <1>0, <1>1, AddMaybe
  <1>4. p = record.info => Cardinality(KeysFor(new, p)) <= Cardinality(KeysFor(table, p)) + 1
    BY <1>0, <1>1, AddMaybe
  <1>5. p # record.info => Cardinality(KeysFor(new, p)) <= Cardinality(KeysFor(table, p))
    <2>1. CASE a \in KeysFor(table, p)
      BY <1>0, <1>1, <2>1, RemoveOne
    <2>2. CASE a \notin KeysFor(table, p)
      <3>1. KeysFor(table, p) \ {a} = KeysFor(table, p)  BY <2>2
      <3>. QED  BY <1>0, <1>1, <3>1
    <2>. QED  BY <2>1, <2>2
  <1>6. ASSUME table[a] = NoRecord
        PROVE  /\ Cardinality(Keys(new)) = Cardinality(Keys(table)) + 1
               /\ p = record.info =>
                    Cardinality(KeysFor(new, p)) = Cardinality(KeysFor(table, p)) + 1
               /\ p # record.info =>
                    Cardinality(KeysFor(new, p)) = Cardinality(KeysFor(table, p))
    <2>1. KeysFor(table, p) \ {a} = KeysFor(table, p)  BY <1>2, <1>6
    <2>. QED  BY <1>0, <1>1, <1>2, <1>6, <2>1, AddOne
  <1>. QED  BY <1>3, <1>4, <1>5, <1>6 DEF new

\* Erasing the record under a key.
LEMMA EraseKeys ==
  ASSUME NEW table \in [Address -> Records], NEW a \in Address, table[a] # NoRecord, NEW p
  PROVE  LET new == [table EXCEPT ![a] = NoRecord] IN
         /\ Cardinality(Keys(new)) = Cardinality(Keys(table)) - 1
         /\ Cardinality(Keys(table)) >= 1
         /\ p = table[a].info => /\ Cardinality(KeysFor(new, p)) = Cardinality(KeysFor(table, p)) - 1
                                 /\ Cardinality(KeysFor(table, p)) >= 1
         /\ p # table[a].info => Cardinality(KeysFor(new, p)) = Cardinality(KeysFor(table, p))
  <1>. DEFINE new == [table EXCEPT ![a] = NoRecord]
  <1>0. IsFiniteSet(Keys(table)) /\ IsFiniteSet(KeysFor(table, p))
    BY KeysFinite
  <1>1. /\ Keys(new) = Keys(table) \ {a}
        /\ a \in Keys(table)
        /\ KeysFor(new, p) = KeysFor(table, p) \ {a}
        /\ p = table[a].info => a \in KeysFor(table, p)
        /\ p # table[a].info => KeysFor(table, p) \ {a} = KeysFor(table, p)
    BY DEF Keys, KeysFor
  <1>. HIDE DEF new
  <1>. QED  BY <1>0, <1>1, RemoveOne DEF new

\* Moving a record to another key, the way insert() and erase() do it.
LEMMA MovedKeys ==
  ASSUME NEW table \in [Address -> Records], NEW old \in Address, table[old] # NoRecord,
         NEW new \in Address, new # old,
         NEW record \in CloselyWatchedAllocation, record.info = table[old].info, NEW p
  PROVE  LET result == moved(table, old, new, record) IN
         /\ result \in [Address -> Records]
         /\ Cardinality(Keys(result)) <= Cardinality(Keys(table))
         /\ Cardinality(KeysFor(result, p)) <= Cardinality(KeysFor(table, p))
         /\ table[new] = NoRecord =>
              /\ Cardinality(Keys(result)) = Cardinality(Keys(table))
              /\ Cardinality(KeysFor(result, p)) = Cardinality(KeysFor(table, p))
  <1>. DEFINE result == moved(table, old, new, record)
  <1>. DEFINE put == [table EXCEPT ![new] = record]
  <1>0. /\ Cardinality(Keys(table)) \in Nat /\ Cardinality(KeysFor(table, p)) \in Nat
        /\ Cardinality(Keys(put)) \in Nat /\ Cardinality(KeysFor(put, p)) \in Nat
    BY KeysFinite
  <1>1. CASE table[new] = NoRecord
    <2>1. put \in [Address -> Records] /\ put[old] = table[old]
      BY DEF Records
    <2>2. result = [put EXCEPT ![old] = NoRecord]
      BY <1>1 DEF moved
    <2>3. /\ Cardinality(Keys(put)) = Cardinality(Keys(table)) + 1
          /\ p = record.info => Cardinality(KeysFor(put, p)) = Cardinality(KeysFor(table, p)) + 1
          /\ p # record.info => Cardinality(KeysFor(put, p)) = Cardinality(KeysFor(table, p))
      BY <1>1, PutKeys, ZenonT(30)
    <2>. HIDE DEF put
    <2>. HIDE DEF result
    <2>4. /\ Cardinality(Keys(result)) = Cardinality(Keys(put)) - 1
          /\ p = put[old].info => Cardinality(KeysFor(result, p)) = Cardinality(KeysFor(put, p)) - 1
          /\ p # put[old].info => Cardinality(KeysFor(result, p)) = Cardinality(KeysFor(put, p))
      BY <2>1, <2>2, EraseKeys
    <2>5. result \in [Address -> Records]
      BY <2>1, <2>2 DEF Records
    <2>. QED  BY <1>0, <2>1, <2>3, <2>4, <2>5 DEF result
  <1>2. CASE table[new] # NoRecord
    <2>1. result = [table EXCEPT ![old] = NoRecord]
      BY <1>2 DEF moved
    <2>. HIDE DEF result
    <2>2. /\ Cardinality(Keys(result)) = Cardinality(Keys(table)) - 1
          /\ p = table[old].info => Cardinality(KeysFor(result, p)) = Cardinality(KeysFor(table, p)) - 1
          /\ p # table[old].info => Cardinality(KeysFor(result, p)) = Cardinality(KeysFor(table, p))
      BY <2>1, EraseKeys
    <2>3. result \in [Address -> Records]
      BY <2>1 DEF Records
    <2>. QED  BY <1>0, <1>2, <2>2, <2>3 DEF result
  <1>. QED  BY <1>1, <1>2

\* Changing a record and not what it counts for.
LEMMA UpdateKeys ==
  ASSUME NEW table \in [Address -> Records], NEW a \in Address, table[a] # NoRecord,
         NEW record \in CloselyWatchedAllocation, record.info = table[a].info, NEW p
  PROVE  LET new == [table EXCEPT ![a] = record] IN
         /\ Cardinality(Keys(new)) = Cardinality(Keys(table))
         /\ Cardinality(KeysFor(new, p)) = Cardinality(KeysFor(table, p))
  <1>. DEFINE new == [table EXCEPT ![a] = record]
  <1>1. /\ Keys(new) = Keys(table)
        /\ KeysFor(new, p) = KeysFor(table, p)
    BY NoRecordAssumption DEF Keys, KeysFor, Records
  <1>. HIDE DEF new
  <1>. QED  BY <1>1 DEF new

-----------------------------------------------------------------------------
(* The accounting invariant.  It holds whatever other processes do: a      *)
(* record can be lost, overwritten or outlive its block, but a counter     *)
(* never counts fewer records than the table has.                          *)

CountersCoverTable ==
    /\ Cardinality(Keys(m_closely)) <= allTraces
    /\ \A p \in InfoKey : Cardinality(KeysFor(m_closely, p)) <= m_infos[p].live

CountersWithinLimits ==
    /\ allTraces <= GlobalMaxLiveCloselyWatchedAllocations
    /\ \A p \in InfoKey : m_infos[p].live <= MaxLiveCloselyWatchedAllocationsPerTrace

TableAccounting ==
    TableTypeOK /\ CountersCoverTable /\ CountersWithinLimits /\ SamplesEndOnce

\* An empty table has the types of its variables.
LEMMA TableInitTypeOK == TableInit => TableTypeOK
  <1>. SUFFICES ASSUME TableInit PROVE TableTypeOK
    OBVIOUS
  <1>. USE DEF TableInit
  <1>1. /\ m_light \in [Address \cup {NULL} -> LightAllocation \cup {NoRecord}]
        /\ m_closely \in [Address -> CloselyWatchedAllocation \cup {NoRecord}]
    OBVIOUS
  <1>2. /\ m_suspiciousFingerprints \subseteq Fingerprint
        /\ m_infos \in [InfoKey -> WatchedStackTraceInfo]
        /\ allTraces \in Nat
        /\ m_stats \in AllocationStats
    BY DEF newWatchedStackTraceInfo, WatchedStackTraceInfo, AllocationStats
  <1>3. /\ heap \in [Address -> Nat \cup {NotLive}]
        /\ clock \in Nat
        /\ fault \in {"none", "nullWrite", "overrun"}
    OBVIOUS
  <1>. QED  BY <1>1, <1>2, <1>3 DEF TableTypeOK

\* An empty table with all counters at zero satisfies the invariant.
LEMMA TableInitAccounting == TableInit => TableAccounting
  <1>. SUFFICES ASSUME TableInit PROVE TableAccounting
    OBVIOUS
  <1>1. Keys(m_closely) = {} /\ \A p \in InfoKey : KeysFor(m_closely, p) = {}
    BY DEF TableInit, Keys, KeysFor
  <1>2. allTraces = 0 /\ \A p \in InfoKey :
            m_infos[p].live = 0 /\ m_infos[p].leaked = 0 /\ m_infos[p].created = 0
    BY DEF TableInit, newWatchedStackTraceInfo
  <1>3. Cardinality({}) = 0
    BY FS_EmptySet
  <1>4. CountersCoverTable
    BY <1>1, <1>2, <1>3 DEF CountersCoverTable
  <1>5. CountersWithinLimits /\ SamplesEndOnce
    BY <1>2, LimitsAssumption DEF CountersWithinLimits, SamplesEndOnce
  <1>. QED  BY <1>4, <1>5, TableInitTypeOK DEF TableAccounting

-----------------------------------------------------------------------------
(* Arithmetic on sizes and the types of the underlying allocator's heap.   *)

\* Sizes stay naturals through uint32_t arithmetic and page rounding.
LEMMA SizeTypes ==
  ASSUME NEW size \in Nat
  PROVE  uint32(size) \in Nat /\ roundUpToPageMultiple(size) \in Nat
  <1>. DEFINE m == uint32(uint32(size) + (PageSize - 1))
  <1>1. uint32(size) \in Nat
    BY TableAssumption DEF uint32
  <1>2. m \in Nat
    BY <1>1, TableAssumption DEF uint32
  <1>. HIDE DEF m
  <1>3. m \div PageSize \in Nat
    BY <1>2, TableAssumption
  <1>4. (m \div PageSize) * PageSize \in Nat
    BY <1>3, TableAssumption
  <1>. QED  BY <1>1, <1>4 DEF m, roundUpToPageMultiple

\* Rounded up to pages, a size that does not wrap a uint32_t is no smaller.
LEMMA RoundingCovers ==
  ASSUME NEW size \in Nat, size + PageSize <= UIntModulus
  PROVE  roundUpToPageMultiple(size) \in Nat /\ roundUpToPageMultiple(size) >= size
  <1>. DEFINE n == size + (PageSize - 1)
              q == n \div PageSize
  <1>1. /\ PageSize \in Nat \ {0} /\ UIntModulus \in Nat
        /\ n \in Nat /\ n < UIntModulus /\ size < UIntModulus
    BY TableAssumption
  <1>2. roundUpToPageMultiple(size) = q * PageSize
    BY <1>1 DEF roundUpToPageMultiple, uint32
  <1>3. q * PageSize \in (n - (PageSize - 1))..n /\ q * PageSize \in Nat
    <2>1. q \in Nat
      BY <1>1
    <2>. QED  BY <1>1, <2>1
  <1>. QED  BY <1>1, <1>2, <1>3

\* Casting to uint32_t a second time changes nothing, so that the requested
\* size in a record rounds to the same pages as the size that was asked for.
LEMMA RoundingOfCast ==
  ASSUME NEW size \in Nat
  PROVE  roundUpToPageMultiple(uint32(size)) = roundUpToPageMultiple(size)
  <1>. DEFINE n == size % UIntModulus
  <1>1. n \in 0..(UIntModulus - 1)
    BY TableAssumption
  <1>. HIDE DEF n
  <1>2. n % UIntModulus = n
    BY <1>1, TableAssumption
  <1>3. uint32(uint32(size)) = uint32(size)
    BY <1>2 DEF n, uint32
  <1>. QED  BY <1>3 DEF roundUpToPageMultiple

\* The allocator's answers leave each address live with a size, or not live.
LEMMA RealTypes ==
  ASSUME heap \in [Address -> Nat \cup {NotLive}], NEW size \in Nat, NEW old \in Address, NEW memory,
         \/ RealAllocate(size, memory)
         \/ RealReallocate(old, size, memory)
         \/ RealFree(old, memory)
  PROVE  heap' \in [Address -> Nat \cup {NotLive}]
  BY DEF RealAllocate, RealReallocate, RealFree

\* The same for an allocation alone, which has no old block.
LEMMA RealAllocateType ==
  ASSUME heap \in [Address -> Nat \cup {NotLive}], NEW size \in Nat, NEW memory,
         RealAllocate(size, memory)
  PROVE  heap' \in [Address -> Nat \cup {NotLive}]
  BY DEF RealAllocate

-----------------------------------------------------------------------------
(* What the updates of a WatchedStackTraceInfo do.                         *)

\* A new sample counts as created and as live (instrumentedAllocate).
LEMMA CountWatched ==
  ASSUME NEW info \in WatchedStackTraceInfo
  PROVE  /\ countWatched(info) \in WatchedStackTraceInfo
         /\ countWatched(info).live = info.live + 1
         /\ countWatched(info).created = info.created + 1
         /\ countWatched(info).leaked = info.leaked
  <1>. DEFINE one == [info EXCEPT !.live = @ + 1]
  <1>1. one \in WatchedStackTraceInfo
    BY DEF WatchedStackTraceInfo
  <1>2. countWatched(info) = [one EXCEPT !.created = @ + 1]
    BY DEF countWatched, WatchedStackTraceInfo
  <1>. HIDE DEF one
  <1>3. countWatched(info) \in WatchedStackTraceInfo
    BY <1>1, <1>2 DEF WatchedStackTraceInfo
  <1>. QED  BY <1>3 DEF countWatched, WatchedStackTraceInfo

\* A freed sample is no longer live (instrumentedFree).
LEMMA CountFreed ==
  ASSUME NEW info \in WatchedStackTraceInfo, info.live >= 1
  PROVE  /\ countFreed(info) \in WatchedStackTraceInfo
         /\ countFreed(info).live = info.live - 1
         /\ countFreed(info).created = info.created
         /\ countFreed(info).leaked = info.leaked
  BY DEF countFreed, WatchedStackTraceInfo

\* A leaked sample stops being live as it is counted leaked (patrol scan).
LEMMA CountLeaked ==
  ASSUME NEW info \in WatchedStackTraceInfo, info.live >= 1, NEW size \in Nat
  PROVE  /\ countLeaked(info, size) \in WatchedStackTraceInfo
         /\ countLeaked(info, size).live = info.live - 1
         /\ countLeaked(info, size).created = info.created
         /\ countLeaked(info, size).leaked = info.leaked + 1
  <1>. DEFINE one == [info EXCEPT !.leaked = @ + 1]
              two == [one EXCEPT !.live = @ - 1]
  <1>1. one \in WatchedStackTraceInfo /\ one.live >= 1
    BY DEF WatchedStackTraceInfo
  <1>2. countLeaked(info, size) = [two EXCEPT !.leakedMemory = @ + size]
    BY DEF countLeaked, WatchedStackTraceInfo
  <1>. HIDE DEF one
  <1>3. two \in WatchedStackTraceInfo
    BY <1>1 DEF WatchedStackTraceInfo
  <1>. HIDE DEF two
  <1>4. countLeaked(info, size) \in WatchedStackTraceInfo
    BY <1>2, <1>3 DEF WatchedStackTraceInfo
  <1>. QED  BY <1>4 DEF countLeaked, WatchedStackTraceInfo

-----------------------------------------------------------------------------
(* Each operation of the table preserves its part of the invariant.        *)

\* Operations that leave the watched records and their counters alone.
LEMMA CountersUntouched ==
  ASSUME TableAccounting, TableTypeOK', UNCHANGED <<m_closely, m_infos, allTraces>>
  PROVE  TableAccounting'
  BY DEF TableAccounting, CountersCoverTable, CountersWithinLimits, SamplesEndOnce

\* instrumentedAllocate of an unsuspicious fingerprint.
LEMMA AllocateLightAccounting ==
  ASSUME TableAccounting, NEW size \in Size, NEW trace \in StackTrace,
         NEW memory \in Address \cup {NULL}, allocateLight(size, trace, memory), UNCHANGED clock
  PROVE  TableAccounting'
  <1>. USE DEF TableAccounting, TableTypeOK, allocateLight
  <1>1. size \in Nat /\ FingerprintOf[trace][size] \in Fingerprint
    BY TableAssumption
  <1>2. m_light' \in [Address \cup {NULL} -> LightAllocation \cup {NoRecord}]
    BY <1>1, SizeTypes, TableAssumption DEF LightAllocation
  <1>3. heap' \in [Address -> Nat \cup {NotLive}]
    BY <1>1, RealAllocateType
  <1>4. m_stats' \in AllocationStats
    BY DEF AllocationStats
  <1>. QED  BY <1>2, <1>3, <1>4, CountersUntouched

\* The two counters of AllocationStats that a suspicious allocation bumps.
LEMMA SuspiciousStats ==
  ASSUME TableAccounting, countSuspiciousAllocation
  PROVE  m_stats' \in AllocationStats
  <1>. DEFINE one == [m_stats EXCEPT !.allocationCount = @ + 1]
  <1>1. one \in AllocationStats
    BY DEF TableAccounting, TableTypeOK, AllocationStats
  <1>2. m_stats' = [one EXCEPT !.allocationWithSuspiciousFingerprintCount = @ + 1]
    BY DEF TableAccounting, TableTypeOK, countSuspiciousAllocation, AllocationStats
  <1>. HIDE DEF one
  <1>. QED  BY <1>1, <1>2 DEF AllocationStats

\* instrumentedAllocate when no more samples are wanted.
LEMMA AllocateSkippedAccounting ==
  ASSUME TableAccounting, NEW size \in Size, NEW trace \in StackTrace,
         NEW memory \in Address \cup {NULL}, allocateSkipped(size, trace, memory), UNCHANGED clock
  PROVE  TableAccounting'
  <1>. DEFINE key == <<FingerprintOf[trace][size], trace>>
  <1>1. size \in Nat /\ key \in InfoKey
    BY TableAssumption DEF InfoKey
  <1>2. heap' \in [Address -> Nat \cup {NotLive}]
    BY <1>1, RealAllocateType DEF TableAccounting, TableTypeOK, allocateSkipped
  <1>3. m_stats' \in AllocationStats
    BY SuspiciousStats DEF allocateSkipped
  <1>4. /\ UNCHANGED <<m_light, m_closely, m_suspiciousFingerprints, allTraces, fault, clock>>
        /\ m_infos' = [m_infos EXCEPT ![key] = countSkipped(@)]
    BY DEF allocateSkipped
  <1>. HIDE DEF key
  <1>5. /\ m_infos' \in [InfoKey -> WatchedStackTraceInfo]
        /\ \A p \in InfoKey : /\ m_infos'[p].live = m_infos[p].live
                              /\ m_infos'[p].leaked = m_infos[p].leaked
                              /\ m_infos'[p].created = m_infos[p].created
    BY <1>1, <1>4 DEF TableAccounting, TableTypeOK, countSkipped, WatchedStackTraceInfo
  <1>6. TableTypeOK'
    BY <1>2, <1>3, <1>4, <1>5 DEF TableAccounting, TableTypeOK
  <1>7. (CountersCoverTable /\ CountersWithinLimits /\ SamplesEndOnce)'
    BY <1>4, <1>5 DEF TableAccounting, CountersCoverTable, CountersWithinLimits, SamplesEndOnce
  <1>. QED  BY <1>6, <1>7 DEF TableAccounting

\* instrumentedAllocate of a sample: needsMoreCloselyWatchedAllocations() has
\* left room for one more below both limits.
LEMMA AllocateCloselyWatchedAccounting ==
  ASSUME TableAccounting, NEW size \in Size, NEW trace \in StackTrace,
         NEW memory \in Address \cup {NULL}, allocateCloselyWatched(size, trace, memory),
         UNCHANGED clock
  PROVE  TableAccounting'
  <1>. DEFINE key == <<FingerprintOf[trace][size], trace>>
              record == [requestedSize |-> uint32(size),
                         deadline |-> clock + TimeForAllocationToBecomeSuspicious,
                         state |-> "NotYetSuspicious",
                         allocationTime |-> clock,
                         info |-> key]
  <1>1. size \in Nat /\ key \in InfoKey /\ roundUpToPageMultiple(size) \in Nat
    BY TableAssumption, SizeTypes DEF InfoKey
  <1>2. heap' \in [Address -> Nat \cup {NotLive}]
    BY <1>1, RealAllocateType DEF TableAccounting, TableTypeOK, allocateCloselyWatched
  <1>3. m_stats' \in AllocationStats
    BY SuspiciousStats DEF allocateCloselyWatched
  <1>4. UNCHANGED <<m_light, m_suspiciousFingerprints, fault, clock>>
    BY DEF allocateCloselyWatched
  <1>5. CASE memory = NULL
    <2>1. UNCHANGED <<m_closely, m_infos, allTraces>>
      BY <1>5 DEF allocateCloselyWatched
    <2>2. TableTypeOK'
      BY <1>2, <1>3, <1>4, <2>1 DEF TableAccounting, TableTypeOK
    <2>. QED  BY <2>1, <2>2, CountersUntouched
  <1>6. CASE memory \in Address
    <2>1. /\ m_infos' = [m_infos EXCEPT ![key] = countWatched(@)]
          /\ allTraces' = allTraces + 1
          /\ m_closely' = [m_closely EXCEPT ![memory] = record]
          /\ m_infos[key].live < MaxLiveCloselyWatchedAllocationsPerTrace
          /\ allTraces < GlobalMaxLiveCloselyWatchedAllocations
      BY <1>6, TableAssumption DEF allocateCloselyWatched, needsMoreCloselyWatchedAllocations
    <2>2. record \in CloselyWatchedAllocation /\ record.info = key
      BY <1>1, SizeTypes, TableAssumption DEF TableAccounting, TableTypeOK, CloselyWatchedAllocation
    <2>. HIDE DEF key, record
    <2>3. m_closely \in [Address -> Records]
      BY DEF TableAccounting, TableTypeOK, Records
    <2>0. /\ m_infos[key] \in WatchedStackTraceInfo
          /\ countWatched(m_infos[key]) \in WatchedStackTraceInfo
          /\ countWatched(m_infos[key]).live = m_infos[key].live + 1
          /\ countWatched(m_infos[key]).created = m_infos[key].created + 1
          /\ countWatched(m_infos[key]).leaked = m_infos[key].leaked
      BY <1>1, CountWatched DEF TableAccounting, TableTypeOK
    <2>4. /\ m_infos' \in [InfoKey -> WatchedStackTraceInfo]
          /\ \A p \in InfoKey :
               /\ m_infos'[p].live = IF p = key THEN m_infos[p].live + 1 ELSE m_infos[p].live
               /\ m_infos'[p].created = IF p = key THEN m_infos[p].created + 1
                                                   ELSE m_infos[p].created
               /\ m_infos'[p].leaked = m_infos[p].leaked
               /\ m_infos[p] \in WatchedStackTraceInfo
      BY <1>1, <2>0, <2>1 DEF TableAccounting, TableTypeOK
    <2>5. TableTypeOK'
      BY <1>2, <1>3, <1>4, <1>6, <2>1, <2>2, <2>4 DEF TableAccounting, TableTypeOK
    <2>6. ASSUME NEW p \in InfoKey
          PROVE  /\ Cardinality(Keys(m_closely')) <= allTraces'
                 /\ Cardinality(KeysFor(m_closely', p)) <= m_infos'[p].live
      <3>1. /\ Cardinality(Keys(m_closely')) <= Cardinality(Keys(m_closely)) + 1
            /\ p = key => Cardinality(KeysFor(m_closely', p)) <= Cardinality(KeysFor(m_closely, p)) + 1
            /\ p # key => Cardinality(KeysFor(m_closely', p)) <= Cardinality(KeysFor(m_closely, p))
        BY <1>6, <2>1, <2>2, <2>3, PutKeys
      <3>2. /\ Cardinality(Keys(m_closely)) \in Nat /\ Cardinality(KeysFor(m_closely, p)) \in Nat
            /\ Cardinality(Keys(m_closely')) \in Nat /\ Cardinality(KeysFor(m_closely', p)) \in Nat
        BY KeysFinite
      <3>. QED
        BY <2>1, <2>4, <3>1, <3>2
        DEF TableAccounting, TableTypeOK, CountersCoverTable, WatchedStackTraceInfo
    <2>7. CountersCoverTable'
      BY <1>1, <2>6 DEF CountersCoverTable
    <2>8. CountersWithinLimits' /\ SamplesEndOnce'
      BY <1>1, <2>1, <2>4, LimitsAssumption
      DEF TableAccounting, TableTypeOK, CountersWithinLimits, SamplesEndOnce, WatchedStackTraceInfo
    <2>. QED  BY <2>5, <2>7, <2>8 DEF TableAccounting
  <1>. QED  BY <1>5, <1>6

\* A watched record exists only if its counters are not zero.
LEMMA WatchedIsCounted ==
  ASSUME TableAccounting, NEW a \in Address, m_closely[a] # NoRecord
  PROVE  /\ m_closely[a] \in CloselyWatchedAllocation
         /\ m_closely[a].info \in InfoKey
         /\ m_infos[m_closely[a].info] \in WatchedStackTraceInfo
         /\ m_infos[m_closely[a].info].live >= 1
         /\ allTraces >= 1
  <1>. DEFINE p == m_closely[a].info
  <1>1. m_closely[a] \in CloselyWatchedAllocation /\ m_closely \in [Address -> Records]
    BY DEF TableAccounting, TableTypeOK, Records
  <1>2. p \in InfoKey
    BY <1>1 DEF CloselyWatchedAllocation
  <1>3. m_infos[p] \in WatchedStackTraceInfo
    BY <1>2 DEF TableAccounting, TableTypeOK
  <1>4. Cardinality(Keys(m_closely)) >= 1 /\ Cardinality(KeysFor(m_closely, p)) >= 1
    BY <1>1, EraseKeys
  <1>5. Cardinality(Keys(m_closely)) \in Nat /\ Cardinality(KeysFor(m_closely, p)) \in Nat
    BY KeysFinite
  <1>. QED
    BY <1>1, <1>2, <1>3, <1>4, <1>5
    DEF TableAccounting, TableTypeOK, CountersCoverTable, WatchedStackTraceInfo

\* free() and the declaration of a leak drop a record and its counts alike.
LEMMA DropAccounting ==
  ASSUME TableAccounting, TableTypeOK', NEW a \in Address, m_closely[a] # NoRecord,
         NEW new \in WatchedStackTraceInfo,
         new.live = m_infos[m_closely[a].info].live - 1,
         new.created = m_infos[m_closely[a].info].created,
         \/ new.leaked = m_infos[m_closely[a].info].leaked
         \/ new.leaked = m_infos[m_closely[a].info].leaked + 1,
         m_infos' = [m_infos EXCEPT ![m_closely[a].info] = new],
         allTraces' = allTraces - 1,
         m_closely' = [m_closely EXCEPT ![a] = NoRecord]
  PROVE  TableAccounting'
  <1>. DEFINE key == m_closely[a].info
  <1>1. m_closely \in [Address -> Records] /\ key \in InfoKey
    BY WatchedIsCounted DEF TableAccounting, TableTypeOK, Records
  <1>2. \A p \in InfoKey : m_infos[p] \in WatchedStackTraceInfo
    BY DEF TableAccounting, TableTypeOK
  <1>3. \A p \in InfoKey : m_infos'[p] = IF p = key THEN new ELSE m_infos[p]
    BY <1>1 DEF TableAccounting, TableTypeOK
  <1>4. new.live = m_infos[key].live - 1 /\ new.created = m_infos[key].created
        /\ (new.leaked = m_infos[key].leaked \/ new.leaked = m_infos[key].leaked + 1)
    OBVIOUS
  <1>5. ASSUME NEW p \in InfoKey
        PROVE  /\ Cardinality(Keys(m_closely')) <= allTraces'
               /\ Cardinality(KeysFor(m_closely', p)) <= m_infos'[p].live
    <2>1. /\ Cardinality(Keys(m_closely')) = Cardinality(Keys(m_closely)) - 1
          /\ p = key => Cardinality(KeysFor(m_closely', p)) = Cardinality(KeysFor(m_closely, p)) - 1
          /\ p # key => Cardinality(KeysFor(m_closely', p)) = Cardinality(KeysFor(m_closely, p))
      BY <1>1, EraseKeys
    <2>2. Cardinality(Keys(m_closely)) \in Nat /\ Cardinality(KeysFor(m_closely, p)) \in Nat
      BY KeysFinite
    <2>. HIDE DEF key
    <2>. QED
      BY <1>2, <1>3, <1>4, <2>1, <2>2
      DEF TableAccounting, TableTypeOK, CountersCoverTable, WatchedStackTraceInfo
  <1>6. CountersCoverTable'
    BY <1>1, <1>5 DEF CountersCoverTable
  <1>. HIDE DEF key
  <1>7. CountersWithinLimits' /\ SamplesEndOnce'
    BY <1>1, <1>2, <1>3, <1>4, LimitsAssumption
    DEF TableAccounting, TableTypeOK, CountersWithinLimits, SamplesEndOnce, WatchedStackTraceInfo
  <1>. QED  BY <1>6, <1>7 DEF TableAccounting

\* Forgetting a light, a closely watched or an untracked block, whatever the
\* underlying allocator does with it.
LEMMA ForgetAccounting ==
  ASSUME TableAccounting, NEW old \in Address,
         freeLight(old) \/ freeClosely(old) \/ freeUntracked(old),
         heap' \in [Address -> Nat \cup {NotLive}],
         m_stats' = [m_stats EXCEPT !.freeCount = @ + 1],
         UNCHANGED <<m_suspiciousFingerprints, fault, clock>>
  PROVE  TableAccounting'
  <1>1. heap' \in [Address -> Nat \cup {NotLive}]
    OBVIOUS
  <1>2. m_stats' \in AllocationStats
    BY DEF TableAccounting, TableTypeOK, AllocationStats
  <1>3. UNCHANGED <<m_suspiciousFingerprints, fault, clock>>
    OBVIOUS
  <1>4. CASE freeLight(old) \/ freeUntracked(old)
    <2>1. UNCHANGED <<m_closely, m_infos, allTraces>>
      BY <1>4 DEF freeLight, freeUntracked
    <2>2. m_light' \in [Address \cup {NULL} -> LightAllocation \cup {NoRecord}]
      BY <1>4 DEF freeLight, freeUntracked, TableAccounting, TableTypeOK
    <2>3. TableTypeOK'
      BY <1>1, <1>2, <1>3, <2>1, <2>2 DEF TableAccounting, TableTypeOK
    <2>. QED  BY <2>1, <2>3, CountersUntouched
  <1>5. CASE freeClosely(old)
    <2>. DEFINE key == m_closely[old].info
                new == countFreed(m_infos[key])
    <2>1. /\ m_closely[old] # NoRecord
          /\ m_infos' = [m_infos EXCEPT ![key] = new]
          /\ allTraces' = allTraces - 1
          /\ m_closely' = [m_closely EXCEPT ![old] = NoRecord]
          /\ m_light' = m_light
      BY <1>5 DEF freeClosely
    <2>2. /\ new \in WatchedStackTraceInfo
          /\ new.live = m_infos[key].live - 1
          /\ new.created = m_infos[key].created
          /\ new.leaked = m_infos[key].leaked
      BY <2>1, WatchedIsCounted, CountFreed
    <2>3. key \in InfoKey /\ allTraces >= 1
      BY <2>1, WatchedIsCounted
    <2>. HIDE DEF new, key
    <2>4. TableTypeOK'
      BY <1>1, <1>2, <1>3, <2>1, <2>2, <2>3 DEF TableAccounting, TableTypeOK
    <2>. QED  BY <2>1, <2>2, <2>4, DropAccounting DEF key
  <1>. QED  BY <1>4, <1>5

\* instrumentedFree of a light, a closely watched or an untracked block.
LEMMA FreeAccounting ==
  ASSUME TableAccounting, NEW old \in Address, NEW memory,
         instrumentedFree(old, memory), UNCHANGED clock
  PROVE  TableAccounting'
  <1>1. heap' \in [Address -> Nat \cup {NotLive}]
    BY RealTypes DEF TableAccounting, TableTypeOK, instrumentedFree
  <1>. QED  BY <1>1, ForgetAccounting DEF instrumentedFree

\* The patrol scan declares a suspicious block a leak.
LEMMA DeclareLeakAccounting ==
  ASSUME TableAccounting, NEW a \in Address, m_closely[a] # NoRecord, declareLeak(a),
         UNCHANGED <<heap, clock, fault>>
  PROVE  TableAccounting'
  <1>. DEFINE key == m_closely[a].info
              new == countLeaked(m_infos[key], m_closely[a].requestedSize)
  <1>1. /\ m_infos' = [m_infos EXCEPT ![key] = new]
        /\ allTraces' = allTraces - 1
        /\ m_closely' = [m_closely EXCEPT ![a] = NoRecord]
        /\ UNCHANGED <<m_light, m_suspiciousFingerprints, m_stats>>
    BY DEF declareLeak
  <1>2. m_closely[a].requestedSize \in Nat
    BY WatchedIsCounted DEF CloselyWatchedAllocation
  <1>3. /\ new \in WatchedStackTraceInfo
        /\ new.live = m_infos[key].live - 1
        /\ new.created = m_infos[key].created
        /\ new.leaked = m_infos[key].leaked + 1
    BY <1>2, WatchedIsCounted, CountLeaked
  <1>4. key \in InfoKey /\ allTraces >= 1
    BY WatchedIsCounted
  <1>. HIDE DEF new, key
  <1>5. TableTypeOK'
    BY <1>1, <1>3, <1>4 DEF TableAccounting, TableTypeOK
  <1>. QED  BY <1>1, <1>3, <1>5, DropAccounting DEF key

\* Records that change or move take their counts along.
LEMMA RelabelAccounting ==
  ASSUME TableAccounting, TableTypeOK', UNCHANGED <<m_infos, allTraces>>,
         Cardinality(Keys(m_closely')) <= Cardinality(Keys(m_closely)),
         \A p \in InfoKey : Cardinality(KeysFor(m_closely', p)) <= Cardinality(KeysFor(m_closely, p))
  PROVE  TableAccounting'
  <1>1. /\ Cardinality(Keys(m_closely)) \in Nat /\ Cardinality(Keys(m_closely')) \in Nat
        /\ \A p \in InfoKey : /\ Cardinality(KeysFor(m_closely, p)) \in Nat
                              /\ Cardinality(KeysFor(m_closely', p)) \in Nat
    BY KeysFinite
  <1>2. \A p \in InfoKey : m_infos[p] \in WatchedStackTraceInfo
    BY DEF TableAccounting, TableTypeOK
  <1>3. CountersCoverTable'
    BY <1>1, <1>2 DEF TableAccounting, TableTypeOK, CountersCoverTable, WatchedStackTraceInfo
  <1>. QED  BY <1>3 DEF TableAccounting, CountersWithinLimits, SamplesEndOnce

\* Moving a light record, to the NULL key of a failed realloc() too, keeps the
\* table's type.
LEMMA MovedLight ==
  ASSUME NEW table \in [Address \cup {NULL} -> LightAllocation \cup {NoRecord}],
         NEW old \in Address, NEW new \in Address \cup {NULL}, NEW record \in LightAllocation
  PROVE  moved(table, old, new, record) \in [Address \cup {NULL} -> LightAllocation \cup {NoRecord}]
  BY DEF moved

\* instrumentedReallocate, every path.
LEMMA ReallocateAccounting ==
  ASSUME TableAccounting, NEW old \in Address, NEW size \in Size, NEW memory \in Address \cup {NULL},
         instrumentedReallocate(old, size, memory), UNCHANGED clock
  PROVE  TableAccounting'
  <1>1. size \in Nat /\ uint32(size) \in Nat /\ roundUpToPageMultiple(size) \in Nat
    BY SizeTypes, TableAssumption
  <1>2. m_stats' \in AllocationStats
    BY DEF TableAccounting, TableTypeOK, instrumentedReallocate, AllocationStats
  <1>3. UNCHANGED <<m_suspiciousFingerprints, m_infos, allTraces, clock>>
    BY DEF instrumentedReallocate
  <1>4. CASE reallocateLight(old, size, memory)
    <2>. DEFINE record == [m_light[old] EXCEPT !.requestedSize = uint32(size)]
    <2>1. UNCHANGED <<m_closely, fault>> /\ heap' \in [Address -> Nat \cup {NotLive}]
      BY <1>1, <1>4, RealTypes DEF reallocateLight, TableAccounting, TableTypeOK
    <2>2. m_light[old] \in LightAllocation
      BY <1>4 DEF reallocateLight, TableAccounting, TableTypeOK
    <2>3. record \in LightAllocation
      BY <1>1, <2>2 DEF LightAllocation
    <2>4. m_light' = IF memory = old THEN [m_light EXCEPT ![old] = record]
                                     ELSE moved(m_light, old, memory, record)
      BY <1>4 DEF reallocateLight
    <2>. HIDE DEF record
    <2>5. m_light' \in [Address \cup {NULL} -> LightAllocation \cup {NoRecord}]
      BY <2>3, <2>4, MovedLight DEF TableAccounting, TableTypeOK
    <2>6. TableTypeOK'
      BY <1>2, <1>3, <2>1, <2>5 DEF TableAccounting, TableTypeOK
    <2>. QED  BY <1>3, <2>1, <2>6, CountersUntouched
  <1>5. CASE reallocateCloselyMoved(old, size, memory)
    <2>. DEFINE record == [m_closely[old] EXCEPT !.requestedSize = uint32(size)]
    <2>1. /\ m_closely[old] # NoRecord /\ UNCHANGED m_light
          /\ heap' \in [Address -> Nat \cup {NotLive}]
          /\ fault' \in {"none", "nullWrite", "overrun"}
      BY <1>1, <1>5, RealTypes DEF reallocateCloselyMoved, TableAccounting, TableTypeOK
    <2>2. m_closely \in [Address -> Records] /\ m_closely[old] \in CloselyWatchedAllocation
      BY <2>1, WatchedIsCounted DEF TableAccounting, TableTypeOK, Records
    <2>3. record \in CloselyWatchedAllocation /\ record.info = m_closely[old].info
      BY <1>1, <2>2 DEF CloselyWatchedAllocation
    <2>4. CASE UNCHANGED m_closely
      <3>1. TableTypeOK'
        BY <1>2, <1>3, <2>1, <2>4 DEF TableAccounting, TableTypeOK
      <3>. QED  BY <1>3, <2>4, <3>1, CountersUntouched
    <2>5. CASE memory # NULL /\ m_closely' = moved(m_closely, old, memory, record)
      <3>1. CASE memory = old
        <4>1. m_closely' = [m_closely EXCEPT ![old] = NoRecord]
          BY <2>1, <2>5, <3>1 DEF moved
        <4>2. TableTypeOK'
          BY <1>2, <1>3, <2>1, <4>1 DEF TableAccounting, TableTypeOK
        <4>3. ASSUME NEW p
              PROVE  /\ Cardinality(Keys(m_closely')) <= Cardinality(Keys(m_closely))
                     /\ Cardinality(KeysFor(m_closely', p)) <= Cardinality(KeysFor(m_closely, p))
          <5>1. /\ Cardinality(Keys(m_closely)) \in Nat /\ Cardinality(KeysFor(m_closely, p)) \in Nat
            BY KeysFinite
          <5>2. /\ Cardinality(Keys(m_closely')) = Cardinality(Keys(m_closely)) - 1
                /\ \/ Cardinality(KeysFor(m_closely', p)) = Cardinality(KeysFor(m_closely, p)) - 1
                   \/ Cardinality(KeysFor(m_closely', p)) = Cardinality(KeysFor(m_closely, p))
            BY <2>1, <2>2, <4>1, EraseKeys
          <5>. QED  BY <5>1, <5>2
        <4>. QED  BY <1>3, <4>2, <4>3, RelabelAccounting
      <3>2. CASE memory # old
        <4>. HIDE DEF record
        <4>1. /\ m_closely' \in [Address -> Records]
              /\ Cardinality(Keys(m_closely')) <= Cardinality(Keys(m_closely))
              /\ \A p : Cardinality(KeysFor(m_closely', p)) <= Cardinality(KeysFor(m_closely, p))
          BY <2>1, <2>2, <2>3, <2>5, <3>2, MovedKeys
        <4>2. TableTypeOK'
          BY <1>2, <1>3, <2>1, <4>1 DEF TableAccounting, TableTypeOK, Records
        <4>. QED  BY <1>3, <4>1, <4>2, RelabelAccounting
      <3>. QED  BY <3>1, <3>2
    <2>. QED  BY <1>5, <2>4, <2>5 DEF reallocateCloselyMoved
  <1>6. CASE reallocateCloselyInPlace(old, size, memory)
    <2>. DEFINE record == [m_closely[old] EXCEPT !.requestedSize = uint32(size)]
    <2>1. m_closely[old] # NoRecord /\ UNCHANGED <<m_light, heap, fault>>
      BY <1>6 DEF reallocateCloselyInPlace
    <2>2. m_closely \in [Address -> Records] /\ m_closely[old] \in CloselyWatchedAllocation
      BY <2>1, WatchedIsCounted DEF TableAccounting, TableTypeOK, Records
    <2>3. record \in CloselyWatchedAllocation /\ record.info = m_closely[old].info
      BY <1>1, <2>2 DEF CloselyWatchedAllocation
    <2>4. m_closely' = [m_closely EXCEPT ![old] = record]
      BY <1>6, <2>2 DEF reallocateCloselyInPlace
    <2>. HIDE DEF record
    <2>5. ASSUME NEW p
          PROVE  /\ m_closely' \in [Address -> Records]
                 /\ Cardinality(Keys(m_closely')) = Cardinality(Keys(m_closely))
                 /\ Cardinality(KeysFor(m_closely', p)) = Cardinality(KeysFor(m_closely, p))
      <3>. DEFINE new == [m_closely EXCEPT ![old] = record]
      <3>1. /\ Cardinality(Keys(new)) = Cardinality(Keys(m_closely))
            /\ Cardinality(KeysFor(new, p)) = Cardinality(KeysFor(m_closely, p))
        BY <2>1, <2>2, <2>3, UpdateKeys
      <3>2. m_closely' = new /\ new \in [Address -> Records]
        BY <2>2, <2>3, <2>4 DEF Records
      <3>. HIDE DEF new
      <3>. QED  BY <3>1, <3>2
    <2>6. TableTypeOK'
      BY <1>2, <1>3, <2>1, <2>5 DEF TableAccounting, TableTypeOK, Records
    <2>7. /\ Cardinality(Keys(m_closely')) <= Cardinality(Keys(m_closely))
          /\ \A p : Cardinality(KeysFor(m_closely', p)) <= Cardinality(KeysFor(m_closely, p))
      BY <2>5, KeysFinite
    <2>. QED  BY <1>3, <2>6, <2>7, RelabelAccounting
  <1>7. CASE reallocateUntracked(old, size, memory)
    <2>1. UNCHANGED <<m_light, m_closely, fault>> /\ heap' \in [Address -> Nat \cup {NotLive}]
      BY <1>1, <1>7, RealTypes DEF reallocateUntracked, TableAccounting, TableTypeOK
    <2>2. TableTypeOK'
      BY <1>2, <1>3, <2>1 DEF TableAccounting, TableTypeOK
    <2>. QED  BY <1>3, <2>1, <2>2, CountersUntouched
  <1>. QED  BY <1>4, <1>5, <1>6, <1>7 DEF instrumentedReallocate

\* The patrol scan turns a light record into a suspicious fingerprint.
LEMMA ExpireLightAccounting ==
  ASSUME TableAccounting, NEW a \in Address \cup {NULL}, m_light[a] # NoRecord, expireLight(a),
         UNCHANGED <<heap, clock, fault>>
  PROVE  TableAccounting'
  <1>1. m_light[a].fingerprint \in Fingerprint
    BY DEF TableAccounting, TableTypeOK, LightAllocation
  <1>2. TableTypeOK'
    BY <1>1 DEF expireLight, TableAccounting, TableTypeOK
  <1>. QED  BY <1>2, CountersUntouched DEF expireLight

\* The patrol scan makes a closely watched block suspicious.
LEMMA BecomeSuspiciousAccounting ==
  ASSUME TableAccounting, NEW a \in Address, m_closely[a] # NoRecord, NEW now \in Nat,
         becomeSuspicious(a, now), UNCHANGED <<heap, clock, fault>>
  PROVE  TableAccounting'
  <1>. DEFINE one == [m_closely[a] EXCEPT !.state = "Suspicious"]
              record == [one EXCEPT
                            !.deadline = now + CloselyWatchedAllocationsAccessMaxInterval]
              new == [m_closely EXCEPT ![a] = record]
  <1>1. m_closely \in [Address -> Records] /\ m_closely[a] \in CloselyWatchedAllocation
    BY WatchedIsCounted DEF TableAccounting, TableTypeOK, Records
  <1>2. m_closely' = new
    BY <1>1 DEF becomeSuspicious, CloselyWatchedAllocation
  <1>3. one \in CloselyWatchedAllocation /\ one.info = m_closely[a].info
    BY <1>1 DEF CloselyWatchedAllocation
  <1>. HIDE DEF one
  <1>4. record \in CloselyWatchedAllocation /\ record.info = m_closely[a].info
    BY <1>3, TableAssumption DEF CloselyWatchedAllocation
  <1>. HIDE DEF record
  <1>5. new \in [Address -> Records]
    BY <1>1, <1>4 DEF Records
  <1>6. ASSUME NEW p
        PROVE  /\ Cardinality(Keys(new)) = Cardinality(Keys(m_closely))
               /\ Cardinality(KeysFor(new, p)) = Cardinality(KeysFor(m_closely, p))
    BY <1>1, <1>4, UpdateKeys
  <1>. HIDE DEF new
  <1>7. /\ Cardinality(Keys(m_closely')) <= Cardinality(Keys(m_closely))
        /\ \A p : Cardinality(KeysFor(m_closely', p)) <= Cardinality(KeysFor(m_closely, p))
    BY <1>2, <1>6, KeysFinite
  <1>8. UNCHANGED <<m_light, m_suspiciousFingerprints, m_infos, allTraces, m_stats>>
    BY DEF becomeSuspicious
  <1>9. TableTypeOK'
    BY <1>2, <1>5, <1>8 DEF TableAccounting, TableTypeOK, Records
  <1>. QED  BY <1>7, <1>8, <1>9, RelabelAccounting

\* A step that leaves the table alone preserves its part of the invariant.
LEMMA TableUnchanged ==
  ASSUME TableAccounting, UNCHANGED <<tableVars, heap, clock, fault>>
  PROVE  TableAccounting'
  <1>1. TableTypeOK'
    BY DEF TableAccounting, TableTypeOK, tableVars
  <1>. QED  BY <1>1, CountersUntouched DEF tableVars
=============================================================================
