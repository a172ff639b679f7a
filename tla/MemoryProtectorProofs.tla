----------------------- MODULE MemoryProtectorProofs -----------------------
(***************************************************************************)
(* Theorems about MemoryProtector, for any threads, blocks and number of   *)
(* watches: what holds as long as no two threads are in the section that   *)
(* the lock of memory-protector.h was meant to guard.                      *)
(***************************************************************************)
EXTENDS MemoryProtector, TLAPS

-----------------------------------------------------------------------------
(* The inductive invariant.                                                *)

IsBlock(r) == \E b \in Block : r.start = b.start /\ r.end = b.end

\* Where a thread can be, and what it then accesses.
ThreadsInPlace ==
    /\ \A t \in AppThread :
          /\ pc[t] \in {"outside", "finding", "unprotecting", "calling", "erasing", "probing"}
          /\ accessed[t] \in Mapped \cup {WildPage, NoAddress}
          /\ pc[t] # "outside" => accessed[t] # NoAddress
    /\ pc[Patrol] \in {"outside", "finding", "inserting", "protecting", "unprotecting", "erasing"}

\* A block is in the table once at most, each time under a number of its own.
TableOfBlocks ==
    /\ \A r \in m_watchedPages : IsBlock(r) /\ r.watch \in 1..Len(onAccessCalls)
    /\ \A r, q \in m_watchedPages : r.watch = q.watch \/ r.start = q.start => r = q

\* What watchRange() is about to insert: a block under a new number, which is
\* in the table only if its onAccess() was called since.
NewRange ==
    LET new == rangeIter[Patrol] IN
    /\ pc[Patrol] \in {"inserting", "protecting"} => IsBlock(new)
    /\ pc[Patrol] = "inserting" =>
          /\ new.watch \in 1..Len(onAccessCalls)
          /\ onAccessCalls[new.watch] = 0
          /\ \A r \in m_watchedPages :
                /\ r.watch # new.watch
                /\ r.start = new.start => onAccessCalls[r.watch] > 0

\* A range in the table that is not protected yet, or no longer.
Open(r) ==
    \E t \in Thread : pc[t] \in {"protecting", "calling", "erasing"} /\ rangeIter[t] = r

OneInSection == \A t, u \in Thread : InSection(t) /\ InSection(u) => t = u

NoneDangling ==
    \A t \in Thread : pc[t] \in {"protecting", "unprotecting", "calling", "erasing"} => ~ dangling(t)

ProtectedUnlessOpen ==
    \A p \in Mapped : p \in protected <=> \E r \in m_watchedPages : p \in PagesOf(r) /\ ~ Open(r)

CalledAtMostOnce ==
    /\ \A w \in 1..Len(onAccessCalls) : onAccessCalls[w] <= 1
    /\ \A r \in m_watchedPages :
          \/ onAccessCalls[r.watch] = 0
          \/ \E t \in AppThread : pc[t] = "erasing" /\ rangeIter[t] = r

ProbesUnwatched == \A t \in AppThread : pc[t] = "probing" => ~ contains(accessed[t])

Guarded ==
    ~ overlapped =>
        /\ OneInSection
        /\ NoneDangling
        /\ ProtectedUnlessOpen
        /\ CalledAtMostOnce
        /\ ProbesUnwatched

Inv == TypeOK /\ ThreadsInPlace /\ TableOfBlocks /\ NewRange /\ Guarded /\ ProcessEndsForCause

-----------------------------------------------------------------------------
(* Facts about blocks and the table.                                       *)

\* Two blocks that share a page, or a start, are the same.
LEMMA BlocksApart ==
  ASSUME NEW b \in Block, NEW c \in Block, NEW p \in Int,
         b.start <= p, p < b.end, c.start <= p, p < c.end
  PROVE  b = c
  <1>1. p \in PagesOf(b) \cap PagesOf(c)
    BY ProtectorAssumption DEF PagesOf
  <1>. QED  BY <1>1, ProtectorAssumption

\* A watched range covers pages that are mapped.
LEMMA BlockPages ==
  ASSUME NEW r \in PointerRange, IsBlock(r)
  PROVE  /\ r.start < r.end
         /\ PagesOf(r) \subseteq Mapped
         /\ r # NoRange
  <1>1. PICK b \in Block : r.start = b.start /\ r.end = b.end
    BY DEF IsBlock
  <1>2. PagesOf(r) = PagesOf(b)
    BY <1>1 DEF PagesOf
  <1>3. r.start < r.end
    BY <1>1, ProtectorAssumption
  <1>. QED  BY <1>2, <1>3 DEF Mapped, NoRange

\* Two ranges of the table that share a page are the same.
LEMMA RangesApart ==
  ASSUME TypeOK, TableOfBlocks, NEW r \in m_watchedPages, NEW q \in m_watchedPages,
         NEW p \in Int, p \in PagesOf(r), p \in PagesOf(q)
  PROVE  r = q
  <1>1. PICK b \in Block : r.start = b.start /\ r.end = b.end
    BY DEF TableOfBlocks, IsBlock
  <1>2. PICK c \in Block : q.start = c.start /\ q.end = c.end
    BY DEF TableOfBlocks, IsBlock
  <1>3. r \in PointerRange /\ q \in PointerRange
    BY DEF TypeOK
  <1>4. b = c
    BY <1>1, <1>2, <1>3, BlocksApart DEF PagesOf, PointerRange
  <1>. QED  BY <1>1, <1>2, <1>4 DEF TableOfBlocks

\* What findContainingPointer() answers.
LEMMA FindResult ==
  ASSUME TypeOK, TableOfBlocks, NEW pointer
  PROVE  LET r == findContainingPointer(pointer) IN
         /\ r \in PointerRange
         /\ contains(pointer) => r \in m_watchedPages /\ r # NoRange
                                 /\ r.start <= pointer /\ pointer < r.end
         /\ ~ contains(pointer) => r = NoRange
  <1>1. CASE contains(pointer)
    <2>. DEFINE r == findContainingPointer(pointer)
    <2>1. r \in m_watchedPages /\ r.start <= pointer /\ pointer < r.end
      BY <1>1 DEF contains, findContainingPointer
    <2>. HIDE DEF r
    <2>2. r \in PointerRange /\ IsBlock(r)
      BY <2>1 DEF TypeOK, TableOfBlocks
    <2>. QED  BY <1>1, <2>1, <2>2, BlockPages DEF r
  <1>2. CASE ~ contains(pointer)
    BY <1>2 DEF findContainingPointer, NoRange, PointerRange
  <1>. QED  BY <1>1, <1>2

-----------------------------------------------------------------------------
(* One lemma for each step.                                                *)

\* Nothing is watched when the process starts.
LEMMA InitInv == Init => Inv
  <1>. SUFFICES ASSUME Init PROVE Inv
    OBVIOUS
  <1>1. TypeOK
    <2>1. NoRange \in PointerRange
      BY DEF NoRange, PointerRange
    <2>2. m_watchedPages \subseteq PointerRange /\ protected \subseteq Mapped /\ onAccessCalls \in Seq(Nat)
      BY DEF Init
    <2>3. accessed \in [AppThread -> Nat \cup {NoAddress}] /\ rangeIter \in [Thread -> PointerRange]
      BY <2>1 DEF Init
    <2>. QED  BY <2>2, <2>3 DEF Init, TypeOK
  <1>2. ThreadsInPlace
    BY ProtectorAssumption DEF Init, ThreadsInPlace, Thread
  <1>3. TableOfBlocks /\ NewRange /\ ProcessEndsForCause
    BY ProtectorAssumption DEF Init, TableOfBlocks, NewRange, ProcessEndsForCause, Thread
  <1>4. Guarded
    BY DEF Init, Guarded, OneInSection, InSection, NoneDangling, ProtectedUnlessOpen,
           CalledAtMostOnce, ProbesUnwatched, Thread, Open
  <1>. QED  BY <1>1, <1>2, <1>3, <1>4 DEF Inv

\* The end of the process changes nothing else: only its cause is to be shown.
LEMMA EndInv ==
  ASSUME Inv, UNCHANGED <<m_watchedPages, protected, pc, accessed, rangeIter, onAccessCalls>>,
         process' \in {"alive", "killed", "aborted", "assertion", "undefined"},
         overlapped' \in BOOLEAN, overlapped => overlapped',
         ProcessEndsForCause'
  PROVE  Inv'
  <1>1. TypeOK' /\ ThreadsInPlace' /\ TableOfBlocks' /\ NewRange'
    BY DEF Inv, TypeOK, ThreadsInPlace, TableOfBlocks, NewRange, IsBlock
  <1>2. Guarded'
    BY DEF Inv, Guarded, OneInSection, InSection, NoneDangling, dangling, ProtectedUnlessOpen,
           CalledAtMostOnce, ProbesUnwatched, contains, Open
  <1>. QED  BY <1>1, <1>2 DEF Inv

\* The application starts and completes accesses without touching the table,
\* and a fault leads it into the handler.
LEMMA AccessInv ==
  ASSUME Inv, process = "alive", NEW t \in AppThread,
         StartAccess(t) \/ CompleteAccess(t) \/ Fault(t)
  PROVE  Inv'
  <1>1. /\ UNCHANGED <<m_watchedPages, protected, rangeIter, onAccessCalls, process, overlapped>>
        /\ \A u \in Thread : pc'[u] = pc[u] \/ (u = t /\ pc[u] = "outside" /\ pc'[u] = "finding")
        /\ \A u \in AppThread : pc[u] # "outside" => accessed'[u] = accessed[u]
    BY DEF Inv, TypeOK, ThreadsInPlace, Thread, StartAccess, CompleteAccess, Fault, goTo
  <1>2. TypeOK' /\ ThreadsInPlace'
    <2>1. Mapped \subseteq Nat /\ WildPage \in Nat
      BY ProtectorAssumption DEF Mapped, PagesOf
    <2>2. CASE StartAccess(t)
      BY <2>1, <2>2, ProtectorAssumption DEF Inv, TypeOK, ThreadsInPlace, Thread, StartAccess, NoAddress
    <2>3. CASE CompleteAccess(t)
      BY <2>3, ProtectorAssumption DEF Inv, TypeOK, ThreadsInPlace, Thread, CompleteAccess, NoAddress
    <2>4. CASE Fault(t)
      BY <2>4, ProtectorAssumption DEF Inv, TypeOK, ThreadsInPlace, Thread, Fault, goTo
    <2>. QED  BY <2>2, <2>3, <2>4
  <1>3. pc'[Patrol] = pc[Patrol]
    BY <1>1, ProtectorAssumption DEF Thread
  <1>4. TableOfBlocks' /\ NewRange' /\ ProcessEndsForCause'
    BY <1>1, <1>3 DEF Inv, TableOfBlocks, NewRange, ProcessEndsForCause, IsBlock
  <1>5. \A u \in Thread : pc'[u] \notin {"outside", "finding"} \/ pc[u] \notin {"outside", "finding"}
                             => pc'[u] = pc[u]
    BY <1>1
  <1>6. Guarded'
    <2>. SUFFICES ASSUME ~ overlapped PROVE /\ OneInSection' /\ NoneDangling' /\ ProtectedUnlessOpen'
                                            /\ CalledAtMostOnce' /\ ProbesUnwatched'
      BY <1>1 DEF Guarded
    <2>1. OneInSection' /\ NoneDangling'
      BY <1>1, <1>5 DEF Inv, Guarded, OneInSection, InSection, NoneDangling, dangling
    <2>2. \A r : Open(r)' <=> Open(r)
      BY <1>1, <1>5 DEF Open
    <2>3. ProtectedUnlessOpen'
      BY <1>1, <2>2 DEF Inv, Guarded, ProtectedUnlessOpen
    <2>4. CalledAtMostOnce' /\ ProbesUnwatched'
      BY <1>1, <1>5 DEF Inv, Guarded, CalledAtMostOnce, ProbesUnwatched, contains, Thread
    <2>. QED  BY <2>1, <2>3, <2>4
  <1>. QED  BY <1>2, <1>4, <1>6 DEF Inv

\* segfaultHandler() and removeWatch() look up the range of an address.
LEMMA FindInv ==
  ASSUME Inv, process = "alive", NEW t \in Thread, t = Patrol => FindStart,
         t # Patrol => FindAccessed(t)
  PROVE  Inv'
  <1>. DEFINE pointer == IF t = Patrol THEN rangeIter[Patrol].start ELSE accessed[t]
              range == findContainingPointer(pointer)
              whenNot == IF t = Patrol THEN "outside" ELSE "probing"
  <1>1. /\ pc[t] = "finding" /\ enterSection(t)
        /\ rangeIter' = [rangeIter EXCEPT ![t] = range]
        /\ pc' = [pc EXCEPT ![t] = IF range = NoRange THEN whenNot ELSE "unprotecting"]
        /\ UNCHANGED <<m_watchedPages, protected, accessed, onAccessCalls, process>>
    BY DEF FindStart, FindAccessed, Find, goTo
  <1>2. /\ range \in PointerRange
        /\ contains(pointer) => range \in m_watchedPages /\ range # NoRange
        /\ ~ contains(pointer) => range = NoRange
    BY FindResult DEF Inv
  <1>. HIDE DEF range
  <1>3. /\ \A u \in Thread : u # t => pc'[u] = pc[u] /\ rangeIter'[u] = rangeIter[u]
        /\ pc'[t] = IF range = NoRange THEN whenNot ELSE "unprotecting"
        /\ rangeIter'[t] = range
    BY <1>1 DEF Inv, TypeOK
  <1>4. overlapped' \in BOOLEAN /\ (~ overlapped' => ~ overlapped /\ \A u \in Thread : u # t => ~ InSection(u))
    BY <1>1 DEF Inv, TypeOK, enterSection
  <1>5. TypeOK'
    BY <1>1, <1>2, <1>4 DEF Inv, TypeOK
  <1>6. ThreadsInPlace'
    BY <1>1, <1>3, ProtectorAssumption DEF Inv, ThreadsInPlace, Thread
  <1>7. TableOfBlocks' /\ NewRange' /\ ProcessEndsForCause'
    BY <1>1, <1>3, <1>4 DEF Inv, TableOfBlocks, NewRange, ProcessEndsForCause, IsBlock, Thread
  <1>8. Guarded'
    <2>. SUFFICES ASSUME ~ overlapped'
                  PROVE  /\ OneInSection' /\ NoneDangling' /\ ProtectedUnlessOpen'
                         /\ CalledAtMostOnce' /\ ProbesUnwatched'
      BY DEF Guarded
    <2>1. OneInSection'
      BY <1>3, <1>4 DEF OneInSection, InSection
    <2>2. NoneDangling'
      BY <1>1, <1>2, <1>3, <1>4 DEF Inv, Guarded, NoneDangling, dangling
    <2>3. \A r : Open(r)' <=> Open(r)
      BY <1>1, <1>3 DEF Open
    <2>4. ProtectedUnlessOpen'
      BY <1>1, <1>4, <2>3 DEF Inv, Guarded, ProtectedUnlessOpen
    <2>5. CalledAtMostOnce'
      BY <1>1, <1>3, <1>4 DEF Inv, Guarded, CalledAtMostOnce, Thread
    <2>6. ProbesUnwatched'
      BY <1>1, <1>2, <1>3, <1>4, ProtectorAssumption DEF Inv, Guarded, ProbesUnwatched, contains, Thread
    <2>. QED  BY <2>1, <2>2, <2>4, <2>5, <2>6
  <1>. QED  BY <1>5, <1>6, <1>7, <1>8 DEF Inv

\* mprotect() opens the range that was found: it is still in the table, and the
\* thread that opened it is the one in the section.
LEMMA UnprotectInv ==
  ASSUME Inv, process = "alive", NEW t \in Thread, NEW next,
         next = (IF t = Patrol THEN "erasing" ELSE "calling"), Unprotect(t, next)
  PROVE  Inv'
  <1>. DEFINE range == rangeIter[t]
  <1>1. /\ pc[t] = "unprotecting" /\ range \in m_watchedPages
        /\ protected' = protected \ PagesOf(range)
        /\ pc' = [pc EXCEPT ![t] = next]
        /\ UNCHANGED <<m_watchedPages, accessed, rangeIter, onAccessCalls, process, overlapped>>
    BY DEF Unprotect, dangling, goTo
  <1>2. /\ \A u \in Thread : u # t => pc'[u] = pc[u]
        /\ pc'[t] = next /\ next \in {"erasing", "calling"}
    BY <1>1 DEF Inv, TypeOK
  <1>3. TypeOK'
    BY <1>1, <1>2 DEF Inv, TypeOK
  <1>4. ThreadsInPlace'
    BY <1>1, <1>2, ProtectorAssumption DEF Inv, ThreadsInPlace, Thread
  <1>5. TableOfBlocks' /\ NewRange' /\ ProcessEndsForCause'
    BY <1>1, <1>2 DEF Inv, TableOfBlocks, NewRange, ProcessEndsForCause, IsBlock, Thread
  <1>6. Guarded'
    <2>. SUFFICES ASSUME ~ overlapped
                  PROVE  /\ OneInSection' /\ NoneDangling' /\ ProtectedUnlessOpen'
                         /\ CalledAtMostOnce' /\ ProbesUnwatched'
      BY <1>1 DEF Guarded
    <2>1. OneInSection' /\ NoneDangling' /\ ProbesUnwatched'
      BY <1>1, <1>2 DEF Inv, Guarded, OneInSection, InSection, NoneDangling, dangling,
                        ProbesUnwatched, contains, Thread
    <2>2. \A u \in Thread : u # t => ~ InSection(u)
      BY <1>1 DEF Inv, Guarded, OneInSection, InSection
    <2>3. \A r : ~ Open(r)
      BY <1>1, <2>2 DEF Open, InSection
    <2>4. \A r : Open(r)' <=> r = range
      BY <1>1, <1>2, <2>2 DEF Open, InSection
    <2>5. ProtectedUnlessOpen'
      <3>. SUFFICES ASSUME NEW p \in Mapped
                    PROVE  p \in protected' <=> \E r \in m_watchedPages : p \in PagesOf(r) /\ r # range
        BY <1>1, <2>4 DEF ProtectedUnlessOpen
      <3>1. p \in protected <=> \E r \in m_watchedPages : p \in PagesOf(r)
        BY <2>3 DEF Inv, Guarded, ProtectedUnlessOpen
      <3>2. p \in Int
        BY ProtectorAssumption DEF Mapped, PagesOf
      <3>3. \A r \in m_watchedPages : p \in PagesOf(r) /\ p \in PagesOf(range) => r = range
        BY <1>1, <3>2, RangesApart DEF Inv
      <3>. QED  BY <1>1, <3>1, <3>3
    <2>6. CalledAtMostOnce'
      BY <1>1, <1>2 DEF Inv, Guarded, CalledAtMostOnce, Thread
    <2>. QED  BY <2>1, <2>5, <2>6
  <1>. QED  BY <1>3, <1>4, <1>5, <1>6 DEF Inv

\* onAccess() is called for a watch whose count is still 0: whoever had called
\* it before would be in the section, on the way to erase the range.
LEMMA CallOnAccessInv ==
  ASSUME Inv, process = "alive", NEW t \in AppThread, CallOnAccess(t)
  PROVE  Inv'
  <1>. DEFINE range == rangeIter[t]
              w == range.watch
  <1>1. /\ pc[t] = "calling" /\ range \in m_watchedPages
        /\ onAccessCalls' = [onAccessCalls EXCEPT ![w] = @ + 1]
        /\ pc' = [pc EXCEPT ![t] = "erasing"]
        /\ UNCHANGED <<m_watchedPages, protected, accessed, rangeIter, process, overlapped>>
    BY DEF CallOnAccess, dangling, goTo
  <1>2. /\ \A u \in Thread : u # t => pc'[u] = pc[u]
        /\ pc'[t] = "erasing" /\ t \in Thread /\ t # Patrol
    BY <1>1, ProtectorAssumption DEF Inv, TypeOK, Thread
  <1>3. w \in 1..Len(onAccessCalls)
    BY <1>1 DEF Inv, TableOfBlocks
  <1>4. /\ onAccessCalls' \in Seq(Nat) /\ Len(onAccessCalls') = Len(onAccessCalls)
        /\ \A v \in 1..Len(onAccessCalls) :
              onAccessCalls'[v] = IF v = w THEN onAccessCalls[v] + 1 ELSE onAccessCalls[v]
    <2>1. onAccessCalls \in Seq(Nat)
      BY DEF Inv, TypeOK
    <2>. QED  BY <1>1, <1>3, <2>1, SMTT(30)
  <1>5. TypeOK'
    BY <1>1, <1>2, <1>4 DEF Inv, TypeOK
  <1>6. ThreadsInPlace'
    BY <1>1, <1>2, ProtectorAssumption DEF Inv, ThreadsInPlace, Thread
  <1>7. TableOfBlocks' /\ ProcessEndsForCause'
    BY <1>1, <1>4 DEF Inv, TableOfBlocks, ProcessEndsForCause, IsBlock
  <1>8. pc'[Patrol] = pc[Patrol] /\ Patrol \in Thread
    BY <1>2 DEF Thread
  <1>9. \A v \in 1..Len(onAccessCalls) : onAccessCalls[v] \in Nat
    BY DEF Inv, TypeOK
  <1>10. NewRange'
    BY <1>1, <1>3, <1>4, <1>8, <1>9, SMTT(30) DEF Inv, NewRange, TableOfBlocks, IsBlock
  <1>11. Guarded'
    <2>. SUFFICES ASSUME ~ overlapped
                  PROVE  /\ OneInSection' /\ NoneDangling' /\ ProtectedUnlessOpen'
                         /\ CalledAtMostOnce' /\ ProbesUnwatched'
      BY <1>1 DEF Guarded
    <2>1. OneInSection' /\ NoneDangling' /\ ProbesUnwatched'
      BY <1>1, <1>2 DEF Inv, Guarded, OneInSection, InSection, NoneDangling, dangling,
                        ProbesUnwatched, contains, Thread
    <2>2. \A r : Open(r)' <=> Open(r)
      BY <1>1, <1>2 DEF Open
    <2>3. ProtectedUnlessOpen'
      BY <1>1, <2>2 DEF Inv, Guarded, ProtectedUnlessOpen
    <2>4. \A u \in Thread : u # t => ~ InSection(u)
      BY <1>1, <1>2 DEF Inv, Guarded, OneInSection, InSection
    <2>5. onAccessCalls[w] = 0
      BY <1>1, <2>4 DEF Inv, Guarded, CalledAtMostOnce, InSection, Thread
    <2>6. \A r \in m_watchedPages : r # range => r.watch # w /\ r.watch \in 1..Len(onAccessCalls)
      BY <1>1 DEF Inv, TableOfBlocks
    <2>7. CalledAtMostOnce'
      BY <1>1, <1>2, <1>4, <2>4, <2>5, <2>6 DEF Inv, Guarded, CalledAtMostOnce, InSection, Thread
    <2>. QED  BY <2>1, <2>3, <2>7
  <1>. QED  BY <1>5, <1>6, <1>7, <1>10, <1>11 DEF Inv

\* The range that was opened leaves the table.
LEMMA EraseInv ==
  ASSUME Inv, process = "alive", NEW t \in Thread, Erase(t)
  PROVE  Inv'
  <1>. DEFINE range == rangeIter[t]
  <1>1. /\ pc[t] = "erasing" /\ range \in m_watchedPages
        /\ m_watchedPages' = m_watchedPages \ {range}
        /\ rangeIter' = [rangeIter EXCEPT ![t] = NoRange]
        /\ pc' = [pc EXCEPT ![t] = "outside"]
        /\ UNCHANGED <<protected, accessed, onAccessCalls, process, overlapped>>
    BY DEF Erase, dangling, goTo
  <1>2. /\ \A u \in Thread : u # t => pc'[u] = pc[u] /\ rangeIter'[u] = rangeIter[u]
        /\ pc'[t] = "outside"
    BY <1>1 DEF Inv, TypeOK
  <1>3. TypeOK'
    <2>1. NoRange \in PointerRange
      BY DEF NoRange, PointerRange
    <2>. QED  BY <1>1, <2>1 DEF Inv, TypeOK
  <1>4. ThreadsInPlace'
    BY <1>1, <1>2, ProtectorAssumption DEF Inv, ThreadsInPlace, Thread
  <1>5. TableOfBlocks' /\ NewRange' /\ ProcessEndsForCause'
    BY <1>1, <1>2 DEF Inv, TableOfBlocks, NewRange, ProcessEndsForCause, IsBlock, Thread
  <1>6. Guarded'
    <2>. SUFFICES ASSUME ~ overlapped
                  PROVE  /\ OneInSection' /\ NoneDangling' /\ ProtectedUnlessOpen'
                         /\ CalledAtMostOnce' /\ ProbesUnwatched'
      BY <1>1 DEF Guarded
    <2>1. \A u \in Thread : u # t => ~ InSection(u)
      BY <1>1 DEF Inv, Guarded, OneInSection, InSection
    <2>2. \A u \in Thread : ~ InSection(u)'
      BY <1>2, <2>1 DEF InSection
    <2>3. OneInSection' /\ NoneDangling' /\ ProbesUnwatched' /\ \A r : ~ Open(r)'
      BY <2>2 DEF OneInSection, InSection, NoneDangling, ProbesUnwatched, Thread, Open
    <2>4. \A r : Open(r) <=> r = range
      BY <1>1, <2>1 DEF Open, InSection
    <2>5. ProtectedUnlessOpen'
      BY <1>1, <2>3, <2>4 DEF Inv, Guarded, ProtectedUnlessOpen
    <2>6. CalledAtMostOnce'
      BY <1>1, <2>1 DEF Inv, Guarded, CalledAtMostOnce, InSection, Thread
    <2>. QED  BY <2>3, <2>5, <2>6
  <1>. QED  BY <1>3, <1>4, <1>5, <1>6 DEF Inv

\* The handler reads an address that no range of the table covers: it faults
\* again only on the page that is not mapped.
LEMMA ProbeInv ==
  ASSUME Inv, process = "alive", NEW t \in AppThread, Probe(t)
  PROVE  Inv'
  <1>1. pc[t] = "probing" /\ overlapped' = overlapped /\ t \in Thread /\ t # Patrol
    BY ProtectorAssumption DEF Probe, Thread
  <1>2. CASE accessible(accessed[t])
    <2>1. /\ pc' = [pc EXCEPT ![t] = "outside"]
          /\ UNCHANGED <<m_watchedPages, protected, accessed, rangeIter, onAccessCalls, process>>
      BY <1>2 DEF Probe, goTo
    <2>2. /\ \A u \in Thread : u # t => pc'[u] = pc[u]
          /\ pc'[t] = "outside"
      BY <1>1, <2>1 DEF Inv, TypeOK
    <2>3. TypeOK' /\ ThreadsInPlace'
      BY <1>1, <2>1, <2>2, ProtectorAssumption DEF Inv, TypeOK, ThreadsInPlace, Thread
    <2>4. TableOfBlocks' /\ NewRange' /\ ProcessEndsForCause'
      BY <1>1, <2>1, <2>2 DEF Inv, TableOfBlocks, NewRange, ProcessEndsForCause, IsBlock, Thread
    <2>5. Guarded'
      <3>1. \A r : Open(r)' <=> Open(r)
        BY <1>1, <2>1, <2>2 DEF Open
      <3>2. ~ overlapped => ProtectedUnlessOpen'
        BY <2>1, <3>1 DEF Inv, Guarded, ProtectedUnlessOpen
      <3>3. ~ overlapped => OneInSection' /\ NoneDangling' /\ CalledAtMostOnce' /\ ProbesUnwatched'
        BY <1>1, <2>1, <2>2 DEF Inv, Guarded, OneInSection, InSection, NoneDangling, dangling,
                                CalledAtMostOnce, ProbesUnwatched, contains, Thread
      <3>. QED  BY <1>1, <3>2, <3>3 DEF Guarded
    <2>. QED  BY <2>3, <2>4, <2>5 DEF Inv
  <1>3. CASE ~ accessible(accessed[t])
    <2>1. /\ process' = "killed"
          /\ UNCHANGED <<m_watchedPages, protected, pc, accessed, rangeIter, onAccessCalls>>
      BY <1>3 DEF Probe, finish
    <2>2. ~ overlapped => accessed[t] = WildPage
      <3>. SUFFICES ASSUME ~ overlapped, accessed[t] \in Mapped PROVE FALSE
        BY <1>1 DEF Inv, ThreadsInPlace
      <3>1. PICK r \in m_watchedPages : accessed[t] \in PagesOf(r)
        BY <1>3 DEF accessible, Inv, Guarded, ProtectedUnlessOpen
      <3>2. r \in PointerRange
        BY DEF Inv, TypeOK
      <3>3. r.start <= accessed[t] /\ accessed[t] < r.end
        BY <3>1, <3>2 DEF PagesOf, PointerRange
      <3>. QED  BY <1>1, <3>3 DEF Inv, Guarded, ProbesUnwatched, contains
    <2>3. ProcessEndsForCause'
      BY <1>1, <2>1, <2>2 DEF ProcessEndsForCause
    <2>. QED  BY <1>1, <2>1, <2>3, EndInv DEF Inv, TypeOK
  <1>. QED  BY <1>2, <1>3

\* watchRange() finds neither end of the new range in the table and inserts it.
\* With sections apart the assertion fails only on the range's end.
LEMMA InsertInv ==
  ASSUME Inv, process = "alive", Insert
  PROVE  Inv'
  <1>. DEFINE new == rangeIter[Patrol]
  <1>1. pc[Patrol] = "inserting" /\ Patrol \in Thread /\ enterSection(Patrol)
    BY DEF Insert, Thread
  <1>2. overlapped' \in BOOLEAN
        /\ (~ overlapped' => ~ overlapped /\ \A t \in Thread : t # Patrol => ~ InSection(t))
    BY <1>1 DEF Inv, TypeOK, enterSection
  <1>3. ~ overlapped' => \A t \in Thread : ~ InSection(t)
    BY <1>1, <1>2 DEF InSection
  <1>4. new \in PointerRange /\ IsBlock(new) /\ new.watch \in 1..Len(onAccessCalls)
        /\ onAccessCalls[new.watch] = 0
    BY <1>1 DEF Inv, TypeOK, NewRange
  <1>5. PICK b \in Block : new.start = b.start /\ new.end = b.end
    BY <1>4 DEF IsBlock
  <1>6. b.start \in Nat /\ b.end \in Nat /\ b.start < b.end
    BY ProtectorAssumption
  <1>7. CASE contains(new.start) \/ contains(new.end)
    <2>1. /\ process' = "assertion"
          /\ UNCHANGED <<m_watchedPages, protected, pc, accessed, rangeIter, onAccessCalls>>
      BY <1>7 DEF Insert, finish
    <2>2. ASSUME ~ overlapped' PROVE \E r \in m_watchedPages : r.start = new.end
      <3>1. \A r \in m_watchedPages : onAccessCalls[r.watch] = 0
        BY <1>2, <1>3, <2>2 DEF Inv, Guarded, CalledAtMostOnce, InSection, Thread
      <3>2. PICK r \in m_watchedPages : \/ r.start <= new.start /\ new.start < r.end
                                        \/ r.start <= new.end /\ new.end < r.end
        BY <1>7 DEF contains
      <3>3. PICK c \in Block : r.start = c.start /\ r.end = c.end
        BY DEF Inv, TableOfBlocks, IsBlock
      <3>4. c.start \in Nat /\ c.end \in Nat /\ c.start < c.end
        BY ProtectorAssumption
      <3>5. r.start # new.start
        BY <1>1, <3>1 DEF Inv, NewRange
      <3>6. ~ (c.start <= b.start /\ b.start < c.end)
        BY <1>5, <1>6, <3>3, <3>5, BlocksApart
      <3>7. ~ (c.start <= b.end - 1 /\ b.end - 1 < c.end)
        BY <1>5, <1>6, <3>3, <3>5, BlocksApart
      <3>8. r.start = new.end
        BY <1>5, <1>6, <3>2, <3>3, <3>4, <3>6, <3>7
      <3>. QED  BY <3>8
    <2>3. ProcessEndsForCause'
      BY <2>1, <2>2 DEF ProcessEndsForCause
    <2>. QED  BY <1>2, <2>1, <2>3, EndInv DEF Inv, TypeOK
  <1>8. CASE ~ (contains(new.start) \/ contains(new.end))
    <2>1. /\ m_watchedPages' = m_watchedPages \cup {new}
          /\ pc' = [pc EXCEPT ![Patrol] = "protecting"]
          /\ UNCHANGED <<protected, accessed, rangeIter, onAccessCalls, process>>
      BY <1>8 DEF Insert, goTo
    <2>2. /\ \A t \in Thread : t # Patrol => pc'[t] = pc[t]
          /\ pc'[Patrol] = "protecting"
      BY <1>1, <2>1 DEF Inv, TypeOK
    <2>3. TypeOK' /\ ThreadsInPlace'
      BY <1>2, <1>4, <2>1, <2>2, ProtectorAssumption DEF Inv, TypeOK, ThreadsInPlace, Thread
    <2>4. \A r \in m_watchedPages : r.start # new.start /\ r.watch # new.watch
      <3>. SUFFICES ASSUME NEW r \in m_watchedPages, r.start = new.start PROVE FALSE
        BY <1>1 DEF Inv, NewRange
      <3>1. r \in PointerRange /\ r.start < r.end
        BY BlockPages DEF Inv, TypeOK, TableOfBlocks
      <3>. QED  BY <1>5, <1>6, <1>8, <3>1 DEF contains
    <2>5. TableOfBlocks'
      BY <1>4, <2>1, <2>4 DEF Inv, TableOfBlocks, IsBlock
    <2>6. NewRange' /\ ProcessEndsForCause'
      BY <1>2, <1>4, <2>1, <2>2 DEF Inv, NewRange, ProcessEndsForCause, IsBlock
    <2>7. Guarded'
      <3>. SUFFICES ASSUME ~ overlapped'
                    PROVE  /\ OneInSection' /\ NoneDangling' /\ ProtectedUnlessOpen'
                           /\ CalledAtMostOnce' /\ ProbesUnwatched'
        BY DEF Guarded
      <3>1. OneInSection' /\ NoneDangling' /\ ProbesUnwatched'
        BY <1>3, <2>1, <2>2, ProtectorAssumption
        DEF OneInSection, InSection, NoneDangling, dangling, ProbesUnwatched, Thread
      <3>2. (\A r : ~ Open(r)) /\ (\A r : Open(r)' <=> r = new)
        BY <1>1, <1>3, <2>1, <2>2 DEF Open, InSection
      <3>3. ProtectedUnlessOpen'
        BY <1>2, <2>1, <2>4, <3>2 DEF Inv, Guarded, ProtectedUnlessOpen
      <3>4. CalledAtMostOnce'
        BY <1>2, <1>3, <1>4, <2>1 DEF Inv, Guarded, CalledAtMostOnce, InSection, Thread
      <3>. QED  BY <3>1, <3>3, <3>4
    <2>. QED  BY <2>3, <2>5, <2>6, <2>7 DEF Inv
  <1>. QED  BY <1>7, <1>8

\* mprotect() closes the range that was inserted, all of it and nothing else.
LEMMA ProtectInv ==
  ASSUME Inv, process = "alive", Protect
  PROVE  Inv'
  <1>. DEFINE new == rangeIter[Patrol]
  <1>1. /\ pc[Patrol] = "protecting" /\ Patrol \in Thread
        /\ protected' = protected \cup PagesOf(new)
        /\ rangeIter' = [rangeIter EXCEPT ![Patrol] = NoRange]
        /\ pc' = [pc EXCEPT ![Patrol] = "outside"]
        /\ UNCHANGED <<m_watchedPages, accessed, onAccessCalls, process, overlapped>>
    BY DEF Protect, goTo, Thread
  <1>2. /\ \A t \in Thread : t # Patrol => pc'[t] = pc[t] /\ rangeIter'[t] = rangeIter[t]
        /\ pc'[Patrol] = "outside"
    BY <1>1 DEF Inv, TypeOK
  <1>3. new \in PointerRange /\ IsBlock(new) /\ PagesOf(new) \subseteq Mapped
    BY <1>1, BlockPages DEF Inv, TypeOK, NewRange
  <1>4. TypeOK'
    <2>1. NoRange \in PointerRange
      BY DEF NoRange, PointerRange
    <2>. QED  BY <1>1, <1>3, <2>1 DEF Inv, TypeOK
  <1>5. ThreadsInPlace'
    BY <1>1, <1>2, ProtectorAssumption DEF Inv, ThreadsInPlace, Thread
  <1>6. TableOfBlocks' /\ NewRange' /\ ProcessEndsForCause'
    BY <1>1, <1>2 DEF Inv, TableOfBlocks, NewRange, ProcessEndsForCause, IsBlock
  <1>7. Guarded'
    <2>. SUFFICES ASSUME ~ overlapped
                  PROVE  /\ OneInSection' /\ NoneDangling' /\ ProtectedUnlessOpen'
                         /\ CalledAtMostOnce' /\ ProbesUnwatched'
      BY <1>1 DEF Guarded
    <2>1. \A t \in Thread : t # Patrol => ~ InSection(t)
      BY <1>1 DEF Inv, Guarded, OneInSection, InSection
    <2>2. \A t \in Thread : ~ InSection(t)'
      BY <1>2, <2>1 DEF InSection
    <2>3. OneInSection' /\ NoneDangling' /\ ProbesUnwatched' /\ \A r : ~ Open(r)'
      BY <2>2 DEF OneInSection, InSection, NoneDangling, ProbesUnwatched, Thread, Open
    <2>4. (\A r : Open(r) <=> r = new) /\ new \in m_watchedPages
      BY <1>1, <2>1 DEF Open, InSection, Inv, Guarded, NoneDangling, dangling
    <2>5. ProtectedUnlessOpen'
      BY <1>1, <2>3, <2>4 DEF Inv, Guarded, ProtectedUnlessOpen
    <2>6. CalledAtMostOnce'
      BY <1>1, <2>1 DEF Inv, Guarded, CalledAtMostOnce, InSection, Thread
    <2>. QED  BY <2>3, <2>5, <2>6
  <1>. QED  BY <1>4, <1>5, <1>6, <1>7 DEF Inv

\* The patrol thread calls watchRange() for a block, under a new number, or
\* removeWatch(): neither touches the table yet.
LEMMA CallInv ==
  ASSUME Inv, process = "alive", NEW b \in Block, CallWatchRange(b) \/ CallRemoveWatch(b)
  PROVE  Inv'
  <1>. DEFINE n == Len(onAccessCalls)
  <1>1. b.start \in Nat /\ b.end \in Nat /\ Patrol \in Thread /\ onAccessCalls \in Seq(Nat) /\ n \in Nat
    BY ProtectorAssumption DEF Thread, Inv, TypeOK
  <1>2. /\ pc[Patrol] = "outside"
        /\ UNCHANGED <<m_watchedPages, protected, accessed, process, overlapped>>
        /\ \E label \in {"inserting", "finding"}, r \in PointerRange :
              /\ pc' = [pc EXCEPT ![Patrol] = label]
              /\ rangeIter' = [rangeIter EXCEPT ![Patrol] = r]
              /\ label = "inserting" =>
                    /\ IsBlock(r) /\ r.watch = n + 1 /\ r.start = b.start
                    /\ onAccessCalls' = Append(onAccessCalls, 0)
                    /\ \A q \in m_watchedPages : q.start = b.start => onAccessCalls[q.watch] > 0
              /\ label = "finding" => onAccessCalls' = onAccessCalls
    <2>1. CASE CallWatchRange(b)
      <3>. DEFINE r == [start |-> b.start, end |-> b.end, watch |-> n + 1]
      <3>1. r \in PointerRange /\ IsBlock(r) /\ r.watch = n + 1 /\ r.start = b.start
        BY <1>1 DEF PointerRange, IsBlock
      <3>. QED  BY <2>1, <3>1 DEF CallWatchRange, goTo
    <2>2. CASE CallRemoveWatch(b)
      <3>. DEFINE r == [NoRange EXCEPT !.start = b.start]
      <3>1. r \in PointerRange
        BY <1>1 DEF PointerRange, NoRange
      <3>. QED  BY <2>2, <3>1 DEF CallRemoveWatch, goTo
    <2>. QED  BY <2>1, <2>2
  <1>3. PICK label \in {"inserting", "finding"}, r \in PointerRange :
              /\ pc' = [pc EXCEPT ![Patrol] = label]
              /\ rangeIter' = [rangeIter EXCEPT ![Patrol] = r]
              /\ label = "inserting" =>
                    /\ IsBlock(r) /\ r.watch = n + 1 /\ r.start = b.start
                    /\ onAccessCalls' = Append(onAccessCalls, 0)
                    /\ \A q \in m_watchedPages : q.start = b.start => onAccessCalls[q.watch] > 0
              /\ label = "finding" => onAccessCalls' = onAccessCalls
    BY <1>2
  <1>4. /\ \A t \in Thread : t # Patrol => pc'[t] = pc[t] /\ rangeIter'[t] = rangeIter[t]
        /\ pc'[Patrol] = label /\ rangeIter'[Patrol] = r
    BY <1>1, <1>3 DEF Inv, TypeOK
  <1>5. /\ onAccessCalls' \in Seq(Nat) /\ Len(onAccessCalls') \in {n, n + 1}
        /\ \A v \in 1..n : onAccessCalls'[v] = onAccessCalls[v]
        /\ \A v \in 1..Len(onAccessCalls') : v \in 1..n \/ (v = n + 1 /\ onAccessCalls'[v] = 0)
        /\ label = "inserting" => n + 1 \in 1..Len(onAccessCalls') /\ onAccessCalls'[n + 1] = 0
    <2>1. CASE label = "finding"
      BY <1>1, <1>3, <2>1
    <2>2. CASE label = "inserting"
      <3>1. onAccessCalls' = Append(onAccessCalls, 0)
        BY <1>3, <2>2
      <3>2. /\ onAccessCalls' \in Seq(Nat) /\ Len(onAccessCalls') = n + 1
            /\ onAccessCalls'[n + 1] = 0
            /\ \A v \in 1..n : onAccessCalls'[v] = onAccessCalls[v]
        BY <1>1, <3>1
      <3>. QED  BY <1>1, <3>2
    <2>. QED  BY <2>1, <2>2
  <1>6. TypeOK'
    BY <1>2, <1>3, <1>5 DEF Inv, TypeOK
  <1>7. ThreadsInPlace'
    BY <1>2, <1>4, ProtectorAssumption DEF Inv, ThreadsInPlace, Thread
  <1>8. TableOfBlocks' /\ ProcessEndsForCause'
    BY <1>1, <1>2, <1>5 DEF Inv, TableOfBlocks, ProcessEndsForCause, IsBlock
  <1>9. NewRange'
    <2>1. \A q \in m_watchedPages : q.watch \in 1..n
      BY DEF Inv, TableOfBlocks
    <2>2. \A q \in m_watchedPages : q.watch # n + 1 /\ onAccessCalls'[q.watch] = onAccessCalls[q.watch]
      BY <1>1, <1>5, <2>1, SMTT(30)
    <2>. HIDE DEF n
    <2>. QED  BY <1>2, <1>3, <1>4, <1>5, <2>2 DEF NewRange, IsBlock
  <1>10. Guarded'
    <2>. SUFFICES ASSUME ~ overlapped
                  PROVE  /\ OneInSection' /\ NoneDangling' /\ ProtectedUnlessOpen'
                         /\ CalledAtMostOnce' /\ ProbesUnwatched'
      BY <1>2 DEF Guarded
    <2>1. OneInSection' /\ NoneDangling' /\ ProbesUnwatched'
      BY <1>2, <1>4, ProtectorAssumption
      DEF Inv, Guarded, OneInSection, InSection, NoneDangling, dangling, ProbesUnwatched, contains, Thread
    <2>2. \A q : Open(q)' <=> Open(q)
      BY <1>2, <1>4 DEF Open
    <2>3. ProtectedUnlessOpen'
      BY <1>2, <2>2 DEF Inv, Guarded, ProtectedUnlessOpen
    <2>4. CalledAtMostOnce'
      <3>1. \A q \in m_watchedPages : onAccessCalls'[q.watch] = onAccessCalls[q.watch]
        BY <1>5 DEF Inv, TableOfBlocks
      <3>2. \A v \in 1..Len(onAccessCalls') : onAccessCalls'[v] <= 1
        BY <1>5 DEF Inv, Guarded, CalledAtMostOnce
      <3>3. \A t \in AppThread : t \in Thread /\ t # Patrol
        BY ProtectorAssumption DEF Thread
      <3>. QED  BY <1>2, <1>4, <3>1, <3>2, <3>3 DEF Inv, Guarded, CalledAtMostOnce
    <2>. QED  BY <2>1, <2>3, <2>4
  <1>. QED  BY <1>6, <1>7, <1>8, <1>9, <1>10 DEF Inv

\* The process ends in abort(), or in undefined behaviour of which the sections
\* of two threads are the cause.
LEMMA EndsInv ==
  ASSUME Inv, process = "alive",
         TableRace \/ \E t \in Thread : UseDangling(t) \/ MprotectFails(t)
  PROVE  Inv'
  <1>1. /\ UNCHANGED <<m_watchedPages, protected, pc, accessed, rangeIter, onAccessCalls>>
        /\ process' \in {"aborted", "undefined"}
        /\ overlapped' \in BOOLEAN /\ (overlapped => overlapped')
    BY DEF TableRace, UseDangling, MprotectFails, finish, Inv, TypeOK
  <1>2. ~ overlapped' => process' # "undefined"
    BY DEF TableRace, UseDangling, MprotectFails, finish, Inv, Guarded, NoneDangling
  <1>3. ProcessEndsForCause'
    BY <1>1, <1>2 DEF ProcessEndsForCause
  <1>. QED  BY <1>1, <1>3, EndInv

\* Every step preserves the invariant.
LEMMA StepInv == Inv /\ [Next]_vars => Inv'
  <1>. SUFFICES ASSUME Inv, [Next]_vars PROVE Inv'
    OBVIOUS
  <1>1. CASE UNCHANGED vars
    BY <1>1 DEF vars, Inv, TypeOK, ThreadsInPlace, TableOfBlocks, NewRange, Guarded,
                ProcessEndsForCause, OneInSection, InSection, NoneDangling, dangling,
                ProtectedUnlessOpen, Open, CalledAtMostOnce, ProbesUnwatched, contains, IsBlock
  <1>2. CASE process = "alive" /\ \E t \in AppThread : StartAccess(t) \/ CompleteAccess(t) \/ Fault(t)
    BY <1>2, AccessInv
  <1>3. CASE process = "alive" /\ \E b \in Block : CallWatchRange(b) \/ CallRemoveWatch(b)
    BY <1>3, CallInv
  <1>4. CASE process = "alive" /\ (TableRace \/ \E t \in Thread : UseDangling(t) \/ MprotectFails(t))
    BY <1>4, EndsInv
  <1>5. ASSUME process = "alive", NEW t \in AppThread, segfaultHandler(t) PROVE Inv'
    <2>1. t \in Thread /\ t # Patrol
      BY ProtectorAssumption DEF Thread
    <2>2. CASE FindAccessed(t)
      BY <1>5, <2>1, <2>2, FindInv
    <2>3. CASE Unprotect(t, "calling")
      BY <1>5, <2>1, <2>3, UnprotectInv
    <2>. QED  BY <1>5, <2>1, <2>2, <2>3, CallOnAccessInv, EraseInv, ProbeInv DEF segfaultHandler
  <1>6. CASE PatrolOperation
    <2>1. process = "alive" /\ Patrol \in Thread
      BY <1>6 DEF PatrolOperation, Thread
    <2>2. CASE FindStart
      BY <2>1, <2>2, FindInv
    <2>3. CASE Unprotect(Patrol, "erasing")
      BY <2>1, <2>3, UnprotectInv
    <2>. QED  BY <1>6, <2>1, <2>2, <2>3, InsertInv, ProtectInv, EraseInv
              DEF PatrolOperation, watchRange, removeWatch
  <1>. QED  BY <1>1, <1>2, <1>3, <1>4, <1>5, <1>6 DEF Next, Application, Dead

-----------------------------------------------------------------------------
(* The theorems.                                                           *)

\* The state of the protector, of the table and of the threads in and around
\* the section, is the one that Inv describes.
THEOREM ProtectorInvariant == Spec => []Inv
  BY InitInv, StepInv, PTL DEF Spec

\* Every variable of the protector keeps its type.
THEOREM ProtectorTypes == Spec => []TypeOK
  <1>1. Inv => TypeOK
    BY DEF Inv
  <1>. QED  BY <1>1, ProtectorInvariant, PTL

\* watchRange(), removeWatch() and segfaultHandler() keep the page protection
\* equal to the table, if the lock keeps their sections apart.
THEOREM WatchedPagesAreProtected == Spec => []ProtectedIffWatched
  <1>1. Inv => ProtectedIffWatched
    <2>. SUFFICES ASSUME Inv, Quiet PROVE protected = UNION {PagesOf(r) : r \in m_watchedPages}
      BY DEF ProtectedIffWatched
    <2>1. \A r : ~ Open(r)
      BY DEF Quiet, Open, InSection
    <2>2. \A p \in Mapped : p \in protected <=> \E r \in m_watchedPages : p \in PagesOf(r)
      BY <2>1 DEF Quiet, Inv, Guarded, ProtectedUnlessOpen
    <2>3. protected \subseteq Mapped /\ \A r \in m_watchedPages : PagesOf(r) \subseteq Mapped
      BY BlockPages DEF Inv, TypeOK, TableOfBlocks
    <2>. QED  BY <2>2, <2>3
  <1>. QED  BY <1>1, ProtectorInvariant, PTL

\* The handler calls onAccess() once at most for each watchRange(), if the lock
\* keeps the sections apart, and a range in the table was not accessed yet.
THEOREM OneOnAccessPerWatch == Spec => []OnAccessAtMostOnce
  <1>1. Inv => OnAccessAtMostOnce
    BY DEF Inv, Guarded, CalledAtMostOnce, OnAccessAtMostOnce, Quiet, InSection, Thread
  <1>. QED  BY <1>1, ProtectorInvariant, PTL

\* If the lock keeps the sections apart, nothing that the protector does ends
\* the process but a refused mprotect() and the assertion on neighbours.
THEOREM EndsForCause == Spec => []ProcessEndsForCause
  <1>1. Inv => ProcessEndsForCause
    BY DEF Inv
  <1>. QED  BY <1>1, ProtectorInvariant, PTL
=============================================================================
