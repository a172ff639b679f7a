# A formal model of alloc-counter

alloc-counter finds memory leaks in a running program. Its library,
`liballoc-counter.so`, is preloaded, answers `malloc()` and its kin, and follows
the blocks of suspicious call sites until they are freed or declared leaks.
The repository also holds mmap-counter (the same idea for `mmap()`), a log
parser, and a small `mallinfo()` logger.

This directory models it in TLA+, checks the model with TLC on small instances
and proves the main facts about it with TLAPS for all of them. `PROJECT.json`
maps every definition to the lines it models and lists the runs, the mutants that
show each property can fail, the findings, the hazards and the theorems.

## 1. Inventory

| Part | State | Operations | Talks to |
|---|---|---|---|
| Allocation table (`allocation-table.h`) | light records, closely watched records, suspicious fingerprints, statistics per stack trace, `AllocationStats`, one mutex | `instrumentedAllocate`, `instrumentedReallocate`, `instrumentedFree`, `patrolThreadUpdateAllocationStates`, `patrolThreadMakeLeakReport` | the underlying allocator; called by the wrappers and the patrol thread |
| Statistics of a trace (`watched-stack-trace-info.h`) | counters of samples created, live, leaked, skipped; one static counter of all live samples | `hasLeaks`, `needsMoreCloselyWatchedAllocations`, estimates | changed by the table only |
| Patrol thread (`patrol-thread.cpp`) | occurrences per trace, time of the next report | wake, scan, announce, report | the table; `/tmp/alloc-report`, `/tmp/leak-report` |
| Watch state (`comm-memory.cpp`, `alloc-counter-start`) | one word in `/tmp/alloc-comm`, mapped by every preloaded process | start signal, auto start, reset by `initCommMemory()` | read, with no lock, at the start of every wrapped call |
| malloc wrappers (`wrapper-malloc.cpp`, `library-context.h`) | pointers to the real functions, one flag for a look up, one per thread | `malloc` ... `reallocarray` | the table |
| Fingerprint, environment, stack traces | none after start up | hash, parse, unwind | |
| Memory protector (`memory-protector.h`) | watched page ranges | `watchRange`, `removeWatch`, SIGSEGV handler | not called by any code yet |
| mmap-counter (`memory-map.h`, `wrapper-mmap.cpp`) | slices of mapped memory, stack ids, a mutex, an event log | `mmap`, `munmap`, `registerMap`, `registerUnmap`, `splitAt` | the kernel; the log is read by `parse-mmap-log.py` |
| Interned stack traces (`interned-stack-trace.h`) | a table of shared traces with their use counts | constructor, copy, destructor | held by the allocations of mmap-counter |
| Log parser (`parse-mmap-log.py`) | its own map of slices, a running total | `register_map`, `register_unmap`, `generate_memory_log` | asserts facts of the log |
| `mallinfo-log`, `mallinfo-plot`, test programs, `vendor/catch.hpp` | | | |

What is hard here, and what makes each part correct:

* **Two tables, four counters, three writers.** The limits on closely watched
  blocks are tested on counters that allocate, free and the patrol scan keep by
  hand. They must equal the number of records, never wrap, and bound the
  records themselves, also after a block moved.
* **A decision read before the lock.** Whether a call is instrumented is decided
  with no lock, and the patrol thread reads the time before it waits for the
  mutex. Neither may let a block be judged by facts that are not its own.
* **Addresses come back.** An address is reused as soon as it is released. A
  record must die with its block.
* **Verdicts accumulate.** A stack trace is leaky, innocent or undecided by
  counts that samples change in any order.
* **Three stories of one leak.** A leak is counted under the lock, announced
  after it and reported later. They must agree, and a leak must get there.
* **Failure paths.** `realloc()` and `memalign()` fail; sizes wrap at 2^32 and
  products at 2^64; other preloaded processes switch the watching off. What an
  application is answered must still be what the function promises.
* **A look up that needs what it looks up.** `dlsym()` calls `calloc()`, so the
  first `calloc()` sets a flag under which every other one is turned away. The
  flag is shared by all threads and has no lock.
* **A handler that runs anywhere.** The SIGSEGV handler of the memory protector
  changes the table that another thread may be changing. The statement that
  should take the lock declares a function.
* **Shared traces.** An interned trace must live as long as the last mapping
  that uses it, although mappings are split and unmapped in pieces.
* **Two maps of one memory.** mmap-counter keeps slices in the process and the
  log parser rebuilds them from the log with code of its own. Both must describe
  what the kernel has mapped, although the kernel acts before the lock is taken.

## 2. Modules

| Module | Models | Extends |
|---|---|---|
| `WatchedStackTraceInfo` | the statistics of a trace and the estimates of the report, as pure operators on a record | |
| `AllocationTable` | the table, one operator per path of each body under `m_mutex`; the underlying allocator as an external heap | `WatchedStackTraceInfo` |
| `PatrolThread` | `monitorMain()` as a program counter; the watch state | `AllocationTable` |
| `AllocCounter` | the process: application threads, wrappers, start signal, other processes, time; `Spec`, `FairSpec` and its properties | `PatrolThread` |
| `LeakDetector` | what the tool promises, with no table, counter, deadline or lock | |
| `AllocCounterRefinement` | the mapping of one to the other, with `INSTANCE LeakDetector WITH ...` | `AllocCounter` |
| `MCAllocCounter` | constants for TLC | `AllocCounterRefinement` |
| `Wrappers` | the entry points: looking up `calloc()`, products, zero fill, what the application holds | `AllocationTable` |
| `MCWrappers` | constants for TLC | `Wrappers` |
| `MemoryProtector` | `watchRange()`, `removeWatch()` and the SIGSEGV handler, in steps and with no lock | |
| `MCMemoryProtector` | constants for TLC | `MemoryProtector` |
| `MemoryMap` | the slices of mmap-counter as operators on a map from start to size and allocation | |
| `InternedStackTrace` | the table of shared traces as operators on a map from trace to use count | |
| `MmapLogParser` | the log parser: its map, its total, the assertions on each line | |
| `MmapCounter` | a process under mmap-counter: threads, kernel, wrappers, and the parser that follows the log | `MemoryMap`, `InternedStackTrace`, `MmapLogParser` |
| `MCMmapCounter` | constants for TLC | `MmapCounter` |
| `FiniteSums` | lemmas: sums and folds over finite sets, and induction in a form the provers can use | |
| `AllocationTableProofs` | lemmas: every operation of the table keeps its accounting | `AllocationTable` |
| `AllocCounterProofs` | theorems on types, limits, verdicts, announcements and estimates | `AllocCounter`, `AllocationTableProofs`, `FiniteSums` |
| `AllocCounterOwnershipProofs` | theorems that need to know who holds a block | `AllocCounterProofs` |
| `AllocCounterRefinementProofs` | the refinement of `LeakDetector` | `AllocCounterRefinement`, `AllocCounterOwnershipProofs` |
| `WrappersProofs` | theorems on the entry points | `Wrappers`, `AllocationTableProofs` |
| `MemoryProtectorProofs` | theorems on the protector | `MemoryProtector` |
| `MmapCounterProofs` | theorems on mmap-counter and the log parser | `MmapCounter`, `FiniteSums` |

How state and actions correspond to the code, in the modules of alloc-counter:

* `m_light` and `m_closely` are the two `unordered_map`s, as functions from
  address to record or `NoRecord`. `m_light` has a NULL key too, because a
  `realloc()` that fails moves the record there. The field `memory` of a record is
  always its key and is left out.
* `m_suspiciousFingerprints` is the set of keys of the fingerprint table and
  `m_infos` what the table holds, keyed by fingerprint and trace as in the code.
  `getOrCreate()` is implicit: an info that was never touched is all zeros.
  `FingerprintOf` is a constant function of trace and size: two paths may share
  a fingerprint, and one path has one for each size class.
* The floating point estimates of the report are exact fractions, pairs of
  numerator and denominator, with the `uint32_t` width of the total they start from.
* A wrapped call has two steps. `Enter...` reads the watch state and remembers
  it in the call. `Execute...` is the whole body: under the mutex when it is
  instrumented, the underlying allocator alone when it is not. Instrumented bodies
  are atomic because they run under `m_mutex`; a body that is not instrumented
  touches nothing but the underlying allocator.
* The scan runs under the same mutex, one record per step, and no instrumented
  body runs meanwhile (`mutexIsFree`). The time it compares with was read by
  `patrolWake`, before `patrolLock`. `sleep()` may return early, so waking needs no
  minimal time.
* One `clock`, which is never set back, stands for the wall clock (`time(nullptr)`:
  deadlines, ages) and for CLOCK_MONOTONIC (the time of a report). The code
  compares neither with the other. Steps of the wall clock, which would move deadlines, are left out.
* `heap` is the underlying allocator: an address has the usable size of its live
  block or is not live. Every request may fail. `asked` is what the application
  believes: the size it asked of each block it was given.
* `foundLeaks` is a set and not a vector: its members are told apart by their
  address, which a scan declares once. The order of the announcements is lost,
  and nothing depends on it.
* `fault` ends the process when the code's behaviour is undefined: `memcpy()` to the NULL of a
  failed `memalign()`, or past the end of a block. That `memcpy()` is taken to be fatal
  whatever it copies; of no bytes it would do nothing on most machines. `Dead` is the stuttering
  of a process of which nothing more is said.
* Moving a record inserts it under the new address and erases it by an iterator
  that was found before. `insert()` may rehash, and C++ calls the iterator invalid
  then. With libstdc++ the node stays where it is and the erasure is right, and
  so it is in the model.

`AllocCounterRefinement` maps this to `LeakDetector`. A site is a stack trace under a
fingerprint. The samples at each address are the closely watched records. The
code counts the samples created, live and leaked; what was freed is created less
live less leaked, and a sample is lost when it is counted live and no record of it
is left, as after a `free()` that was missed. The announced traces are those
with occurrences in the patrol thread.

In `Wrappers`, which uses the same table:

* A call is entered with the exact product of its arguments (`product`). The
  wrapper computes it with the width of `size_t` (`sizeOf`), the real `calloc()`
  and `reallocarray()` see both factors and refuse an overflow.
* The look up of `calloc()` has three steps: the test of `alreadyInDlsymCall`,
  its setting, and the end of `dlsym()`. The flag is never reset, as in the code.
* `malloc()` stands for every entry point that allocates one block of one size,
  `posix_memalign()` among them. The error code of that one is left out: the lambda
  alone sets it, in one statement, and a property of it would say the same again.
* The watch state is read together with the body, as `AllocCounter` already has
  the two apart. Time is left out: the patrol thread may find a light record past
  its deadline at any moment.
* `answer` is a history variable with what the last call answered and why. No
  guard reads it.

In `MemoryProtector`:

* Each operation is a chain of steps over a program counter: find the range,
  `mprotect()`, call `onAccess()`, erase the range; or insert and `mprotect()`.
  The steps of different threads interleave freely, which is what the code does.
  A second erasure of a range, or any use of an iterator to a range that another
  thread erased, is undefined, as is a table that two threads change at once.
* `overlapped` is a history variable: two threads were in the part that the lock
  was meant to guard. Most properties are conditional on its being false, and so
  say what the protector would do with the lock.
* `process` says how the process ended: by the old action of SIGSEGV, by the
  assertion of `watchRange()`, by `abort()` after a failed `mprotect()`, or undefined.
* No code uses the protector yet. The patrol thread that calls it follows the
  comments on its operations: it does not watch a block it knows to be watched.

In the modules of mmap-counter:

* A wrapped call has two steps here, too. `Real...` is the call of the kernel, with no
  lock. `Note...` is the rest of the wrapper, under `wrappedMmapMutex`: the stack
  id, the line of the log, the map. A file mapping is not noted. Addresses and
  sizes are bytes, and the sizes of the map are truncated as in the code, while those in the log are not.
* `kernel` says what each page holds. `call` is what a thread has asked of the
  kernel and not noted yet.
* `memoryMap` is the `std::map` and `parser` what `parse-mmap-log.py` knows after
  the lines written so far, or the error that ended it. What the script does
  with a line depends on the lines before it only, so it may as well run
  along, and no log is kept.
* The slices of one mapping share its allocation, which ends with the last of
  them and lets go of its trace. `s_stackTraces` has the use count of each shared
  trace. The class has a destructor and so no move constructor, and registering
  a mapping copies its trace and destroys the temporary.
* `disturbed` is a history variable that no guard reads. It is set when something
  happens that the tool does not handle: pages handed out again while their `munmap()` is
  not noted, `MAP_FIXED` over anonymous memory, a length that does not fit
  a `uint32_t`. Failed calls do not set it.
* The application is correct: it unmaps ranges in which it has something mapped,
  and leaves alone those another thread is busy with. It calls neither `mremap()` nor
  `mmap64()`, which change what is mapped and are not wrapped. A failed `mmap()` is
  registered at -1; the model assumes that no real mapping lies within 4 GiB of
  it (`MmapAssumption`).

Left out: the contents of blocks but for zero fill, alignment, the start time
in `AllocationStats` and the rates computed from it, the order of the leak report,
all text. The wrap of counters at 2^32 is not modelled either: they count calls,
and only their subtraction, which the model checks, is at risk. Allocations made
inside the library go straight to the underlying allocator and never meet the
table, so they are not in the model (`LibraryContext`).

## 3. Runs

The runs of alloc-counter use module `MCAllocCounter`, those of mmap-counter
`MCMmapCounter`. Times are seconds of model time: the
intervals are 1, a page has 2 bytes and a `uint32_t` 3 bits, so that rounding,
deadlines and wrapping all happen within a few steps.

| Run | Instance | Checks | Result |
|---|---|---|---|
| `interleavings` | 2 threads, 2 addresses, sizes of one and two pages, one live sample for each trace | `TypeOK`, `CountersMatchTable`, `RecordsDescribeLiveBlocks`, `LimitsRespected`, `MallocContract`, `EstimatesInRange`, `LeaksAreOldLiveBlocks`, `LightRecordsFollowTheirBlocks`, `InnocentTracesAreLeftAlone`, `OnlyResizedSamplesAreOrphaned`, `OnlyResizingIsFatal` | hold |
| `samples` | 1 thread, 2 addresses, 2 live samples of one trace, other processes reset the watch state | `AnnouncedAsCounted`, `ReportedWasAnnounced`, `VerdictsStand`, `SamplesEndOnce`, `ImplementsLeakDetector` | hold |
| `liveness` | 1 thread, 2 addresses, 2 traces of one fingerprint, sizes of no and of two pages, auto start, `FairSpec` | `WatchedBlocksAreDecided`, `LeaksAreReported`, `ImplementsLeakDetector` | hold |
| `innocent` | 3 addresses, one sample proves innocence | `InnocentForGood` | violated |
| `reallocate` | 3 addresses, two sizes | `NoBlockIsOrphaned` | violated |
| `sizeWrap` | a size within a page of the modulus | `RequestedFitsActual` | violated |
| `falseLeak` | other processes | `LeaksAreOldLiveBlocks` | violated |
| `answers` (`MCWrappers`) | 2 threads, 2 addresses, factors 0, 2, 4 and 6, 3-bit `uint32_t`, 4-bit `size_t` | `TypeOK`, `NullMeansRefused`, `HeldBlocksAreWhole`, `AnswersAreWhole`, `FreedSamplesAreReleased` | hold |
| `watches` (`MCMemoryProtector`) | 2 application threads and the patrol thread, 2 adjacent blocks, one page that is not mapped, `FairSpec` | `TypeOK`, `ProtectedIffWatched`, `OnAccessAtMostOnce`, `ProcessEndsForCause`, `AccessCompletes` | hold |
| `noLock` (`MCMemoryProtector`) | the same | `OnlyOneExecutesOnAccess` | violated |
| `maps` | 2 threads, 4 pages, lengths of none, one, three and four pages, the last not fitting a `uint32_t` | `TypeOK`, `SlicesDescribeKernel`, `ParserFollowsMap`, `ParserSlicesDisjoint`, `TotalIsSumOfSlices`, `LoggedUnmapErases`, `TracesOfLiveMappings` | hold |
| `unmapAssertion` | the same with lengths of one and two pages | `LoggedUnmapAlwaysErases` | violated |

**Bounds.** `MaxCalls` bounds the instrumented calls of a behaviour (3 or 4): the
first makes a fingerprint suspicious, the second is watched, one or two more free,
move or compete with it. In `interleavings` `MaxCalls` is 4 and the limit of a trace 1, so
that allocations are skipped next to a live or leaked sample and the estimates
have something to extrapolate. The global limit is 2 there, as are the addresses, and cannot
be exceeded: that half of `LimitsRespected` rests on `LimitsHold`, which is proved for
any number of addresses and also covers stale records. Calls before the watching starts are free of bound, their
state being finite. `Horizon` bounds the clock only while nothing waits for time:
it is 0, and the clock still advances as long as a deadline or the report of
a leak is ahead, which bounds it by the calls. What a longer idle time would add
is a larger difference between the clock and times already passed, and the code
compares them with `<` only. Two threads suffice for every pair of a call read
before the lock and one that ran since; a third would be another copy of the first.
Two addresses let a block move or be reused while another one lives. Addresses
and threads are interchangeable and reduced by symmetry, except in the runs with
liveness, where that is not sound. The refinement is checked twice, because its hard
cases need different instances: in `samples` a record goes stale and another
sample is written over it, in `liveness` samples move and two traces are announced apart.

In `answers`, `MaxCalls` is 3 and every call counts: one that makes the
fingerprint suspicious, one that is sampled, one that reallocates or frees what it
got. The products of the factors reach zero, every size class below the modulus
of `uint32_t`, sizes between the two moduli, exactly 2^64 as it wraps to zero, and
products that wrap to something small.

In `watches`, `MaxWatches` is 3: both blocks watched, and one of them again
while threads that faulted on its first watch are still in the handler. One block
has two pages and the other starts where it ends, which is the case the assertion
of `watchRange()` gets wrong. Accesses are not bounded.

For mmap-counter `MaxCalls` is 4, and every call counts: a mapping of three pages,
one that splits it in the middle, one that splits or joins the pieces, and one more
of the other thread. A slice of three pages is the smallest that splits unevenly.

Deadlock is checked in every run: the patrol thread can always take a step, an
application can always access memory, the start signal can always be sent again,
and under mmap-counter a call whose first step was made can always be noted.

**Fairness.** `FairSpec` of `AllocCounter` assumes that the patrol thread keeps running and that
time passes. The thread is never cancelled, loops forever, and takes a mutex
that no holder keeps across a wait; the operating system schedules it. Nothing
is assumed of the application: it may stop calling, and never free anything.
`FairSpec` of `MemoryProtector` assumes that a thread in the middle of an access
or of the handler goes on, and the patrol thread in the middle of an operation.
No step waits for another thread. Nobody has to start an access or a watch.

**What the violations show.** (1) `environment.h` says that an innocent trace
stays innocent; a sample still live when the verdict is reached can leak later and
turn it. (2) `realloc()` of a watched block that changes its size in pages leaves
the old block allocated with nobody to free it. (3) A size within a page of 2^32 is rounded
to zero and the block is smaller than its record says. (4) When another
preloaded process starts, it switches off the watching of all; a `free()` in that
time is not seen, and the freed block can be declared a leak later, since the
patrol thread never reads the watch state. Apart from
(4), `LeaksAreOldLiveBlocks` holds. (5) When the kernel hands pages that one thread has just
unmapped to another, which notes its mapping first, the map keeps overlapping
slices. A later `munmap()` is then logged although the log has given the pages
back before, and an assertion of the parser, which says that this is impossible, fails.
`MAP_FIXED` leads there as well, with one call more and a single thread.
(6) Two threads that fault on one block of the memory protector both call its
`onAccess()`, which the comment on the lock says it prevents. With sections that do
not overlap it does: `OnAccessAtMostOnce` holds.

**How far they reach.** (1) Only the samples that are live when the verdict falls
can turn it: an innocent trace gets no new ones, and with its last sample the
verdict is final (`InnocentTracesAreLeftAlone`). (2) Of all ways through the wrappers
and the table, that `realloc()` alone leaves a block behind
(`OnlyResizedSamplesAreOrphaned`). Its `memcpy()` is also the only way in which, in the model,
the calls meet undefined behaviour: to NULL when `memalign()` fails, and past the end of the
new block when a watched block shrinks (`OnlyResizingIsFatal`). A `realloc()` that fails loses no block, but tracking: the light
record goes to the NULL key, no `free()` ends it, and its deadline
makes the fingerprint suspicious (`LightRecordsFollowTheirBlocks`). (3) Without such
sizes the records are right. The proofs below make these statements for every instance.

**What the conditions of `answers` and `watches` show.** A property that holds
but for a named case is the exact extent of a defect no document speaks of, and each of
these cases is reached. A `calloc()` begun while another thread looks up the real
one may be answered NULL though there is memory; one begun later never is. A sampled
block may be short from a page below 2^32 upward, where a sampled
`calloc()` does not see that its product overflowed either; nothing below is short.
A `reallocarray()` that overflows to zero is refused and still ends the record
of its block, which lives on whole (`HeldBlocksAreWhole`) and untracked.
`watchRange()` takes a watched block right behind the new one for
an intersection and its assertion ends the process; without such a block the
assertion holds (`ProcessEndsForCause`).

**What the conditions leave out.** Some defects lie in a case that a property excludes, and
are known from reading the code: a total of 2^32 allocations makes the estimates of a trace too
small; a sampled `posix_memalign()` whose `memalign()` fails reports success and
sets nothing; a thread that faulted may find no range, and the block may be watched anew
before it probes the address, which then kills a correct program.
That last window needs two threads inside the section, as `noLock` has them.

## 4. Proofs

TLAPS proves every invariant and every action property of the passing runs, and the
refinement, for every value of the constants: any set of threads, traces and
fingerprints, any finite heap, any sizes, limits and widths, and with no bound on calls or
time other than the constants' own. Liveness stays with TLC.

### alloc-counter

| Theorem | States | Hypothesis |
|---|---|---|
| `TypeCorrect` | `Spec => []TypeOK` | |
| `LimitsHold` | `Spec => []LimitsRespected` | |
| `SamplesEndOnceAlways` | `Spec => []SamplesEndOnce` | |
| `EstimatesAreInRange` | `Spec => []EstimatesInRange` | |
| `VerdictsStandAlways` | `Spec => VerdictsStand`, an action property | |
| `InnocentTracesAreLeftAloneAlways` | `Spec => InnocentTracesAreLeftAlone`, an action property | |
| `ReportsFollowAnnouncements` | `Spec => []ReportedWasAnnounced` | |
| `AnnouncedAsCountedAlways` | `Spec => []AnnouncedAsCounted` | |
| `Refinement` | `Spec => ImplementsLeakDetector` | |
| `RecordsDescribeLiveBlocksAlways` | `Spec => []RecordsDescribeLiveBlocks` | no other processes |
| `LightRecordsFollowTheirBlocksAlways` | `Spec => LightRecordsFollowTheirBlocks`, an action property | no other processes |
| `CountersMatchTableAlways` | `Spec => []CountersMatchTable` | no other processes |
| `LeaksAreOldLiveBlocksAlways` | `Spec => LeaksAreOldLiveBlocks`, an action property | no other processes |
| `MallocContractAlways` | `Spec => []MallocContract` | no other processes, sizes that do not wrap |
| `RequestedFitsActualAlways` | `Spec => []RequestedFitsActual` | no other processes, sizes that do not wrap |
| `OnlyResizingIsFatalAlways` | `Spec => OnlyResizingIsFatal`, an action property | no other processes, sizes that do not wrap |
| `OnlyResizedSamplesAreOrphanedAlways` | `Spec => OnlyResizedSamplesAreOrphaned`, an action property | |
| `NothingIsLostUnlessResized` | `Spec /\ [][~ SampleIsResized]_vars => [](Alive /\ NoBlockIsOrphaned)` | of the behaviour: no watched block is reallocated to another number of pages |

The hypotheses are needed, and runs show it. With other processes a `free()` can be
missed while the watching is off: `falseLeak`. A size within a page of 2^32 wraps:
`sizeWrap`; `SizesFit` excludes just those. A watched block that is resized is left
behind: `reallocate`; `NothingIsLostUnlessResized` excludes just that step.

None of these is inductive as it stands. The invariants, each built on the ones before:

* `Accounting`, for any run: `TypeOK`, and `TableAccounting`, which is
  `CountersCoverTable`, `CountersWithinLimits` and `SamplesEndOnce`. `TypeOK` needs the counters not to
  go below zero, so that a record must imply that it is counted; the limits speak of
  records while the code tests counters. `CountersCoverTable` is `<=` and not `=`: when
  another process makes the library miss a `free()`, the address may be watched
  again, its old record is overwritten and its count never given back. One lemma
  per operation of the table (`AllocationTableProofs`, shared with `WrappersProofs`)
  rests on lemmas about the number of keys of a table in which a record is
  written, erased, moved or relabelled (`PutKeys`, `EraseKeys`, `MovedKeys`, `UpdateKeys`).
* `Ages`: the deadline of a watched record is no sooner than the first interval
  after its block was allocated, and once it is suspicious later than both; "now"
  as the patrol read it is not in the future.
* `LeaksAreAnnounced` and `FoundAreGone`: a leak counted is announced or among
  those found by the scan under way, and a block found has left the table, so that it
  is not counted again. For `AnnouncedAsCounted` the leaks of a trace are a sum over
  fingerprints, and declaring one changes one summand (`FiniteSums`).
* `Ownership`, without other processes: a block that has a record was given to the
  application and is live, it has one record, and a watched one has the size its
  record says; no two calls hold one block; a call that read NotWatching when it
  entered holds a block without a record.
* `Possession`, with other processes: what the application was given is live and
  no two calls hold it. The table may be wrong, the application is not. It follows
  from what the body of a call may do to a block (`Handled`): keep it, give it out,
  release it, leave it behind, or take it as the process dies. `OnlyResizedSamplesAreOrphanedAlways`
  and `NothingIsLostUnlessResized` rest on the same five cases. With `Possession`
  `Refinement` shows action by action that a step is one step of `LeakDetector` or a
  stutter.

* `RecordedSizesFit`, with sizes that do not wrap: no requested size in a record
  does, so that rounding it up never makes it smaller. With `Ownership` a
  watched block is as large as its record says, and an old block is never read past its end.

`LightRecordsFollowTheirBlocksAlways` needs `Ownership`, too: when a light record moves, its
new address was not the application's before, so that no other light record is in the way.

`EstimatesAreInRange` adds `SeenCovers` to `Accounting`: the samples of a trace together with the
allocations skipped for it are no more than the allocations the table has seen from
suspicious fingerprints. A count made twice on any path breaks it.

`InnocentTracesAreLeftAloneAlways` follows from `Accounting`: a record implies that its
trace counts a live sample, so that a trace that counts none cannot lose a verdict to
a record that is still there.

`VerdictsStandAlways` shows that no step makes the leaked or the finished samples of
a trace fewer, and that `hasLeaks()` is monotone in both.

### The entry points

`WrapperTypes`, `NullMeansRefusedAlways`, `HeldBlocksAreWholeAlways`,
`AnswersAreWholeAlways` and the action property `FreedSamplesAreReleasedAlways`
prove the five properties of `answers` with no hypothesis. The invariants are
`TableAccounting`; `TestersCameEarly`: only a `calloc()` that began before the real
one was known tests the flag; and, for `HeldBlocksAreWhole`, the `Possession` of this
module: a block the application has is live and large enough (`Whole`); a record is
of a block the application has, and a watched one has the pages its record says
(`Recorded`); calls hold blocks of their own that were given out (`CallsHoldGivenBlocks`). The overflow of
`reallocarray()` is a case of its own there: the record is erased while the block stays.

### The memory protector

`ProtectorTypes`, `WatchedPagesAreProtected`, `OneOnAccessPerWatch` and
`EndsForCause` prove the four safety properties of `watches`. The invariant (`Inv`)
says where each thread can be and what it then accesses (`ThreadsInPlace`), which
ranges the table may hold (`TableOfBlocks`, `NewRange`), and, under the condition
that sections did not overlap (`Guarded`), that one thread at most is inside, no
iterator dangles, pages are protected unless the one inside has opened them, and
`onAccess()` was called at most once for each watch.

### mmap-counter and the log parser

| Theorem | States |
|---|---|
| `MmapTypes` | `Spec => []TypeOK` |
| `ParserSlicesDisjointAlways` | `Spec => []ParserSlicesDisjoint` |
| `TotalIsSumOfSlicesAlways` | `Spec => []TotalIsSumOfSlices` |
| `TracesOfLiveMappingsAlways` | `Spec => []TracesOfLiveMappings` |
| `SlicesDescribeKernelAlways` | `Spec => []SlicesDescribeKernel` |
| `ParserFollowsMapAlways` | `Spec => []ParserFollowsMap` |
| `LoggedUnmapErasesAlways` | `Spec => []LoggedUnmapErases` |

The last three properties are conditional on `disturbed` being false, by their definition.
The invariants:

* `Inv`, whatever the process does. The parser's slices are disjoint, none is
  empty, and its total is the bytes of those that pass the filter (`ParserOK`). The
  table of traces is a function of the mappings known (`tableOf`); a `munmap()` folds the
  destructor over the mappings that end, and the proof is by induction on
  them (`DestroyMany`). `CallsCounted` is there so that a new mapping always finds an unused number.
  The key lemma is that slices that do not overlap fill a range at most
  (`SlicesFitTheRange`): no line erases more bytes than it names.
* `Followed`, as long as nothing disturbed the tool. The slices are whole pages and
  disjoint, with the one of failed calls below all others (`SliceMap`). The
  calls in flight have ranges of their own; what is being mapped is
  anonymous already and not known yet, what is being unmapped is not anonymous any more
  (`FlightsApart`). Elsewhere known memory is anonymous memory (`KernelKnown`), and
  a running parser has the same slices (`SameSlices`). `SplitSame` and
  `UnmapSame` show that `splitAt()` and `_split_at()`, which search in different ways, cut the
  same slice; `NothingErased`, that an unmapping that is not logged changed nothing.

TLC checked both on the instance of `maps` before they were proved.

### Assumptions and method

The assumptions are those of the modules, by name: `LimitsAssumption`,
`TableAssumption` (positive page size, modulus and intervals; finitely many addresses and
fingerprints), `NoRecordAssumption`, `PatrolAssumption`, `AllocCounterAssumption`,
`NoSampleAssumption` (the value for "no sample" is none), `WrappersAssumption`
(`size_t` is no narrower than `uint32_t`), `ProtectorAssumption` (blocks are not
empty and share no page), `ParserAssumption` and `MmapAssumption` (no mapping within
the first 4 GiB, and MAP_FAILED above all of them). The parser of the environment
guarantees the positive ones, the machine the others.

The induction theorems of the library take an operator as a parameter, which the
provers cannot instantiate. `FiniteSums` states induction over finite sets and naturals in terms of
sets, unfolds the folds of `FiniteSetsExt` through the `CHOOSE` they are defined with,
and proves what adding, removing and changing a summand does to a sum.

**Checked by TLC only.** Liveness under fairness, which is out of the prover's
reach: `WatchedBlocksAreDecided`, `LeaksAreReported` and `AccessCompletes`.

## 5. Plan

Done: every component that keeps state is modelled; every safety property of
the passing runs is proved, and for four of the six violations so is the condition under
which the violated property, or the part of it that stands, holds: `innocent`,
`reallocate`, `sizeWrap` and `falseLeak`. For `unmapAssertion` and `noLock` the
conditional properties `LoggedUnmapErases` and `OnAccessAtMostOnce` say the same.

Left are statements about the cases that conditions leave out, where one holds and
says something. Candidates: with other processes, that a leak is declared of a freed
block only after a `free()` that was missed; with the sections of the memory protector
overlapping, which of its promises stand; once `disturbed`, what the map of mmap-counter
still has right.

## 6. Not modelled

* `mallinfo-log` and `mallinfo-plot`: they copy figures to a file every five seconds
  and draw them; there is no state to get wrong.
* Stack unwinding (libunwind) and the hash of a fingerprint: a trace is a model value,
  and which inputs collide is a constant.
* Parsing of the environment and `uname()`: its results are constants, and what it
  guarantees of them is assumed by name.
* In the log parser: times, the baseline of the ranking (the memory before the
  first event after two hours of uptime that finds any), and printing.
* The comparison with which the report is sorted is not a strict order. What
  `std::sort` does with equal estimates is undefined, and the report is a set here.
* The test programs, the test doubles and `vendor/catch.hpp`.
