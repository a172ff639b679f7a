-------------------------- MODULE MemoryProtector --------------------------
(***************************************************************************)
(* The memory protector (memory-protector.h): the patrol thread makes the  *)
(* pages of a block inaccessible with watchRange(); the first access to    *)
(* one of them raises SIGSEGV, whose handler makes the block accessible    *)
(* again and calls onAccess().  Nothing calls it yet: the patrol thread is *)
(* modelled from the comments on the two operations it is to call.         *)
(*                                                                         *)
(* "lock_guard<mutex> lock(mutex);" declares a function and takes no lock: *)
(* the three operations run with no mutual exclusion, and their parts are  *)
(* steps of their own here.  Between its first step and its last a thread  *)
(* is in the section that the lock was meant to guard.                     *)
(*                                                                         *)
(* An address is the number of its page.                                   *)
(***************************************************************************)
EXTENDS Integers, Sequences

CONSTANTS
    AppThread,
    Patrol,     \* the patrol thread
    Block,      \* the blocks of the application, as records of start and end
    WildPage,   \* a page that is not mapped
    MaxWatches  \* bound on the number of calls of watchRange()

PagesOf(range) == range.start..(range.end - 1)

Mapped == UNION {PagesOf(b) : b \in Block}

ASSUME ProtectorAssumption ==
    /\ Patrol \notin AppThread
    /\ \A b \in Block : b.start \in Nat /\ b.end \in Nat /\ b.start < b.end
    /\ \A b, c \in Block : b # c => PagesOf(b) \cap PagesOf(c) = {}
    /\ WildPage \in Nat \ Mapped
    /\ MaxWatches \in Nat

Thread == AppThread \cup {Patrol}

VARIABLES
    m_watchedPages,  \* the watched ranges, each with the number of its watchRange()
    protected,       \* the pages mprotect()ed to PROT_NONE (external)
    pc,              \* for an application thread: where in segfaultHandler()
    accessed,        \* the address an application thread is accessing, or NoAddress
    rangeIter,       \* the range an operation found, or is to find or insert
    onAccessCalls,   \* how many times the onAccess() of each watch was called
    process,         \* "alive", or how it ended
    overlapped       \* history: two threads were in the section at once

vars == <<m_watchedPages, protected, pc, accessed, rangeIter, onAccessCalls, process, overlapped>>

NoAddress == -1
NoRange == [start |-> 0, end |-> 0, watch |-> 0]

PointerRange == [start : Nat, end : Nat, watch : Nat]

\* The constructor has installed segfaultHandler() for SIGSEGV.
Init ==
    /\ m_watchedPages = {}
    /\ protected = {}
    /\ pc = [t \in Thread |-> "outside"]
    /\ accessed = [t \in AppThread |-> NoAddress]
    /\ rangeIter = [t \in Thread |-> NoRange]
    /\ onAccessCalls = << >>
    /\ process = "alive"
    /\ overlapped = FALSE

InSection(t) == pc[t] \in {"protecting", "unprotecting", "calling", "erasing", "probing"}

\* The first step of the section, where the lock was to be taken.
enterSection(t) == overlapped' = (overlapped \/ \E u \in Thread \ {t} : InSection(u))

contains(pointer) == \E r \in m_watchedPages : r.start <= pointer /\ pointer < r.end

\* The first in the order of std::set, or NoRange for end().
findContainingPointer(pointer) ==
    IF contains(pointer)
    THEN CHOOSE r \in m_watchedPages : r.start <= pointer /\ pointer < r.end
    ELSE NoRange

accessible(p) == p \in Mapped \ protected

goTo(t, label) == pc' = [pc EXCEPT ![t] = label]

finish(how) ==
    /\ process' = how
    /\ UNCHANGED <<m_watchedPages, protected, pc, accessed, rangeIter, onAccessCalls>>

-----------------------------------------------------------------------------
(* The steps that segfaultHandler() and removeWatch() have in common.      *)

Find(t, pointer, whenFound, whenNot) ==
    LET range == findContainingPointer(pointer) IN
    /\ enterSection(t)
    /\ rangeIter' = [rangeIter EXCEPT ![t] = range]
    /\ goTo(t, IF range = NoRange THEN whenNot ELSE whenFound)
    /\ UNCHANGED <<m_watchedPages, protected, accessed, onAccessCalls, process>>

\* The iterator of a range that another thread has erased.
dangling(t) == rangeIter[t] \notin m_watchedPages

UseDangling(t) ==
    /\ pc[t] \in {"unprotecting", "calling", "erasing"}
    /\ dangling(t)
    /\ finish("undefined")
    /\ UNCHANGED overlapped

\* Mutant: mprotect() is left out.
UnprotectNothing(t, next) ==
    /\ pc[t] = "unprotecting"
    /\ ~ dangling(t)
    /\ goTo(t, next)
    /\ UNCHANGED <<m_watchedPages, protected, accessed, rangeIter, onAccessCalls, process, overlapped>>

Unprotect(t, next) ==
    /\ pc[t] = "unprotecting"
    /\ ~ dangling(t)
    /\ protected' = protected \ PagesOf(rangeIter[t])
    /\ goTo(t, next)
    /\ UNCHANGED <<m_watchedPages, accessed, rangeIter, onAccessCalls, process, overlapped>>

\* mprotect() refuses, and the caller abort()s.
MprotectFails(t) ==
    /\ pc[t] \in {"protecting", "unprotecting"}
    /\ pc[t] = "unprotecting" => ~ dangling(t)
    /\ finish("aborted")
    /\ UNCHANGED overlapped

\* Mutant: the range stays in the table.
EraseNothing(t) ==
    /\ pc[t] = "erasing"
    /\ ~ dangling(t)
    /\ rangeIter' = [rangeIter EXCEPT ![t] = NoRange]
    /\ goTo(t, "outside")
    /\ UNCHANGED <<m_watchedPages, protected, accessed, onAccessCalls, process, overlapped>>

Erase(t) ==
    /\ pc[t] = "erasing"
    /\ ~ dangling(t)
    /\ m_watchedPages' = m_watchedPages \ {rangeIter[t]}
    /\ rangeIter' = [rangeIter EXCEPT ![t] = NoRange]
    /\ goTo(t, "outside")
    /\ UNCHANGED <<protected, accessed, onAccessCalls, process, overlapped>>

\* Two threads are in std::set at once and one of them changes it.
TableRace ==
    /\ \E t, u \in Thread :
          /\ t # u
          /\ pc[t] \in {"inserting", "erasing"}
          /\ pc[u] \in {"finding", "inserting", "erasing"}
    /\ finish("undefined")
    /\ overlapped' = TRUE

-----------------------------------------------------------------------------
(* An application thread accesses memory (external), and segfaultHandler() *)

StartAccess(t) ==
    /\ accessed[t] = NoAddress
    /\ \E p \in Mapped \cup {WildPage} : accessed' = [accessed EXCEPT ![t] = p]
    /\ UNCHANGED <<m_watchedPages, protected, pc, rangeIter, onAccessCalls, process, overlapped>>

\* The instruction completes, at once or when the handler has returned to it.
CompleteAccess(t) ==
    /\ pc[t] = "outside"
    /\ accessed[t] # NoAddress
    /\ accessible(accessed[t])
    /\ accessed' = [accessed EXCEPT ![t] = NoAddress]
    /\ UNCHANGED <<m_watchedPages, protected, pc, rangeIter, onAccessCalls, process, overlapped>>

\* SIGSEGV: the handler is entered and insideSegfaultHandler set.
Fault(t) ==
    /\ pc[t] = "outside"
    /\ accessed[t] # NoAddress
    /\ ~ accessible(accessed[t])
    /\ goTo(t, "finding")
    /\ UNCHANGED <<m_watchedPages, protected, accessed, rangeIter, onAccessCalls, process, overlapped>>

\* Mutant: the handler leaves a range it finds as it is.
FindAccessedAndReturn(t) == pc[t] = "finding" /\ Find(t, accessed[t], "outside", "probing")

FindAccessed(t) == pc[t] = "finding" /\ Find(t, accessed[t], "unprotecting", "probing")

CallOnAccess(t) ==
    /\ pc[t] = "calling"
    /\ ~ dangling(t)
    /\ onAccessCalls' = [onAccessCalls EXCEPT ![rangeIter[t].watch] = @ + 1]
    /\ goTo(t, "erasing")
    /\ UNCHANGED <<m_watchedPages, protected, accessed, rangeIter, process, overlapped>>

\* The handler reads the address itself.  A second fault on it, inside the
\* handler, restores the old action of SIGSEGV and raises the signal for real.
Probe(t) ==
    /\ pc[t] = "probing"
    /\ IF accessible(accessed[t])
       THEN /\ goTo(t, "outside")
            /\ UNCHANGED <<m_watchedPages, protected, accessed, rangeIter, onAccessCalls, process>>
       ELSE finish("killed")
    /\ UNCHANGED overlapped

segfaultHandler(t) ==
    \/ FindAccessed(t) \/ Unprotect(t, "calling") \/ CallOnAccess(t) \/ Erase(t) \/ Probe(t)

-----------------------------------------------------------------------------
(* watchRange() and removeWatch()                                          *)

\* The patrol thread watches a block that it does not know to be watched: it
\* learns of the end of a watch when onAccess() is called.
CallWatchRange(b) ==
    /\ pc[Patrol] = "outside"
    /\ Len(onAccessCalls) < MaxWatches
    /\ \A r \in m_watchedPages : r.start = b.start => onAccessCalls[r.watch] > 0
    /\ onAccessCalls' = Append(onAccessCalls, 0)
    /\ rangeIter' = [rangeIter EXCEPT ![Patrol] =
          [start |-> b.start, end |-> b.end, watch |-> Len(onAccessCalls) + 1]]
    /\ goTo(Patrol, "inserting")
    /\ UNCHANGED <<m_watchedPages, protected, accessed, process, overlapped>>

Insert ==
    LET range == rangeIter[Patrol] IN
    /\ pc[Patrol] = "inserting"
    /\ enterSection(Patrol)
    /\ IF contains(range.start) \/ contains(range.end)
       THEN finish("assertion")
       ELSE /\ m_watchedPages' = m_watchedPages \cup {range}
            /\ goTo(Patrol, "protecting")
            /\ UNCHANGED <<protected, accessed, rangeIter, onAccessCalls, process>>

\* Mutant: the end of the range is taken for its last page.
ProtectOnePageMore ==
    /\ pc[Patrol] = "protecting"
    /\ protected' = protected \cup rangeIter[Patrol].start..rangeIter[Patrol].end
    /\ rangeIter' = [rangeIter EXCEPT ![Patrol] = NoRange]
    /\ goTo(Patrol, "outside")
    /\ UNCHANGED <<m_watchedPages, accessed, onAccessCalls, process, overlapped>>

Protect ==
    /\ pc[Patrol] = "protecting"
    /\ protected' = protected \cup PagesOf(rangeIter[Patrol])
    /\ rangeIter' = [rangeIter EXCEPT ![Patrol] = NoRange]
    /\ goTo(Patrol, "outside")
    /\ UNCHANGED <<m_watchedPages, accessed, onAccessCalls, process, overlapped>>

watchRange == Insert \/ Protect

CallRemoveWatch(b) ==
    /\ pc[Patrol] = "outside"
    /\ rangeIter' = [rangeIter EXCEPT ![Patrol] = [NoRange EXCEPT !.start = b.start]]
    /\ goTo(Patrol, "finding")
    /\ UNCHANGED <<m_watchedPages, protected, accessed, onAccessCalls, process, overlapped>>

FindStart == pc[Patrol] = "finding" /\ Find(Patrol, rangeIter[Patrol].start, "unprotecting", "outside")

removeWatch == FindStart \/ Unprotect(Patrol, "erasing") \/ Erase(Patrol)

-----------------------------------------------------------------------------
Dead == process # "alive" /\ UNCHANGED vars

Application(t) == process = "alive" /\ (CompleteAccess(t) \/ Fault(t) \/ segfaultHandler(t))

PatrolOperation == process = "alive" /\ (watchRange \/ removeWatch)

Next ==
    \/ /\ process = "alive"
       /\ \/ \E t \in AppThread : StartAccess(t)
          \/ \E b \in Block : CallWatchRange(b) \/ CallRemoveWatch(b)
          \/ \E t \in Thread : UseDangling(t) \/ MprotectFails(t)
          \/ TableRace
    \/ \E t \in AppThread : Application(t)
    \/ PatrolOperation
    \/ Dead

Spec == Init /\ [][Next]_vars

\* The operating system schedules every thread that is in the middle of an
\* access or of an operation; nobody has to start one.
FairSpec ==
    /\ Spec
    /\ \A t \in AppThread : WF_vars(Application(t))
    /\ WF_vars(PatrolOperation)

-----------------------------------------------------------------------------
(* Properties.  Most hold of behaviours in which no two threads were in    *)
(* the section at once: what the lock, if it were taken, would buy.        *)

\* Every variable holds values of its kind.
TypeOK ==
    /\ m_watchedPages \subseteq PointerRange
    /\ protected \subseteq Mapped
    /\ pc \in [Thread -> {"outside", "finding", "inserting", "protecting",
                          "unprotecting", "calling", "erasing", "probing"}]
    /\ accessed \in [AppThread -> Nat \cup {NoAddress}]
    /\ rangeIter \in [Thread -> PointerRange]
    /\ onAccessCalls \in Seq(Nat)
    /\ process \in {"alive", "killed", "aborted", "assertion", "undefined"}
    /\ overlapped \in BOOLEAN

Quiet == process = "alive" /\ ~ overlapped /\ \A t \in Thread : ~ InSection(t)

\* The table and the page protection agree whenever nobody is in the section:
\* no page is left inaccessible without a range by which the handler can open
\* it again, and no watched page can be accessed unnoticed.
ProtectedIffWatched == Quiet => protected = UNION {PagesOf(r) : r \in m_watchedPages}

\* Of the threads that fault on the same block only one calls onAccess(), also
\* when the block is watched anew while the others wait.
OnAccessAtMostOnce ==
    /\ ~ overlapped => \A w \in 1..Len(onAccessCalls) : onAccessCalls[w] <= 1
    /\ Quiet => \A r \in m_watchedPages : onAccessCalls[r.watch] = 0

\* With sections apart, the protector ends the process only for mprotect(), for
\* a probe of an address that is invalid without it (never of one that another
\* thread's handler has just opened), or for the assertion on start + size, and
\* that one only when a block right behind the new one is watched.
ProcessEndsForCause ==
    ~ overlapped =>
        /\ process = "killed" => \E t \in AppThread : pc[t] = "probing" /\ accessed[t] = WildPage
        /\ process = "assertion" => \E r \in m_watchedPages : r.start = rangeIter[Patrol].end
        /\ process # "undefined"

\* An access to mapped memory is completed in the end, although the block may be
\* watched again before the retry, unless the process ends or sections
\* overlap (when a block can stay protected and out of the table).
AccessCompletes ==
    \A t \in AppThread :
        accessed[t] \in Mapped ~> accessed[t] = NoAddress \/ process # "alive" \/ overlapped

\* memory-protector.h, of the lock in segfaultHandler(): "if two threads access
\* the same page simultaneously, this ensures that only one executes the
\* `onAccess()` callback".
OnlyOneExecutesOnAccess == \A w \in 1..Len(onAccessCalls) : onAccessCalls[w] <= 1
=============================================================================
