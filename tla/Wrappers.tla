------------------------------ MODULE Wrappers ------------------------------
(***************************************************************************)
(* The entry points that the library puts in front of the allocator        *)
(* (wrapper-malloc.cpp), with what AllocCounter leaves out of them: the    *)
(* look up of the real calloc(), products of two arguments that do not fit *)
(* a size_t, and the answers the application sees.  The error code of      *)
(* posix_memalign() is left out.                                           *)
(*                                                                         *)
(* A call reads the watch state and runs its body in one step here; that   *)
(* the two may be apart is what AllocCounter is about.  Time is left out:  *)
(* the patrol thread may find any light record past its deadline.          *)
(***************************************************************************)
EXTENDS AllocationTable

CONSTANTS
    Thread,
    Count,        \* the numbers the application passes, as sizes or as factors
    SizeModulus,  \* 2^64, the width of size_t
    MaxCalls      \* bound on the number of calls

ASSUME WrappersAssumption ==
    /\ Count \subseteq Nat
    /\ SizeModulus \in Nat /\ UIntModulus <= SizeModulus
    /\ \A n \in Count : n < SizeModulus
    /\ Size = 0..(SizeModulus - 1)
    /\ MaxCalls \in Nat

VARIABLES
    watchState,
    real_calloc,         \* whether the pointer is set
    alreadyInDlsymCall,
    call,                \* the call each thread is in
    asked,               \* the bytes asked for, of each block the application has
    calls,               \* how many were made
    answer               \* history: what the last call to return answered, and why

wrapperVars == <<real_calloc, alreadyInDlsymCall, call, calls>>
vars == <<tableVars, heap, clock, fault, watchState, wrapperVars, asked, answer>>

Idle == [entry |-> "none", memory |-> NULL, product |-> 0, pc |-> "idle", calledLate |-> FALSE]
NotGiven == -1

Entry == {"malloc", "calloc", "reallocarray", "free"}

\* "product" is the exact one; "calledLate": real_calloc was set when the call began.
Call ==
    {Idle} \cup [entry : Entry, memory : Address \cup {NULL}, product : Nat,
                 pc : {"testing", "setting", "dlsym", "body"}, calledLate : BOOLEAN]

Answer ==
    [entry : Entry \cup {"none"}, product : Nat, memory : Address \cup {NULL},
     usable : Int, zeroed : Nat,
     refused : BOOLEAN, sampled : BOOLEAN, calledLate : BOOLEAN]

NoAnswer ==
    [entry |-> "none", product |-> 0, memory |-> NULL, usable |-> 0, zeroed |-> 0,
     refused |-> FALSE, sampled |-> FALSE, calledLate |-> FALSE]

Init ==
    /\ TableInit
    /\ watchState = "NotWatching"
    /\ real_calloc = FALSE
    /\ alreadyInDlsymCall = FALSE
    /\ call = [t \in Thread |-> Idle]
    /\ asked = [a \in Address |-> NotGiven]
    /\ calls = 0
    /\ answer = NoAnswer

Alive == fault = "none"
Watching == watchState = "Watching"

-----------------------------------------------------------------------------
(* Calling a wrapper                                                       *)

AtHand == {a \in Address : asked[a] # NotGiven /\ \A t \in Thread : call[t].memory # a}

\* Mutant: calloc() looks at alreadyInDlsymCall although real_calloc is set.
firstStepAlwaysTests(entry) == IF entry = "calloc" THEN "testing" ELSE "body"

firstStep(entry) == IF entry = "calloc" /\ ~ real_calloc THEN "testing" ELSE "body"

Begin(t, entry, memory, product) ==
    /\ Alive
    /\ call[t] = Idle
    /\ calls < MaxCalls
    /\ calls' = calls + 1
    /\ call' = [call EXCEPT ![t] =
          [entry |-> entry, memory |-> memory, product |-> product,
           pc |-> firstStep(entry), calledLate |-> real_calloc]]
    /\ UNCHANGED <<tableVars, heap, clock, fault, watchState, real_calloc,
                   alreadyInDlsymCall, asked, answer>>

\* malloc() stands for posix_memalign(), aligned_alloc(), valloc(), memalign(),
\* pvalloc() and realloc(NULL, n) too, whose blocks are alike; reallocarray()
\* for realloc().
BeginAllocate(t) ==
    \E n \in Count :
        \/ Begin(t, "malloc", NULL, n)
        \/ \E m \in Count, entry \in {"calloc", "reallocarray"} : Begin(t, entry, NULL, n * m)

BeginReallocarray(t) ==
    \E a \in AtHand, n, m \in Count : Begin(t, "reallocarray", a, n * m)

BeginFree(t) == \E a \in AtHand : Begin(t, "free", a, 0)

-----------------------------------------------------------------------------
(* calloc() looks up the real one.  alreadyInDlsymCall is read and written *)
(* with no lock.  The calls of calloc() that dlsym() makes itself get NULL *)
(* as any other, and dlsym() does without.                                 *)

advance(t, label) == call' = [call EXCEPT ![t].pc = label]

TestDlsymCall(t) ==
    /\ Alive
    /\ call[t].pc = "testing"
    /\ IF alreadyInDlsymCall
       THEN /\ answer' = [NoAnswer EXCEPT !.entry = "calloc", !.product = call[t].product,
                                          !.calledLate = call[t].calledLate]
            /\ call' = [call EXCEPT ![t] = Idle]
       ELSE /\ advance(t, "setting")
            /\ UNCHANGED answer
    /\ UNCHANGED <<tableVars, heap, clock, fault, watchState, real_calloc,
                   alreadyInDlsymCall, calls, asked>>

SetDlsymCall(t) ==
    /\ Alive
    /\ call[t].pc = "setting"
    /\ alreadyInDlsymCall' = TRUE
    /\ advance(t, "dlsym")
    /\ UNCHANGED <<tableVars, heap, clock, fault, watchState, real_calloc, calls, asked, answer>>

FinishDlsym(t) ==
    /\ Alive
    /\ call[t].pc = "dlsym"
    /\ real_calloc' = TRUE
    /\ advance(t, "body")
    /\ UNCHANGED <<tableVars, heap, clock, fault, watchState, alreadyInDlsymCall, calls, asked, answer>>

-----------------------------------------------------------------------------
(* The bodies.  The wrapper computes the size with the width of size_t;    *)
(* the real calloc() and reallocarray() refuse a product that overflows.   *)

\* Mutant: the product is kept in a uint32_t.
sizeOfUInt(t) == call[t].product % UIntModulus

sizeOf(t) == call[t].product % SizeModulus

overflows(t) == call[t].product >= SizeModulus

\* The table serves the call from memalign() and not from the real function.
sampled(size, trace) ==
    /\ Watching
    /\ FingerprintOf[trace][size] \in m_suspiciousFingerprints
    /\ needsMoreCloselyWatchedAllocations(m_infos[<<FingerprintOf[trace][size], trace>>], allTraces)

\* Mutant: ZeroFill::Unnecessary for calloc().
zeroedBytesUnfilled(t, trace) ==
    IF call[t].entry # "calloc" \/ sampled(sizeOf(t), trace) THEN 0 ELSE call[t].product

\* bzero() of the requested size, a uint32_t; the real calloc() clears it all.
zeroedBytes(t, trace) ==
    IF call[t].entry # "calloc" THEN 0
    ELSE IF sampled(sizeOf(t), trace) THEN uint32(sizeOf(t)) ELSE call[t].product

\* The call is over; a block of the call's own is replaced by the new one.
Return(t, memory, released) ==
    /\ asked' = [a \in Address |->
          IF a = memory /\ fault' = "none" THEN call[t].product
          ELSE IF a \in released THEN NotGiven ELSE asked[a]]
    /\ call' = [call EXCEPT ![t] = Idle]
    /\ UNCHANGED <<clock, watchState, real_calloc, alreadyInDlsymCall, calls>>

Allocate(t) ==
    /\ Alive
    /\ call[t].pc = "body" /\ call[t].memory = NULL
    /\ \E trace \in StackTrace, memory \in Address \cup {NULL} :
          /\ IF Watching
             THEN instrumentedAllocate(sizeOf(t), trace, memory)
             ELSE RealAllocate(sizeOf(t), memory) /\ UNCHANGED <<tableVars, fault>>
          /\ overflows(t) /\ ~ sampled(sizeOf(t), trace) => memory = NULL
          /\ answer' = [entry |-> call[t].entry, product |-> call[t].product, memory |-> memory,
                        usable |-> IF memory = NULL THEN 0 ELSE heap'[memory],
                        zeroed |-> zeroedBytes(t, trace), refused |-> memory = NULL,
                        sampled |-> sampled(sizeOf(t), trace), calledLate |-> call[t].calledLate]
          /\ Return(t, memory, {})

\* realloc() or reallocarray() of glibc
RealReallocarray(old, product, memory) ==
    IF product >= SizeModulus THEN memory = NULL /\ UNCHANGED heap
    ELSE IF product = 0 THEN RealFree(old, memory)
    ELSE RealReallocate(old, product, memory)

closelyWatched(a) == Watching /\ m_light[a] = NoRecord /\ m_closely[a] # NoRecord

Reallocate(t) ==
    LET old == call[t].memory IN
    /\ Alive
    /\ call[t].pc = "body" /\ call[t].entry = "reallocarray" /\ old # NULL
    /\ sizeOf(t) # 0
    /\ \E memory \in Address \cup {NULL} :
          /\ IF Watching
             THEN instrumentedReallocate(old, sizeOf(t), memory)
             ELSE RealReallocarray(old, call[t].product, memory) /\ UNCHANGED <<tableVars, fault>>
          /\ overflows(t) /\ ~ closelyWatched(old) => memory = NULL
          /\ Return(t, memory, IF memory = NULL THEN {} ELSE {old})
    /\ UNCHANGED answer

\* free(), and reallocarray() when the product is zero as a size_t
Free(t) ==
    LET old == call[t].memory IN
    /\ Alive
    /\ call[t].pc = "body" /\ old # NULL
    /\ call[t].entry = "free" \/ sizeOf(t) = 0
    /\ UNCHANGED <<fault, answer>>
    /\ IF Watching
       THEN /\ freeLight(old) \/ freeClosely(old) \/ freeUntracked(old)
            /\ m_stats' = [m_stats EXCEPT !.freeCount = @ + 1]
            /\ UNCHANGED m_suspiciousFingerprints
       ELSE UNCHANGED tableVars
    /\ \E memory \in IF call[t].entry = "free" THEN {NULL} ELSE Address \cup {NULL} :
          /\ IF call[t].entry = "free" THEN RealFree(old, NULL)
                                       ELSE RealReallocarray(old, call[t].product, memory)
          /\ Return(t, memory, IF overflows(t) THEN {} ELSE {old})

-----------------------------------------------------------------------------
StartSignal ==
    /\ Alive
    /\ watchState' = "Watching"
    /\ UNCHANGED <<tableVars, heap, clock, fault, wrapperVars, asked, answer>>

\* The patrol thread finds a light record past its deadline.
Expire ==
    /\ Alive
    /\ \E a \in Address : m_light[a] # NoRecord /\ expireLight(a)
    /\ UNCHANGED <<heap, clock, fault, watchState, wrapperVars, asked, answer>>

Dead == ~ Alive /\ UNCHANGED vars

Next ==
    \/ \E t \in Thread :
          \/ BeginAllocate(t) \/ BeginReallocarray(t) \/ BeginFree(t)
          \/ TestDlsymCall(t) \/ SetDlsymCall(t) \/ FinishDlsym(t)
          \/ Allocate(t) \/ Reallocate(t) \/ Free(t)
    \/ StartSignal \/ Expire \/ Dead

Spec == Init /\ [][Next]_vars

-----------------------------------------------------------------------------
(* Properties                                                              *)

\* Every variable holds values of its kind.
TypeOK ==
    /\ TableTypeOK
    /\ watchState \in {"NotWatching", "Watching"}
    /\ real_calloc \in BOOLEAN /\ alreadyInDlsymCall \in BOOLEAN
    /\ call \in [Thread -> Call]
    /\ asked \in [Address -> Nat \cup {NotGiven}]
    /\ calls \in 0..MaxCalls
    /\ answer \in Answer

\* An allocation is answered NULL only if the allocator refused it, or if it is
\* a calloc() begun before the real one was known, with another thread's look
\* up under way: once a look up is done, no later call is turned away.
NullMeansRefused ==
    answer.entry # "none" /\ answer.memory = NULL =>
        answer.refused \/ (answer.entry = "calloc" /\ ~ answer.calledLate)

\* Every block the application holds is live, also when the product of a
\* reallocarray() wrapped to nothing and its record is gone; and it is as large
\* as last asked, whatever its way through the table, unless that comes within
\* a page of 2^32 or is beyond it.
HeldBlocksAreWhole ==
    \A a \in Address : asked[a] # NotGiven =>
        /\ heap[a] # NotLive
        /\ asked[a] + PageSize <= UIntModulus => heap[a] >= asked[a]

\* A block is as large as asked, and a block of calloc() is zero throughout,
\* whichever way it was served; only a sampled one may be short, and only if
\* the product comes within a page of 2^32 or is beyond it.
AnswersAreWhole ==
    answer.memory # NULL /\ (answer.sampled => answer.product + PageSize <= UIntModulus) =>
        /\ answer.usable >= answer.product
        /\ answer.entry = "calloc" => answer.zeroed >= answer.product

\* A sample counted as freed really is released (or is an empty block now),
\* but for a reallocarray() whose product overflows to zero: there the record
\* goes, the real call refuses and the application still has the block.
FreedSamplesAreReleased ==
    [][\A a \in Address :
          /\ allTraces' < allTraces
          /\ m_closely[a] # NoRecord /\ m_closely'[a] = NoRecord
          => \/ heap'[a] \in {NotLive, 0}
             \/ \E t \in Thread : call[t].memory = a /\ overflows(t)]_vars
=============================================================================
