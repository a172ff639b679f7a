--------------------------- MODULE WrappersProofs ---------------------------
(***************************************************************************)
(* Theorems about the entry points (Wrappers), for any number of threads,  *)
(* any arguments and any widths of the two integer types.                  *)
(***************************************************************************)
EXTENDS Wrappers, AllocationTableProofs

\* Only calloc() tests for a look up under way, and only if the real one was
\* not known when the call began.
TestersCameEarly ==
    \A t \in Thread : call[t].pc = "testing" => call[t].entry = "calloc" /\ ~ call[t].calledLate

Inv ==
    /\ TypeOK
    /\ TableAccounting
    /\ TestersCameEarly
    /\ NullMeansRefused
    /\ AnswersAreWhole

-----------------------------------------------------------------------------
(* Arguments and sizes.                                                    *)

\* A call that is under way has arguments, and is not the idle record.
LEMMA CallUnderWay ==
  ASSUME TypeOK, NEW t \in Thread, call[t].pc # "idle"
  PROVE  /\ call[t].entry \in Entry
         /\ call[t].memory \in Address \cup {NULL}
         /\ call[t].product \in Nat
         /\ call[t].calledLate \in BOOLEAN
  <1>1. call[t] \in Call /\ call[t] # Idle
    BY DEF TypeOK, Idle
  <1>. QED  BY <1>1 DEF Call

\* The size_t the wrapper computes is a size, and exact if it does not overflow.
LEMMA SizeOfCall ==
  ASSUME NEW t \in Thread, call[t].product \in Nat
  PROVE  /\ sizeOf(t) \in Size /\ sizeOf(t) \in Nat
         /\ ~ overflows(t) => sizeOf(t) = call[t].product
  <1>1. SizeModulus \in Nat \ {0} /\ Size = 0..(SizeModulus - 1)
    BY WrappersAssumption, TableAssumption
  <1>. QED  BY <1>1 DEF sizeOf, overflows

\* glibc's realloc() and reallocarray() leave each address live with a size,
\* or not live.
LEMMA RealReallocarrayTypes ==
  ASSUME heap \in [Address -> Nat \cup {NotLive}], NEW old \in Address, NEW product \in Nat,
         NEW memory, RealReallocarray(old, product, memory)
  PROVE  heap' \in [Address -> Nat \cup {NotLive}]
  BY RealTypes DEF RealReallocarray

-----------------------------------------------------------------------------
(* Each step preserves the invariant.                                      *)

\* The process starts with every variable of its type and nothing answered.
LEMMA InitInv == Init => Inv
  <1>. SUFFICES ASSUME Init PROVE Inv
    OBVIOUS
  <1>1. TableTypeOK /\ TableAccounting
    BY TableInitTypeOK, TableInitAccounting DEF Init
  <1>2. call \in [Thread -> Call] /\ TestersCameEarly
    BY DEF Init, Call, Idle, TestersCameEarly
  <1>3. answer = NoAnswer /\ NoAnswer \in Answer
    BY DEF Init, NoAnswer, Answer
  <1>4. asked \in [Address -> Nat \cup {NotGiven}] /\ calls \in 0..MaxCalls
    BY WrappersAssumption DEF Init
  <1>5. TypeOK
    BY <1>1, <1>2, <1>3, <1>4 DEF Init, TypeOK
  <1>. QED  BY <1>1, <1>2, <1>3, <1>5
            DEF Inv, NoAnswer, NullMeansRefused, AnswersAreWhole

\* A step that answers nothing says nothing new of an answer.
LEMMA NothingAnswered ==
  ASSUME Inv, UNCHANGED answer
  PROVE  NullMeansRefused' /\ AnswersAreWhole'
  BY DEF Inv, NullMeansRefused, AnswersAreWhole

\* Calling a wrapper.
LEMMA BeginInv ==
  ASSUME Inv, NEW t \in Thread, BeginAllocate(t) \/ BeginReallocarray(t) \/ BeginFree(t)
  PROVE  Inv'
  <1>1. \A n, m \in Count : n \in Nat /\ n * m \in Nat
    BY WrappersAssumption
  <1>2. PICK entry \in Entry, memory \in Address \cup {NULL}, product \in Nat :
           Begin(t, entry, memory, product)
    BY <1>1 DEF BeginAllocate, BeginReallocarray, BeginFree, Entry, AtHand
  <1>3. TypeOK /\ TableAccounting /\ TestersCameEarly
    BY DEF Inv
  <1>4. TableAccounting' /\ TableTypeOK'
    BY <1>2, <1>3, TableUnchanged DEF Begin, TableAccounting
  <1>. DEFINE new == [entry |-> entry, memory |-> memory, product |-> product,
                      pc |-> firstStep(entry), calledLate |-> real_calloc]
  <1>5. /\ new \in Call /\ new.pc = firstStep(entry) /\ new.entry = entry
        /\ new.calledLate = real_calloc
    BY <1>3 DEF Call, firstStep, TypeOK
  <1>6. call' = [call EXCEPT ![t] = new] /\ call \in [Thread -> Call]
    BY <1>2, <1>3 DEF Begin, TypeOK
  <1>. HIDE DEF new
  <1>7. call' \in [Thread -> Call] /\ TestersCameEarly'
    BY <1>3, <1>5, <1>6 DEF TestersCameEarly, firstStep
  <1>8. calls' \in 0..MaxCalls
    BY <1>2, <1>3, WrappersAssumption DEF Begin, TypeOK
  <1>9. TypeOK'
    BY <1>2, <1>3, <1>4, <1>7, <1>8 DEF Begin, TypeOK
  <1>. QED  BY <1>2, <1>4, <1>7, <1>9, NothingAnswered DEF Inv, Begin

\* calloc() looks up the real one.
LEMMA DlsymInv ==
  ASSUME Inv, NEW t \in Thread, TestDlsymCall(t) \/ SetDlsymCall(t) \/ FinishDlsym(t)
  PROVE  Inv'
  <1>1. TypeOK /\ TableAccounting /\ TestersCameEarly
    BY DEF Inv
  <1>2. /\ UNCHANGED <<tableVars, heap, clock, fault, watchState, calls, asked>>
        /\ real_calloc' \in {real_calloc, TRUE} /\ alreadyInDlsymCall' \in {alreadyInDlsymCall, TRUE}
        /\ call[t].pc \in {"testing", "setting", "dlsym"}
    BY DEF TestDlsymCall, SetDlsymCall, FinishDlsym
  <1>3. TableAccounting' /\ TableTypeOK'
    BY <1>1, <1>2, TableUnchanged DEF TableAccounting
  <1>4. call[t] \in Call \ {Idle} /\ call \in [Thread -> Call]
    BY <1>1, <1>2 DEF TypeOK, Idle
  <1>10. Idle \in Call /\ Idle.pc = "idle"
    BY DEF Call, Idle
  <1>5. \/ call' = [call EXCEPT ![t] = Idle]
        \/ \E label \in {"setting", "dlsym", "body"} : call' = [call EXCEPT ![t].pc = label]
    BY DEF TestDlsymCall, SetDlsymCall, FinishDlsym, advance
  <1>6. call' \in [Thread -> Call] /\ TestersCameEarly'
    <2>1. CASE call' = [call EXCEPT ![t] = Idle]
      BY <1>1, <1>4, <1>10, <2>1 DEF TestersCameEarly
    <2>2. ASSUME NEW label \in {"setting", "dlsym", "body"}, call' = [call EXCEPT ![t].pc = label]
          PROVE  call' \in [Thread -> Call] /\ TestersCameEarly'
      <3>. DEFINE new == [call[t] EXCEPT !.pc = label]
      <3>1. new \in Call /\ new.pc = label /\ call' = [call EXCEPT ![t] = new]
        BY <1>4, <2>2 DEF Call
      <3>. HIDE DEF new
      <3>. QED  BY <1>1, <1>4, <3>1 DEF TestersCameEarly
    <2>. QED  BY <1>5, <2>1, <2>2
  <1>7. CASE UNCHANGED answer
    <2>1. TypeOK'
      BY <1>1, <1>2, <1>3, <1>6, <1>7 DEF TypeOK, tableVars
    <2>. QED  BY <1>3, <1>6, <1>7, <2>1, NothingAnswered DEF Inv
  <1>8. CASE ~ UNCHANGED answer
    <2>1. /\ answer' = [NoAnswer EXCEPT !.entry = "calloc", !.product = call[t].product,
                                        !.calledLate = call[t].calledLate]
          /\ call[t].pc = "testing"
      BY <1>8 DEF TestDlsymCall, SetDlsymCall, FinishDlsym
    <2>2. call[t].calledLate = FALSE /\ call[t].product \in Nat
      BY <1>1, <2>1, CallUnderWay DEF TestersCameEarly
    <2>3. /\ answer' \in Answer /\ answer'.entry = "calloc" /\ answer'.memory = NULL
          /\ ~ answer'.calledLate
      <3>1. answer' = [entry |-> "calloc", product |-> call[t].product, memory |-> NULL,
                       usable |-> 0, zeroed |-> 0,
                       refused |-> FALSE, sampled |-> FALSE, calledLate |-> FALSE]
        BY <2>1, <2>2 DEF NoAnswer
      <3>. QED  BY <2>2, <3>1 DEF Answer, Entry
    <2>4. TypeOK'
      BY <1>1, <1>2, <1>3, <1>6, <2>3 DEF TypeOK, tableVars
    <2>. QED  BY <1>3, <1>6, <2>3, <2>4
              DEF Inv, NullMeansRefused, AnswersAreWhole
  <1>. QED  BY <1>7, <1>8

\* The end of a call: the block it answers has the size that was asked for.
LEMMA ReturnTypes ==
  ASSUME TypeOK, TestersCameEarly, NEW t \in Thread, call[t].pc # "idle", NEW memory, NEW released,
         Return(t, memory, released)
  PROVE  /\ call' \in [Thread -> Call] /\ TestersCameEarly'
         /\ asked' \in [Address -> Nat \cup {NotGiven}]
         /\ UNCHANGED <<clock, watchState, real_calloc, alreadyInDlsymCall, calls>>
  <1>1. call[t].product \in Nat
    BY CallUnderWay
  <1>2. call' = [call EXCEPT ![t] = Idle] /\ call \in [Thread -> Call] /\ Idle \in Call
        /\ Idle.pc = "idle"
    BY DEF Return, TypeOK, Call, Idle
  <1>3. call' \in [Thread -> Call] /\ TestersCameEarly'
    BY <1>2 DEF TestersCameEarly
  <1>. QED  BY <1>1, <1>3 DEF Return, TypeOK

\* Allocating, by the table or by the real function alone, keeps the table in
\* order; a block that is not sampled has the size the wrapper computed, and a
\* sampled one that size rounded up to pages.
LEMMA AllocateTable ==
  ASSUME TableAccounting, NEW size \in Size, NEW trace \in StackTrace,
         NEW memory \in Address \cup {NULL}, UNCHANGED clock,
         IF Watching THEN instrumentedAllocate(size, trace, memory)
                     ELSE RealAllocate(size, memory) /\ UNCHANGED <<tableVars, fault>>
  PROVE  /\ TableAccounting'
         /\ memory # NULL => heap'[memory] = IF sampled(size, trace) THEN roundUpToPageMultiple(size)
                                                                    ELSE size
  <1>1. heap \in [Address -> Nat \cup {NotLive}] /\ TableTypeOK
    BY DEF TableAccounting, TableTypeOK
  <1>2. ASSUME NEW n, RealAllocate(n, memory), memory # NULL
        PROVE  heap'[memory] = n
    BY <1>1, <1>2 DEF RealAllocate
  <1>3. CASE ~ Watching
    <2>1. RealAllocate(size, memory) /\ UNCHANGED <<tableVars, fault>> /\ size \in Nat
      BY <1>3, TableAssumption
    <2>2. heap' \in [Address -> Nat \cup {NotLive}]
      BY <1>1, <2>1, RealAllocateType
    <2>3. TableTypeOK'
      BY <1>1, <2>1, <2>2 DEF TableTypeOK, tableVars
    <2>. QED  BY <1>2, <1>3, <2>1, <2>3, CountersUntouched DEF tableVars, sampled
  <1>4. CASE Watching /\ allocateLight(size, trace, memory)
    <2>1. ~ sampled(size, trace) /\ RealAllocate(size, memory)
      BY <1>4 DEF allocateLight, sampled
    <2>. QED  BY <1>2, <1>4, <2>1, AllocateLightAccounting
  <1>5. CASE Watching /\ allocateSkipped(size, trace, memory)
    <2>1. ~ sampled(size, trace) /\ RealAllocate(size, memory)
      BY <1>5 DEF allocateSkipped, sampled
    <2>. QED  BY <1>2, <1>5, <2>1, AllocateSkippedAccounting
  <1>6. CASE Watching /\ allocateCloselyWatched(size, trace, memory)
    <2>1. sampled(size, trace) /\ RealAllocate(roundUpToPageMultiple(size), memory)
      BY <1>6 DEF allocateCloselyWatched, sampled
    <2>. QED  BY <1>2, <1>6, <2>1, AllocateCloselyWatchedAccounting
  <1>. QED  BY <1>3, <1>4, <1>5, <1>6 DEF instrumentedAllocate

\* malloc(), calloc() and reallocarray() of NULL.
LEMMA AllocateInv ==
  ASSUME Inv, NEW t \in Thread, Allocate(t)
  PROVE  Inv'
  <1>1. TypeOK /\ TableAccounting /\ TestersCameEarly
    BY DEF Inv
  <1>. DEFINE size == sizeOf(t)
              product == call[t].product
  <1>2. PICK trace \in StackTrace, memory \in Address \cup {NULL} :
          /\ IF Watching THEN instrumentedAllocate(size, trace, memory)
                         ELSE RealAllocate(size, memory) /\ UNCHANGED <<tableVars, fault>>
          /\ overflows(t) /\ ~ sampled(size, trace) => memory = NULL
          /\ answer' = [entry |-> call[t].entry, product |-> product, memory |-> memory,
                        usable |-> IF memory = NULL THEN 0 ELSE heap'[memory],
                        zeroed |-> zeroedBytes(t, trace), refused |-> memory = NULL,
                        sampled |-> sampled(size, trace), calledLate |-> call[t].calledLate]
          /\ Return(t, memory, {})
    BY DEF Allocate
  <1>3. /\ call[t].entry \in Entry /\ product \in Nat /\ call[t].calledLate \in BOOLEAN
        /\ call[t].pc # "idle"
    BY <1>1, CallUnderWay DEF Allocate
  <1>4. size \in Size /\ size \in Nat /\ (~ overflows(t) => size = product)
    BY <1>3, SizeOfCall
  <1>5. /\ call' \in [Thread -> Call] /\ TestersCameEarly'
        /\ asked' \in [Address -> Nat \cup {NotGiven}]
        /\ UNCHANGED <<clock, watchState, real_calloc, alreadyInDlsymCall, calls>>
    BY <1>1, <1>2, <1>3, ReturnTypes
  <1>. HIDE DEF size
  <1>6. /\ TableAccounting' /\ TableTypeOK'
        /\ memory # NULL => heap'[memory] = IF sampled(size, trace) THEN roundUpToPageMultiple(size)
                                                                    ELSE size
    BY <1>1, <1>2, <1>4, <1>5, AllocateTable DEF TableAccounting
  <1>7. ASSUME memory # NULL, sampled(size, trace) => product + PageSize <= UIntModulus
        PROVE  /\ size = product /\ heap'[memory] >= product
               /\ sampled(size, trace) => uint32(size) = size
    <2>1. CASE ~ sampled(size, trace)
      BY <1>2, <1>3, <1>4, <1>6, <1>7, <2>1
    <2>2. CASE sampled(size, trace)
      <3>1. product < UIntModulus /\ product < SizeModulus /\ product + PageSize <= UIntModulus
        BY <1>3, <1>7, <2>2, TableAssumption, WrappersAssumption
      <3>2. size = product
        BY <1>3, <1>4, <3>1, WrappersAssumption DEF overflows
      <3>3. roundUpToPageMultiple(size) >= size
        BY <1>4, <3>1, <3>2, RoundingCovers
      <3>4. uint32(size) = size
        BY <1>3, <3>1, <3>2, TableAssumption DEF uint32
      <3>. QED  BY <1>6, <1>7, <2>2, <3>2, <3>3, <3>4
    <2>. QED  BY <2>1, <2>2
  <1>8. /\ zeroedBytes(t, trace) \in Nat
        /\ sampled(size, trace) \in BOOLEAN
        /\ (IF memory = NULL THEN 0 ELSE heap'[memory]) \in Int
    <2>1. uint32(size) \in Nat
      BY <1>4, SizeTypes
    <2>2. heap' \in [Address -> Nat \cup {NotLive}]
      BY <1>6 DEF TableTypeOK
    <2>. QED  BY <1>3, <2>1, <2>2 DEF zeroedBytes, sampled, size, NotLive
  <1>9. answer' \in Answer
    BY <1>2, <1>3, <1>8 DEF Answer
  <1>10. TypeOK'
    BY <1>1, <1>5, <1>6, <1>9 DEF TypeOK
  <1>11. NullMeansRefused'
    BY <1>2 DEF NullMeansRefused
  <1>12. AnswersAreWhole'
    <2>. SUFFICES ASSUME answer'.memory # NULL,
                         answer'.sampled => answer'.product + PageSize <= UIntModulus
                  PROVE  /\ answer'.usable >= answer'.product
                         /\ answer'.entry = "calloc" => answer'.zeroed >= answer'.product
      BY DEF AnswersAreWhole
    <2>1. /\ answer'.memory = memory /\ answer'.sampled = sampled(size, trace)
          /\ answer'.product = product /\ answer'.entry = call[t].entry
          /\ answer'.zeroed = zeroedBytes(t, trace)
          /\ memory # NULL => answer'.usable = heap'[memory]
      BY <1>2
    <2>2. /\ size = product /\ heap'[memory] >= product
          /\ sampled(size, trace) => uint32(size) = size
      BY <1>7, <2>1
    <2>3. call[t].entry = "calloc" => zeroedBytes(t, trace) = product
      BY <2>2 DEF zeroedBytes, size
    <2>. QED  BY <1>3, <2>1, <2>2, <2>3
  <1>. QED  BY <1>5, <1>6, <1>10, <1>11, <1>12 DEF Inv

\* reallocarray() and realloc() of a block, to a size that is not zero.
LEMMA ReallocateInv ==
  ASSUME Inv, NEW t \in Thread, Reallocate(t)
  PROVE  Inv'
  <1>1. TypeOK /\ TableAccounting /\ TestersCameEarly
    BY DEF Inv
  <1>. DEFINE old == call[t].memory
              size == sizeOf(t)
  <1>2. PICK memory \in Address \cup {NULL} :
          /\ IF Watching
             THEN instrumentedReallocate(old, size, memory)
             ELSE RealReallocarray(old, call[t].product, memory) /\ UNCHANGED <<tableVars, fault>>
          /\ Return(t, memory, IF memory = NULL THEN {} ELSE {old})
    BY DEF Reallocate
  <1>3. /\ old \in Address /\ call[t].product \in Nat /\ call[t].pc # "idle"
        /\ UNCHANGED answer
    BY <1>1, CallUnderWay DEF Reallocate
  <1>4. size \in Size
    BY <1>3, SizeOfCall
  <1>5. /\ call' \in [Thread -> Call] /\ TestersCameEarly'
        /\ asked' \in [Address -> Nat \cup {NotGiven}]
        /\ UNCHANGED <<clock, watchState, real_calloc, alreadyInDlsymCall, calls>>
    BY <1>1, <1>2, <1>3, ReturnTypes
  <1>. HIDE DEF size
  <1>6. TableAccounting'
    <2>1. CASE Watching
      BY <1>1, <1>2, <1>3, <1>4, <1>5, <2>1, ReallocateAccounting
    <2>2. CASE ~ Watching
      <3>1. RealReallocarray(old, call[t].product, memory) /\ UNCHANGED <<tableVars, fault>>
        BY <1>2, <2>2
      <3>2. heap' \in [Address -> Nat \cup {NotLive}]
        BY <1>1, <1>3, <3>1, RealReallocarrayTypes DEF TypeOK, TableTypeOK
      <3>3. TableTypeOK'
        BY <1>1, <1>5, <3>1, <3>2 DEF TypeOK, TableTypeOK, tableVars
      <3>. QED  BY <1>1, <3>1, <3>3, CountersUntouched DEF tableVars
    <2>. QED  BY <2>1, <2>2
  <1>7. TypeOK'
    BY <1>1, <1>3, <1>5, <1>6 DEF TypeOK, TableAccounting
  <1>. QED  BY <1>3, <1>5, <1>6, <1>7, NothingAnswered DEF Inv

\* free(), and reallocarray() to a size of zero.
LEMMA FreeInv ==
  ASSUME Inv, NEW t \in Thread, Free(t)
  PROVE  Inv'
  <1>1. TypeOK /\ TableAccounting /\ TestersCameEarly
    BY DEF Inv
  <1>. DEFINE old == call[t].memory
  <1>2. PICK memory :
          /\ RealFree(old, NULL) \/ RealReallocarray(old, call[t].product, memory)
          /\ Return(t, memory, IF overflows(t) THEN {} ELSE {old})
    BY DEF Free
  <1>3. /\ old \in Address /\ call[t].product \in Nat /\ call[t].pc # "idle"
        /\ UNCHANGED <<answer, fault>>
    BY <1>1, CallUnderWay DEF Free
  <1>4. /\ call' \in [Thread -> Call] /\ TestersCameEarly'
        /\ asked' \in [Address -> Nat \cup {NotGiven}]
        /\ UNCHANGED <<clock, watchState, real_calloc, alreadyInDlsymCall, calls>>
    BY <1>1, <1>2, <1>3, ReturnTypes
  <1>5. heap' \in [Address -> Nat \cup {NotLive}]
    BY <1>1, <1>2, <1>3, RealTypes, RealReallocarrayTypes DEF TypeOK, TableTypeOK
  <1>6. TableAccounting'
    <2>1. CASE Watching
      <3>1. /\ freeLight(old) \/ freeClosely(old) \/ freeUntracked(old)
            /\ m_stats' = [m_stats EXCEPT !.freeCount = @ + 1]
            /\ UNCHANGED m_suspiciousFingerprints
        BY <2>1 DEF Free
      <3>. QED  BY <1>1, <1>3, <1>4, <1>5, <3>1, ForgetAccounting
    <2>2. CASE ~ Watching
      <3>1. UNCHANGED tableVars
        BY <2>2 DEF Free
      <3>2. TableTypeOK'
        BY <1>1, <1>3, <1>4, <1>5, <3>1 DEF TypeOK, TableTypeOK, tableVars
      <3>. QED  BY <1>1, <3>1, <3>2, CountersUntouched DEF tableVars
    <2>. QED  BY <2>1, <2>2
  <1>7. TypeOK'
    BY <1>1, <1>3, <1>4, <1>6 DEF TypeOK, TableAccounting
  <1>. QED  BY <1>3, <1>4, <1>6, <1>7, NothingAnswered DEF Inv

\* Every step of every thread, of the signal and of the patrol thread.
LEMMA StepInv == Inv /\ [Next]_vars => Inv'
  <1>. SUFFICES ASSUME Inv, [Next]_vars PROVE Inv'
    OBVIOUS
  <1>1. TypeOK /\ TableAccounting /\ TestersCameEarly
    BY DEF Inv
  <1>2. CASE \E t \in Thread : BeginAllocate(t) \/ BeginReallocarray(t) \/ BeginFree(t)
    BY <1>2, BeginInv
  <1>3. CASE \E t \in Thread : TestDlsymCall(t) \/ SetDlsymCall(t) \/ FinishDlsym(t)
    BY <1>3, DlsymInv
  <1>4. CASE \E t \in Thread : Allocate(t) \/ Reallocate(t) \/ Free(t)
    BY <1>4, AllocateInv, ReallocateInv, FreeInv
  <1>5. CASE StartSignal
    <2>1. UNCHANGED <<tableVars, heap, clock, fault, wrapperVars, asked, answer>>
          /\ watchState' = "Watching"
      BY <1>5 DEF StartSignal
    <2>2. TableAccounting' /\ TableTypeOK'
      BY <1>1, <2>1, TableUnchanged DEF TableAccounting
    <2>3. TypeOK' /\ TestersCameEarly'
      BY <1>1, <2>1, <2>2 DEF TypeOK, TestersCameEarly, wrapperVars
    <2>. QED  BY <2>1, <2>2, <2>3, NothingAnswered DEF Inv
  <1>6. CASE Expire
    <2>1. UNCHANGED <<heap, clock, fault, watchState, wrapperVars, asked, answer>>
      BY <1>6 DEF Expire
    <2>2. TableAccounting' /\ TableTypeOK'
      BY <1>1, <1>6, <2>1, ExpireLightAccounting DEF TableAccounting, Expire
    <2>3. TypeOK' /\ TestersCameEarly'
      BY <1>1, <2>1, <2>2 DEF TypeOK, TestersCameEarly, wrapperVars
    <2>. QED  BY <2>1, <2>2, <2>3, NothingAnswered DEF Inv
  <1>7. CASE UNCHANGED vars
    <2>1. UNCHANGED <<tableVars, heap, clock, fault, watchState, wrapperVars, asked, answer>>
      BY <1>7 DEF vars
    <2>2. TableAccounting' /\ TableTypeOK'
      BY <1>1, <2>1, TableUnchanged DEF TableAccounting
    <2>3. TypeOK' /\ TestersCameEarly'
      BY <1>1, <2>1, <2>2 DEF TypeOK, TestersCameEarly, wrapperVars
    <2>. QED  BY <2>1, <2>2, <2>3, NothingAnswered DEF Inv
  <1>. QED  BY <1>2, <1>3, <1>4, <1>5, <1>6, <1>7 DEF Next, Dead

-----------------------------------------------------------------------------
(* The theorems.                                                           *)

\* The invariant that the others rest on holds of every behaviour.
LEMMA InvAlways == Spec => []Inv
  BY InitInv, StepInv, PTL DEF Spec

\* Every variable of the wrappers holds values of its kind.
THEOREM WrapperTypes == Spec => []TypeOK
  <1>1. Inv => TypeOK
    BY DEF Inv
  <1>. QED  BY <1>1, InvAlways, PTL

\* A call is answered NULL only if the allocator refused, or it is a calloc()
\* that began before the real one was known and met another look up.
THEOREM NullMeansRefusedAlways == Spec => []NullMeansRefused
  <1>1. Inv => NullMeansRefused
    BY DEF Inv
  <1>. QED  BY <1>1, InvAlways, PTL

\* A block is as large as asked and calloc()'s is zero throughout, for every
\* pair of factors, however the product compares to 2^32 and 2^64.
THEOREM AnswersAreWholeAlways == Spec => []AnswersAreWhole
  <1>1. Inv => AnswersAreWhole
    BY DEF Inv
  <1>. QED  BY <1>1, InvAlways, PTL

\* Only free() takes a sample off the count of those that live.
LEMMA OnlyFreeLowers ==
  ASSUME Inv, [Next]_vars, allTraces' < allTraces
  PROVE  \E t \in Thread : Free(t) /\ freeClosely(call[t].memory)
  <1>1. allTraces \in Nat /\ ~ UNCHANGED allTraces
    BY DEF Inv, TypeOK, TableTypeOK
  <1>2. ~ allTraces' = allTraces + 1
    BY <1>1
  <1>3. ASSUME NEW t \in Thread, ~ Free(t)
        PROVE  ~ (\/ BeginAllocate(t) \/ BeginReallocarray(t) \/ BeginFree(t)
                  \/ TestDlsymCall(t) \/ SetDlsymCall(t) \/ FinishDlsym(t)
                  \/ Allocate(t) \/ Reallocate(t))
    <2>1. ~ (BeginAllocate(t) \/ BeginReallocarray(t) \/ BeginFree(t))
      BY <1>1 DEF BeginAllocate, BeginReallocarray, BeginFree, Begin, tableVars
    <2>2. ~ (TestDlsymCall(t) \/ SetDlsymCall(t) \/ FinishDlsym(t))
      BY <1>1 DEF TestDlsymCall, SetDlsymCall, FinishDlsym, tableVars
    <2>3. ~ Allocate(t)
      BY <1>1, <1>2 DEF Allocate, instrumentedAllocate, allocateLight, allocateSkipped,
                        allocateCloselyWatched, tableVars
    <2>4. ~ Reallocate(t)
      BY <1>1 DEF Reallocate, instrumentedReallocate, tableVars
    <2>. QED  BY <2>1, <2>2, <2>3, <2>4
  <1>4. ~ (StartSignal \/ Expire \/ Dead \/ UNCHANGED vars)
    BY <1>1 DEF StartSignal, Expire, expireLight, Dead, vars, tableVars
  <1>5. PICK t \in Thread : Free(t)
    BY <1>3, <1>4 DEF Next
  <1>6. freeClosely(call[t].memory)
    BY <1>1, <1>5 DEF Free, freeLight, freeUntracked, tableVars
  <1>. QED  BY <1>5, <1>6

\* What free() or reallocarray() to a size of zero does to the block.
LEMMA FreeReleases ==
  ASSUME Inv, NEW t \in Thread, Free(t), ~ overflows(t)
  PROVE  heap'[call[t].memory] \in {NotLive, 0}
  <1>. DEFINE old == call[t].memory
  <1>1. /\ old \in Address /\ call[t].product \in Nat
        /\ heap \in [Address -> Nat \cup {NotLive}]
    BY CallUnderWay DEF Free, Inv, TypeOK, TableTypeOK
  <1>2. ASSUME NEW memory, RealFree(old, memory)
        PROVE  heap'[old] \in {NotLive, 0}
    BY <1>1, <1>2, TableAssumption DEF RealFree
  <1>3. CASE call[t].entry = "free"
    BY <1>2, <1>3 DEF Free
  <1>4. CASE call[t].entry # "free"
    <2>1. call[t].product = 0
      BY <1>1, <1>4, WrappersAssumption DEF Free, overflows, sizeOf
    <2>2. ~ call[t].product >= SizeModulus
      BY DEF overflows
    <2>. QED  BY <1>2, <1>4, <2>1, <2>2 DEF Free, RealReallocarray
  <1>. QED  BY <1>3, <1>4

\* A sample counted as freed is released, unless the product of reallocarray()
\* overflows to a size of zero: then the real call refuses it.
THEOREM FreedSamplesAreReleasedAlways == Spec => FreedSamplesAreReleased
  <1>. DEFINE Released ==
         \A a \in Address :
            /\ allTraces' < allTraces
            /\ m_closely[a] # NoRecord /\ m_closely'[a] = NoRecord
            => \/ heap'[a] \in {NotLive, 0}
               \/ \E t \in Thread : call[t].memory = a /\ overflows(t)
  <1>1. ASSUME Inv, [Next]_vars PROVE Released
    <2>. SUFFICES ASSUME NEW a \in Address, allTraces' < allTraces,
                         m_closely[a] # NoRecord, m_closely'[a] = NoRecord,
                         \A t \in Thread : call[t].memory = a => ~ overflows(t)
                  PROVE  heap'[a] \in {NotLive, 0}
      OBVIOUS
    <2>1. PICK t \in Thread : Free(t) /\ freeClosely(call[t].memory)
      BY <1>1, OnlyFreeLowers
    <2>2. m_closely \in [Address -> CloselyWatchedAllocation \cup {NoRecord}]
      BY <1>1 DEF Inv, TypeOK, TableTypeOK
    <2>3. a = call[t].memory
      BY <2>1, <2>2 DEF freeClosely
    <2>. QED  BY <1>1, <2>1, <2>3, FreeReleases
  <1>2. Inv /\ [Next]_vars => [Released]_vars
    BY <1>1
  <1>. QED  BY <1>2, InvAlways, PTL DEF Spec, FreedSamplesAreReleased

-----------------------------------------------------------------------------
(* The blocks that the application holds.                                  *)

Tracked(a) == m_light[a] # NoRecord \/ m_closely[a] # NoRecord

Whole(a) ==
    asked[a] # NotGiven =>
        /\ heap[a] # NotLive
        /\ asked[a] + PageSize <= UIntModulus => heap[a] >= asked[a]

\* A block has a record only while the application holds it, one at most, and
\* a watched one has the size that its record rounds to.
Recorded(a) ==
    /\ Tracked(a) => asked[a] # NotGiven /\ Watching
    /\ m_light[a] = NoRecord \/ m_closely[a] = NoRecord
    /\ m_closely[a] # NoRecord => heap[a] = roundUpToPageMultiple(m_closely[a].requestedSize)

CallsHoldGivenBlocks ==
    \A t \in Thread :
        /\ call[t].memory \in Address =>
              /\ asked[call[t].memory] # NotGiven
              /\ \A u \in Thread : call[u].memory = call[t].memory => u = t
        /\ call[t].entry = "free" => call[t].product = 0

\* When undefined behaviour has ended the process its records are not looked at.
Possession ==
    /\ \A a \in Address : Whole(a)
    /\ Alive => (\A a \in Address : Recorded(a)) /\ CallsHoldGivenBlocks

\* A step that leaves all that concerns an address as it was.
Untouched(a) ==
    /\ asked'[a] = asked[a]
    /\ heap'[a] = heap[a]
    /\ m_light'[a] = m_light[a]
    /\ m_closely'[a] = m_closely[a]

\* Nothing is given out when the process starts.
LEMMA InitPossession == Init => Possession
  <1>. SUFFICES ASSUME Init PROVE Possession
    OBVIOUS
  <1>1. \A a \in Address : Whole(a) /\ Recorded(a)
    BY DEF Init, TableInit, Whole, Recorded, Tracked
  <1>2. \A t \in Thread : call[t] = Idle /\ call[t].memory \notin Address /\ call[t].entry # "free"
    BY TableAssumption DEF Init, Idle
  <1>. QED  BY <1>1, <1>2 DEF Possession, CallsHoldGivenBlocks

\* Nothing is tracked or held at an address that holds no live block.
LEMMA FreshIsUntracked ==
  ASSUME Possession, Alive, NEW a \in Address, heap[a] = NotLive
  PROVE  ~ Tracked(a) /\ asked[a] = NotGiven
  BY DEF Possession, Whole, Recorded

\* A call that touches only the block it was given and the one it answers, a
\* fresh one if it is another, leaves the other calls their blocks.
LEMMA CallReturns ==
  ASSUME TypeOK, Possession, Alive, NEW t \in Thread, NEW memory,
         call' = [call EXCEPT ![t] = Idle], UNCHANGED watchState,
         memory \in Address => memory = call[t].memory \/ heap[memory] = NotLive,
         \A a \in Address : \/ Untouched(a)
                            \/ a \in {call[t].memory, memory} /\ Whole(a)' /\ (Alive' => Recorded(a)')
  PROVE  Possession'
  <1>1. \A a \in Address : Whole(a)' /\ (Alive' => Recorded(a)')
    BY DEF Possession, Untouched, Whole, Recorded, Tracked, Watching
  <1>2. \A u \in Thread : IF u = t THEN call'[u] = Idle ELSE call'[u] = call[u]
    BY DEF TypeOK
  <1>3. Idle.memory \notin Address /\ Idle.entry # "free"
    BY TableAssumption DEF Idle
  <1>4. ASSUME NEW u \in Thread, u # t, call[u].memory \in Address
        PROVE  Untouched(call[u].memory)
    <2>1. /\ call[u].memory # call[t].memory
          /\ heap[call[u].memory] # NotLive
      BY <1>4 DEF Possession, CallsHoldGivenBlocks, Whole
    <2>. QED  BY <1>4, <2>1
  <1>5. CallsHoldGivenBlocks'
    BY <1>2, <1>3, <1>4 DEF Possession, CallsHoldGivenBlocks, Untouched
  <1>. QED  BY <1>1, <1>5 DEF Possession

\* What Return() notes of each block.
LEMMA ReturnNotes ==
  ASSUME TypeOK, NEW t \in Thread, NEW memory, NEW released, Return(t, memory, released)
  PROVE  /\ call' = [call EXCEPT ![t] = Idle] /\ UNCHANGED watchState
         /\ \A a \in Address :
               asked'[a] = IF a = memory /\ fault' = "none" THEN call[t].product
                           ELSE IF a \in released THEN NotGiven ELSE asked[a]
  BY DEF Return

\* Calling a wrapper: the application hands over a block that no call has.
LEMMA BeginPossession ==
  ASSUME Inv, Possession, NEW t \in Thread,
         BeginAllocate(t) \/ BeginReallocarray(t) \/ BeginFree(t)
  PROVE  Possession'
  <1>1. PICK entry, memory, product :
           /\ Begin(t, entry, memory, product)
           /\ memory = NULL \/ memory \in AtHand
           /\ entry = "free" => product = 0
    BY DEF BeginAllocate, BeginReallocarray, BeginFree
  <1>2. /\ UNCHANGED <<m_light, m_closely, heap, watchState, asked, fault>> /\ Alive
        /\ NULL \notin Address
    BY <1>1, TableAssumption DEF Begin, tableVars
  <1>3. /\ call'[t].memory = memory /\ call'[t].entry = entry /\ call'[t].product = product
        /\ \A u \in Thread : u # t => call'[u] = call[u]
    BY <1>1 DEF Begin, Inv, TypeOK
  <1>4. \A a \in Address : Whole(a)' /\ Recorded(a)'
    BY <1>2 DEF Possession, Whole, Recorded, Tracked, Watching
  <1>5. CallsHoldGivenBlocks'
    BY <1>1, <1>2, <1>3 DEF Possession, CallsHoldGivenBlocks, AtHand
  <1>. QED  BY <1>4, <1>5 DEF Possession

\* The look up of the real calloc() touches no block.
LEMMA DlsymPossession ==
  ASSUME Inv, Possession, NEW t \in Thread, TestDlsymCall(t) \/ SetDlsymCall(t) \/ FinishDlsym(t)
  PROVE  Possession'
  <1>1. UNCHANGED <<m_light, m_closely, heap, watchState, asked, fault>> /\ Alive
    BY DEF TestDlsymCall, SetDlsymCall, FinishDlsym, tableVars
  <1>2. \A a \in Address : Whole(a)' /\ Recorded(a)'
    BY <1>1 DEF Possession, Whole, Recorded, Tracked, Watching
  <1>3. /\ call \in [Thread -> Call] /\ call[t] \in Call /\ call[t].pc # "idle"
        /\ Idle.memory \notin Address /\ Idle.entry # "free"
    BY TableAssumption DEF Inv, TypeOK, Idle, TestDlsymCall, SetDlsymCall, FinishDlsym
  <1>4. \/ call' = [call EXCEPT ![t] = Idle]
        \/ \E label : call' = [call EXCEPT ![t].pc = label]
    BY DEF TestDlsymCall, SetDlsymCall, FinishDlsym, advance
  <1>5. \A u \in Thread : \/ call'[u] = Idle
                          \/ /\ call'[u].memory = call[u].memory
                             /\ call'[u].entry = call[u].entry
                             /\ call'[u].product = call[u].product
    <2>1. ASSUME NEW label, call' = [call EXCEPT ![t].pc = label]
          PROVE  /\ call'[t].memory = call[t].memory
                 /\ call'[t].entry = call[t].entry
                 /\ call'[t].product = call[t].product
      BY <1>3, <2>1 DEF Call, Idle
    <2>. QED  BY <1>3, <1>4, <2>1
  <1>6. CallsHoldGivenBlocks'
    BY <1>1, <1>3, <1>5 DEF Possession, CallsHoldGivenBlocks
  <1>. QED  BY <1>2, <1>6 DEF Possession

\* A product that stays a page below 2^32 is the size that the wrapper
\* computes, and rounds up to no less.
LEMMA SmallProducts ==
  ASSUME NEW t \in Thread, call[t].product \in Nat, call[t].product + PageSize <= UIntModulus
  PROVE  /\ sizeOf(t) = call[t].product
         /\ roundUpToPageMultiple(sizeOf(t)) >= call[t].product
  <1>1. call[t].product < SizeModulus /\ sizeOf(t) \in Nat
    BY SizeOfCall, TableAssumption, WrappersAssumption
  <1>2. sizeOf(t) = call[t].product
    BY <1>1, SizeOfCall, WrappersAssumption DEF overflows
  <1>. QED  BY <1>1, <1>2, RoundingCovers

\* A new block is as large as asked, and recorded with the pages it has.
LEMMA AllocatePossession ==
  ASSUME Inv, Possession, NEW t \in Thread, Allocate(t)
  PROVE  Possession'
  <1>. DEFINE size == sizeOf(t)
              product == call[t].product
  <1>1. PICK trace \in StackTrace, memory \in Address \cup {NULL} :
          /\ IF Watching THEN instrumentedAllocate(size, trace, memory)
                         ELSE RealAllocate(size, memory) /\ UNCHANGED <<tableVars, fault>>
          /\ overflows(t) /\ ~ sampled(size, trace) => memory = NULL
          /\ Return(t, memory, {})
    BY DEF Allocate
  <1>2. /\ TypeOK /\ TableTypeOK /\ Alive /\ fault = "none" /\ product \in Nat /\ NULL \notin Address
        /\ call[t].memory = NULL
    BY CallUnderWay, TableAssumption DEF Inv, TypeOK, Allocate, Alive
  <1>3. size \in Nat /\ (~ overflows(t) => size = product)
    BY <1>2, SizeOfCall
  <1>4. fault' = "none"
    BY <1>1, <1>2 DEF instrumentedAllocate, allocateLight, allocateSkipped, allocateCloselyWatched
  <1>5. /\ call' = [call EXCEPT ![t] = Idle] /\ UNCHANGED watchState
        /\ \A a \in Address : asked'[a] = IF a = memory THEN product ELSE asked[a]
    BY <1>1, <1>2, <1>4, ReturnNotes
  <1>. DEFINE actual == IF sampled(size, trace) THEN roundUpToPageMultiple(size) ELSE size
  <1>6. RealAllocate(actual, memory)
    BY <1>1 DEF instrumentedAllocate, allocateLight, allocateSkipped, allocateCloselyWatched, sampled
  <1>7. actual \in Nat /\ (memory \in Address /\ product + PageSize <= UIntModulus => actual >= product)
    <2>1. actual \in Nat
      BY <1>3, SizeTypes
    <2>2. CASE sampled(size, trace)
      BY <1>2, <2>1, <2>2, SmallProducts
    <2>3. CASE ~ sampled(size, trace)
      BY <1>1, <1>2, <1>3, <2>1, <2>3
    <2>. QED  BY <2>1, <2>2, <2>3
  <1>8. \A a \in Address : a # memory => Untouched(a)
    <2>1. \A a \in Address : a # memory => heap'[a] = heap[a]
      BY <1>2, <1>6 DEF RealAllocate, TableTypeOK
    <2>2. \A a \in Address : a # memory => m_light'[a] = m_light[a] /\ m_closely'[a] = m_closely[a]
      BY <1>1, <1>2 DEF instrumentedAllocate, allocateLight, allocateSkipped,
                        allocateCloselyWatched, tableVars, TableTypeOK
    <2>. QED  BY <1>5, <2>1, <2>2 DEF Untouched
  <1>9. ASSUME memory \in Address
        PROVE  heap[memory] = NotLive /\ Whole(memory)' /\ Recorded(memory)'
    <2>1. heap[memory] = NotLive /\ heap'[memory] = actual
      BY <1>2, <1>6, <1>9 DEF RealAllocate, TableTypeOK
    <2>2. ~ Tracked(memory)
      BY <1>2, <1>9, <2>1, FreshIsUntracked
    <2>3. asked'[memory] = product /\ asked'[memory] # NotGiven
      BY <1>2, <1>5, <1>9 DEF NotGiven
    <2>4. Whole(memory)'
      <3>. HIDE DEF actual, product
      <3>. QED  BY <1>7, <1>9, <2>1, <2>3 DEF Whole, NotLive
    <2>5. CASE ~ Watching
      BY <1>1, <1>5, <2>1, <2>2, <2>3, <2>4, <2>5 DEF Recorded, Tracked, tableVars
    <2>6. CASE Watching
      <3>1. CASE allocateCloselyWatched(size, trace, memory)
        <4>1. PICK record : /\ record.requestedSize = uint32(size)
                            /\ m_closely' = [m_closely EXCEPT ![memory] = record]
          BY <1>2, <1>9, <3>1 DEF allocateCloselyWatched
        <4>2. m_closely'[memory] = record
          BY <1>2, <1>9, <4>1 DEF TableTypeOK
        <4>3. sampled(size, trace) /\ UNCHANGED m_light
          BY <2>6, <3>1 DEF allocateCloselyWatched, sampled
        <4>4. heap'[memory] = roundUpToPageMultiple(m_closely'[memory].requestedSize)
          BY <1>3, <2>1, <4>1, <4>2, <4>3, RoundingOfCast
        <4>5. m_light'[memory] = NoRecord
          BY <2>2, <4>3 DEF Tracked
        <4>. QED  BY <1>5, <2>1, <2>3, <2>4, <2>6, <4>4, <4>5 DEF Recorded, Watching
      <3>2. CASE allocateLight(size, trace, memory) \/ allocateSkipped(size, trace, memory)
        <4>1. m_closely'[memory] = NoRecord
          BY <2>2, <3>2 DEF allocateLight, allocateSkipped, Tracked
        <4>. QED  BY <1>5, <2>1, <2>3, <2>4, <2>6, <4>1 DEF Recorded, Watching
      <3>. QED  BY <1>1, <2>6, <3>1, <3>2 DEF instrumentedAllocate
    <2>. QED  BY <2>5, <2>6
  <1>. QED  BY <1>2, <1>5, <1>8, <1>9, CallReturns

\* What realloc() of the allocator does to a live block, address by address.
LEMMA RealReallocateEffect ==
  ASSUME TypeOK, NEW old \in Address, heap[old] # NotLive, NEW size \in Nat,
         NEW memory \in Address \cup {NULL}, RealReallocate(old, size, memory)
  PROVE  /\ memory \in Address => memory = old \/ (heap[memory] = NotLive /\ memory # old)
         /\ \A a \in Address : heap'[a] = IF a = memory THEN size
                                          ELSE IF a = old /\ memory # NULL THEN NotLive
                                          ELSE heap[a]
  BY TableAssumption DEF RealReallocate, TypeOK, TableTypeOK

\* realloc() of a block that is not closely watched: a light record follows it.
LEMMA PlainReallocatePossession ==
  ASSUME Inv, Possession, Alive, NEW t \in Thread, NEW memory \in Address \cup {NULL},
         NEW old \in Address, old = call[t].memory, NEW size \in Nat, call[t].product \in Nat,
         RealReallocate(old, size, memory), m_closely[old] = NoRecord,
         memory \in Address => size = call[t].product,
         UNCHANGED <<m_closely, fault>>,
         \A a \in Address : a \notin {old, memory} => m_light'[a] = m_light[a],
         m_light[old] = NoRecord => UNCHANGED m_light,
         memory # old /\ m_light'[old] # NoRecord => memory = NULL,
         Return(t, memory, IF memory = NULL THEN {} ELSE {old})
  PROVE  Possession'
  <1>1. /\ TypeOK /\ NULL \notin Address /\ fault' = "none"
        /\ asked[old] # NotGiven /\ heap[old] # NotLive
    BY TableAssumption DEF Inv, Alive, Possession, CallsHoldGivenBlocks, Whole
  <1>2. /\ memory \in Address => memory = old \/ (heap[memory] = NotLive /\ memory # old)
        /\ \A a \in Address : heap'[a] = IF a = memory THEN size
                                         ELSE IF a = old /\ memory # NULL THEN NotLive
                                         ELSE heap[a]
    BY <1>1, RealReallocateEffect
  <1>3. /\ call' = [call EXCEPT ![t] = Idle] /\ UNCHANGED watchState
        /\ \A a \in Address : asked'[a] = IF a = memory THEN call[t].product
                                          ELSE IF a = old /\ memory # NULL THEN NotGiven
                                          ELSE asked[a]
    BY <1>1, ReturnNotes
  <1>4. \A a \in Address : a \notin {old, memory} => Untouched(a)
    BY <1>2, <1>3 DEF Untouched
  <1>5. memory \in Address => m_closely[memory] = NoRecord
    BY <1>2, FreshIsUntracked DEF Tracked
  <1>6. ASSUME NEW a \in Address, a \in {old, memory} PROVE Whole(a)'
    BY <1>1, <1>2, <1>3, <1>6 DEF Whole, NotGiven, NotLive, Possession
  <1>7. ASSUME NEW a \in Address, a \in {old, memory} PROVE Recorded(a)'
    <2>1. m_closely'[a] = NoRecord
      BY <1>5, <1>7
    <2>2. CASE m_light'[a] = NoRecord
      BY <2>1, <2>2 DEF Recorded, Tracked
    <2>3. CASE m_light'[a] # NoRecord
      <3>1. Watching
        <4>1. CASE m_light[old] # NoRecord
          BY <4>1 DEF Possession, Recorded, Tracked
        <4>2. CASE m_light[old] = NoRecord
          BY <1>7, <2>3, <4>2 DEF Possession, Recorded, Tracked
        <4>. QED  BY <4>1, <4>2
      <3>2. asked'[a] # NotGiven
        BY <1>1, <1>3, <1>7, <2>3 DEF NotGiven
      <3>. QED  BY <1>3, <2>1, <3>1, <3>2 DEF Recorded, Watching
    <2>. QED  BY <2>2, <2>3
  <1>. QED  BY <1>1, <1>2, <1>3, <1>4, <1>6, <1>7, CallReturns

\* realloc() of a watched block whose size in pages changes: the copy is a
\* block of its own, or undefined behaviour ends the process.
LEMMA MovedReallocatePossession ==
  ASSUME Inv, Possession, Alive, NEW t \in Thread, NEW memory \in Address \cup {NULL},
         NEW old \in Address, old = call[t].memory, call[t].product \in Nat, Watching,
         reallocateCloselyMoved(old, sizeOf(t), memory),
         Return(t, memory, IF memory = NULL THEN {} ELSE {old})
  PROVE  Possession'
  <1>. DEFINE record == [m_closely[old] EXCEPT !.requestedSize = uint32(sizeOf(t))]
              actual == roundUpToPageMultiple(sizeOf(t))
  <1>1. /\ TypeOK /\ NULL \notin Address /\ sizeOf(t) \in Nat /\ actual \in Nat
        /\ asked[old] # NotGiven /\ heap[old] # NotLive
        /\ m_closely[old] \in CloselyWatchedAllocation
    BY TableAssumption, SizeOfCall, SizeTypes
    DEF Inv, TypeOK, TableTypeOK, Possession, CallsHoldGivenBlocks, Whole, reallocateCloselyMoved
  <1>2. /\ memory \in Address => heap[memory] = NotLive /\ memory # old
        /\ \A a \in Address : heap'[a] = IF a = memory THEN actual ELSE heap[a]
    BY <1>1 DEF reallocateCloselyMoved, RealAllocate, TypeOK, TableTypeOK
  <1>3. /\ UNCHANGED m_light /\ m_light[old] = NoRecord
        /\ memory \in Address => ~ Tracked(memory) /\ asked[memory] = NotGiven
    BY <1>2, FreshIsUntracked DEF reallocateCloselyMoved
  <1>4. /\ call' = [call EXCEPT ![t] = Idle] /\ UNCHANGED watchState
        /\ \A a \in Address :
              asked'[a] = IF a = memory /\ fault' = "none" THEN call[t].product
                          ELSE IF a = old /\ memory # NULL THEN NotGiven ELSE asked[a]
    BY <1>1, ReturnNotes
  <1>5. CASE fault' # "none"
    <2>1. \A a \in Address : a \notin {old, memory} => Untouched(a)
      <3>1. UNCHANGED m_closely
        BY <1>1, <1>5 DEF reallocateCloselyMoved, Inv, Alive
      <3>. QED  BY <1>2, <1>3, <1>4, <1>5, <3>1 DEF Untouched
    <2>2. \A a \in Address : a \in {old, memory} => Whole(a)'
      BY <1>2, <1>3, <1>4, <1>5 DEF Whole, Possession
    <2>. QED  BY <1>1, <1>2, <1>4, <1>5, <2>1, <2>2, CallReturns DEF Alive
  <1>6. CASE fault' = "none"
    <2>1. memory \in Address /\ m_closely' = moved(m_closely, old, memory, record)
      BY <1>6 DEF reallocateCloselyMoved
    <2>2. record.requestedSize = uint32(sizeOf(t))
      BY <1>1 DEF CloselyWatchedAllocation
    <2>3. \A a \in Address : m_closely'[a] = IF a = old THEN NoRecord
                                             ELSE IF a = memory THEN record
                                             ELSE m_closely[a]
      <3>. HIDE DEF record
      <3>. QED  BY <1>1, <1>3, <2>1 DEF moved, TypeOK, TableTypeOK, Tracked
    <2>. HIDE DEF record
    <2>4. \A a \in Address : a \notin {old, memory} => Untouched(a)
      BY <1>2, <1>3, <1>4, <2>3 DEF Untouched
    <2>5. roundUpToPageMultiple(record.requestedSize) = actual
      BY <1>1, <2>2, RoundingOfCast
    <2>6. call[t].product + PageSize <= UIntModulus => actual >= call[t].product
      BY SmallProducts
    <2>. HIDE DEF actual
    <2>7. Whole(memory)' /\ Recorded(memory)'
      <3>1. /\ asked'[memory] = call[t].product /\ heap'[memory] = actual
            /\ m_closely'[memory] = record /\ m_light'[memory] = NoRecord
        BY <1>2, <1>3, <1>4, <1>6, <2>1, <2>3 DEF Tracked
      <3>2. asked'[memory] # NotGiven /\ heap'[memory] # NotLive
        BY <1>1, <3>1 DEF NotGiven, NotLive
      <3>3. Whole(memory)'
        BY <2>6, <3>1, <3>2 DEF Whole
      <3>. QED  BY <1>4, <2>5, <3>1, <3>2, <3>3 DEF Recorded, Watching
    <2>8. Whole(old)' /\ Recorded(old)'
      <3>1. asked'[old] = NotGiven /\ m_closely'[old] = NoRecord /\ m_light'[old] = NoRecord
        BY <1>1, <1>2, <1>3, <1>4, <2>1, <2>3
      <3>. QED  BY <3>1 DEF Whole, Recorded, Tracked
    <2>. QED  BY <1>1, <1>2, <1>4, <2>4, <2>7, <2>8, CallReturns
  <1>. QED  BY <1>5, <1>6

\* realloc() of a watched block that keeps its pages: they are as many as the
\* new size needs.
LEMMA InPlaceReallocatePossession ==
  ASSUME Inv, Possession, Alive, NEW t \in Thread, NEW memory \in Address \cup {NULL},
         NEW old \in Address, old = call[t].memory, call[t].product \in Nat, Watching,
         reallocateCloselyInPlace(old, sizeOf(t), memory),
         Return(t, memory, IF memory = NULL THEN {} ELSE {old})
  PROVE  Possession'
  <1>1. /\ TypeOK /\ sizeOf(t) \in Nat /\ fault' = "none"
        /\ memory = old /\ UNCHANGED <<m_light, heap>> /\ m_light[old] = NoRecord
        /\ m_closely[old] \in CloselyWatchedAllocation /\ m_closely[old] # NoRecord
        /\ m_closely' = [m_closely EXCEPT ![old].requestedSize = uint32(sizeOf(t))]
    BY SizeOfCall DEF Inv, Alive, TypeOK, TableTypeOK, reallocateCloselyInPlace
  <1>2. /\ m_closely'[old].requestedSize = uint32(sizeOf(t))
        /\ \A a \in Address : a # old => m_closely'[a] = m_closely[a]
    BY <1>1 DEF TypeOK, TableTypeOK, CloselyWatchedAllocation
  <1>3. /\ call' = [call EXCEPT ![t] = Idle] /\ UNCHANGED watchState
        /\ asked'[old] = call[t].product
        /\ \A a \in Address : a # old => asked'[a] = asked[a]
    BY <1>1, ReturnNotes
  <1>4. heap[old] = roundUpToPageMultiple(m_closely[old].requestedSize)
    BY <1>1 DEF Possession, Recorded
  <1>5. heap'[old] = roundUpToPageMultiple(sizeOf(t))
    BY <1>1, <1>4 DEF reallocateCloselyInPlace, keepsPages
  <1>6. \A a \in Address : a # old => Untouched(a)
    BY <1>1, <1>2, <1>3 DEF Untouched
  <1>7. heap'[old] # NotLive /\ asked'[old] # NotGiven
    BY <1>1, <1>3, <1>5, SizeTypes DEF NotLive, NotGiven
  <1>8. Whole(old)'
    BY <1>3, <1>5, <1>7, SmallProducts DEF Whole
  <1>9. Recorded(old)'
    BY <1>1, <1>2, <1>3, <1>5, <1>7, RoundingOfCast DEF Recorded, Tracked, Watching
  <1>. QED  BY <1>1, <1>3, <1>6, <1>8, <1>9, CallReturns

\* realloc() and reallocarray() of a block, every path.
LEMMA ReallocatePossession ==
  ASSUME Inv, Possession, NEW t \in Thread, Reallocate(t)
  PROVE  Possession'
  <1>. DEFINE old == call[t].memory
              size == sizeOf(t)
              product == call[t].product
  <1>1. PICK memory \in Address \cup {NULL} :
          /\ IF Watching
             THEN instrumentedReallocate(old, size, memory)
             ELSE RealReallocarray(old, product, memory) /\ UNCHANGED <<tableVars, fault>>
          /\ overflows(t) /\ ~ closelyWatched(old) => memory = NULL
          /\ Return(t, memory, IF memory = NULL THEN {} ELSE {old})
    BY DEF Reallocate
  <1>2. /\ Alive /\ old \in Address /\ product \in Nat /\ size # 0 /\ NULL \notin Address
        /\ m_light \in [Address \cup {NULL} -> LightAllocation \cup {NoRecord}]
    BY CallUnderWay, TableAssumption DEF Inv, TypeOK, TableTypeOK, Reallocate
  <1>3. size \in Nat /\ (~ overflows(t) => size = product)
    BY <1>2, SizeOfCall
  <1>4. CASE ~ Watching
    <2>1. m_light[old] = NoRecord /\ m_closely[old] = NoRecord
      BY <1>2, <1>4 DEF Possession, Recorded, Tracked
    <2>2. UNCHANGED <<m_light, m_closely, fault>> /\ RealReallocarray(old, product, memory)
      BY <1>1, <1>4 DEF tableVars
    <2>3. RealReallocate(old, size, memory) /\ (memory \in Address => size = product)
      <3>1. CASE product >= SizeModulus
        BY <1>2, <2>2, <3>1 DEF RealReallocarray, RealReallocate
      <3>2. CASE ~ product >= SizeModulus
        <4>1. size = product
          BY <1>3, <3>2 DEF overflows
        <4>. QED  BY <1>2, <2>2, <3>2, <4>1 DEF RealReallocarray
      <3>. QED  BY <3>1, <3>2
    <2>. HIDE DEF size
    <2>. QED  BY <1>1, <1>2, <1>3, <2>1, <2>2, <2>3, PlainReallocatePossession
  <1>5. CASE Watching
    <2>1. CASE \/ reallocateLight(old, size, memory)
               \/ reallocateUntracked(old, size, memory)
      <3>1. m_closely[old] = NoRecord
        BY <1>2, <2>1 DEF Possession, Recorded, reallocateLight, reallocateUntracked
      <3>2. memory \in Address => size = product
        BY <1>1, <1>2, <1>3, <3>1 DEF closelyWatched
      <3>3. RealReallocate(old, size, memory) /\ UNCHANGED <<m_closely, fault>>
        BY <2>1 DEF reallocateLight, reallocateUntracked
      <3>4. /\ \A a \in Address : a \notin {old, memory} => m_light'[a] = m_light[a]
            /\ m_light[old] = NoRecord => UNCHANGED m_light
            /\ memory # old /\ m_light'[old] # NoRecord => memory = NULL
        BY <1>2, <2>1 DEF reallocateLight, reallocateUntracked, moved
      <3>. HIDE DEF size
      <3>. QED  BY <1>1, <1>2, <1>3, <3>1, <3>2, <3>3, <3>4, PlainReallocatePossession
    <2>2. CASE reallocateCloselyMoved(old, size, memory)
      BY <1>1, <1>2, <1>5, <2>2, MovedReallocatePossession
    <2>3. CASE reallocateCloselyInPlace(old, size, memory)
      BY <1>1, <1>2, <1>5, <2>3, InPlaceReallocatePossession
    <2>. QED  BY <1>1, <1>5, <2>1, <2>2, <2>3 DEF instrumentedReallocate
  <1>. QED  BY <1>4, <1>5

\* free(), and reallocarray() to nothing: the record goes, and the block with
\* it unless the real call refuses the product.
LEMMA FreePossession ==
  ASSUME Inv, Possession, NEW t \in Thread, Free(t)
  PROVE  Possession'
  <1>. DEFINE product == call[t].product
  <1>0. PICK old \in Address : old = call[t].memory
    <2>1. call[t].memory \in Address
      BY CallUnderWay DEF Inv, Free
    <2>. QED  BY <2>1
  <1>1. PICK memory \in Address \cup {NULL} :
          /\ IF call[t].entry = "free" THEN memory = NULL /\ RealFree(old, NULL)
                                       ELSE RealReallocarray(old, product, memory)
          /\ Return(t, memory, IF overflows(t) THEN {} ELSE {old})
    BY <1>0 DEF Free
  <1>2. /\ TypeOK /\ Alive /\ product \in Nat /\ NULL \notin Address
        /\ SizeModulus \in Nat \ {0} /\ fault' = "none"
        /\ heap \in [Address -> Nat \cup {NotLive}]
        /\ m_light \in [Address \cup {NULL} -> LightAllocation \cup {NoRecord}]
        /\ m_closely \in [Address -> CloselyWatchedAllocation \cup {NoRecord}]
    BY CallUnderWay, TableAssumption, WrappersAssumption
    DEF Inv, TypeOK, TableTypeOK, Free, Alive
  <1>3. asked[old] # NotGiven /\ heap[old] # NotLive /\ (call[t].entry = "free" => product = 0)
    BY <1>0, <1>2 DEF Possession, CallsHoldGivenBlocks, Whole
  <1>4. /\ call' = [call EXCEPT ![t] = Idle] /\ UNCHANGED watchState
        /\ \A a \in Address :
              asked'[a] = IF a = memory THEN product
                          ELSE IF a = old /\ ~ overflows(t) THEN NotGiven ELSE asked[a]
    BY <1>1, <1>2, ReturnNotes
  <1>5. /\ ~ Tracked(old)'
        /\ \A a \in Address : a # old => m_light'[a] = m_light[a] /\ m_closely'[a] = m_closely[a]
    <2>1. CASE ~ Watching
      BY <1>0, <1>2, <2>1 DEF Free, Possession, Recorded, Tracked, tableVars
    <2>2. CASE Watching
      BY <1>0, <1>2, <2>2 DEF Free, freeLight, freeClosely, freeUntracked, Tracked, Possession, Recorded
    <2>. QED  BY <2>1, <2>2
  <1>6. CASE overflows(t)
    <2>1. memory = NULL /\ UNCHANGED heap
      <3>1. product >= SizeModulus
        BY <1>6 DEF overflows
      <3>2. call[t].entry # "free"
        BY <1>2, <1>3, <3>1
      <3>. QED  BY <1>1, <3>1, <3>2 DEF RealReallocarray
    <2>2. \A a \in Address : asked'[a] = asked[a]
      BY <1>2, <1>4, <1>6, <2>1
    <2>3. \A a \in Address : a # old => Untouched(a)
      BY <1>5, <2>1, <2>2 DEF Untouched
    <2>4. Whole(old)' /\ Recorded(old)'
      BY <1>2, <1>5, <2>1, <2>2 DEF Possession, Whole, Recorded, Tracked
    <2>. QED  BY <1>0, <1>2, <1>4, <2>1, <2>3, <2>4, CallReturns
  <1>7. CASE ~ overflows(t)
    <2>1. RealFree(old, memory) /\ product = 0
      <3>1. CASE call[t].entry = "free"
        BY <1>1, <1>3, <3>1
      <3>2. CASE call[t].entry # "free"
        <4>1. product = 0
          BY <1>2, <1>7, <3>2, SizeOfCall DEF Free
        <4>2. ~ product >= SizeModulus
          BY <1>7 DEF overflows
        <4>. QED  BY <1>1, <3>2, <4>1, <4>2 DEF RealReallocarray
      <3>. QED  BY <3>1, <3>2
    <2>2. /\ memory \in Address => memory = old \/ heap[memory] = NotLive
          /\ \A a \in Address : heap'[a] = IF a = memory THEN 0
                                           ELSE IF a = old THEN NotLive ELSE heap[a]
      BY <1>2, <1>3, <2>1 DEF RealFree
    <2>3. memory \in Address => ~ Tracked(memory)'
      BY <1>2, <1>5, <2>2, FreshIsUntracked DEF Tracked
    <2>4. \A a \in Address : a \notin {old, memory} => Untouched(a)
      BY <1>4, <1>5, <2>2 DEF Untouched
    <2>5. ASSUME NEW a \in Address, a \in {old, memory} PROVE Whole(a)' /\ Recorded(a)'
      <3>1. m_light'[a] = NoRecord /\ m_closely'[a] = NoRecord
        BY <1>5, <2>3, <2>5 DEF Tracked
      <3>2. (asked'[a] = 0 /\ heap'[a] = 0) \/ asked'[a] = NotGiven
        BY <1>2, <1>4, <1>7, <2>1, <2>2, <2>5
      <3>. QED  BY <3>1, <3>2 DEF Whole, Recorded, Tracked, NotLive, NotGiven
    <2>. QED  BY <1>0, <1>2, <1>4, <2>2, <2>4, <2>5, CallReturns
  <1>. QED  BY <1>6, <1>7

\* Every step keeps the application its blocks.
LEMMA StepPossession == Inv /\ Possession /\ [Next]_vars => Possession'
  <1>. SUFFICES ASSUME Inv, Possession, [Next]_vars PROVE Possession'
    OBVIOUS
  <1>1. CASE \E t \in Thread : BeginAllocate(t) \/ BeginReallocarray(t) \/ BeginFree(t)
    BY <1>1, BeginPossession
  <1>2. CASE \E t \in Thread : TestDlsymCall(t) \/ SetDlsymCall(t) \/ FinishDlsym(t)
    BY <1>2, DlsymPossession
  <1>3. CASE \E t \in Thread : Allocate(t) \/ Reallocate(t) \/ Free(t)
    BY <1>3, AllocatePossession, ReallocatePossession, FreePossession
  <1>4. CASE StartSignal \/ Expire \/ UNCHANGED vars
    <2>1. /\ UNCHANGED <<m_closely, heap, fault, call, asked>>
          /\ Watching => Watching'
          /\ \A a \in Address : m_light'[a] \in {m_light[a], NoRecord}
      BY <1>4 DEF StartSignal, Expire, expireLight, vars, tableVars, wrapperVars, Watching,
                  Inv, TypeOK, TableTypeOK
    <2>2. \A a \in Address : Whole(a)' /\ (Recorded(a) => Recorded(a)')
      BY <2>1 DEF Possession, Whole, Recorded, Tracked
    <2>. QED  BY <2>1, <2>2 DEF Possession, CallsHoldGivenBlocks, Alive
  <1>. QED  BY <1>1, <1>2, <1>3, <1>4 DEF Next, Dead

\* Every block that the application holds is live, and as large as it asked up
\* to a page below 2^32, through every path of the wrappers and the table.
THEOREM HeldBlocksAreWholeAlways == Spec => []HeldBlocksAreWhole
  <1>1. Inv /\ Possession /\ [Next]_vars => (Inv /\ Possession)'
    BY StepInv, StepPossession
  <1>2. Possession => HeldBlocksAreWhole
    BY DEF Possession, Whole, HeldBlocksAreWhole
  <1>. QED  BY <1>1, <1>2, InitInv, InitPossession, PTL DEF Spec
=============================================================================
