------------------------- MODULE MmapCounterProofs -------------------------
(***************************************************************************)
(* Theorems about MmapCounter for every value of its constants: any        *)
(* number of threads, traces, pages and calls, any lengths, any filter.    *)
(***************************************************************************)
EXTENDS MmapCounter, FiniteSums, Sequences

-----------------------------------------------------------------------------
(* The slices of the parser.                                               *)

DictSlice == [size : Nat \ {0}, stack_trace_id : Nat \ {0}]

\* No slice of the parser's map reaches the next one.
Disjoint(dict) == \A k, l \in DOMAIN dict : k < l => k + dict[k].size <= l

DictOK(dict) ==
    /\ IsFiniteSet(DOMAIN dict) /\ DOMAIN dict \subseteq Nat
    /\ \A k \in DOMAIN dict : dict[k] \in DictSlice
    /\ Disjoint(dict)

\* No slice goes on across an address.
NoneAcross(dict, p) == \A k \in DOMAIN dict : k < p => k + dict[k].size <= p

\* The slice at c is cut in two at p.
CutAt(dict, c, p) ==
    [k \in DOMAIN dict \cup {p} |->
        IF k = c THEN [size |-> p - c, stack_trace_id |-> dict[c].stack_trace_id]
        ELSE IF k = p THEN [size |-> c + dict[c].size - p, stack_trace_id |-> dict[c].stack_trace_id]
        ELSE dict[k]]

Across(dict, c, p) == c \in DOMAIN dict /\ c < p /\ p < c + dict[c].size

\* _split_at() cuts the one slice that goes on across the pointer, if there is
\* one, and its assertion holds.
LEMMA SplitDictCases ==
  ASSUME NEW dict, DictOK(dict), NEW p \in Nat
  PROVE  /\ splitAsserts(dict, p)
         /\ \/ splitDict(dict, p) = dict /\ NoneAcross(dict, p)
            \/ \E c \in DOMAIN dict : Across(dict, c, p) /\ p \notin DOMAIN dict
                                      /\ splitDict(dict, p) = CutAt(dict, c, p)
  <1>. DEFINE before == {k \in DOMAIN dict : k < p}
              c == Max(before)
  <1>1. CASE before = {}
    BY <1>1 DEF splitAsserts, splitDict, NoneAcross
  <1>2. CASE before # {}
    <2>1. c \in before /\ \A k \in before : k <= c
      <3>1. p \in Int /\ \A k \in before : k \in Int /\ k <= p
        BY DEF DictOK
      <3>. HIDE DEF before
      <3>. QED  BY <1>2, <3>1, MaxOfBounded
    <2>2. c \in DOMAIN dict /\ c \in Nat /\ c < p /\ dict[c] \in DictSlice
      BY <2>1 DEF DictOK
    <2>3. CASE p >= c + dict[c].size
      <3>1. splitDict(dict, p) = dict
        BY <2>3 DEF splitDict
      <3>2. NoneAcross(dict, p)
        <4>. SUFFICES ASSUME NEW k \in DOMAIN dict, k < p PROVE k + dict[k].size <= p
          BY DEF NoneAcross
        <4>1. k <= c /\ k \in Nat /\ dict[k].size \in Nat
          BY <2>1 DEF DictOK, DictSlice
        <4>2. k < c => k + dict[k].size <= c
          BY <2>2 DEF DictOK, Disjoint
        <4>. HIDE DEF c
        <4>. QED  BY <2>2, <2>3, <4>1, <4>2
      <3>. QED  BY <2>3, <3>1, <3>2 DEF splitAsserts
    <2>4. CASE ~ (p >= c + dict[c].size)
      <3>1. Across(dict, c, p)
        <4>. HIDE DEF c
        <4>. QED  BY <2>2, <2>4 DEF Across, DictSlice
      <3>2. p \notin DOMAIN dict
        <4>1. c + dict[c].size <= p \/ p \notin DOMAIN dict
          BY <2>2 DEF DictOK, Disjoint
        <4>. HIDE DEF c
        <4>. QED  BY <2>2, <2>4, <4>1 DEF DictSlice
      <3>3. splitDict(dict, p) = CutAt(dict, c, p)
        <4>1. splitDict(dict, p) =
                IF before = {} \/ p >= c + dict[c].size THEN dict
                ELSE [k \in DOMAIN dict \cup {p} |->
                        CASE k = c     -> [dict[c] EXCEPT !.size = p - c]
                          [] k = p     -> [dict[c] EXCEPT !.size = c + dict[c].size - p]
                          [] OTHER     -> dict[k]]
          BY DEF splitDict
        <4>. HIDE DEF c
        <4>2. /\ [dict[c] EXCEPT !.size = p - c]
                   = [size |-> p - c, stack_trace_id |-> dict[c].stack_trace_id]
              /\ [dict[c] EXCEPT !.size = c + dict[c].size - p]
                   = [size |-> c + dict[c].size - p, stack_trace_id |-> dict[c].stack_trace_id]
          BY <2>2 DEF DictSlice
        <4>3. splitDict(dict, p) =
                [k \in DOMAIN dict \cup {p} |->
                   CASE k = c     -> [dict[c] EXCEPT !.size = p - c]
                     [] k = p     -> [dict[c] EXCEPT !.size = c + dict[c].size - p]
                     [] OTHER     -> dict[k]]
          BY <1>2, <2>4, <4>1, Zenon
        <4>. QED  BY <2>2, <4>2, <4>3 DEF CutAt
      <3>4. splitAsserts(dict, p)
        BY <3>2 DEF splitAsserts
      <3>. QED  BY <2>2, <3>1, <3>2, <3>3, <3>4
    <2>. QED  BY <2>3, <2>4
  <1>. QED  BY <1>1, <1>2

\* What is cut stays a map of slices, and the cut is where it was asked for.
LEMMA CutDict ==
  ASSUME NEW dict, DictOK(dict), NEW p \in Nat, p \notin DOMAIN dict,
         NEW c \in DOMAIN dict, Across(dict, c, p)
  PROVE  DictOK(CutAt(dict, c, p)) /\ NoneAcross(CutAt(dict, c, p), p)
  <1>. DEFINE cut == CutAt(dict, c, p)
  <1>0. c \in Nat /\ dict[c] \in DictSlice /\ c < p /\ p < c + dict[c].size
    BY DEF DictOK, Across
  <1>1. DOMAIN cut = DOMAIN dict \cup {p}
    BY DEF CutAt
  <1>2. /\ cut[c] = [size |-> p - c, stack_trace_id |-> dict[c].stack_trace_id]
        /\ cut[p] = [size |-> c + dict[c].size - p, stack_trace_id |-> dict[c].stack_trace_id]
        /\ \A k \in DOMAIN dict \ {c} : cut[k] = dict[k]
    BY <1>0 DEF CutAt
  <1>. HIDE DEF cut
  <1>3. IsFiniteSet(DOMAIN cut) /\ DOMAIN cut \subseteq Nat
    BY <1>1, FS_AddElement DEF DictOK
  <1>4. \A k \in DOMAIN cut : cut[k] \in DictSlice
    BY <1>0, <1>1, <1>2 DEF DictOK, DictSlice
  <1>5. \A k \in DOMAIN dict : k \in Nat /\ dict[k].size \in Nat /\ dict[k].size > 0
    BY DEF DictOK, DictSlice
  <1>6. \A k, l \in DOMAIN dict : k < l => k + dict[k].size <= l
    BY DEF DictOK, Disjoint
  <1>7. cut[c].size = p - c /\ cut[p].size = c + dict[c].size - p
    BY <1>2
  <1>8. ASSUME NEW k \in DOMAIN cut, NEW l \in DOMAIN cut, k < l
        PROVE  k + cut[k].size <= l
    <2>1. CASE k = c
      <3>1. l = p \/ (l \in DOMAIN dict /\ c + dict[c].size <= l)
        BY <1>1, <1>6, <1>8, <2>1
      <3>. QED  BY <1>0, <1>3, <1>5, <1>7, <2>1, <3>1
    <2>2. CASE k = p
      <3>1. l \in DOMAIN dict /\ l \in Nat /\ c < l
        BY <1>0, <1>1, <1>3, <1>8, <2>2
      <3>2. c + dict[c].size <= l
        BY <1>6, <3>1
      <3>. QED  BY <1>0, <1>5, <1>7, <2>2, <3>1, <3>2
    <2>3. CASE k # c /\ k # p
      <3>1. k \in DOMAIN dict /\ cut[k].size = dict[k].size
        BY <1>1, <1>2, <2>3
      <3>2. CASE l = p
        <4>1. k < c \/ c < k
          BY <1>5, <2>3, <3>1
        <4>2. ~ (c < k)
          BY <1>0, <1>5, <1>6, <1>8, <3>1, <3>2
        <4>3. k + dict[k].size <= c
          BY <1>6, <3>1, <4>1, <4>2
        <4>. QED  BY <1>0, <1>5, <3>1, <3>2, <4>3
      <3>3. CASE l # p
        BY <1>1, <1>6, <1>8, <3>1, <3>3
      <3>. QED  BY <3>2, <3>3
    <2>. QED  BY <2>1, <2>2, <2>3
  <1>9. p \in DOMAIN cut
    BY <1>1
  <1>. QED  BY <1>3, <1>4, <1>8, <1>9 DEF DictOK, Disjoint, NoneAcross, cut

\* The slices, as summands.
sizes(dict) == [k \in DOMAIN dict |-> dict[k].size]

filtered(dict, keys, filter) == {k \in keys : dict[k].stack_trace_id \in filter}

bytesIn(dict, filter) == SumOver(sizes(dict), filtered(dict, DOMAIN dict, filter))

LEMMA FilteredSummands ==
  ASSUME NEW dict, DictOK(dict), NEW keys, keys \subseteq DOMAIN dict, NEW filter
  PROVE  /\ IsFiniteSet(filtered(dict, keys, filter))
         /\ NaturalSummands(sizes(dict), filtered(dict, keys, filter))
         /\ NaturalSummands(sizes(dict), keys) /\ IsFiniteSet(keys)
         /\ \A k \in keys : sizes(dict)[k] = dict[k].size
  <1>1. IsFiniteSet(keys)
    BY FS_Subset DEF DictOK
  <1>2. filtered(dict, keys, filter) \subseteq keys
    BY DEF filtered
  <1>. QED  BY <1>1, <1>2, FS_Subset DEF DictOK, DictSlice, NaturalSummands, sizes

\* What sumOfSizes() adds up.
LEMMA SumOfSizesIsSum ==
  ASSUME NEW dict, NEW keys, keys \subseteq DOMAIN dict, NEW filter
  PROVE  sumOfSizes(dict, keys, filter) = SumOver(sizes(dict), filtered(dict, keys, filter))
  <1>. DEFINE S == filtered(dict, keys, filter)
              F == sizes(dict)
              Q(g) == g = [T \in SUBSET S |->
                              IF T = {} THEN 0 ELSE dict[pick(T)].size + g[T \ {pick(T)}]]
  <1>1. \A T \in SUBSET S : T # {} => F[pick(T)] = dict[pick(T)].size
    BY DEF pick, sizes, filtered
  <1>2. sumOfSizes(dict, keys, filter) = (CHOOSE g : Q(g))[S]
    BY DEF sumOfSizes, filtered, MapThenSumSet, MapThenFoldSet, pick
  <1>. HIDE DEF F, S
  <1>3. ASSUME NEW g PROVE AddsUp(F, S, g) <=> Q(g)
    BY <1>1 DEF AddsUp, AddsUpOn
  <1>. HIDE DEF Q
  <1>4. (CHOOSE g : Q(g)) = (CHOOSE g : AddsUp(F, S, g))
    BY <1>3, Zenon
  <1>5. SumOver(F, S) = (CHOOSE g : AddsUp(F, S, g))[S]
    BY SumIsChoice
  <1>. QED  BY <1>2, <1>4, <1>5 DEF F, S

\* A cut loses no byte and moves none to another stack trace.
LEMMA CutKeepsBytes ==
  ASSUME NEW dict, DictOK(dict), NEW p \in Nat, p \notin DOMAIN dict,
         NEW c \in DOMAIN dict, Across(dict, c, p), NEW filter
  PROVE  bytesIn(CutAt(dict, c, p), filter) = bytesIn(dict, filter)
  <1>. DEFINE cut == CutAt(dict, c, p)
              A == filtered(dict, DOMAIN dict, filter)
              B == filtered(cut, DOMAIN cut, filter)
  <1>0. c \in Nat /\ dict[c] \in DictSlice /\ c # p
    BY DEF DictOK, Across
  <1>1. DOMAIN cut = DOMAIN dict \cup {p}
    BY DEF CutAt
  <1>2. /\ cut[c].size = p - c /\ cut[c].stack_trace_id = dict[c].stack_trace_id
        /\ cut[p].size = c + dict[c].size - p /\ cut[p].stack_trace_id = dict[c].stack_trace_id
        /\ \A k \in DOMAIN dict \ {c} : cut[k] = dict[k]
    BY <1>0 DEF CutAt
  <1>3. DictOK(cut)
    BY CutDict
  <1>. HIDE DEF cut
  <1>4. /\ IsFiniteSet(A) /\ NaturalSummands(sizes(dict), A)
        /\ IsFiniteSet(B) /\ NaturalSummands(sizes(cut), B)
    BY <1>3, FilteredSummands
  <1>5. /\ \A k \in DOMAIN dict : sizes(dict)[k] = dict[k].size
        /\ \A k \in DOMAIN cut : sizes(cut)[k] = cut[k].size
    BY DEF sizes
  <1>6. CASE dict[c].stack_trace_id \notin filter
    <2>1. B = A
      BY <1>0, <1>1, <1>2, <1>6 DEF filtered
    <2>2. \A k \in A : sizes(cut)[k] = sizes(dict)[k]
      BY <1>1, <1>2, <1>5, <1>6 DEF filtered
    <2>3. SumOver(sizes(cut), A) = SumOver(sizes(dict), A)
      BY <1>4, <2>2, SumSame
    <2>. QED  BY <2>1, <2>3 DEF bytesIn, cut
  <1>7. CASE dict[c].stack_trace_id \in filter
    <2>. DEFINE R == A \ {c}
    <2>1. c \in A /\ p \notin A /\ c \in B /\ p \in B /\ (B \ {p}) \ {c} = R /\ c \in B \ {p}
      BY <1>0, <1>1, <1>2, <1>7 DEF filtered
    <2>2. \A k \in R : sizes(cut)[k] = sizes(dict)[k]
      BY <1>1, <1>2, <1>5 DEF filtered
    <2>3. /\ IsFiniteSet(R) /\ NaturalSummands(sizes(dict), R)
          /\ IsFiniteSet(B \ {p}) /\ NaturalSummands(sizes(cut), B \ {p})
      BY <1>4, FS_RemoveElement DEF NaturalSummands
    <2>4. SumOver(sizes(cut), R) = SumOver(sizes(dict), R)
      BY <2>2, <2>3, SumSame
    <2>5. SumOver(sizes(dict), A) = sizes(dict)[c] + SumOver(sizes(dict), R)
      BY <1>4, <2>1, SumRemove
    <2>6. SumOver(sizes(cut), B) = sizes(cut)[p] + SumOver(sizes(cut), B \ {p})
      BY <1>4, <2>1, SumRemove
    <2>7. SumOver(sizes(cut), B \ {p}) = sizes(cut)[c] + SumOver(sizes(cut), (B \ {p}) \ {c})
      BY <2>1, <2>3, SumRemove
    <2>8. SumOver(sizes(cut), (B \ {p}) \ {c}) = SumOver(sizes(dict), R)
      BY <2>1, <2>4, Zenon
    <2>9. SumOver(sizes(dict), R) \in Nat
      BY <2>3, SumType
    <2>10. /\ sizes(dict)[c] = dict[c].size /\ sizes(cut)[p] = c + dict[c].size - p
           /\ sizes(cut)[c] = p - c /\ dict[c].size \in Nat
      BY <1>0, <1>1, <1>2, <1>5 DEF DictSlice
    <2>. HIDE DEF R, A, B
    <2>11. SumOver(sizes(cut), B) = SumOver(sizes(dict), A)
      BY <1>0, <2>5, <2>6, <2>7, <2>8, <2>9, <2>10
    <2>. QED  BY <2>11 DEF bytesIn, cut, A, B
  <1>. QED  BY <1>6, <1>7

\* What _split_at() does, whether it cuts or not.
LEMMA SplitDict ==
  ASSUME NEW dict, DictOK(dict), NEW p \in Nat
  PROVE  LET split == splitDict(dict, p) IN
         /\ DictOK(split) /\ NoneAcross(split, p)
         /\ \A q \in Nat : NoneAcross(dict, q) => NoneAcross(split, q)
         /\ AllIds(split) = AllIds(dict)
         /\ \A filter : bytesIn(split, filter) = bytesIn(dict, filter)
  <1>1. CASE splitDict(dict, p) = dict /\ NoneAcross(dict, p)
    BY <1>1
  <1>2. ASSUME NEW c \in DOMAIN dict, Across(dict, c, p), p \notin DOMAIN dict,
               splitDict(dict, p) = CutAt(dict, c, p)
        PROVE  LET split == splitDict(dict, p) IN
               /\ DictOK(split) /\ NoneAcross(split, p)
               /\ \A q \in Nat : NoneAcross(dict, q) => NoneAcross(split, q)
               /\ AllIds(split) = AllIds(dict)
               /\ \A filter : bytesIn(split, filter) = bytesIn(dict, filter)
    <2>. DEFINE cut == CutAt(dict, c, p)
    <2>0. c \in Nat /\ dict[c] \in DictSlice /\ c < p /\ p < c + dict[c].size
      BY <1>2 DEF DictOK, Across
    <2>1. DictOK(cut) /\ NoneAcross(cut, p)
      BY <1>2, CutDict
    <2>2. \A filter : bytesIn(cut, filter) = bytesIn(dict, filter)
      BY <1>2, CutKeepsBytes
    <2>3. DOMAIN cut = DOMAIN dict \cup {p}
      BY DEF CutAt
    <2>4. /\ cut[c].size = p - c /\ cut[c].stack_trace_id = dict[c].stack_trace_id
          /\ cut[p].size = c + dict[c].size - p /\ cut[p].stack_trace_id = dict[c].stack_trace_id
          /\ \A k \in DOMAIN dict \ {c} : cut[k] = dict[k]
      BY <1>2, <2>0 DEF CutAt
    <2>. HIDE DEF cut
    <2>5. \A k \in DOMAIN dict : k \in Nat /\ dict[k].size \in Nat
      BY DEF DictOK, DictSlice
    <2>6. ASSUME NEW q \in Nat, NoneAcross(dict, q) PROVE NoneAcross(cut, q)
      <3>. SUFFICES ASSUME NEW k \in DOMAIN cut, k < q PROVE k + cut[k].size <= q
        BY DEF NoneAcross
      <3>1. c < q => c + dict[c].size <= q
        BY <2>6 DEF NoneAcross
      <3>2. CASE k = c
        BY <2>0, <2>4, <2>5, <3>1, <3>2
      <3>3. CASE k = p
        BY <2>0, <2>4, <2>5, <3>1, <3>3
      <3>4. CASE k # c /\ k # p
        BY <2>3, <2>4, <2>6, <3>4 DEF NoneAcross
      <3>. QED  BY <3>2, <3>3, <3>4
    <2>7. AllIds(cut) = AllIds(dict)
      <3>1. \A k \in DOMAIN cut : \E l \in DOMAIN dict : cut[k].stack_trace_id = dict[l].stack_trace_id
        BY <2>3, <2>4
      <3>2. \A l \in DOMAIN dict : l \in DOMAIN cut /\ cut[l].stack_trace_id = dict[l].stack_trace_id
        BY <2>3, <2>4
      <3>. QED  BY <3>1, <3>2 DEF AllIds
    <2>. QED  BY <1>2, <2>1, <2>2, <2>6, <2>7 DEF cut
  <1>. QED  BY <1>1, <1>2, SplitDictCases

\* Slices that do not overlap fill a range at most.
LEMMA SlicesFitTheRange ==
  ASSUME NEW dict, DictOK(dict), NEW keys, keys \subseteq DOMAIN dict,
         NEW a \in Nat, NEW b \in Nat, a <= b,
         \A k \in keys : a <= k /\ k + dict[k].size <= b
  PROVE  SumOver(sizes(dict), keys) <= b - a
  <1>. DEFINE ends(T, e) == \A k \in T : k + dict[k].size <= e
              Good == {T \in SUBSET keys :
                         \A e \in Nat : a <= e /\ ends(T, e) => SumOver(sizes(dict), T) <= e - a}
  <1>1. \A k \in keys : k \in Nat /\ dict[k].size \in Nat /\ dict[k].size > 0 /\ a <= k
    BY DEF DictOK, DictSlice
  <1>2. ASSUME NEW T \in SUBSET keys, \A U \in SUBSET T : U # T => U \in Good
        PROVE  T \in Good
    <2>. SUFFICES ASSUME NEW e \in Nat, a <= e, ends(T, e)
                  PROVE  SumOver(sizes(dict), T) <= e - a
      OBVIOUS
    <2>1. IsFiniteSet(T) /\ NaturalSummands(sizes(dict), T) /\ \A k \in T : sizes(dict)[k] = dict[k].size
      BY FilteredSummands
    <2>2. CASE T = {}
      <3>1. SumOver(sizes(dict), T) = 0
        BY <2>2, SumEmpty, Zenon
      <3>. QED  BY <3>1
    <2>3. CASE T # {}
      <3>1. \A k \in T : k \in Int /\ k <= e
        BY <1>1
      <3>2. PICK m \in T : \A k \in T : k <= m
        BY <2>3, <3>1, MaxOfBounded
      <3>3. SumOver(sizes(dict), T) = dict[m].size + SumOver(sizes(dict), T \ {m})
        BY <2>1, <3>2, SumRemove
      <3>4. SumOver(sizes(dict), T \ {m}) <= m - a
        <4>1. T \ {m} \in Good
          BY <1>2, <3>2
        <4>2. \A k \in T \ {m} : k + dict[k].size <= m
          <5>1. \A k \in T \ {m} : k < m /\ k \in DOMAIN dict
            BY <1>1, <3>2
          <5>. QED  BY <3>2, <5>1 DEF DictOK, Disjoint
        <4>3. m \in Nat /\ a <= m
          BY <1>1, <3>2
        <4>. QED  BY <4>1, <4>2, <4>3
      <3>5. m + dict[m].size <= e /\ m \in Nat /\ dict[m].size \in Nat
        BY <1>1, <3>2
      <3>6. SumOver(sizes(dict), T \ {m}) \in Nat
        <4>1. IsFiniteSet(T \ {m}) /\ NaturalSummands(sizes(dict), T \ {m})
          BY <2>1, FS_RemoveElement DEF NaturalSummands
        <4>. QED  BY <4>1, SumType
      <3>. QED  BY <3>3, <3>4, <3>5, <3>6
    <2>. QED  BY <2>2, <2>3
  <1>3. keys \in Good
    <2>1. IsFiniteSet(keys)
      BY FilteredSummands
    <2>. HIDE DEF Good
    <2>2. SUBSET keys \subseteq Good
      BY <1>2, <2>1, ProperSubsetInduction
    <2>. QED  BY <2>2
  <1>. QED  BY <1>3

\* What register_unmap() leaves, and the bytes it takes: only slices outside the
\* range stay, none of them cut short, and no more bytes go than the range has.
LEMMA UnmapDict ==
  ASSUME NEW dict, DictOK(dict), NEW start \in Nat, NEW size \in Nat
  PROVE  LET kept == register_unmap(dict, start, size) IN
         /\ asserts(dict, start, size)
         /\ DictOK(kept)
         /\ \A k \in DOMAIN kept : k + kept[k].size <= start \/ start + size <= k
         /\ \A filter : /\ erasedBytes(dict, start, size, filter) \in Nat
                        /\ bytesIn(dict, filter)
                             = bytesIn(kept, filter) + erasedBytes(dict, start, size, filter)
                        /\ erasedBytes(dict, start, size, filter) <= size
  <1>. DEFINE first == splitDict(dict, start)
              split == splitDict(first, start + size)
              erased == {k \in DOMAIN split : start <= k /\ k < start + size}
              kept == [k \in DOMAIN split \ erased |-> split[k]]
  <1>1. DictOK(first) /\ NoneAcross(first, start) /\ \A filter : bytesIn(first, filter) = bytesIn(dict, filter)
    BY SplitDict
  <1>2. start + size \in Nat /\ start <= start + size
    OBVIOUS
  <1>. HIDE DEF first
  <1>3. /\ DictOK(split) /\ NoneAcross(split, start) /\ NoneAcross(split, start + size)
        /\ \A filter : bytesIn(split, filter) = bytesIn(first, filter)
    BY <1>1, <1>2, SplitDict
  <1>4. asserts(dict, start, size)
    BY <1>1, <1>2, SplitDictCases DEF asserts, first
  <1>5. /\ splitBothEnds(dict, start, size) = split
        /\ erasedKeys(dict, start, size) = erased
        /\ register_unmap(dict, start, size) = kept
    BY DEF splitBothEnds, erasedKeys, register_unmap, Restrict, first
  <1>. HIDE DEF split
  <1>6. \A k \in DOMAIN split : /\ k \in Nat /\ split[k] \in DictSlice
                                /\ split[k].size \in Nat /\ split[k].size > 0
    BY <1>3 DEF DictOK, DictSlice
  <1>7. DictOK(kept)
    <2>1. IsFiniteSet(DOMAIN kept) /\ DOMAIN kept \subseteq DOMAIN split
      BY <1>3, FS_Difference DEF DictOK
    <2>2. \A k \in DOMAIN kept : kept[k] = split[k]
      OBVIOUS
    <2>. HIDE DEF kept
    <2>. QED  BY <1>3, <2>1, <2>2 DEF DictOK, Disjoint
  <1>8. \A k \in DOMAIN kept : k + kept[k].size <= start \/ start + size <= k
    <2>1. \A k \in DOMAIN kept : k \in DOMAIN split /\ kept[k] = split[k] /\ (k < start \/ start + size <= k)
      BY <1>6
    <2>. HIDE DEF kept
    <2>. QED  BY <1>3, <2>1 DEF NoneAcross
  <1>9. ASSUME NEW filter
        PROVE  /\ erasedBytes(dict, start, size, filter) \in Nat
               /\ bytesIn(dict, filter)
                    = bytesIn(kept, filter) + erasedBytes(dict, start, size, filter)
               /\ erasedBytes(dict, start, size, filter) <= size
    <2>. DEFINE All == filtered(split, DOMAIN split, filter)
                Gone == filtered(split, erased, filter)
                Left == filtered(kept, DOMAIN kept, filter)
    <2>1. erased \subseteq DOMAIN split
      OBVIOUS
    <2>2. erasedBytes(dict, start, size, filter) = SumOver(sizes(split), Gone)
      <3>. HIDE DEF erased
      <3>1. erasedBytes(dict, start, size, filter) = sumOfSizes(split, erased, filter)
        BY <1>5, Zenon DEF erasedBytes
      <3>2. sumOfSizes(split, erased, filter) = SumOver(sizes(split), Gone)
        BY <2>1, SumOfSizesIsSum
      <3>. QED  BY <3>1, <3>2
    <2>3. IsFiniteSet(All) /\ NaturalSummands(sizes(split), All) /\ Gone \subseteq All /\ All \ Gone = Left
      <3>1. All \ Gone = Left /\ Gone \subseteq All
        BY DEF filtered
      <3>. QED  BY <1>3, <3>1, FilteredSummands
    <2>4. /\ SumOver(sizes(split), All) = SumOver(sizes(split), Gone) + SumOver(sizes(split), All \ Gone)
          /\ SumOver(sizes(split), Gone) \in Nat /\ SumOver(sizes(split), All \ Gone) \in Nat
      <3>1. PartOf(Gone, All)
        BY <2>3 DEF PartOf
      <3>. HIDE DEF All, Gone
      <3>. QED  BY <2>3, <3>1, SumOfPart
    <2>5. SumOver(sizes(split), All \ Gone) = SumOver(sizes(kept), Left)
      <3>1. IsFiniteSet(Left)
        BY <1>7, FilteredSummands
      <3>2. \A k \in Left : sizes(split)[k] = sizes(kept)[k]
        BY DEF filtered, sizes
      <3>. HIDE DEF All, Gone, Left, kept
      <3>3. SumOver(sizes(split), Left) = SumOver(sizes(kept), Left)
        BY <3>1, <3>2, SumSame
      <3>. QED  BY <2>3, <3>3, Zenon
    <2>6. SumOver(sizes(split), Gone) <= (start + size) - start
      <3>1. Gone \subseteq DOMAIN split
        BY DEF filtered
      <3>2. \A k \in Gone : start <= k /\ k + split[k].size <= start + size
        BY <1>3 DEF filtered, NoneAcross
      <3>. HIDE DEF Gone
      <3>. QED  BY <1>2, <1>3, <3>1, <3>2, SlicesFitTheRange
    <2>7. bytesIn(dict, filter) = SumOver(sizes(split), All) /\ bytesIn(kept, filter) = SumOver(sizes(kept), Left)
      BY <1>1, <1>3 DEF bytesIn
    <2>. HIDE DEF All, Gone, Left, kept
    <2>. QED  BY <2>2, <2>4, <2>5, <2>6, <2>7
  <1>. HIDE DEF kept
  <1>. QED  BY <1>4, <1>5, <1>7, <1>8, <1>9

\* What register_map() makes of it: one slice more, in the room that was made.
LEMMA MapDict ==
  ASSUME NEW dict, DictOK(dict), NEW start \in Nat, NEW size \in Nat \ {0}, NEW id \in Nat \ {0}
  PROVE  LET mapped == register_map(dict, start, size, id) IN
         /\ asserts(dict, start, size)
         /\ DictOK(mapped)
         /\ \A filter : bytesIn(mapped, filter)
                          = bytesIn(dict, filter) + (IF id \in filter THEN size ELSE 0)
                              - erasedBytes(dict, start, size, filter)
  <1>. DEFINE kept == register_unmap(dict, start, size)
              new == [size |-> size, stack_trace_id |-> id]
              mapped == [k \in DOMAIN kept \cup {start} |-> IF k = start THEN new ELSE kept[k]]
  <1>1. /\ asserts(dict, start, size)
        /\ DictOK(kept)
        /\ \A k \in DOMAIN kept : k + kept[k].size <= start \/ start + size <= k
        /\ \A filter : /\ erasedBytes(dict, start, size, filter) \in Nat
                       /\ bytesIn(dict, filter)
                            = bytesIn(kept, filter) + erasedBytes(dict, start, size, filter)
    BY UnmapDict
  <1>2. register_map(dict, start, size, id) = mapped
    BY DEF register_map
  <1>. HIDE DEF kept
  <1>3. \A k \in DOMAIN kept : k \in Nat /\ kept[k] \in DictSlice /\ kept[k].size \in Nat /\ kept[k].size > 0
    BY <1>1 DEF DictOK, DictSlice
  <1>4. start \notin DOMAIN kept
    BY <1>1, <1>3
  <1>5. /\ DOMAIN mapped = DOMAIN kept \cup {start}
        /\ mapped[start] = new /\ new \in DictSlice /\ new.size = size /\ new.stack_trace_id = id
        /\ \A k \in DOMAIN kept : mapped[k] = kept[k]
    BY <1>4 DEF DictSlice
  <1>. HIDE DEF mapped, new
  <1>6. DictOK(mapped)
    <2>1. IsFiniteSet(DOMAIN mapped) /\ DOMAIN mapped \subseteq Nat
      BY <1>1, <1>3, <1>5, FS_AddElement DEF DictOK
    <2>2. \A k \in DOMAIN mapped : mapped[k] \in DictSlice
      BY <1>3, <1>5
    <2>3. ASSUME NEW k \in DOMAIN mapped, NEW l \in DOMAIN mapped, k < l
          PROVE  k + mapped[k].size <= l
      <3>1. CASE k = start
        <4>1. l \in DOMAIN kept /\ l \in Nat
          BY <1>3, <1>5, <2>3, <3>1
        <4>2. l + kept[l].size <= start \/ start + size <= l
          BY <1>1, <4>1
        <4>. QED  BY <1>3, <1>5, <2>3, <3>1, <4>1, <4>2
      <3>2. CASE l = start
        <4>1. k \in DOMAIN kept /\ k \in Nat /\ mapped[k] = kept[k]
          BY <1>3, <1>5, <2>3, <3>2
        <4>2. k + kept[k].size <= start \/ start + size <= k
          BY <1>1, <4>1
        <4>. QED  BY <1>3, <2>3, <3>2, <4>1, <4>2
      <3>3. CASE k # start /\ l # start
        BY <1>1, <1>5, <2>3, <3>3 DEF DictOK, Disjoint
      <3>. QED  BY <3>1, <3>2, <3>3
    <2>. QED  BY <2>1, <2>2, <2>3 DEF DictOK, Disjoint
  <1>7. ASSUME NEW filter
        PROVE  bytesIn(mapped, filter) = bytesIn(kept, filter) + (IF id \in filter THEN size ELSE 0)
    <2>. DEFINE K == filtered(kept, DOMAIN kept, filter)
                M == filtered(mapped, DOMAIN mapped, filter)
    <2>1. IsFiniteSet(K) /\ NaturalSummands(sizes(kept), K)
      BY <1>1, FilteredSummands
    <2>2. \A k \in K : sizes(mapped)[k] = sizes(kept)[k]
      BY <1>5 DEF sizes, filtered
    <2>3. SumOver(sizes(mapped), K) = SumOver(sizes(kept), K)
      BY <2>1, <2>2, SumSame
    <2>4. SumOver(sizes(kept), K) \in Nat
      BY <2>1, SumType
    <2>5. CASE id \notin filter
      <3>1. M = K
        BY <1>4, <1>5, <2>5 DEF filtered
      <3>2. SumOver(sizes(mapped), M) = SumOver(sizes(kept), K)
        BY <2>3, <3>1, Zenon
      <3>. QED  BY <2>4, <2>5, <3>2 DEF bytesIn
    <2>6. CASE id \in filter
      <3>1. M = K \cup {start} /\ start \notin K
        BY <1>4, <1>5, <2>6 DEF filtered
      <3>2. sizes(mapped)[start] = size /\ sizes(mapped)[start] \in Nat
        BY <1>5 DEF sizes
      <3>3. NaturalSummands(sizes(mapped), K)
        BY <2>1, <2>2 DEF NaturalSummands
      <3>4. SumOver(sizes(mapped), K \cup {start}) = SumOver(sizes(mapped), K) + sizes(mapped)[start]
        BY <2>1, <3>1, <3>2, <3>3, SumAdd
      <3>5. SumOver(sizes(mapped), M) = SumOver(sizes(kept), K) + size
        BY <2>3, <3>1, <3>2, <3>4, Zenon
      <3>. QED  BY <2>6, <3>5 DEF bytesIn
    <2>. QED  BY <2>5, <2>6
  <1>8. ASSUME NEW filter
        PROVE  bytesIn(mapped, filter) = bytesIn(dict, filter) + (IF id \in filter THEN size ELSE 0)
                                           - erasedBytes(dict, start, size, filter)
    <2>1. bytesIn(kept, filter) \in Nat
      <3>1. /\ IsFiniteSet(filtered(kept, DOMAIN kept, filter))
            /\ NaturalSummands(sizes(kept), filtered(kept, DOMAIN kept, filter))
        BY <1>1, FilteredSummands
      <3>. QED  BY <3>1, SumType DEF bytesIn
    <2>. QED  BY <1>1, <1>7, <2>1
  <1>. QED  BY <1>1, <1>2, <1>6, <1>8

-----------------------------------------------------------------------------
(* The parser, line by line.                                               *)

\* The parser's slices do not overlap, its total is the bytes of the filtered
\* ones, and neither assertion on overlaps has ended it.
ParserOK(state) ==
    /\ state = [dict |-> state.dict, accum_memory |-> state.accum_memory, status |-> state.status]
    /\ DictOK(state.dict)
    /\ state.accum_memory = bytesIn(state.dict, StackFilter)
    /\ state.status \in ParserStatus \ {"pointer in dict", "erased too much"}

LEMMA BytesType ==
  ASSUME NEW dict, DictOK(dict), NEW filter
  PROVE  bytesIn(dict, filter) \in Nat
  <1>1. /\ IsFiniteSet(filtered(dict, DOMAIN dict, filter))
        /\ NaturalSummands(sizes(dict), filtered(dict, DOMAIN dict, filter))
    BY FilteredSummands
  <1>. QED  BY <1>1, SumType DEF bytesIn

LEMMA ParserState ==
  ASSUME NEW dict, DictOK(dict),
         NEW status \in ParserStatus \ {"pointer in dict", "erased too much"}
  PROVE  ParserOK([dict |-> dict, accum_memory |-> bytesIn(dict, StackFilter), status |-> status])
  <1>. DEFINE total == bytesIn(dict, StackFilter)
              state == [dict |-> dict, accum_memory |-> total, status |-> status]
  <1>. HIDE DEF total
  <1>1. state.dict = dict /\ state.accum_memory = total /\ state.status = status
    OBVIOUS
  <1>2. state = [dict |-> state.dict, accum_memory |-> state.accum_memory, status |-> state.status]
    BY <1>1
  <1>. HIDE DEF state
  <1>. QED  BY <1>1, <1>2, Zenon DEF ParserOK, total, state

LEMMA EmptyDomain == DOMAIN << >> = {}
  <1>1. << >> \in Seq({}) /\ Len(<< >>) = 0
    OBVIOUS
  <1>. QED  BY <1>1

LEMMA StoppedRecord ==
  ASSUME NEW dict, NEW why
  PROVE  [[dict |-> dict, accum_memory |-> 0, status |-> "running"] EXCEPT !.status = why]
           = [dict |-> dict, accum_memory |-> 0, status |-> why]
  OBVIOUS

\* A parser that has read nothing, or has ended, knows no slice.
LEMMA StoppedParser ==
  ASSUME NEW why \in ParserStatus \ {"pointer in dict", "erased too much"}
  PROVE  ParserOK(stop(why)) /\ ParserOK(newParser)
  <1>2. DictOK(<< >>)
    BY EmptyDomain, FS_EmptySet DEF DictOK, Disjoint
  <1>3. bytesIn(<< >>, StackFilter) = 0
    <2>1. filtered(<< >>, DOMAIN << >>, StackFilter) = {}
      BY EmptyDomain DEF filtered
    <2>2. bytesIn(<< >>, StackFilter) = SumOver(sizes(<< >>), {})
      BY <2>1, Zenon DEF bytesIn
    <2>. QED  BY <2>2, SumEmpty
  <1>4. stop(why) = [dict |-> << >>, accum_memory |-> 0, status |-> why]
    BY StoppedRecord, Zenon DEF stop, newParser
  <1>5. "running" \in ParserStatus \ {"pointer in dict", "erased too much"}
    BY DEF ParserStatus
  <1>6. \A status \in ParserStatus \ {"pointer in dict", "erased too much"} :
           ParserOK([dict |-> << >>, accum_memory |-> 0, status |-> status])
    BY <1>2, <1>3, ParserState, Zenon
  <1>. QED  BY <1>4, <1>5, <1>6, Zenon DEF newParser

LEMMA RoundUpType ==
  ASSUME NEW len \in Nat
  PROVE  round_up_page(len) \in Nat
  <1>1. PageSize \in Nat \ {0}
    BY ParserAssumption
  <1>2. (len + (PageSize - 1)) \div PageSize \in Nat
    BY <1>1
  <1>3. \A m \in Nat : m * PageSize \in Nat
    BY <1>1
  <1>. QED  BY <1>2, <1>3 DEF round_up_page

LEMMA ReplayMap ==
  ASSUME NEW state, ParserOK(state),
         NEW pointer \in Nat, NEW len \in Nat, NEW id \in Nat \ {0}
  PROVE  ParserOK(replayMap(state, pointer, len, id))
  <1>. DEFINE size == round_up_page(len)
              mapped == register_map(state.dict, pointer, size, id)
  <1>1. size \in Nat
    BY RoundUpType
  <1>. HIDE DEF size
  <1>2. CASE size = 0
    <2>1. replayMap(state, pointer, len, id) = stop("size is zero")
      BY <1>2 DEF replayMap, size
    <2>. QED  BY <2>1, StoppedParser DEF ParserStatus
  <1>3. CASE size # 0
    <2>1. DictOK(state.dict) /\ size \in Nat \ {0}
      BY <1>1, <1>3 DEF ParserOK
    <2>2. /\ asserts(state.dict, pointer, size) /\ DictOK(mapped)
          /\ bytesIn(mapped, StackFilter)
               = bytesIn(state.dict, StackFilter) + (IF id \in StackFilter THEN size ELSE 0)
                   - erasedBytes(state.dict, pointer, size, StackFilter)
      BY <2>1, MapDict
    <2>3. replayMap(state, pointer, len, id) =
            [state EXCEPT !.dict = mapped,
                          !.accum_memory = @ + (IF id \in StackFilter THEN size ELSE 0)
                            - erasedBytes(state.dict, pointer, size, StackFilter)]
      BY <1>3, <2>2 DEF replayMap, size
    <2>. HIDE DEF mapped
    <2>4. replayMap(state, pointer, len, id) =
            [dict |-> mapped, accum_memory |-> bytesIn(mapped, StackFilter), status |-> state.status]
      BY <2>2, <2>3 DEF ParserOK
    <2>5. state.status \in ParserStatus \ {"pointer in dict", "erased too much"}
      BY DEF ParserOK
    <2>. QED  BY <2>2, <2>4, <2>5, ParserState
  <1>. QED  BY <1>2, <1>3

LEMMA ReplayUnmap ==
  ASSUME NEW state, ParserOK(state), NEW pointer \in Nat, NEW len \in Nat
  PROVE  ParserOK(replayUnmap(state, pointer, len))
  <1>. DEFINE size == round_up_page(len)
              kept == register_unmap(state.dict, pointer, size)
  <1>1. size \in Nat
    BY RoundUpType
  <1>. HIDE DEF size
  <1>2. DictOK(state.dict)
    BY DEF ParserOK
  <1>3. /\ asserts(state.dict, pointer, size) /\ DictOK(kept)
        /\ \A filter : /\ erasedBytes(state.dict, pointer, size, filter) \in Nat
                       /\ bytesIn(state.dict, filter)
                            = bytesIn(kept, filter) + erasedBytes(state.dict, pointer, size, filter)
                       /\ erasedBytes(state.dict, pointer, size, filter) <= size
    BY <1>1, <1>2, UnmapDict
  <1>4. \/ replayUnmap(state, pointer, len) = stop("size is zero")
        \/ replayUnmap(state, pointer, len) = stop("nothing erased")
        \/ replayUnmap(state, pointer, len) =
             [state EXCEPT !.dict = kept,
                           !.accum_memory = @ - erasedBytes(state.dict, pointer, size, StackFilter)]
    <2>1. ~ (erasedBytes(state.dict, pointer, size, AllIds(state.dict)) > size)
      BY <1>1, <1>3
    <2>. QED  BY <1>3, <2>1 DEF replayUnmap, size
  <1>5. CASE replayUnmap(state, pointer, len) =
               [state EXCEPT !.dict = kept,
                             !.accum_memory = @ - erasedBytes(state.dict, pointer, size, StackFilter)]
    <2>. HIDE DEF kept
    <2>1. bytesIn(kept, StackFilter) \in Nat
      BY <1>3, BytesType
    <2>2. bytesIn(state.dict, StackFilter) - erasedBytes(state.dict, pointer, size, StackFilter)
            = bytesIn(kept, StackFilter)
      BY <1>3, <2>1
    <2>3. replayUnmap(state, pointer, len) =
            [dict |-> kept, accum_memory |-> bytesIn(kept, StackFilter), status |-> state.status]
      BY <1>5, <2>2 DEF ParserOK
    <2>4. state.status \in ParserStatus \ {"pointer in dict", "erased too much"}
      BY DEF ParserOK
    <2>. QED  BY <1>3, <2>3, <2>4, ParserState
  <1>. QED  BY <1>4, <1>5, StoppedParser DEF ParserStatus

\* A line of the log.
Line == [type : {"MAP"}, pointer : Nat, len : Nat, stackTraceId : Nat \ {0}]
        \cup [type : {"UNMAP"}, pointer : Nat, len : Nat] \cup [type : {"ERROR"}]

\* The parser is right after every line if it was before.
LEMMA ReplayParser ==
  ASSUME NEW state, ParserOK(state), NEW line \in Line
  PROVE  ParserOK(replay(state, line))
  <1>1. CASE state.status # "running"
    BY <1>1 DEF replay
  <1>2. CASE state.status = "running" /\ line.type = "MAP"
    <2>1. replay(state, line) = replayMap(state, line.pointer, line.len, line.stackTraceId)
      BY <1>2 DEF replay
    <2>2. line.pointer \in Nat /\ line.len \in Nat /\ line.stackTraceId \in Nat \ {0}
      BY <1>2 DEF Line
    <2>. QED  BY <2>1, <2>2, ReplayMap
  <1>3. CASE state.status = "running" /\ line.type = "UNMAP"
    <2>1. replay(state, line) = replayUnmap(state, line.pointer, line.len)
      BY <1>3 DEF replay
    <2>2. line.pointer \in Nat /\ line.len \in Nat
      BY <1>3 DEF Line
    <2>. QED  BY <2>1, <2>2, ReplayUnmap
  <1>4. CASE state.status = "running" /\ line.type = "ERROR"
    <2>1. replay(state, line) = stop("unknown line")
      BY <1>4 DEF replay, replayUnknownLine
    <2>. QED  BY <2>1, StoppedParser DEF ParserStatus
  <1>. QED  BY <1>1, <1>2, <1>3, <1>4 DEF Line

-----------------------------------------------------------------------------
(* The total and the memory of each stack trace.                           *)

memoryById(dict, ids) == [id \in ids |-> bytesIn(dict, {id})]

LEMMA MemoryByIdIsSum ==
  ASSUME NEW dict, NEW ids
  PROVE  MapThenSumSet(LAMBDA id : calculate_memory_by_stack_id(dict, id), ids)
           = SumOver(memoryById(dict, ids), ids)
  <1>. DEFINE F == memoryById(dict, ids)
              m(id) == calculate_memory_by_stack_id(dict, id)
              Q(g) == g = [T \in SUBSET ids |->
                              IF T = {} THEN 0 ELSE m(pick(T)) + g[T \ {pick(T)}]]
  <1>1. \A id \in ids : F[id] = m(id)
    BY SumOfSizesIsSum DEF memoryById, calculate_memory_by_stack_id, bytesIn
  <1>2. MapThenSumSet(LAMBDA id : calculate_memory_by_stack_id(dict, id), ids) = (CHOOSE g : Q(g))[ids]
    BY DEF MapThenSumSet, MapThenFoldSet, pick
  <1>. HIDE DEF F, m
  <1>3. \A T \in SUBSET ids : T # {} => F[pick(T)] = m(pick(T))
    BY <1>1 DEF pick
  <1>4. ASSUME NEW g PROVE AddsUp(F, ids, g) <=> Q(g)
    BY <1>3 DEF AddsUp, AddsUpOn
  <1>. HIDE DEF Q
  <1>5. (CHOOSE g : Q(g)) = (CHOOSE g : AddsUp(F, ids, g))
    BY <1>4, Zenon
  <1>6. SumOver(F, ids) = (CHOOSE g : AddsUp(F, ids, g))[ids]
    BY SumIsChoice
  <1>. QED  BY <1>2, <1>5, <1>6 DEF F

\* The slices of some ids are those of one of them and those of the others.
LEMMA BytesOfOneMoreId ==
  ASSUME NEW dict, DictOK(dict), NEW ids, NEW x, x \notin ids
  PROVE  bytesIn(dict, ids \cup {x}) = bytesIn(dict, ids) + bytesIn(dict, {x})
  <1>. DEFINE A == filtered(dict, DOMAIN dict, ids)
              B == filtered(dict, DOMAIN dict, {x})
              C == filtered(dict, DOMAIN dict, ids \cup {x})
  <1>1. C = A \cup B /\ A \cap B = {}
    BY DEF filtered
  <1>2. IsFiniteSet(A) /\ IsFiniteSet(B) /\ NaturalSummands(sizes(dict), C)
    BY FilteredSummands
  <1>3. NaturalSummands(sizes(dict), A \cup B)
    BY <1>1, <1>2, Zenon
  <1>. HIDE DEF A, B, C
  <1>4. SumOver(sizes(dict), A \cup B) = SumOver(sizes(dict), A) + SumOver(sizes(dict), B)
    BY <1>1, <1>2, <1>3, SumUnion
  <1>. QED  BY <1>1, <1>4, Zenon DEF bytesIn, A, B, C

\* The memory of the ids, added up id by id, is that of their slices.
LEMMA BytesById ==
  ASSUME NEW dict, DictOK(dict), NEW ids, IsFiniteSet(ids)
  PROVE  SumOver(memoryById(dict, ids), ids) = bytesIn(dict, ids)
  <1>. DEFINE F == memoryById(dict, ids)
              Good == {T \in SUBSET ids : SumOver(F, T) = bytesIn(dict, T)}
  <1>1. \A id \in ids : F[id] = bytesIn(dict, {id}) /\ F[id] \in Nat
    BY BytesType DEF memoryById
  <1>. HIDE DEF F
  <1>2. {} \in Good
    <2>1. filtered(dict, DOMAIN dict, {}) = {}
      BY DEF filtered
    <2>2. bytesIn(dict, {}) = SumOver(sizes(dict), {})
      BY <2>1, Zenon DEF bytesIn
    <2>. QED  BY <2>2, SumEmpty
  <1>3. ASSUME NEW T \in SUBSET ids, NEW x \in ids \ T, T \in Good PROVE T \cup {x} \in Good
    <2>1. IsFiniteSet(T) /\ NaturalSummands(F, T) /\ F[x] \in Nat /\ x \notin T
      BY <1>1, FS_Subset DEF NaturalSummands
    <2>2. SumOver(F, T \cup {x}) = SumOver(F, T) + F[x]
      BY <2>1, SumAdd
    <2>3. bytesIn(dict, T \cup {x}) = bytesIn(dict, T) + bytesIn(dict, {x})
      BY <2>1, BytesOfOneMoreId
    <2>4. SumOver(F, T) = bytesIn(dict, T) /\ F[x] = bytesIn(dict, {x})
      BY <1>1, <1>3
    <2>5. SumOver(F, T \cup {x}) = bytesIn(dict, T \cup {x})
      BY <2>2, <2>3, <2>4
    <2>. QED  BY <2>5
  <1>4. ids \in Good
    <2>. HIDE DEF Good
    <2>. QED  BY <1>2, <1>3, SubsetInduction
  <1>. QED  BY <1>4 DEF F

\* What the two reports agree on, from the parser's invariant.
LEMMA ParserTotals ==
  ASSUME ParserOK(parser)
  PROVE  TotalIsSumOfSlices
  <1>. DEFINE dict == parser.dict
              ids == AllIds(dict) \cap StackFilter
  <1>1. DictOK(dict)
    BY DEF ParserOK
  <1>2. IsFiniteSet(ids)
    <2>1. IsFiniteSet(AllIds(dict))
      <3>. DEFINE idOf == [k \in DOMAIN dict |-> dict[k].stack_trace_id]
      <3>1. AllIds(dict) = {idOf[k] : k \in DOMAIN dict}
        BY DEF AllIds
      <3>. HIDE DEF idOf, dict
      <3>2. IsFiniteSet({idOf[k] : k \in DOMAIN dict})
        BY <1>1, FiniteImage DEF DictOK
      <3>. QED  BY <3>1, <3>2, Zenon
    <2>. QED  BY <2>1, FS_Intersection
  <1>3. bytesIn(dict, ids) = bytesIn(dict, StackFilter)
    <2>1. filtered(dict, DOMAIN dict, ids) = filtered(dict, DOMAIN dict, StackFilter)
      BY DEF filtered, AllIds
    <2>. QED  BY <2>1, Zenon DEF bytesIn
  <1>4. MapThenSumSet(LAMBDA id : calculate_memory_by_stack_id(dict, id), ids) = bytesIn(dict, ids)
    <2>. HIDE DEF ids, dict
    <2>. QED  BY <1>1, <1>2, MemoryByIdIsSum, BytesById
  <1>5. parser.accum_memory = MapThenSumSet(LAMBDA id : calculate_memory_by_stack_id(dict, id), ids)
    BY <1>3, <1>4 DEF ParserOK
  <1>. QED  BY <1>5 DEF TotalIsSumOfSlices

-----------------------------------------------------------------------------
(* The map of known slices.                                                *)

Allocation == [id : 0..MaxCalls, stackTrace : StackTrace]

MapSlice == [size : Nat, allocation : Allocation]

MapOK(map) ==
    /\ IsFiniteSet(DOMAIN map) /\ DOMAIN map \subseteq Address
    /\ \A k \in DOMAIN map : map[k] \in MapSlice

\* The slice at c is cut in two at p.
MapCutAt(map, c, p) ==
    [k \in DOMAIN map \cup {p} |->
        IF k = c THEN [size |-> p - c, allocation |-> map[c].allocation]
        ELSE IF k = p THEN [size |-> c + map[c].size - p, allocation |-> map[c].allocation]
        ELSE map[k]]

\* splitAt() cuts a slice that goes on across the pointer.  If slices do not
\* overlap, there is none left.
LEMMA SplitAtCases ==
  ASSUME NEW map, MapOK(map), NEW p \in Nat
  PROVE  \/ splitAt(map, p) = map /\ (Disjoint(map) => NoneAcross(map, p))
         \/ \E c \in DOMAIN map : Across(map, c, p) /\ p \notin DOMAIN map
                                  /\ splitAt(map, p) = MapCutAt(map, c, p)
  <1>. DEFINE before == {k \in DOMAIN map : k <= p}
              c == Max(before)
              parts == [k \in {c, p} |->
                          [map[c] EXCEPT !.size = IF k = c THEN p - c ELSE c + @ - p]]
              cut == [k \in DOMAIN map \cup {p} |-> IF k \in DOMAIN parts THEN parts[k] ELSE map[k]]
  <1>0. \A k \in DOMAIN map : k \in Int /\ map[k].size \in Nat
    BY DEF MapOK, Address, MAP_FAILED, MapSlice
  <1>1. CASE before = {}
    <2>1. splitAt(map, p) = map
      BY <1>1 DEF splitAt
    <2>2. NoneAcross(map, p)
      BY <1>0, <1>1 DEF NoneAcross
    <2>. QED  BY <2>1, <2>2
  <1>2. CASE before # {}
    <2>1. c \in before /\ \A k \in before : k <= c
      <3>1. p \in Int /\ \A k \in before : k \in Int /\ k <= p
        BY <1>0
      <3>. HIDE DEF before
      <3>. QED  BY <1>2, <3>1, MaxOfBounded
    <2>2. c \in DOMAIN map /\ c \in Int /\ c <= p /\ map[c] \in MapSlice
      BY <1>0, <2>1 DEF MapOK
    <2>3. splitAt(map, p) = IF before = {} \/ p = c \/ ~ inSlice(map, c, p) THEN map ELSE cut
      BY DEF splitAt
    <2>. HIDE DEF c
    <2>4. CASE p = c \/ ~ inSlice(map, c, p)
      <3>1. splitAt(map, p) = map
        BY <2>3, <2>4, Zenon
      <3>2. ASSUME Disjoint(map) PROVE NoneAcross(map, p)
        <4>. SUFFICES ASSUME NEW k \in DOMAIN map, k < p PROVE k + map[k].size <= p
          BY DEF NoneAcross
        <4>1. k <= c /\ k \in Int /\ map[k].size \in Nat
          BY <1>0, <2>1
        <4>2. k < c => k + map[k].size <= c
          BY <2>2, <3>2 DEF Disjoint
        <4>3. k = c => k + map[k].size <= p
          BY <2>2, <2>4, <4>1 DEF inSlice
        <4>. QED  BY <2>2, <4>1, <4>2, <4>3
      <3>. QED  BY <3>1, <3>2
    <2>5. CASE p # c /\ inSlice(map, c, p)
      <3>1. Across(map, c, p)
        BY <2>2, <2>5 DEF Across, inSlice
      <3>2. p \notin DOMAIN map
        BY <2>1, <2>2, <2>5
      <3>3. splitAt(map, p) = cut
        BY <1>2, <2>3, <2>5, Zenon
      <3>4. /\ parts[c] = [size |-> p - c, allocation |-> map[c].allocation]
            /\ parts[p] = [size |-> c + map[c].size - p, allocation |-> map[c].allocation]
            /\ DOMAIN parts = {c, p}
        BY <2>2, <2>5 DEF MapSlice
      <3>. HIDE DEF parts
      <3>5. cut = MapCutAt(map, c, p)
        BY <2>5, <3>4 DEF MapCutAt
      <3>. QED  BY <2>2, <3>1, <3>2, <3>3, <3>5
    <2>. QED  BY <2>4, <2>5
  <1>. QED  BY <1>1, <1>2

\* splitAt() keeps the types and the allocations, overlaps or not.
LEMMA SplitAtKeeps ==
  ASSUME NEW map, MapOK(map), NEW p \in Nat
  PROVE  LET split == splitAt(map, p) IN
         /\ MapOK(split) /\ allocationsIn(split) = allocationsIn(map)
         /\ DOMAIN map \subseteq DOMAIN split
  <1>1. CASE splitAt(map, p) = map
    BY <1>1
  <1>2. ASSUME NEW c \in DOMAIN map, Across(map, c, p), p \notin DOMAIN map,
               splitAt(map, p) = MapCutAt(map, c, p)
        PROVE  LET split == splitAt(map, p) IN
               /\ MapOK(split) /\ allocationsIn(split) = allocationsIn(map)
               /\ DOMAIN map \subseteq DOMAIN split
    <2>. DEFINE cut == MapCutAt(map, c, p)
    <2>0. c \in Int /\ map[c] \in MapSlice /\ c < p /\ p < c + map[c].size
      BY <1>2 DEF MapOK, Across, Address, MAP_FAILED
    <2>1. DOMAIN cut = DOMAIN map \cup {p}
      BY DEF MapCutAt
    <2>2. /\ cut[c] = [size |-> p - c, allocation |-> map[c].allocation]
          /\ cut[p] = [size |-> c + map[c].size - p, allocation |-> map[c].allocation]
          /\ \A k \in DOMAIN map \ {c} : cut[k] = map[k]
      BY <1>2, <2>0 DEF MapCutAt
    <2>. HIDE DEF cut
    <2>3. IsFiniteSet(DOMAIN cut) /\ DOMAIN cut \subseteq Address
      BY <2>1, FS_AddElement DEF MapOK, Address
    <2>4. \A k \in DOMAIN cut : cut[k] \in MapSlice
      BY <2>0, <2>1, <2>2 DEF MapOK, MapSlice
    <2>5. allocationsIn(cut) = allocationsIn(map)
      <3>1. \A k \in DOMAIN cut : \E l \in DOMAIN map : cut[k].allocation = map[l].allocation
        BY <2>1, <2>2
      <3>2. \A l \in DOMAIN map : l \in DOMAIN cut /\ cut[l].allocation = map[l].allocation
        BY <2>1, <2>2
      <3>. QED  BY <3>1, <3>2 DEF allocationsIn
    <2>6. DOMAIN map \subseteq DOMAIN cut
      BY <2>1
    <2>. QED  BY <1>2, <2>3, <2>4, <2>5, <2>6 DEF MapOK, cut
  <1>. QED  BY <1>1, <1>2, SplitAtCases

\* registerUnmap() keeps the types and brings no allocation.
LEMMA RegisterUnmapKeeps ==
  ASSUME NEW map, MapOK(map), NEW start \in Nat, NEW size \in Nat
  PROVE  LET unmapped == registerUnmap(map, start, size).map IN
         MapOK(unmapped) /\ allocationsIn(unmapped) \subseteq allocationsIn(map)
  <1>. DEFINE first == splitAt(map, start)
              split == splitAt(first, start + size)
              erased == {k \in DOMAIN split : start <= k /\ k < start + size}
              unmapped == [k \in DOMAIN split \ erased |-> split[k]]
  <1>1. MapOK(first) /\ allocationsIn(first) = allocationsIn(map)
    BY SplitAtKeeps
  <1>. HIDE DEF first
  <1>2. MapOK(split) /\ allocationsIn(split) = allocationsIn(first)
    BY <1>1, SplitAtKeeps
  <1>3. registerUnmap(map, start, size).map = unmapped
    BY DEF registerUnmap, Restrict, first
  <1>. HIDE DEF split
  <1>4. DOMAIN unmapped \subseteq DOMAIN split /\ \A k \in DOMAIN unmapped : unmapped[k] = split[k]
    OBVIOUS
  <1>. HIDE DEF unmapped
  <1>5. MapOK(unmapped)
    BY <1>2, <1>4, FS_Subset DEF MapOK
  <1>6. allocationsIn(unmapped) \subseteq allocationsIn(split)
    BY <1>4 DEF allocationsIn
  <1>. QED  BY <1>1, <1>2, <1>3, <1>5, <1>6

-----------------------------------------------------------------------------
(* The interned stack traces.                                              *)

tracesOf(allocations) == {a.stackTrace : a \in allocations}

withTrace(allocations, s) == {a \in allocations : a.stackTrace = s}

\* The table as it should be: the table and every mapping hold their trace.
tableOf(allocations) ==
    [s \in tracesOf(allocations) |-> 1 + Cardinality(withTrace(allocations, s))]

LEMMA TableCounts ==
  ASSUME NEW A, IsFiniteSet(A), NEW s
  PROVE  /\ IsFiniteSet(withTrace(A, s)) /\ Cardinality(withTrace(A, s)) \in Nat
         /\ s \in tracesOf(A) <=> Cardinality(withTrace(A, s)) >= 1
  <1>1. IsFiniteSet(withTrace(A, s)) /\ Cardinality(withTrace(A, s)) \in Nat
    <2>1. withTrace(A, s) \subseteq A
      BY DEF withTrace
    <2>. QED  BY <2>1, FS_Subset, FS_CardinalityType
  <1>2. s \in tracesOf(A) <=> withTrace(A, s) # {}
    BY DEF tracesOf, withTrace
  <1>3. withTrace(A, s) = {} <=> Cardinality(withTrace(A, s)) = 0
    BY <1>1, FS_EmptySet
  <1>. QED  BY <1>1, <1>2, <1>3

\* One mapping less: its trace is held once less, or gone from the table.
LEMMA DestroyOne ==
  ASSUME NEW A, IsFiniteSet(A), NEW a \in A
  PROVE  destroy(tableOf(A), a.stackTrace) = tableOf(A \ {a})
  <1>. DEFINE s == a.stackTrace
              n == Cardinality(withTrace(A, s))
  <1>1. n \in Nat /\ n >= 1 /\ IsFiniteSet(withTrace(A, s)) /\ s \in tracesOf(A)
    BY TableCounts DEF tracesOf
  <1>2. tableOf(A)[s] = 1 + n
    BY <1>1 DEF tableOf
  <1>3. withTrace(A \ {a}, s) = withTrace(A, s) \ {a} /\ a \in withTrace(A, s)
    BY DEF withTrace
  <1>4. Cardinality(withTrace(A \ {a}, s)) = n - 1
    <2>1. PICK W : W = withTrace(A, s)
      OBVIOUS
    <2>2. IsFiniteSet(W) /\ a \in W
      BY <1>1, <1>3, <2>1, Zenon
    <2>3. Cardinality(W \ {a}) = Cardinality(W) - 1
      BY ONLY <2>2, FS_RemoveElement, Zenon
    <2>. QED  BY <1>3, <2>1, <2>3, Zenon
  <1>5. \A u \in tracesOf(A) : u # s => withTrace(A \ {a}, u) = withTrace(A, u)
    BY DEF withTrace
  <1>6. IsFiniteSet(A \ {a})
    BY FS_RemoveElement
  <1>7. \A u : u # s => (u \in tracesOf(A \ {a}) <=> u \in tracesOf(A))
    BY DEF tracesOf
  <1>8. s \in tracesOf(A \ {a}) <=> n - 1 >= 1
    BY <1>4, <1>6, TableCounts
  <1>. HIDE DEF s, n
  <1>9. CASE n = 1
    <2>1. tracesOf(A \ {a}) = tracesOf(A) \ {s}
      BY <1>7, <1>8, <1>9
    <2>2. destroy(tableOf(A), s) = [u \in tracesOf(A) \ {s} |-> tableOf(A)[u]]
      BY <1>2, <1>9 DEF destroy, tableOf
    <2>3. \A u \in tracesOf(A) \ {s} : tableOf(A)[u] = 1 + Cardinality(withTrace(A \ {a}, u))
      BY <1>5 DEF tableOf
    <2>. QED  BY <2>1, <2>2, <2>3 DEF tableOf, s
  <1>10. CASE n # 1
    <2>1. tracesOf(A \ {a}) = tracesOf(A)
      BY <1>1, <1>7, <1>8, <1>10
    <2>2. destroy(tableOf(A), s) = [u \in tracesOf(A) |-> IF u = s THEN n ELSE tableOf(A)[u]]
      <3>1. DOMAIN tableOf(A) \cup {s} = tracesOf(A)
        BY <1>1 DEF tableOf
      <3>2. destroy(tableOf(A), s) = withCount(tableOf(A), s, n)
        <4>1. tableOf(A)[s] # 2 /\ tableOf(A)[s] - 1 = n
          BY <1>1, <1>2, <1>10
        <4>. QED  BY <4>1 DEF destroy
      <3>. QED  BY <3>1, <3>2, Zenon DEF withCount
    <2>3. \A u \in tracesOf(A) :
             (IF u = s THEN n ELSE tableOf(A)[u]) = 1 + Cardinality(withTrace(A \ {a}, u))
      BY <1>1, <1>4, <1>5 DEF tableOf
    <2>. QED  BY <2>1, <2>2, <2>3 DEF tableOf, s
  <1>. QED  BY <1>9, <1>10

\* h folds destroy() over each set of D.
FoldsDestroy(table, D, h) ==
    h = [T \in SUBSET D |-> IF T = {} THEN table ELSE destroy(h[T \ {pick(T)}], pick(T).stackTrace)]

\* Several mappings less, in whatever order they go.
LEMMA DestroyMany ==
  ASSUME NEW A, IsFiniteSet(A), NEW D, D \subseteq A
  PROVE  FoldSet(LAMBDA a, table : destroy(table, a.stackTrace), tableOf(A), D) = tableOf(A \ D)
  <1>. DEFINE f == [T \in SUBSET D |-> tableOf(A \ T)]
              g == CHOOSE h : FoldsDestroy(tableOf(A), D, h)
  <1>1. ASSUME NEW T \in SUBSET D, T # {}
        PROVE  destroy(tableOf(A \ (T \ {pick(T)})), pick(T).stackTrace) = tableOf(A \ T)
    <2>. DEFINE B == A \ (T \ {pick(T)})
    <2>1. pick(T) \in T
      BY <1>1 DEF pick
    <2>2. IsFiniteSet(B) /\ pick(T) \in B /\ B \ {pick(T)} = A \ T
      BY <2>1, FS_Subset
    <2>. HIDE DEF B
    <2>3. destroy(tableOf(B), pick(T).stackTrace) = tableOf(B \ {pick(T)})
      BY <2>2, DestroyOne
    <2>. QED  BY <2>2, <2>3, Zenon DEF B
  <1>2. FoldsDestroy(tableOf(A), D, f)
    <2>1. \A T \in SUBSET D : T \ {pick(T)} \in SUBSET D
      OBVIOUS
    <2>2. A \ {} = A
      OBVIOUS
    <2>3. \A T \in SUBSET D : tableOf(A \ T) =
             IF T = {} THEN tableOf(A) ELSE destroy(f[T \ {pick(T)}], pick(T).stackTrace)
      BY <1>1, <2>1, <2>2
    <2>. QED  BY <2>3 DEF FoldsDestroy
  <1>. HIDE DEF f
  <1>3. FoldsDestroy(tableOf(A), D, g)
    BY <1>2, Zenon
  <1>4. FoldSet(LAMBDA a, table : destroy(table, a.stackTrace), tableOf(A), D) = g[D]
    BY DEF FoldSet, MapThenFoldSet, FoldsDestroy, pick
  <1>. HIDE DEF g
  <1>5. D \in {T \in SUBSET D : g[T] = tableOf(A \ T)}
    <2>. DEFINE Good == {T \in SUBSET D : g[T] = tableOf(A \ T)}
    <2>1. ASSUME NEW T \in SUBSET D, \A U \in SUBSET T : U # T => U \in Good
          PROVE  T \in Good
      <3>1. g[T] = IF T = {} THEN tableOf(A) ELSE destroy(g[T \ {pick(T)}], pick(T).stackTrace)
        BY <1>3 DEF FoldsDestroy
      <3>2. CASE T = {}
        <4>1. A \ T = A
          BY <3>2
        <4>. QED  BY <3>1, <3>2, <4>1
      <3>3. CASE T # {}
        <4>1. T \ {pick(T)} \in Good
          <5>1. pick(T) \in T
            BY <3>3 DEF pick
          <5>. QED  BY <2>1, <5>1
        <4>2. g[T \ {pick(T)}] = tableOf(A \ (T \ {pick(T)}))
          BY <4>1
        <4>3. g[T] = tableOf(A \ T)
          BY <1>1, <3>1, <3>3, <4>2, Zenon
        <4>. QED  BY <4>3
      <3>. QED  BY <3>2, <3>3
    <2>2. IsFiniteSet(D)
      BY FS_Subset
    <2>. HIDE DEF Good
    <2>3. SUBSET D \subseteq Good
      BY <2>1, <2>2, ProperSubsetInduction
    <2>. QED  BY <2>3 DEF Good
  <1>. QED  BY <1>4, <1>5

\* A new mapping: the local allocation and the one of the slice are interned, the
\* local one is destroyed, and so is the other if insert() did not take it.
LEMMA InternOneMore ==
  ASSUME NEW A, IsFiniteSet(A), NEW a, a \notin A, s_stackTraces = tableOf(A)
  PROVE  /\ stackTracesAfterMap(a.stackTrace, TRUE) = tableOf(A \cup {a})
         /\ stackTracesAfterMap(a.stackTrace, FALSE) = tableOf(A)
  <1>. DEFINE s == a.stackTrace
              n == Cardinality(withTrace(A, s))
              table == tableOf(A)
              dom == tracesOf(A) \cup {s}
              with(c) == [u \in dom |-> IF u = s THEN c ELSE table[u]]
  <1>1. n \in Nat /\ IsFiniteSet(withTrace(A, s)) /\ (s \in tracesOf(A) <=> n >= 1)
    BY TableCounts
  <1>2. DOMAIN table = tracesOf(A) /\ (s \in tracesOf(A) => table[s] = 1 + n)
    BY DEF tableOf
  <1>3. intern(table, s) = with(n + 2)
    <2>1. (IF s \in DOMAIN table THEN table[s] + 1 ELSE 2) = n + 2
      BY <1>1, <1>2
    <2>. QED  BY <1>2, <2>1, Zenon DEF intern, withCount
  <1>4. \A c : DOMAIN with(c) = dom /\ with(c)[s] = c /\ \A u \in dom : u # s => with(c)[u] = table[u]
    OBVIOUS
  <1>5. \A c, d : withCount(with(c), s, d) = with(d)
    <2>. TAKE c, d
    <2>1. DOMAIN with(c) \cup {s} = dom
      BY <1>4
    <2>2. withCount(with(c), s, d) = [u \in dom |-> IF u = s THEN d ELSE with(c)[u]]
      BY <2>1, Zenon DEF withCount
    <2>. QED  BY <2>2
  <1>. HIDE DEF with
  <1>6. copy(intern(table, s), s) = with(n + 3)
    <2>1. with(n + 2)[s] + 1 = n + 3
      BY <1>1, <1>4
    <2>. QED  BY <1>3, <1>5, <2>1, Zenon DEF copy
  <1>7. destroy(with(n + 3), s) = with(n + 2)
    <2>1. with(n + 3)[s] # 2 /\ with(n + 3)[s] - 1 = n + 2
      BY <1>1, <1>4
    <2>. QED  BY <1>5, <2>1, Zenon DEF destroy
  <1>8. destroy(with(n + 2), s) = table
    <2>1. CASE n = 0
      <3>1. DOMAIN with(n + 2) \ {s} = tracesOf(A) /\ \A u \in tracesOf(A) : with(n + 2)[u] = table[u]
        BY <1>1, <1>4, <2>1
      <3>2. with(n + 2)[s] = 2
        BY <1>4, <2>1
      <3>3. destroy(with(n + 2), s) = [u \in tracesOf(A) |-> with(n + 2)[u]]
        BY <3>1, <3>2, Zenon DEF destroy
      <3>4. table = [u \in tracesOf(A) |-> table[u]]
        BY DEF tableOf
      <3>. QED  BY <3>1, <3>3, <3>4
    <2>2. CASE n # 0
      <3>1. with(n + 2)[s] # 2 /\ with(n + 2)[s] - 1 = n + 1
        BY <1>1, <1>4, <2>2
      <3>2. destroy(with(n + 2), s) = with(n + 1)
        BY <1>5, <3>1, Zenon DEF destroy
      <3>3. dom = tracesOf(A) /\ table[s] = n + 1
        BY <1>1, <1>2, <2>2
      <3>4. table = [u \in tracesOf(A) |-> table[u]]
        BY DEF tableOf
      <3>. HIDE DEF table
      <3>5. with(n + 1) = table
        BY <3>3, <3>4 DEF with
      <3>. QED  BY <3>2, <3>5
    <2>. QED  BY <2>1, <2>2
  <1>9. with(n + 2) = tableOf(A \cup {a})
    <2>1. tracesOf(A \cup {a}) = dom
      BY DEF tracesOf
    <2>2. withTrace(A \cup {a}, s) = withTrace(A, s) \cup {a} /\ a \notin withTrace(A, s)
      BY DEF withTrace
    <2>3. Cardinality(withTrace(A \cup {a}, s)) = n + 1
      BY <1>1, <2>2, FS_AddElement
    <2>4. \A u \in dom : u # s => withTrace(A \cup {a}, u) = withTrace(A, u) /\ u \in tracesOf(A)
      BY DEF withTrace
    <2>5. \A u \in dom : (IF u = s THEN n + 2 ELSE table[u]) = 1 + Cardinality(withTrace(A \cup {a}, u))
      BY <1>1, <2>3, <2>4 DEF tableOf
    <2>. QED  BY <2>1, <2>5 DEF tableOf, with
  <1>. HIDE DEF table, n, s
  <1>10. s_stackTraces = table
    BY DEF table
  <1>11. stackTracesAfterMap(s, TRUE) = with(n + 2)
    BY <1>6, <1>7, <1>10, Zenon DEF stackTracesAfterMap
  <1>12. stackTracesAfterMap(s, FALSE) = table
    BY <1>6, <1>7, <1>8, <1>10, Zenon DEF stackTracesAfterMap
  <1>. QED  BY <1>9, <1>11, <1>12 DEF s, table

\* The table holds what the property says.
LEMMA TableIsRight ==
  ASSUME IsFiniteSet(allocationsIn(memoryMap)), s_stackTraces = tableOf(allocationsIn(memoryMap))
  PROVE  /\ TracesOfLiveMappings
         /\ \A s \in DOMAIN s_stackTraces : s_stackTraces[s] \in Nat
  <1>. DEFINE A == allocationsIn(memoryMap)
  <1>1. DOMAIN s_stackTraces = tracesOf(A)
    BY DEF tableOf
  <1>2. ASSUME NEW s \in tracesOf(A)
        PROVE  /\ s_stackTraces[s] = 1 + Cardinality(withTrace(A, s))
               /\ s_stackTraces[s] \in Nat /\ s_stackTraces[s] >= 2
    <2>1. s_stackTraces[s] = 1 + Cardinality(withTrace(A, s))
      BY DEF tableOf
    <2>2. Cardinality(withTrace(A, s)) \in Nat /\ Cardinality(withTrace(A, s)) >= 1
      BY TableCounts
    <2>. QED  BY <2>1, <2>2
  <1>. QED  BY <1>1, <1>2 DEF TracesOfLiveMappings, mayDestroy, tracesOf, withTrace

-----------------------------------------------------------------------------
(* Pages.                                                                  *)

\* What the proofs need of products with the page size.
LEMMA Products ==
  ASSUME NEW i \in Nat, NEW j \in Nat
  PROVE  /\ i * PageSize \in Nat
         /\ (i + j) * PageSize = i * PageSize + j * PageSize
         /\ i < j <=> i * PageSize < j * PageSize
         /\ (i + 1) * PageSize = i * PageSize + PageSize
  <1>1. PageSize \in Nat /\ PageSize > 0
    BY ParserAssumption
  <1>2. i < j => i * PageSize < j * PageSize
    BY <1>1
  <1>3. j <= i => j * PageSize <= i * PageSize
    BY <1>1
  <1>4. i * PageSize \in Nat /\ j * PageSize \in Nat
    BY <1>1
  <1>5. i < j <=> i * PageSize < j * PageSize
    BY <1>2, <1>3, <1>4
  <1>. QED  BY <1>1, <1>4, <1>5

LEMMA PageType == \A p \in Page : p \in Nat /\ LowestPage <= p /\ p < EndOfMemory
  <1>. SUFFICES ASSUME NEW i \in 0..(PageCount - 1)
                PROVE  /\ LowestPage + i * PageSize \in Nat
                       /\ LowestPage <= LowestPage + i * PageSize
                       /\ LowestPage + i * PageSize < EndOfMemory
    BY DEF Page
  <1>1. i \in Nat /\ PageCount \in Nat /\ i < PageCount /\ LowestPage \in Nat
    BY MmapAssumption
  <1>2. i * PageSize \in Nat /\ PageCount * PageSize \in Nat /\ i * PageSize < PageCount * PageSize
    BY <1>1, Products
  <1>. QED  BY <1>1, <1>2 DEF EndOfMemory

\* Rounding up goes to the next page boundary and reaches no further page.
LEMMA RoundUp ==
  ASSUME NEW start \in Page, NEW len \in Nat, len > 0, start + len <= EndOfMemory
  PROVE  LET size == round_up_page(len) IN
         /\ size \in Nat /\ len <= size
         /\ start + size \in Page \cup {EndOfMemory} /\ start + size <= EndOfMemory
         /\ PagesIn(start, size) = PagesIn(start, len)
  <1>. DEFINE m == (len + (PageSize - 1)) \div PageSize
  <1>1. PageSize \in Nat /\ PageSize > 0 /\ LowestPage \in Nat /\ PageCount \in Nat
    BY ParserAssumption, MmapAssumption
  <1>2. m \in Nat
    BY <1>1
  <1>3. len <= m * PageSize /\ m * PageSize < len + PageSize
    <2>1. \A x \in Nat : (x \div PageSize) * PageSize <= x /\ x < (x \div PageSize) * PageSize + PageSize
      BY <1>1
    <2>2. len + (PageSize - 1) \in Nat
      BY <1>1
    <2>3. m * PageSize <= len + (PageSize - 1) /\ len + (PageSize - 1) < m * PageSize + PageSize
      BY <2>1, <2>2
    <2>4. m * PageSize \in Nat
      BY <1>2, Products
    <2>. HIDE DEF m
    <2>. QED  BY <1>1, <2>3, <2>4
  <1>4. round_up_page(len) = m * PageSize
    BY DEF round_up_page
  <1>. HIDE DEF m
  <1>5. PICK i \in 0..(PageCount - 1) : start = LowestPage + i * PageSize
    BY DEF Page
  <1>6. /\ i \in Nat /\ m * PageSize \in Nat /\ i * PageSize \in Nat
        /\ (i + m) * PageSize = i * PageSize + m * PageSize
        /\ start + m * PageSize = LowestPage + (i + m) * PageSize
    BY <1>1, <1>2, <1>5, Products
  <1>7. i + m <= PageCount
    <2>1. (PageCount + 1) * PageSize = PageCount * PageSize + PageSize /\ PageCount * PageSize \in Nat
      BY <1>1, Products
    <2>2. (i + m) * PageSize < (PageCount + 1) * PageSize
      BY <1>1, <1>3, <1>5, <1>6, <2>1 DEF EndOfMemory
    <2>3. i + m < PageCount + 1
      BY <1>1, <1>2, <1>6, <2>2, Products
    <2>. QED  BY <1>1, <1>2, <1>6, <2>3
  <1>8. start + m * PageSize \in Page \cup {EndOfMemory}
    <2>1. CASE i + m = PageCount
      BY <1>6, <2>1 DEF EndOfMemory
    <2>2. CASE i + m < PageCount
      <3>1. i + m \in 0..(PageCount - 1)
        BY <1>1, <1>2, <1>6, <2>2
      <3>. QED  BY <1>6, <3>1 DEF Page
    <2>. QED  BY <1>1, <1>2, <1>6, <1>7, <2>1, <2>2
  <1>9. start + m * PageSize <= EndOfMemory
    <2>1. EndOfMemory \in Nat
      BY <1>1, Products DEF EndOfMemory
    <2>. QED  BY <1>8, <2>1, PageType
  <1>10. ASSUME NEW p \in Page, start <= p, p < start + m * PageSize
         PROVE  p < start + len
    <2>1. PICK j \in 0..(PageCount - 1) : p = LowestPage + j * PageSize
      BY DEF Page
    <2>2. j \in Nat /\ j * PageSize \in Nat /\ (j + 1) * PageSize = j * PageSize + PageSize
      BY <1>1, <2>1, Products
    <2>3. j * PageSize < (i + m) * PageSize
      BY <1>1, <1>6, <1>10, <2>1, <2>2
    <2>4. j < i + m
      BY <1>2, <1>6, <2>2, <2>3, Products
    <2>5. (j + 1) * PageSize <= (i + m) * PageSize
      <3>1. j + 1 = i + m \/ j + 1 < i + m
        BY <1>2, <1>6, <2>2, <2>4
      <3>2. j + 1 < i + m => (j + 1) * PageSize < (i + m) * PageSize
        BY <1>2, <1>6, <2>2, Products
      <3>3. j + 1 = i + m => (j + 1) * PageSize = (i + m) * PageSize
        BY Zenon
      <3>4. PICK x, y \in Nat : x = (j + 1) * PageSize /\ y = (i + m) * PageSize
        <4>1. (j + 1) * PageSize \in Nat /\ (i + m) * PageSize \in Nat
          BY <1>1, <1>6, <2>2
        <4>. QED  BY <4>1, Zenon
      <3>5. x <= y
        BY <3>1, <3>2, <3>3, <3>4
      <3>. QED  BY <3>4, <3>5
    <2>. QED  BY <1>1, <1>3, <1>5, <1>6, <2>1, <2>2, <2>5
  <1>11. start \in Nat
    BY PageType
  <1>12. PagesIn(start, m * PageSize) = PagesIn(start, len)
    <2>1. \A p \in Page : start <= p /\ p < start + m * PageSize <=> start <= p /\ p < start + len
      BY <1>3, <1>6, <1>10, <1>11, PageType
    <2>. QED  BY <2>1 DEF PagesIn
  <1>. QED  BY <1>3, <1>4, <1>6, <1>8, <1>9, <1>12

\* A size that is kept in a uint32_t.
LEMMA RoundUpModulo ==
  ASSUME NEW len \in Nat
  PROVE  /\ roundUpToPageMultiple(len) \in Nat /\ roundUpToPageMultiple(len) < UIntModulus
         /\ ~ isWide(len) => roundUpToPageMultiple(len) = round_up_page(len)
  <1>1. round_up_page(len) \in Nat /\ UIntModulus \in Nat \ {0}
    BY RoundUpType, MmapAssumption
  <1>. QED  BY <1>1 DEF roundUpToPageMultiple, isWide

-----------------------------------------------------------------------------
(* The invariant that holds whatever the process does.                     *)

Busy == {t \in Thread : call[t] # NoCall}

\* The real call of the thread succeeded and is not noted yet.
inFlight(t) ==
    \/ call[t].type = "mmap" /\ call[t].start # MAP_FAILED
    \/ call[t].type = "munmap" /\ call[t].ret = 0

VariableTypes ==
    /\ kernel \in [Page -> {"free", "anonymous", "file"}]
    /\ MapOK(memoryMap)
    /\ IsFiniteSet(DOMAIN knownStackTraceHashToId) /\ DOMAIN knownStackTraceHashToId \subseteq StackTrace
    /\ \A s \in DOMAIN knownStackTraceHashToId : knownStackTraceHashToId[s] \in Nat \ {0}
    /\ call \in [Thread -> {NoCall} \cup MmapCall \cup MunmapCall]
    /\ calls \in 0..MaxCalls /\ disturbed \in BOOLEAN

\* Every mapping known, and every call being made, was counted: so there is
\* always a number left for a new mapping.
CallsCounted ==
    /\ IsFiniteSet(Busy)
    /\ Cardinality(allocationsIn(memoryMap)) + Cardinality(Busy) <= calls

Inv ==
    /\ VariableTypes
    /\ ParserOK(parser)
    /\ s_stackTraces = tableOf(allocationsIn(memoryMap))
    /\ CallsCounted
    /\ \A t \in Thread : inFlight(t) => fits(call[t].start, call[t].len)

LEMMA FiniteAllocations ==
  ASSUME NEW map, MapOK(map)
  PROVE  /\ IsFiniteSet(allocationsIn(map)) /\ Cardinality(allocationsIn(map)) \in Nat
         /\ allocationsIn(map) \subseteq Allocation
  <1>. DEFINE f == [k \in DOMAIN map |-> map[k].allocation]
  <1>1. allocationsIn(map) = {f[k] : k \in DOMAIN map}
    BY DEF allocationsIn
  <1>. HIDE DEF f
  <1>2. IsFiniteSet({f[k] : k \in DOMAIN map})
    BY FiniteImage DEF MapOK
  <1>3. IsFiniteSet(allocationsIn(map))
    BY <1>1, <1>2, Zenon
  <1>4. allocationsIn(map) \subseteq Allocation
    BY DEF allocationsIn, MapOK, MapSlice
  <1>. QED  BY <1>3, <1>4, FS_CardinalityType

\* What it says of the properties.
LEMMA InvImplies == Inv => TypeOK /\ ParserSlicesDisjoint /\ TotalIsSumOfSlices /\ TracesOfLiveMappings
  <1>. SUFFICES ASSUME Inv
                PROVE  TypeOK /\ ParserSlicesDisjoint /\ TotalIsSumOfSlices /\ TracesOfLiveMappings
    OBVIOUS
  <1>1. MapOK(memoryMap) /\ ParserOK(parser) /\ s_stackTraces = tableOf(allocationsIn(memoryMap))
    BY DEF Inv, VariableTypes
  <1>2. IsFiniteSet(allocationsIn(memoryMap)) /\ allocationsIn(memoryMap) \subseteq Allocation
    BY <1>1, FiniteAllocations
  <1>3. TracesOfLiveMappings /\ \A s \in DOMAIN s_stackTraces : s_stackTraces[s] \in Nat
    BY <1>1, <1>2, TableIsRight
  <1>4. DOMAIN s_stackTraces \subseteq StackTrace
    BY <1>2, <1>3 DEF TracesOfLiveMappings, Allocation
  <1>5. TotalIsSumOfSlices
    BY <1>1, ParserTotals
  <1>6. ParserSlicesDisjoint
    BY <1>1 DEF ParserSlicesDisjoint, ParserOK, DictOK, Disjoint
  <1>7. /\ DOMAIN parser.dict \subseteq Nat
        /\ \A k \in DOMAIN parser.dict :
              parser.dict[k] \in [size : Nat \ {0}, stack_trace_id : Nat \ {0}]
        /\ parser.status \in ParserStatus /\ DictOK(parser.dict)
    BY <1>1 DEF ParserOK, DictOK, DictSlice
  <1>8. parser.accum_memory \in Nat
    BY <1>1, <1>7, BytesType DEF ParserOK
  <1>9. /\ DOMAIN memoryMap \subseteq Address
        /\ \A k \in DOMAIN memoryMap :
              memoryMap[k] \in [size : Nat, allocation : [id : 0..MaxCalls, stackTrace : StackTrace]]
    BY <1>1 DEF MapOK, MapSlice, Allocation
  <1>10. TypeOK
    BY <1>3, <1>4, <1>7, <1>8, <1>9 DEF Inv, VariableTypes, TypeOK
  <1>. QED  BY <1>3, <1>5, <1>6, <1>10

\* The process starts with nothing mapped, known or logged.
LEMMA InitInv == Init => Inv
  <1>. SUFFICES ASSUME Init PROVE Inv
    OBVIOUS
  <1>1. DOMAIN memoryMap = {} /\ DOMAIN knownStackTraceHashToId = {}
    BY EmptyDomain DEF Init, emptyMemoryMap
  <1>2. allocationsIn(memoryMap) = {}
    BY <1>1 DEF allocationsIn
  <1>3. Busy = {}
    BY DEF Init, Busy
  <1>4. VariableTypes
    <2>1. MapOK(memoryMap)
      BY <1>1, FS_EmptySet DEF MapOK
    <2>2. kernel \in [Page -> {"free", "anonymous", "file"}]
      BY DEF Init
    <2>3. call \in [Thread -> {NoCall} \cup MmapCall \cup MunmapCall]
      BY DEF Init
    <2>4. calls \in 0..MaxCalls
      BY MmapAssumption DEF Init
    <2>5. disturbed \in BOOLEAN
      BY Zenon DEF Init
    <2>6. IsFiniteSet(DOMAIN knownStackTraceHashToId)
      BY <1>1, FS_EmptySet
    <2>. QED  BY <1>1, <2>1, <2>2, <2>3, <2>4, <2>5, <2>6 DEF VariableTypes
  <1>5. ParserOK(parser)
    <2>1. "unknown line" \in ParserStatus \ {"pointer in dict", "erased too much"}
      BY DEF ParserStatus
    <2>. QED  BY <2>1, StoppedParser DEF Init
  <1>6. CallsCounted
    <2>1. IsFiniteSet({}) /\ Cardinality({}) = 0 /\ calls = 0
      BY FS_EmptySet DEF Init
    <2>2. Cardinality(allocationsIn(memoryMap)) = 0 /\ Cardinality(Busy) = 0 /\ IsFiniteSet(Busy)
      BY <1>2, <1>3, <2>1, Zenon
    <2>. QED  BY <2>1, <2>2 DEF CallsCounted
  <1>7. s_stackTraces = tableOf(allocationsIn(memoryMap))
    <2>1. tracesOf({}) = {}
      BY DEF tracesOf
    <2>2. DOMAIN << >> = {}
      BY EmptyDomain
    <2>3. tableOf({}) = << >>
      BY <2>1, <2>2 DEF tableOf
    <2>. QED  BY <1>2, <2>3 DEF Init, noStackTraces
  <1>8. \A t \in Thread : ~ inFlight(t)
    BY DEF Init, NoCall, inFlight
  <1>. QED  BY <1>4, <1>5, <1>6, <1>7, <1>8 DEF Inv

\* A thread that makes its real call is busy, and counted.
LEMMA CallStarts ==
  ASSUME Inv, NEW t \in Thread, mayCall(t), NEW c \in MmapCall \cup MunmapCall,
         \/ c.type = "mmap" /\ c.start = MAP_FAILED
         \/ c.type = "munmap" /\ c.ret # 0
         \/ fits(c.start, c.len),
         call' = [call EXCEPT ![t] = c],
         kernel' \in [Page -> {"free", "anonymous", "file"}], disturbed' \in BOOLEAN,
         UNCHANGED <<memoryMap, s_stackTraces, knownStackTraceHashToId, parser>>
  PROVE  Inv'
  <1>0. c # NoCall
    BY DEF MmapCall, MunmapCall, NoCall
  <1>1. call \in [Thread -> {NoCall} \cup MmapCall \cup MunmapCall] /\ calls \in 0..MaxCalls /\ MaxCalls \in Nat
    BY MmapAssumption DEF Inv, VariableTypes
  <1>2. VariableTypes'
    <2>1. call' \in [Thread -> {NoCall} \cup MmapCall \cup MunmapCall]
      BY <1>1
    <2>2. calls' \in 0..MaxCalls
      BY <1>1 DEF mayCall
    <2>. QED  BY <2>1, <2>2 DEF Inv, VariableTypes
  <1>3. Busy' = Busy \cup {t} /\ t \notin Busy
    BY <1>0, <1>1 DEF Busy, mayCall
  <1>4. IsFiniteSet(Busy') /\ Cardinality(Busy') = Cardinality(Busy) + 1 /\ Cardinality(Busy) \in Nat
    <2>1. IsFiniteSet(Busy)
      BY DEF Inv, CallsCounted
    <2>2. IsFiniteSet(Busy \cup {t}) /\ Cardinality(Busy \cup {t}) = Cardinality(Busy) + 1
      BY <1>3, <2>1, FS_AddElement
    <2>. QED  BY <1>3, <2>1, <2>2, FS_CardinalityType, Zenon
  <1>5. CallsCounted'
    <2>1. Cardinality(allocationsIn(memoryMap)) \in Nat
      BY FiniteAllocations DEF Inv, VariableTypes
    <2>2. Cardinality(allocationsIn(memoryMap)) + Cardinality(Busy) <= calls
      BY DEF Inv, CallsCounted
    <2>3. Cardinality(allocationsIn(memoryMap)) + Cardinality(Busy') <= calls'
      BY <1>1, <1>4, <2>1, <2>2 DEF mayCall
    <2>. QED  BY <1>4, <2>3 DEF CallsCounted
  <1>6. ParserOK(parser)' /\ (s_stackTraces = tableOf(allocationsIn(memoryMap)))'
    BY DEF Inv
  <1>7. ASSUME NEW u \in Thread, inFlight(u)' PROVE fits(call'[u].start, call'[u].len)
    <2>1. CASE u = t
      BY <1>1, <1>7, <2>1 DEF inFlight
    <2>2. CASE u # t
      <3>1. call'[u] = call[u]
        BY <1>1, <2>2
      <3>. QED  BY <1>7, <3>1 DEF inFlight, Inv
    <2>. QED  BY <2>1, <2>2
  <1>. QED  BY <1>2, <1>5, <1>6, <1>7 DEF Inv

\* Once it is noted the thread is free again, and at most one mapping more is known.
LEMMA CallNoted ==
  ASSUME Inv, NEW t \in Thread, call[t] # NoCall, call' = [call EXCEPT ![t] = NoCall],
         MapOK(memoryMap'), Cardinality(allocationsIn(memoryMap')) <= Cardinality(allocationsIn(memoryMap)) + 1,
         s_stackTraces' = tableOf(allocationsIn(memoryMap')), ParserOK(parser'),
         IsFiniteSet(DOMAIN knownStackTraceHashToId'), DOMAIN knownStackTraceHashToId' \subseteq StackTrace,
         \A s \in DOMAIN knownStackTraceHashToId' : knownStackTraceHashToId'[s] \in Nat \ {0},
         UNCHANGED <<kernel, calls, disturbed>>
  PROVE  Inv'
  <1>1. call \in [Thread -> {NoCall} \cup MmapCall \cup MunmapCall] /\ calls \in 0..MaxCalls /\ MaxCalls \in Nat
    BY MmapAssumption DEF Inv, VariableTypes
  <1>2. VariableTypes'
    <2>1. call' \in [Thread -> {NoCall} \cup MmapCall \cup MunmapCall]
      BY <1>1
    <2>. QED  BY <2>1 DEF Inv, VariableTypes
  <1>3. Busy' = Busy \ {t} /\ t \in Busy
    BY <1>1 DEF Busy
  <1>4. IsFiniteSet(Busy') /\ Cardinality(Busy') = Cardinality(Busy) - 1 /\ Cardinality(Busy) \in Nat
    <2>1. IsFiniteSet(Busy)
      BY DEF Inv, CallsCounted
    <2>2. IsFiniteSet(Busy \ {t}) /\ Cardinality(Busy \ {t}) = Cardinality(Busy) - 1
      BY <1>3, <2>1, FS_RemoveElement
    <2>. QED  BY <1>3, <2>1, <2>2, FS_CardinalityType, Zenon
  <1>5. CallsCounted'
    <2>1. Cardinality(allocationsIn(memoryMap)) \in Nat /\ Cardinality(allocationsIn(memoryMap')) \in Nat
      BY FiniteAllocations DEF Inv, VariableTypes
    <2>2. Cardinality(allocationsIn(memoryMap)) + Cardinality(Busy) <= calls
      BY DEF Inv, CallsCounted
    <2>3. Cardinality(allocationsIn(memoryMap')) + Cardinality(Busy') <= calls'
      BY <1>1, <1>4, <2>1, <2>2
    <2>. QED  BY <1>4, <2>3 DEF CallsCounted
  <1>6. ASSUME NEW u \in Thread, inFlight(u)' PROVE fits(call'[u].start, call'[u].len)
    <2>1. u # t
      BY <1>1, <1>6 DEF inFlight, NoCall
    <2>2. call'[u] = call[u]
      BY <1>1, <2>1
    <2>. QED  BY <1>6, <2>2 DEF inFlight, Inv
  <1>. QED  BY <1>2, <1>5, <1>6 DEF Inv

\* There is a number for a new mapping that no mapping known has.
LEMMA FreshId ==
  ASSUME Inv
  PROVE  freshId \in 0..MaxCalls /\ \A a \in allocationsIn(memoryMap) : a.id # freshId
  <1>. DEFINE A == allocationsIn(memoryMap)
              idOf == [a \in A |-> a.id]
              used == {idOf[a] : a \in A}
              left == (0..MaxCalls) \ used
  <1>1. MapOK(memoryMap) /\ CallsCounted /\ calls \in 0..MaxCalls /\ MaxCalls \in Nat
    BY MmapAssumption DEF Inv, VariableTypes
  <1>2. IsFiniteSet(A) /\ Cardinality(A) \in Nat
    BY <1>1, FiniteAllocations
  <1>3. used = {a.id : a \in A}
    OBVIOUS
  <1>4. Cardinality(A) <= MaxCalls
    <2>1. Cardinality(Busy) \in Nat
      BY <1>1, FS_CardinalityType DEF CallsCounted
    <2>. HIDE DEF A
    <2>. QED  BY <1>1, <1>2, <2>1 DEF CallsCounted, A
  <1>. HIDE DEF idOf, A
  <1>5. IsFiniteSet(used) /\ Cardinality(used) <= Cardinality(A)
    BY <1>2, FiniteImage
  <1>6. left # {}
    <2>1. SUFFICES ASSUME (0..MaxCalls) \subseteq used PROVE FALSE
      OBVIOUS
    <2>. HIDE DEF used
    <2>2. Cardinality(0..MaxCalls) <= Cardinality(used)
      BY <1>5, <2>1, FS_Subset
    <2>3. Cardinality(0..MaxCalls) = MaxCalls + 1
      BY <1>1, FS_Interval
    <2>4. Cardinality(used) \in Nat
      BY <1>5, FS_CardinalityType
    <2>. QED  BY <1>1, <1>2, <1>4, <1>5, <2>2, <2>3, <2>4
  <1>7. \E m \in left : \A k \in left : m <= k
    <2>1. left \in SUBSET Nat
      OBVIOUS
    <2>. HIDE DEF left
    <2>. QED  BY <1>6, <2>1, LeastNatural
  <1>8. freshId = Min(left)
    BY <1>3 DEF freshId, A
  <1>9. Min(left) \in left
    <2>. HIDE DEF left
    <2>. QED  BY <1>7 DEF Min
  <1>. QED  BY <1>3, <1>8, <1>9 DEF A

\* The stack trace of a call has an id once it was looked up.
LEMMA StackIds ==
  ASSUME Inv, NEW s \in StackTrace
  PROVE  LET known == getOrAssignStackId(s) IN
         /\ IsFiniteSet(DOMAIN known) /\ DOMAIN known \subseteq StackTrace /\ s \in DOMAIN known
         /\ \A u \in DOMAIN known : known[u] \in Nat \ {0}
  <1>. DEFINE old == knownStackTraceHashToId
              n == Cardinality(DOMAIN old)
              new == [u \in DOMAIN old \cup {s} |-> IF u = s THEN n + 1 ELSE old[u]]
  <1>1. /\ IsFiniteSet(DOMAIN old) /\ DOMAIN old \subseteq StackTrace
        /\ \A u \in DOMAIN old : old[u] \in Nat \ {0}
    BY DEF Inv, VariableTypes
  <1>2. n \in Nat
    BY <1>1, FS_CardinalityType
  <1>3. CASE s \in DOMAIN old
    BY <1>1, <1>3 DEF getOrAssignStackId
  <1>4. CASE s \notin DOMAIN old
    <2>1. getOrAssignStackId(s) = new
      BY <1>4 DEF getOrAssignStackId
    <2>2. DOMAIN new = DOMAIN old \cup {s} /\ IsFiniteSet(DOMAIN old \cup {s})
      BY <1>1, FS_AddElement
    <2>. HIDE DEF n
    <2>3. \A u \in DOMAIN new : new[u] \in Nat \ {0}
      BY <1>1, <1>2, <2>2
    <2>. QED  BY <1>1, <2>1, <2>2, <2>3
  <1>. QED  BY <1>3, <1>4

\* mmap(), the second half.
LEMMA NoteMmapInv ==
  ASSUME Inv, NEW t \in Thread, NoteMmap(t)
  PROVE  Inv'
  <1>. DEFINE c == call[t]
              a == [id |-> freshId, stackTrace |-> c.stackTrace]
              A == allocationsIn(memoryMap)
              size == roundUpToPageMultiple(c.len)
              line == [type |-> "MAP", pointer |-> logged(c.start), len |-> c.len,
                       stackTraceId |-> knownStackTraceHashToId'[c.stackTrace]]
  <1>1. c \in MmapCall
    BY DEF NoteMmap, Inv, VariableTypes, NoCall, MunmapCall
  <1>2. /\ c.start \in Address /\ c.len \in Nat /\ c.stackTrace \in StackTrace
        /\ logged(c.start) \in Nat
    BY <1>1, PageType, MmapAssumption DEF MmapCall, Address, logged
  <1>3. MapOK(memoryMap) /\ IsFiniteSet(A) /\ Cardinality(A) \in Nat
    BY FiniteAllocations DEF Inv, VariableTypes
  <1>4. a \notin A /\ a \in Allocation
    BY <1>2, FreshId DEF Allocation
  <1>5. /\ IsFiniteSet(DOMAIN knownStackTraceHashToId') /\ DOMAIN knownStackTraceHashToId' \subseteq StackTrace
        /\ \A s \in DOMAIN knownStackTraceHashToId' : knownStackTraceHashToId'[s] \in Nat \ {0}
        /\ c.stackTrace \in DOMAIN knownStackTraceHashToId'
    BY <1>2, StackIds DEF NoteMmap
  <1>6. ParserOK(parser')
    <2>1. line \in Line
      BY <1>2, <1>5 DEF Line
    <2>2. parser' = replay(parser, line)
      BY DEF NoteMmap
    <2>. QED  BY <2>1, <2>2, ReplayParser DEF Inv
  <1>7. size \in Nat
    BY <1>2, RoundUpModulo
  <1>. HIDE DEF size
  <1>8. memoryMap' = registerMap(memoryMap, c.start, size, a)
    BY DEF NoteMmap, size
  <1>9. s_stackTraces' = stackTracesAfterMap(c.stackTrace, c.start \notin DOMAIN memoryMap)
    BY DEF NoteMmap
  <1>10. /\ stackTracesAfterMap(a.stackTrace, TRUE) = tableOf(A \cup {a})
         /\ stackTracesAfterMap(a.stackTrace, FALSE) = tableOf(A)
         /\ a.stackTrace = c.stackTrace
    <2>1. s_stackTraces = tableOf(A)
      BY DEF Inv
    <2>2. a.stackTrace = c.stackTrace
      OBVIOUS
    <2>. HIDE DEF a, A
    <2>. QED  BY <1>3, <1>4, <2>1, <2>2, InternOneMore
  <1>11. /\ MapOK(memoryMap') /\ s_stackTraces' = tableOf(allocationsIn(memoryMap'))
         /\ Cardinality(allocationsIn(memoryMap')) <= Cardinality(A) + 1
    <2>1. CASE c.start \in DOMAIN memoryMap
      <3>1. memoryMap' = memoryMap
        BY <1>8, <2>1 DEF registerMap
      <3>2. (c.start \notin DOMAIN memoryMap) = FALSE
        BY <2>1
      <3>3. s_stackTraces' = tableOf(A)
        BY <1>9, <1>10, <3>2, Zenon
      <3>. QED  BY <1>3, <3>1, <3>3
    <2>2. CASE c.start \notin DOMAIN memoryMap
      <3>. DEFINE new == [size |-> size, allocation |-> a]
      <3>1. memoryMap' = [k \in DOMAIN memoryMap \cup {c.start} |-> IF k = c.start THEN new ELSE memoryMap[k]]
        BY <1>8, <2>2 DEF registerMap
      <3>2. new \in MapSlice /\ new.allocation = a
        BY <1>4, <1>7 DEF MapSlice
      <3>. HIDE DEF new, a
      <3>3. /\ DOMAIN memoryMap' = DOMAIN memoryMap \cup {c.start}
            /\ memoryMap'[c.start] = new
            /\ \A k \in DOMAIN memoryMap : memoryMap'[k] = memoryMap[k]
        BY <2>2, <3>1
      <3>4. MapOK(memoryMap')
        <4>1. IsFiniteSet(DOMAIN memoryMap')
          BY <1>3, <3>3, FS_AddElement DEF MapOK
        <4>. QED  BY <1>2, <1>3, <3>2, <3>3, <4>1 DEF MapOK
      <3>5. allocationsIn(memoryMap') = A \cup {a}
        BY <3>2, <3>3 DEF allocationsIn
      <3>6. Cardinality(A \cup {a}) = Cardinality(A) + 1
        BY <1>3, <1>4, FS_AddElement
      <3>7. (c.start \notin DOMAIN memoryMap) = TRUE
        BY <2>2
      <3>8. s_stackTraces' = tableOf(A \cup {a})
        BY <1>9, <1>10, <3>7, Zenon
      <3>. HIDE DEF A
      <3>9. Cardinality(allocationsIn(memoryMap')) = Cardinality(A) + 1
        BY <3>5, <3>6, Zenon
      <3>. QED  BY <1>3, <3>4, <3>5, <3>8, <3>9
    <2>. QED  BY <2>1, <2>2
  <1>12. /\ call[t] # NoCall /\ call' = [call EXCEPT ![t] = NoCall]
         /\ UNCHANGED <<kernel, calls, disturbed>>
    BY DEF NoteMmap, NoCall
  <1>. QED  BY <1>5, <1>6, <1>11, <1>12, CallNoted

\* munmap(), the second half.
LEMMA NoteMunmapInv ==
  ASSUME Inv, NEW t \in Thread, NoteMunmap(t)
  PROVE  Inv'
  <1>. DEFINE c == call[t]
              A == allocationsIn(memoryMap)
              B == allocationsIn(memoryMap')
              size == roundUpToPageMultiple(c.len)
              line == [type |-> "UNMAP", pointer |-> c.start, len |-> c.len]
  <1>1. c \in MunmapCall
    BY DEF NoteMunmap, Inv, VariableTypes, NoCall, MmapCall
  <1>2. c.start \in Nat /\ c.len \in Nat
    BY <1>1, PageType, MmapAssumption DEF MunmapCall
  <1>3. MapOK(memoryMap) /\ IsFiniteSet(A) /\ Cardinality(A) \in Nat
    BY FiniteAllocations DEF Inv, VariableTypes
  <1>4. size \in Nat
    BY <1>2, RoundUpModulo
  <1>. HIDE DEF size
  <1>5. memoryMap' = registerUnmap(memoryMap, c.start, size).map
    BY DEF NoteMunmap, size
  <1>6. MapOK(memoryMap') /\ B \subseteq A
    BY <1>2, <1>3, <1>4, <1>5, RegisterUnmapKeeps
  <1>7. s_stackTraces' = tableOf(B)
    <2>1. s_stackTraces' = FoldSet(LAMBDA a, table : destroy(table, a.stackTrace), s_stackTraces, A \ B)
      BY DEF NoteMunmap, stackTracesAfterUnmap
    <2>2. s_stackTraces = tableOf(A)
      BY DEF Inv
    <2>3. A \ B \subseteq A /\ A \ (A \ B) = B
      BY <1>6
    <2>. HIDE DEF A, B
    <2>4. FoldSet(LAMBDA a, table : destroy(table, a.stackTrace), tableOf(A), A \ B) = tableOf(A \ (A \ B))
      BY <1>3, <2>3, DestroyMany
    <2>. QED  BY <2>1, <2>2, <2>3, <2>4, Zenon
  <1>8. Cardinality(B) <= Cardinality(A) + 1
    <2>1. Cardinality(B) <= Cardinality(A) /\ Cardinality(B) \in Nat
      BY <1>3, <1>6, FS_Subset, FS_CardinalityType
    <2>. HIDE DEF A, B
    <2>. QED  BY <1>3, <2>1
  <1>9. ParserOK(parser')
    <2>1. line \in Line
      BY <1>2 DEF Line
    <2>2. parser' = replay(parser, line) \/ parser' = parser
      BY DEF NoteMunmap
    <2>. QED  BY <2>1, <2>2, ReplayParser DEF Inv
  <1>10. /\ call[t] # NoCall /\ call' = [call EXCEPT ![t] = NoCall]
         /\ UNCHANGED <<kernel, calls, disturbed, knownStackTraceHashToId>>
    BY DEF NoteMunmap, NoCall
  <1>11. /\ IsFiniteSet(DOMAIN knownStackTraceHashToId') /\ DOMAIN knownStackTraceHashToId' \subseteq StackTrace
         /\ \A s \in DOMAIN knownStackTraceHashToId' : knownStackTraceHashToId'[s] \in Nat \ {0}
    BY <1>10 DEF Inv, VariableTypes
  <1>. QED  BY <1>6, <1>7, <1>8, <1>9, <1>10, <1>11, CallNoted

LEMMA NoteMunmapFailedInv ==
  ASSUME Inv, NEW t \in Thread, NoteMunmapFailed(t)
  PROVE  Inv'
  <1>1. ParserOK(parser')
    <2>1. [type |-> "ERROR"] \in Line
      BY DEF Line
    <2>2. parser' = replay(parser, [type |-> "ERROR"])
      BY DEF NoteMunmapFailed
    <2>. QED  BY <2>1, <2>2, ReplayParser DEF Inv
  <1>2. /\ call[t] # NoCall /\ call' = [call EXCEPT ![t] = NoCall]
        /\ UNCHANGED <<kernel, calls, disturbed, memoryMap, s_stackTraces, knownStackTraceHashToId>>
    BY DEF NoteMunmapFailed, NoCall
  <1>3. /\ MapOK(memoryMap') /\ s_stackTraces' = tableOf(allocationsIn(memoryMap'))
        /\ IsFiniteSet(DOMAIN knownStackTraceHashToId') /\ DOMAIN knownStackTraceHashToId' \subseteq StackTrace
        /\ \A s \in DOMAIN knownStackTraceHashToId' : knownStackTraceHashToId'[s] \in Nat \ {0}
    BY <1>2 DEF Inv, VariableTypes
  <1>4. Cardinality(allocationsIn(memoryMap')) <= Cardinality(allocationsIn(memoryMap)) + 1
    BY <1>2, FiniteAllocations DEF Inv, VariableTypes
  <1>. QED  BY <1>1, <1>2, <1>3, <1>4, CallNoted

\* The real calls.
LEMMA RealCallsInv ==
  ASSUME Inv, NEW t \in Thread,
         \/ RealMmap(t) \/ RealMmapFixed(t) \/ RealMmapFails(t)
         \/ RealMunmap(t) \/ RealMunmapFails(t)
  PROVE  Inv'
  <1>0. /\ kernel \in [Page -> {"free", "anonymous", "file"}] /\ disturbed \in BOOLEAN
        /\ mayCall(t) /\ UNCHANGED <<memoryMap, s_stackTraces, knownStackTraceHashToId, parser>>
    BY DEF Inv, VariableTypes, RealMmap, RealMmapFixed, RealMmapFails, RealMunmap, RealMunmapFails
  <1>1. \A range : [p \in Page |-> IF p \in range THEN "anonymous" ELSE kernel[p]]
                      \in [Page -> {"free", "anonymous", "file"}]
    BY <1>0
  <1>2. \A range : [p \in Page |-> IF p \in range THEN "free" ELSE kernel[p]]
                      \in [Page -> {"free", "anonymous", "file"}]
    BY <1>0
  <1>3. disturbed' \in BOOLEAN
    BY <1>0, Zenon DEF RealMmap, RealMmapFixed, RealMmapFails, RealMunmap, RealMunmapFails
  <1>4. CASE RealMmap(t) \/ RealMmapFixed(t)
    <2>1. PICK start \in Page, len \in Size, s \in StackTrace :
            /\ fits(start, len)
            /\ kernel' = [p \in Page |-> IF p \in PagesIn(start, len) THEN "anonymous" ELSE kernel[p]]
            /\ call' = [call EXCEPT ![t] =
                          [type |-> "mmap", start |-> start, len |-> len, stackTrace |-> s]]
      BY <1>4, Zenon DEF RealMmap, RealMmapFixed
    <2>2. PICK c : c = [type |-> "mmap", start |-> start, len |-> len, stackTrace |-> s]
      OBVIOUS
    <2>3. c \in MmapCall /\ c.start = start /\ c.len = len
      BY <2>2 DEF MmapCall
    <2>4. call' = [call EXCEPT ![t] = c] /\ fits(c.start, c.len)
      BY <2>1, <2>2, <2>3, Zenon
    <2>5. kernel' \in [Page -> {"free", "anonymous", "file"}]
      BY <1>1, <2>1, Zenon
    <2>. QED  BY <1>0, <1>3, <2>3, <2>4, <2>5, CallStarts
  <1>5. CASE RealMmapFails(t)
    <2>1. PICK len \in Size, s \in StackTrace :
            call' = [call EXCEPT ![t] =
                       [type |-> "mmap", start |-> MAP_FAILED, len |-> len, stackTrace |-> s]]
      BY <1>5 DEF RealMmapFails
    <2>2. PICK c : c = [type |-> "mmap", start |-> MAP_FAILED, len |-> len, stackTrace |-> s]
      OBVIOUS
    <2>3. c \in MmapCall /\ c.type = "mmap" /\ c.start = MAP_FAILED
      BY <2>2 DEF MmapCall
    <2>4. call' = [call EXCEPT ![t] = c] /\ kernel' = kernel
      BY <1>5, <2>1, <2>2 DEF RealMmapFails
    <2>. QED  BY <1>0, <1>3, <2>3, <2>4, CallStarts
  <1>6. CASE RealMunmap(t)
    <2>1. PICK start \in Page, len \in Size :
            /\ fits(start, len)
            /\ kernel' = [p \in Page |-> IF p \in PagesIn(start, len) THEN "free" ELSE kernel[p]]
            /\ call' = [call EXCEPT ![t] =
                          [type |-> "munmap", start |-> start, len |-> len, ret |-> 0]]
      BY <1>6, Zenon DEF RealMunmap
    <2>2. PICK c : c = [type |-> "munmap", start |-> start, len |-> len, ret |-> 0]
      OBVIOUS
    <2>3. c \in MunmapCall /\ c.start = start /\ c.len = len
      BY <2>2 DEF MunmapCall
    <2>4. call' = [call EXCEPT ![t] = c] /\ fits(c.start, c.len)
      BY <2>1, <2>2, <2>3, Zenon
    <2>5. kernel' \in [Page -> {"free", "anonymous", "file"}]
      BY <1>2, <2>1, Zenon
    <2>. QED  BY <1>0, <1>3, <2>3, <2>4, <2>5, CallStarts
  <1>7. CASE RealMunmapFails(t)
    <2>1. PICK start \in Page, len \in Size :
            call' = [call EXCEPT ![t] =
                       [type |-> "munmap", start |-> start, len |-> len, ret |-> -1]]
      BY <1>7 DEF RealMunmapFails
    <2>2. PICK c : c = [type |-> "munmap", start |-> start, len |-> len, ret |-> -1]
      OBVIOUS
    <2>3. c \in MunmapCall /\ c.type = "munmap" /\ c.ret # 0
      BY <2>2 DEF MunmapCall
    <2>4. call' = [call EXCEPT ![t] = c] /\ kernel' = kernel
      BY <1>7, <2>1, <2>2 DEF RealMunmapFails
    <2>. QED  BY <1>0, <1>3, <2>3, <2>4, CallStarts
  <1>. QED  BY <1>4, <1>5, <1>6, <1>7

\* A mapping of a file returns at once: the thread stays free.
LEMMA MmapFileInv ==
  ASSUME Inv, NEW t \in Thread, MmapFile(t)
  PROVE  Inv'
  <1>1. /\ kernel \in [Page -> {"free", "anonymous", "file"}] /\ disturbed \in BOOLEAN
        /\ calls \in 0..MaxCalls /\ MaxCalls \in Nat /\ mayCall(t)
        /\ UNCHANGED <<memoryMap, s_stackTraces, knownStackTraceHashToId, parser, call>>
    BY MmapAssumption DEF Inv, VariableTypes, MmapFile
  <1>2. kernel' \in [Page -> {"free", "anonymous", "file"}]
    <2>1. PICK range : kernel' = [p \in Page |-> IF p \in range THEN "file" ELSE kernel[p]]
      BY Zenon DEF MmapFile
    <2>. QED  BY <1>1, <2>1
  <1>3. disturbed' \in BOOLEAN
    BY <1>1, Zenon DEF MmapFile
  <1>4. calls' = calls + 1 /\ calls' \in 0..MaxCalls
    BY <1>1 DEF mayCall
  <1>5. VariableTypes'
    BY <1>1, <1>2, <1>3, <1>4 DEF Inv, VariableTypes
  <1>6. CallsCounted'
    <2>1. Cardinality(allocationsIn(memoryMap)) \in Nat /\ Cardinality(Busy) \in Nat
      BY FiniteAllocations, FS_CardinalityType DEF Inv, VariableTypes, CallsCounted
    <2>2. Busy' = Busy /\ IsFiniteSet(Busy)
      BY <1>1 DEF Busy, Inv, CallsCounted
    <2>3. Cardinality(allocationsIn(memoryMap)) + Cardinality(Busy) <= calls'
      BY <1>1, <1>4, <2>1 DEF Inv, CallsCounted
    <2>. QED  BY <1>1, <2>2, <2>3 DEF CallsCounted
  <1>7. ParserOK(parser)' /\ (s_stackTraces = tableOf(allocationsIn(memoryMap)))'
    BY <1>1 DEF Inv
  <1>8. (\A u \in Thread : inFlight(u) => fits(call[u].start, call[u].len))'
    BY <1>1 DEF Inv, inFlight
  <1>. QED  BY <1>5, <1>6, <1>7, <1>8 DEF Inv

LEMMA StutterInv ==
  ASSUME Inv, UNCHANGED vars
  PROVE  Inv'
  <1>1. Busy' = Busy
    BY DEF vars, Busy
  <1>. QED  BY <1>1 DEF vars, Inv, VariableTypes, CallsCounted, inFlight

\* Every step keeps the invariant.
LEMMA StepInv == Inv /\ [Next]_vars => Inv'
  <1>. SUFFICES ASSUME Inv, [Next]_vars PROVE Inv'
    OBVIOUS
  <1>1. CASE UNCHANGED vars
    BY <1>1, StutterInv
  <1>2. CASE Idle
    BY <1>2, StutterInv DEF Idle
  <1>3. ASSUME NEW t \in Thread,
               \/ RealMmap(t) \/ RealMmapFixed(t) \/ RealMmapFails(t)
               \/ RealMunmap(t) \/ RealMunmapFails(t)
        PROVE  Inv'
    BY <1>3, RealCallsInv
  <1>4. ASSUME NEW t \in Thread, MmapFile(t) PROVE Inv'
    BY <1>4, MmapFileInv
  <1>5. ASSUME NEW t \in Thread, NoteMmap(t) PROVE Inv'
    BY <1>5, NoteMmapInv
  <1>6. ASSUME NEW t \in Thread, NoteMunmap(t) PROVE Inv'
    BY <1>6, NoteMunmapInv
  <1>7. ASSUME NEW t \in Thread, NoteMunmapFailed(t) PROVE Inv'
    BY <1>7, NoteMunmapFailedInv
  <1>. QED  BY <1>1, <1>2, <1>3, <1>4, <1>5, <1>6, <1>7 DEF Next

\* The invariant that needs no condition: types, slices of the parser that do
\* not overlap, its total, the interned stack traces and the count of the calls.
THEOREM MmapInvariant == Spec => []Inv
  BY InitInv, StepInv, PTL DEF Spec

\* Every variable of mmap-counter and of the parser keeps its type; no size
\* that is computed by subtraction is ever negative.
THEOREM MmapTypes == Spec => []TypeOK
  BY MmapInvariant, InvImplies, PTL

\* The slices of parse-mmap-log.py never overlap, whatever it reads from the
\* process: its assertions on overlaps cannot fail.
THEOREM ParserSlicesDisjointAlways == Spec => []ParserSlicesDisjoint
  BY MmapInvariant, InvImplies, PTL

\* The running total of generate_memory_log() is the sum over the slices that
\* generate_ranking() counts by id, for any filter.
THEOREM TotalIsSumOfSlicesAlways == Spec => []TotalIsSumOfSlices
  BY MmapInvariant, InvImplies, PTL

\* The table of interned stack traces holds exactly the traces of the
\* mappings known, and never asserts when one of them goes.
THEOREM TracesOfLiveMappingsAlways == Spec => []TracesOfLiveMappings
  BY MmapInvariant, InvImplies, PTL

-----------------------------------------------------------------------------
(* What holds as long as nothing disturbed the tool.                       *)

covered(map, p) == \E k \in DOMAIN map : inSlice(map, k, p)

rangeOf(t) == PagesIn(call[t].start, call[t].len)

\* The slices are whole pages of memory and do not overlap.  The one at
\* MAP_FAILED ends below all of them.
SliceMap(map) ==
    /\ Disjoint(map)
    /\ \A k \in DOMAIN map \ {MAP_FAILED} :
          k \in Page /\ map[k].size > 0 /\ k + map[k].size <= EndOfMemory
    /\ MAP_FAILED \in DOMAIN map => map[MAP_FAILED].size < UIntModulus

\* The calls in flight have lengths that fit and ranges of their own.  What is
\* being mapped is mapped and not known yet; what is being unmapped is not mapped.
FlightsApart ==
    /\ \A t \in Thread : inFlight(t) => ~ isWide(call[t].len)
    /\ \A t \in Thread : inFlight(t) =>
          \A p \in rangeOf(t) :
              IF call[t].type = "mmap" THEN kernel[p] = "anonymous" /\ ~ covered(memoryMap, p)
              ELSE kernel[p] # "anonymous"
    /\ \A t, u \in Thread : t # u /\ inFlight(t) /\ inFlight(u) => rangeOf(t) \cap rangeOf(u) = {}

\* Where no call is in flight, known memory is anonymous memory.
KernelKnown ==
    \A p \in Page : (\A t \in Thread : inFlight(t) => p \notin rangeOf(t))
                        => (covered(memoryMap, p) <=> kernel[p] = "anonymous")

\* The slices of the parser below Top are those of the map.
SameSlices(dict, map) ==
    /\ {k \in DOMAIN dict : k < Top} = DOMAIN map \ {MAP_FAILED}
    /\ \A k \in DOMAIN map \ {MAP_FAILED} : dict[k].size = map[k].size

ParserSame(state, map) ==
    /\ state.status = "running" => SameSlices(state.dict, map)
    /\ state.status # "nothing erased"

Undisturbed ==
    SliceMap(memoryMap) /\ FlightsApart /\ KernelKnown /\ ParserSame(parser, memoryMap)

Followed == ~ disturbed => Undisturbed

LEMMA MemoryBounds ==
  /\ EndOfMemory \in Nat /\ LowestPage \in Nat /\ UIntModulus \in Nat /\ Top \in Nat
  /\ LowestPage >= UIntModulus /\ EndOfMemory <= Top /\ LowestPage <= EndOfMemory
  /\ \A p \in Page \cup {EndOfMemory} : p \in Nat /\ LowestPage <= p /\ p <= EndOfMemory
  <1>1. PageCount * PageSize \in Nat
    BY MmapAssumption, Products
  <1>. QED  BY <1>1, PageType, MmapAssumption DEF EndOfMemory

LEMMA SliceTypes ==
  ASSUME NEW map, MapOK(map), SliceMap(map)
  PROVE  /\ \A k \in DOMAIN map : k \in Int /\ map[k].size \in Nat
         /\ \A k \in DOMAIN map : k # MAP_FAILED => k \in Nat /\ LowestPage <= k
         /\ \A p \in Nat : LowestPage <= p => ~ Across(map, MAP_FAILED, p)
         /\ \A p \in Nat : LowestPage <= p => ~ inSlice(map, MAP_FAILED, p) \/ MAP_FAILED \notin DOMAIN map
  <1>1. \A k \in DOMAIN map : k \in Int /\ map[k].size \in Nat
    BY DEF MapOK, Address, MAP_FAILED, MapSlice
  <1>2. \A k \in DOMAIN map : k # MAP_FAILED => k \in Nat /\ LowestPage <= k
    BY PageType DEF SliceMap
  <1>3. ASSUME MAP_FAILED \in DOMAIN map, NEW p \in Nat, LowestPage <= p
        PROVE  MAP_FAILED + map[MAP_FAILED].size < p
    BY <1>1, <1>3, MemoryBounds DEF SliceMap, MAP_FAILED
  <1>. QED  BY <1>1, <1>2, <1>3 DEF Across, inSlice, MAP_FAILED

\* splitAt() at a page boundary covers the same memory with whole slices.
LEMMA SplitAtFollows ==
  ASSUME NEW map, MapOK(map), SliceMap(map), NEW p \in Page \cup {EndOfMemory}
  PROVE  LET split == splitAt(map, p) IN
         /\ SliceMap(split) /\ NoneAcross(split, p)
         /\ \A q \in Nat : NoneAcross(map, q) => NoneAcross(split, q)
         /\ \A x \in Nat : covered(split, x) <=> covered(map, x)
  <1>0. p \in Nat /\ LowestPage <= p /\ p <= EndOfMemory
    BY MemoryBounds
  <1>1. CASE splitAt(map, p) = map /\ (Disjoint(map) => NoneAcross(map, p))
    BY <1>1 DEF SliceMap
  <1>2. ASSUME NEW c \in DOMAIN map, Across(map, c, p), p \notin DOMAIN map,
               splitAt(map, p) = MapCutAt(map, c, p)
        PROVE  LET split == splitAt(map, p) IN
               /\ SliceMap(split) /\ NoneAcross(split, p)
               /\ \A q \in Nat : NoneAcross(map, q) => NoneAcross(split, q)
               /\ \A x \in Nat : covered(split, x) <=> covered(map, x)
    <2>. DEFINE cut == MapCutAt(map, c, p)
    <2>1. c # MAP_FAILED
      BY <1>0, <1>2, SliceTypes
    <2>2. /\ c \in Page /\ c \in Nat /\ c < p /\ p < c + map[c].size /\ map[c].size \in Nat
          /\ c + map[c].size <= EndOfMemory
      BY <1>2, <2>1, SliceTypes DEF SliceMap, Across
    <2>3. p \in Page
      BY <1>0, <2>2, MemoryBounds
    <2>4. DOMAIN cut = DOMAIN map \cup {p}
      BY DEF MapCutAt
    <2>5. /\ cut[c].size = p - c /\ cut[p].size = c + map[c].size - p
          /\ \A k \in DOMAIN map \ {c} : cut[k] = map[k]
      BY <1>2, <2>2 DEF MapCutAt
    <2>. HIDE DEF cut
    <2>6. \A k \in DOMAIN map : k \in Int /\ map[k].size \in Nat
      BY SliceTypes
    <2>7. \A k, l \in DOMAIN map : k < l => k + map[k].size <= l
      BY DEF SliceMap, Disjoint
    <2>8. ASSUME NEW k \in DOMAIN cut, NEW l \in DOMAIN cut, k < l
          PROVE  k + cut[k].size <= l
      <3>1. CASE k = c
        <4>1. l = p \/ (l \in DOMAIN map /\ c + map[c].size <= l)
          BY <2>4, <2>7, <2>8, <3>1
        <4>. QED  BY <1>0, <2>2, <2>5, <2>6, <3>1, <4>1
      <3>2. CASE k = p
        <4>1. l \in DOMAIN map /\ l \in Int /\ c < l
          BY <1>0, <2>2, <2>4, <2>6, <2>8, <3>2
        <4>2. c + map[c].size <= l
          BY <2>7, <4>1
        <4>. QED  BY <1>0, <2>2, <2>5, <3>2, <4>1, <4>2
      <3>3. CASE k # c /\ k # p
        <4>1. k \in DOMAIN map /\ cut[k].size = map[k].size /\ k \in Int
          BY <2>4, <2>5, <2>6, <3>3
        <4>2. CASE l = p
          <5>1. ~ (c < k)
            BY <1>0, <2>2, <2>6, <2>7, <2>8, <4>1, <4>2
          <5>2. k + map[k].size <= c
            BY <2>2, <2>7, <3>3, <4>1, <5>1
          <5>. QED  BY <1>0, <2>2, <2>6, <4>1, <4>2, <5>2
        <4>3. CASE l # p
          BY <2>4, <2>7, <2>8, <4>1, <4>3
        <4>. QED  BY <4>2, <4>3
      <3>. QED  BY <3>1, <3>2, <3>3
    <2>9. p # MAP_FAILED
      BY <1>0 DEF MAP_FAILED
    <2>10. \A k \in DOMAIN cut \ {MAP_FAILED} :
              k \in Page /\ cut[k].size > 0 /\ k + cut[k].size <= EndOfMemory
      <3>. TAKE k \in DOMAIN cut \ {MAP_FAILED}
      <3>1. CASE k = c
        BY <1>0, <2>2, <2>5, <3>1, MemoryBounds
      <3>2. CASE k = p
        BY <1>0, <2>2, <2>3, <2>5, <3>2, MemoryBounds
      <3>3. CASE k # c /\ k # p
        BY <2>4, <2>5, <3>3 DEF SliceMap
      <3>. QED  BY <3>1, <3>2, <3>3
    <2>11. MAP_FAILED \in DOMAIN cut => cut[MAP_FAILED].size < UIntModulus
      BY <2>1, <2>4, <2>5, <2>9 DEF SliceMap
    <2>12. SliceMap(cut)
      BY <2>8, <2>10, <2>11 DEF SliceMap, Disjoint
    <2>13. ASSUME NEW q \in Nat, NoneAcross(map, q) PROVE NoneAcross(cut, q)
      <3>. SUFFICES ASSUME NEW k \in DOMAIN cut, k < q PROVE k + cut[k].size <= q
        BY DEF NoneAcross
      <3>1. c < q => c + map[c].size <= q
        BY <2>13 DEF NoneAcross
      <3>2. CASE k = c
        BY <1>0, <2>2, <2>5, <3>1, <3>2
      <3>3. CASE k = p
        BY <1>0, <2>2, <2>5, <3>1, <3>3
      <3>4. CASE k # c /\ k # p
        BY <2>4, <2>5, <2>13, <3>4 DEF NoneAcross
      <3>. QED  BY <3>2, <3>3, <3>4
    <2>14. NoneAcross(cut, p)
      BY <2>4, <2>8 DEF NoneAcross
    <2>15. ASSUME NEW x \in Nat PROVE covered(cut, x) <=> covered(map, x)
      <3>1. ASSUME NEW k \in DOMAIN cut, inSlice(cut, k, x) PROVE covered(map, x)
        <4>1. CASE k = c \/ k = p
          <5>1. inSlice(map, c, x)
            BY <1>0, <2>2, <2>5, <3>1, <4>1 DEF inSlice
          <5>. QED  BY <5>1 DEF covered
        <4>2. CASE k # c /\ k # p
          BY <2>4, <2>5, <3>1, <4>2 DEF inSlice, covered
        <4>. QED  BY <4>1, <4>2
      <3>2. ASSUME NEW k \in DOMAIN map, inSlice(map, k, x) PROVE covered(cut, x)
        <4>1. CASE k = c
          <5>1. inSlice(cut, c, x) \/ inSlice(cut, p, x)
            BY <1>0, <2>2, <2>5, <3>2, <4>1 DEF inSlice
          <5>. QED  BY <2>4, <5>1 DEF covered
        <4>2. CASE k # c
          BY <2>4, <2>5, <3>2, <4>2 DEF inSlice, covered
        <4>. QED  BY <4>1, <4>2
      <3>. QED  BY <3>1, <3>2 DEF covered
    <2>. QED  BY <1>2, <2>12, <2>13, <2>14, <2>15 DEF cut
  <1>. QED  BY <1>0, <1>1, <1>2, SplitAtCases

\* registerUnmap() of whole pages takes them out of what is covered, and
\* nothing else.
LEMMA UnmapFollows ==
  ASSUME NEW map, MapOK(map), SliceMap(map), NEW start \in Page, NEW size \in Nat, size > 0,
         start + size \in Page \cup {EndOfMemory}
  PROVE  LET result == registerUnmap(map, start, size) IN
         /\ SliceMap(result.map)
         /\ \A x \in Nat : covered(result.map, x) <=> covered(map, x) /\ ~ (start <= x /\ x < start + size)
  <1>. DEFINE first == splitAt(map, start)
              split == splitAt(first, start + size)
              erased == {k \in DOMAIN split : start <= k /\ k < start + size}
              left == [k \in DOMAIN split \ erased |-> split[k]]
  <1>0. start \in Nat /\ start + size \in Nat
    BY PageType
  <1>1. MapOK(first)
    BY <1>0, SplitAtKeeps
  <1>2. SliceMap(first) /\ NoneAcross(first, start) /\ \A x \in Nat : covered(first, x) <=> covered(map, x)
    BY SplitAtFollows
  <1>. HIDE DEF first
  <1>3. MapOK(split)
    BY <1>0, <1>1, SplitAtKeeps
  <1>4. /\ SliceMap(split) /\ NoneAcross(split, start) /\ NoneAcross(split, start + size)
        /\ \A x \in Nat : covered(split, x) <=> covered(first, x)
    BY <1>0, <1>1, <1>2, SplitAtFollows
  <1>5. registerUnmap(map, start, size).map = left
    BY DEF registerUnmap, Restrict, first
  <1>. HIDE DEF split
  <1>6. /\ DOMAIN left \subseteq DOMAIN split /\ \A k \in DOMAIN left : left[k] = split[k]
        /\ \A k \in DOMAIN split : k \in DOMAIN left <=> ~ (start <= k /\ k < start + size)
    OBVIOUS
  <1>. HIDE DEF left
  <1>7. SliceMap(left)
    BY <1>4, <1>6 DEF SliceMap, Disjoint
  <1>8. \A k \in DOMAIN split : k \in Int /\ split[k].size \in Nat
    BY <1>3, <1>4, SliceTypes
  <1>9. ASSUME NEW x \in Nat
        PROVE  covered(left, x) <=> covered(split, x) /\ ~ (start <= x /\ x < start + size)
    <2>1. ASSUME NEW k \in DOMAIN left, inSlice(left, k, x)
          PROVE  inSlice(split, k, x) /\ ~ (start <= x /\ x < start + size)
      <3>1. inSlice(split, k, x) /\ k \in DOMAIN split /\ k \in Int
        BY <1>6, <1>8, <2>1 DEF inSlice
      <3>2. k < start \/ start + size <= k
        BY <1>0, <1>6, <2>1, <3>1
      <3>3. k < start => k + split[k].size <= start
        BY <1>4, <3>1 DEF NoneAcross
      <3>. QED  BY <1>0, <1>8, <3>1, <3>2, <3>3 DEF inSlice
    <2>2. ASSUME NEW k \in DOMAIN split, inSlice(split, k, x), ~ (start <= x /\ x < start + size)
          PROVE  k \in DOMAIN left /\ inSlice(left, k, x)
      <3>1. k < start + size => k + split[k].size <= start + size
        BY <1>4 DEF NoneAcross
      <3>2. ~ (start <= k /\ k < start + size)
        BY <1>0, <1>8, <2>2, <3>1 DEF inSlice
      <3>3. k \in DOMAIN left
        BY <1>6, <3>2
      <3>. QED  BY <1>6, <2>2, <3>3 DEF inSlice
    <2>. QED  BY <1>6, <2>1, <2>2 DEF covered
  <1>. QED  BY <1>2, <1>4, <1>5, <1>7, <1>9

\* If nothing of a range is covered, registerUnmap() erases nothing; and if it
\* erases nothing, it has split nothing either.
LEMMA NothingErased ==
  ASSUME NEW map, MapOK(map), SliceMap(map), NEW start \in Page, NEW size \in Nat, size > 0,
         start + size \in Page \cup {EndOfMemory}
  PROVE  LET result == registerUnmap(map, start, size) IN
         /\ (\A p \in PagesIn(start, size) : ~ covered(map, p)) => ~ result.erased
         /\ ~ result.erased => /\ DOMAIN result.map = DOMAIN map
                               /\ \A k \in DOMAIN map : result.map[k] = map[k]
  <1>. DEFINE first == splitAt(map, start)
              split == splitAt(first, start + size)
              erased == {k \in DOMAIN split : start <= k /\ k < start + size}
              left == [k \in DOMAIN split \ erased |-> split[k]]
  <1>0. start \in Nat /\ start + size \in Nat
    BY PageType
  <1>1. MapOK(first)
    BY <1>0, SplitAtKeeps
  <1>2. SliceMap(first) /\ NoneAcross(first, start) /\ \A x \in Nat : covered(first, x) <=> covered(map, x)
    BY SplitAtFollows
  <1>3. \/ first = map
        \/ start \in DOMAIN first
    <2>1. ASSUME NEW c \in DOMAIN map, splitAt(map, start) = MapCutAt(map, c, start)
          PROVE  start \in DOMAIN first
      BY <2>1 DEF MapCutAt
    <2>. QED  BY <1>0, <2>1, SplitAtCases
  <1>. HIDE DEF first
  <1>4. /\ SliceMap(split) /\ DOMAIN first \subseteq DOMAIN split
        /\ \A x \in Nat : covered(split, x) <=> covered(first, x)
    BY <1>0, <1>1, <1>2, SplitAtFollows, SplitAtKeeps
  <1>5. \/ split = first
        \/ \E c \in DOMAIN first : Across(first, c, start + size)
    BY <1>0, <1>1, SplitAtCases
  <1>6. registerUnmap(map, start, size).map = left /\ registerUnmap(map, start, size).erased = (erased # {})
    BY DEF registerUnmap, Restrict, first
  <1>. HIDE DEF split
  <1>7. ASSUME \A p \in PagesIn(start, size) : ~ covered(map, p), NEW k \in erased PROVE FALSE
    <2>1. k \in DOMAIN split /\ k \in DOMAIN split \ {MAP_FAILED}
      BY <1>0 DEF MAP_FAILED
    <2>2. k \in Page /\ k \in Nat /\ split[k].size > 0
      BY <1>4, <2>1, PageType DEF SliceMap
    <2>3. k \in PagesIn(start, size)
      BY <2>2 DEF PagesIn
    <2>4. split[k].size \in Nat
      BY <1>0, <1>1, <2>1, SplitAtKeeps DEF split, MapOK, MapSlice
    <2>5. covered(split, k)
      BY <2>1, <2>2, <2>4 DEF covered, inSlice
    <2>. QED  BY <1>2, <1>4, <1>7, <2>2, <2>3, <2>5
  <1>8. ASSUME erased = {} PROVE split = map
    <2>1. first = map
      BY <1>0, <1>3, <1>4, <1>8
    <2>2. ASSUME NEW c \in DOMAIN first, Across(first, c, start + size) PROVE FALSE
      <3>1. c \in DOMAIN split /\ c \in Int /\ first[c].size \in Nat
        BY <1>1, <1>2, <1>4, SliceTypes
      <3>2. c < start
        BY <1>0, <1>8, <2>2, <3>1 DEF Across
      <3>3. c + first[c].size <= start
        BY <1>2, <3>2 DEF NoneAcross
      <3>. QED  BY <1>0, <2>2, <3>1, <3>3 DEF Across
    <2>. QED  BY <1>5, <2>1, <2>2
  <1>9. ASSUME erased = {} PROVE DOMAIN left = DOMAIN map /\ \A k \in DOMAIN map : left[k] = map[k]
    BY <1>8, <1>9
  <1>. QED  BY <1>6, <1>7, <1>9

\* _split_at() and splitAt() cut the same slice.
LEMMA SplitSame ==
  ASSUME NEW dict, DictOK(dict), NEW map, MapOK(map), SliceMap(map), SameSlices(dict, map),
         NEW p \in Page \cup {EndOfMemory}
  PROVE  SameSlices(splitDict(dict, p), splitAt(map, p))
  <1>0. p \in Nat /\ LowestPage <= p /\ p <= EndOfMemory /\ p <= Top /\ Top \in Nat /\ p # MAP_FAILED
    BY MemoryBounds DEF MAP_FAILED
  <1>1. \A k \in DOMAIN dict : k \in Nat /\ dict[k].size \in Nat
    BY DEF DictOK, DictSlice
  <1>2. ASSUME NEW c, Across(dict, c, p) PROVE Across(map, c, p)
    <2>1. c \in DOMAIN dict /\ c < Top
      BY <1>0, <1>1, <1>2 DEF Across
    <2>2. c \in DOMAIN map \ {MAP_FAILED}
      BY <2>1 DEF SameSlices
    <2>. QED  BY <1>2, <2>2 DEF SameSlices, Across
  <1>3. ASSUME NEW c, Across(map, c, p) PROVE Across(dict, c, p)
    <2>1. c \in DOMAIN map \ {MAP_FAILED}
      BY <1>0, <1>3, SliceTypes DEF Across
    <2>2. c \in DOMAIN dict /\ dict[c].size = map[c].size
      BY <2>1 DEF SameSlices
    <2>. QED  BY <1>3, <2>2 DEF Across
  <1>4. NoneAcross(dict, p) => \A c : ~ Across(dict, c, p)
    BY <1>0, <1>1 DEF NoneAcross, Across
  <1>5. NoneAcross(map, p) => \A c : ~ Across(map, c, p)
    <2>1. \A k \in DOMAIN map : k \in Int /\ map[k].size \in Nat
      BY SliceTypes
    <2>. QED  BY <1>0, <2>1 DEF NoneAcross, Across
  <1>6. ASSUME NEW c \in DOMAIN dict, Across(dict, c, p), NEW d \in DOMAIN map, Across(map, d, p)
        PROVE  SameSlices(CutAt(dict, c, p), MapCutAt(map, d, p))
    <2>1. Across(dict, d, p)
      BY <1>3, <1>6
    <2>2. c = d
      BY <1>0, <1>1, <1>6, <2>1 DEF Across, DictOK, Disjoint
    <2>3. c \in DOMAIN map \ {MAP_FAILED} /\ c \in Nat /\ c < p /\ dict[c].size = map[c].size
      BY <1>0, <1>1, <1>6, <2>2, SliceTypes DEF SameSlices, Across
    <2>4. p < Top
      BY <1>0, <1>1, <1>6, <2>3, MemoryBounds DEF SliceMap, Across
    <2>. DEFINE one == CutAt(dict, c, p)
                two == MapCutAt(map, c, p)
    <2>5. DOMAIN one = DOMAIN dict \cup {p} /\ DOMAIN two = DOMAIN map \cup {p}
      BY DEF CutAt, MapCutAt
    <2>6. /\ one[c].size = p - c /\ two[c].size = p - c
          /\ one[p].size = c + dict[c].size - p /\ two[p].size = c + map[c].size - p
          /\ \A k \in DOMAIN dict : k # c /\ k # p => one[k] = dict[k]
          /\ \A k \in DOMAIN map : k # c /\ k # p => two[k] = map[k]
      BY <1>0, <1>6, <2>2, <2>3 DEF CutAt, MapCutAt
    <2>. HIDE DEF one, two
    <2>7. {k \in DOMAIN one : k < Top} = DOMAIN two \ {MAP_FAILED}
      BY <1>0, <2>4, <2>5 DEF SameSlices
    <2>8. \A k \in DOMAIN two \ {MAP_FAILED} : one[k].size = two[k].size
      <3>. TAKE k \in DOMAIN two \ {MAP_FAILED}
      <3>1. CASE k = c \/ k = p
        BY <2>3, <2>6, <3>1
      <3>2. CASE k # c /\ k # p
        <4>1. k \in DOMAIN map \ {MAP_FAILED} /\ k \in DOMAIN dict /\ dict[k].size = map[k].size
          BY <2>5, <3>2 DEF SameSlices
        <4>. QED  BY <2>6, <3>2, <4>1
      <3>. QED  BY <3>1, <3>2
    <2>. QED  BY <2>2, <2>7, <2>8 DEF SameSlices, one, two
  <1>7. \/ splitDict(dict, p) = dict /\ NoneAcross(dict, p)
        \/ \E c \in DOMAIN dict : Across(dict, c, p) /\ splitDict(dict, p) = CutAt(dict, c, p)
    BY <1>0, SplitDictCases
  <1>8. \/ splitAt(map, p) = map /\ NoneAcross(map, p)
        \/ \E d \in DOMAIN map : Across(map, d, p) /\ splitAt(map, p) = MapCutAt(map, d, p)
    BY <1>0, SplitAtCases DEF SliceMap
  <1>. QED  BY <1>2, <1>3, <1>4, <1>5, <1>6, <1>7, <1>8

\* register_unmap() and registerUnmap() erase the same slices.
LEMMA UnmapSame ==
  ASSUME NEW dict, DictOK(dict), NEW map, MapOK(map), SliceMap(map), SameSlices(dict, map),
         NEW start \in Page, NEW size \in Nat, size > 0, start + size \in Page \cup {EndOfMemory}
  PROVE  /\ SameSlices(register_unmap(dict, start, size), registerUnmap(map, start, size).map)
         /\ registerUnmap(map, start, size).erased = (erasedKeys(dict, start, size) # {})
  <1>. DEFINE mapFirst == splitAt(map, start)
              mapSplit == splitAt(mapFirst, start + size)
              dictFirst == splitDict(dict, start)
              dictSplit == splitDict(dictFirst, start + size)
              mapErased == {k \in DOMAIN mapSplit : start <= k /\ k < start + size}
              dictErased == {k \in DOMAIN dictSplit : start <= k /\ k < start + size}
              mapLeft == [k \in DOMAIN mapSplit \ mapErased |-> mapSplit[k]]
              dictLeft == [k \in DOMAIN dictSplit \ dictErased |-> dictSplit[k]]
  <1>0. start \in Nat /\ start + size \in Nat /\ start + size <= Top /\ Top \in Nat
    BY PageType, MemoryBounds
  <1>1. MapOK(mapFirst) /\ SliceMap(mapFirst) /\ DictOK(dictFirst) /\ SameSlices(dictFirst, mapFirst)
    BY <1>0, SplitAtKeeps, SplitAtFollows, SplitDict, SplitSame
  <1>. HIDE DEF mapFirst, dictFirst
  <1>2. MapOK(mapSplit) /\ DictOK(dictSplit) /\ SameSlices(dictSplit, mapSplit)
    BY <1>0, <1>1, SplitAtKeeps, SplitDict, SplitSame
  <1>3. /\ registerUnmap(map, start, size).map = mapLeft
        /\ registerUnmap(map, start, size).erased = (mapErased # {})
        /\ erasedKeys(dict, start, size) = dictErased
        /\ register_unmap(dict, start, size) = dictLeft
    BY DEF registerUnmap, splitBothEnds, erasedKeys, register_unmap, Restrict, mapFirst, dictFirst
  <1>. HIDE DEF mapSplit, dictSplit
  <1>4. \A k : k \in DOMAIN mapSplit \ {MAP_FAILED} <=> k \in DOMAIN dictSplit /\ k < Top
    BY <1>2 DEF SameSlices
  <1>5. mapErased = dictErased
    <2>1. \A k \in DOMAIN dictSplit : k \in Nat
      BY <1>2 DEF DictOK
    <2>2. \A k \in DOMAIN mapSplit : k \in Int
      BY <1>2 DEF MapOK, Address, MAP_FAILED
    <2>. QED  BY <1>0, <1>4, <2>1, <2>2 DEF MAP_FAILED
  <1>6. SameSlices(dictLeft, mapLeft)
    <2>. HIDE DEF mapErased, dictErased
    <2>1. {k \in DOMAIN dictLeft : k < Top} = DOMAIN mapLeft \ {MAP_FAILED}
      BY <1>4, <1>5
    <2>2. \A k \in DOMAIN mapLeft \ {MAP_FAILED} : dictLeft[k].size = mapLeft[k].size
      BY <1>2, <1>4, <1>5 DEF SameSlices
    <2>. QED  BY <2>1, <2>2 DEF SameSlices
  <1>. QED  BY <1>3, <1>5, <1>6

\* registerMap() of pages that are not covered covers them, and nothing else,
\* with a slice of their own; register_map() finds nothing to overwrite there.
LEMMA MapFollows ==
  ASSUME NEW map, MapOK(map), SliceMap(map), NEW start \in Page, NEW size \in Nat, size > 0,
         start + size \in Page \cup {EndOfMemory}, NEW a,
         \A p \in PagesIn(start, size) : ~ covered(map, p)
  PROVE  LET mapped == registerMap(map, start, size, a) IN
         /\ SliceMap(mapped)
         /\ \A x \in Nat : covered(mapped, x) <=> covered(map, x) \/ (start <= x /\ x < start + size)
         /\ \A dict, id : DictOK(dict) /\ SameSlices(dict, map)
                            => SameSlices(register_map(dict, start, size, id), mapped)
  <1>. DEFINE new == [size |-> size, allocation |-> a]
              mapped == [k \in DOMAIN map \cup {start} |-> IF k = start THEN new ELSE map[k]]
  <1>0. /\ start \in Nat /\ start + size \in Nat /\ start + size <= EndOfMemory /\ start + size <= Top
        /\ Top \in Nat /\ EndOfMemory \in Nat /\ start # MAP_FAILED /\ start < Top /\ LowestPage <= start
    BY PageType, MemoryBounds DEF MAP_FAILED
  <1>1. \A k \in DOMAIN map : k \in Int /\ map[k].size \in Nat
    BY SliceTypes
  <1>2. \A k \in DOMAIN map : k # MAP_FAILED => k \in Page /\ k \in Nat /\ map[k].size > 0 /\ k + map[k].size <= EndOfMemory
    BY PageType DEF SliceMap
  <1>3. start \in PagesIn(start, size)
    BY <1>0 DEF PagesIn
  <1>4. start \notin DOMAIN map
    BY <1>0, <1>1, <1>2, <1>3 DEF covered, inSlice
  <1>5. registerMap(map, start, size, a) = mapped
    BY <1>4 DEF registerMap
  <1>6. /\ DOMAIN mapped = DOMAIN map \cup {start} /\ mapped[start].size = size
        /\ \A k \in DOMAIN map : mapped[k] = map[k]
    BY <1>4
  <1>. HIDE DEF mapped, new
  <1>7. ASSUME NEW k \in DOMAIN map, k < start PROVE k + map[k].size <= start
    BY <1>0, <1>1, <1>3, <1>7 DEF covered, inSlice
  <1>8. ASSUME NEW k \in DOMAIN map, start < k PROVE start + size <= k
    <2>1. k # MAP_FAILED
      BY <1>0, <1>8 DEF MAP_FAILED
    <2>2. covered(map, k)
      BY <1>1, <1>2, <2>1 DEF covered, inSlice
    <2>3. k \notin PagesIn(start, size)
      BY <2>2
    <2>. QED  BY <1>0, <1>2, <1>8, <2>1, <2>3 DEF PagesIn
  <1>9. SliceMap(mapped)
    <2>1. ASSUME NEW k \in DOMAIN mapped, NEW l \in DOMAIN mapped, k < l
          PROVE  k + mapped[k].size <= l
      <3>1. CASE k = start
        <4>1. l \in DOMAIN map
          BY <1>0, <1>6, <2>1, <3>1
        <4>. QED  BY <1>6, <1>8, <2>1, <3>1, <4>1
      <3>2. CASE l = start
        <4>1. k \in DOMAIN map
          BY <1>0, <1>6, <2>1, <3>2
        <4>. QED  BY <1>6, <1>7, <2>1, <3>2, <4>1
      <3>3. CASE k # start /\ l # start
        BY <1>6, <2>1, <3>3 DEF SliceMap, Disjoint
      <3>. QED  BY <3>1, <3>2, <3>3
    <2>2. \A k \in DOMAIN mapped \ {MAP_FAILED} :
             k \in Page /\ mapped[k].size > 0 /\ k + mapped[k].size <= EndOfMemory
      BY <1>0, <1>2, <1>6
    <2>3. MAP_FAILED \in DOMAIN mapped => mapped[MAP_FAILED].size < UIntModulus
      BY <1>0, <1>6 DEF SliceMap
    <2>. QED  BY <2>1, <2>2, <2>3 DEF SliceMap, Disjoint
  <1>10. ASSUME NEW x \in Nat
         PROVE  covered(mapped, x) <=> covered(map, x) \/ (start <= x /\ x < start + size)
    <2>1. inSlice(mapped, start, x) <=> start <= x /\ x < start + size
      BY <1>6 DEF inSlice
    <2>2. \A k \in DOMAIN map : inSlice(mapped, k, x) <=> inSlice(map, k, x)
      BY <1>6 DEF inSlice
    <2>. QED  BY <1>6, <2>1, <2>2 DEF covered
  <1>11. ASSUME NEW dict, NEW id, DictOK(dict), SameSlices(dict, map)
         PROVE  SameSlices(register_map(dict, start, size, id), mapped)
    <2>. DEFINE kept == register_unmap(dict, start, size)
                entry == [size |-> size, stack_trace_id |-> id]
                both == [k \in DOMAIN kept \cup {start} |-> IF k = start THEN entry ELSE kept[k]]
                left == registerUnmap(map, start, size).map
    <2>1. DOMAIN left = DOMAIN map /\ \A k \in DOMAIN map : left[k] = map[k]
      BY NothingErased
    <2>2. SameSlices(kept, left)
      BY <1>11, UnmapSame
    <2>3. register_map(dict, start, size, id) = both
      BY DEF register_map
    <2>. HIDE DEF kept, left
    <2>4. /\ {k \in DOMAIN kept : k < Top} = DOMAIN map \ {MAP_FAILED}
          /\ \A k \in DOMAIN map \ {MAP_FAILED} : kept[k].size = map[k].size
      BY <2>1, <2>2 DEF SameSlices
    <2>5. DOMAIN both = DOMAIN kept \cup {start} /\ both[start].size = size
          /\ \A k \in DOMAIN kept : k # start => both[k] = kept[k]
      OBVIOUS
    <2>. HIDE DEF both
    <2>6. {k \in DOMAIN both : k < Top} = DOMAIN mapped \ {MAP_FAILED}
      BY <1>0, <1>6, <2>4, <2>5
    <2>7. \A k \in DOMAIN mapped \ {MAP_FAILED} : both[k].size = mapped[k].size
      <3>. TAKE k \in DOMAIN mapped \ {MAP_FAILED}
      <3>1. CASE k = start
        BY <1>6, <2>5, <3>1
      <3>2. CASE k # start
        <4>1. k \in DOMAIN map \ {MAP_FAILED} /\ k \in DOMAIN kept
          BY <1>6, <2>4, <3>2
        <4>. QED  BY <1>6, <2>4, <2>5, <3>2, <4>1
      <3>. QED  BY <3>1, <3>2
    <2>. QED  BY <2>3, <2>6, <2>7 DEF SameSlices
  <1>. QED  BY <1>5, <1>9, <1>10, <1>11

\* A slice at MAP_FAILED meets no other: not in the map, where it is below all
\* of them, nor in the log, where it is above.
LEMMA MapFailedFollows ==
  ASSUME NEW map, MapOK(map), SliceMap(map), NEW size \in Nat, size < UIntModulus, NEW a
  PROVE  LET mapped == registerMap(map, MAP_FAILED, size, a) IN
         /\ SliceMap(mapped)
         /\ \A p \in Page : covered(mapped, p) <=> covered(map, p)
         /\ \A dict : SameSlices(dict, map) => SameSlices(dict, mapped)
  <1>1. CASE MAP_FAILED \in DOMAIN map
    BY <1>1 DEF registerMap
  <1>2. CASE MAP_FAILED \notin DOMAIN map
    <2>. DEFINE new == [size |-> size, allocation |-> a]
                mapped == [k \in DOMAIN map \cup {MAP_FAILED} |-> IF k = MAP_FAILED THEN new ELSE map[k]]
    <2>1. registerMap(map, MAP_FAILED, size, a) = mapped
      BY <1>2 DEF registerMap
    <2>2. /\ DOMAIN mapped = DOMAIN map \cup {MAP_FAILED} /\ mapped[MAP_FAILED].size = size
          /\ \A k \in DOMAIN map : mapped[k] = map[k]
      BY <1>2
    <2>. HIDE DEF mapped
    <2>3. \A k \in DOMAIN map : k \in Nat /\ LowestPage <= k
      BY <1>2, SliceTypes
    <2>4. \A x \in Nat : LowestPage <= x => MAP_FAILED + size < x
      BY MemoryBounds DEF MAP_FAILED
    <2>5. ASSUME NEW k \in DOMAIN mapped, NEW l \in DOMAIN mapped, k < l
          PROVE  k + mapped[k].size <= l
      <3>1. l \in DOMAIN map
        <4>1. CASE l = MAP_FAILED
          BY <2>2, <2>3, <2>5, <4>1 DEF MAP_FAILED
        <4>. QED  BY <2>2, <4>1
      <3>2. CASE k = MAP_FAILED
        <4>1. MAP_FAILED + size < l /\ l \in Nat
          BY <2>3, <2>4, <3>1
        <4>. QED  BY <2>2, <3>2, <4>1 DEF MAP_FAILED
      <3>3. CASE k # MAP_FAILED
        <4>1. k \in DOMAIN map /\ mapped[k] = map[k]
          BY <2>2, <3>3
        <4>. QED  BY <2>5, <3>1, <4>1 DEF SliceMap, Disjoint
      <3>. QED  BY <3>2, <3>3
    <2>6. SliceMap(mapped)
      <3>1. \A k \in DOMAIN mapped \ {MAP_FAILED} :
               k \in Page /\ mapped[k].size > 0 /\ k + mapped[k].size <= EndOfMemory
        BY <2>2 DEF SliceMap
      <3>. QED  BY <2>2, <2>5, <3>1 DEF SliceMap, Disjoint
    <2>7. ASSUME NEW p \in Page PROVE covered(mapped, p) <=> covered(map, p)
      <3>1. ~ inSlice(mapped, MAP_FAILED, p)
        BY <2>2, <2>4, PageType DEF inSlice, MAP_FAILED
      <3>2. \A k \in DOMAIN map : inSlice(mapped, k, p) <=> inSlice(map, k, p)
        BY <2>2 DEF inSlice
      <3>. QED  BY <2>2, <3>1, <3>2 DEF covered
    <2>8. ASSUME NEW dict, SameSlices(dict, map) PROVE SameSlices(dict, mapped)
      BY <2>2, <2>8 DEF SameSlices
    <2>. QED  BY <2>1, <2>6, <2>7, <2>8
  <1>. QED  BY <1>1, <1>2

LEMMA LoggedFailure ==
  ASSUME NEW map, MapOK(map), SliceMap(map), NEW dict, DictOK(dict), SameSlices(dict, map),
         NEW size \in Nat \ {0}, NEW id
  PROVE  SameSlices(register_map(dict, Top, size, id), map)
  <1>. DEFINE split == splitDict(dict, Top + size)
              erased == {k \in DOMAIN split : Top <= k /\ k < Top + size}
              kept == [k \in DOMAIN split \ erased |-> split[k]]
              entry == [size |-> size, stack_trace_id |-> id]
              mapped == [k \in DOMAIN kept \cup {Top} |-> IF k = Top THEN entry ELSE kept[k]]
  <1>0. Top \in Nat /\ Top + size \in Nat /\ EndOfMemory \in Nat /\ EndOfMemory <= Top
    BY MemoryBounds
  <1>1. \A k \in DOMAIN dict : k \in Nat /\ dict[k].size \in Nat
    BY DEF DictOK, DictSlice
  <1>2. \A k \in DOMAIN dict : k < Top => k + dict[k].size <= Top
    <2>. SUFFICES ASSUME NEW k \in DOMAIN dict, k < Top PROVE k + dict[k].size <= Top
      OBVIOUS
    <2>1. k \in DOMAIN map \ {MAP_FAILED} /\ dict[k].size = map[k].size
      BY DEF SameSlices
    <2>2. k + map[k].size <= EndOfMemory
      BY <2>1 DEF SliceMap
    <2>. QED  BY <1>0, <1>1, <2>1, <2>2
  <1>3. splitDict(dict, Top) = dict
    BY <1>0, <1>1, <1>2, SplitDictCases DEF Across
  <1>4. register_map(dict, Top, size, id) = mapped
    <2>1. splitBothEnds(dict, Top, size) = split
      BY <1>3, Zenon DEF splitBothEnds
    <2>2. erasedKeys(dict, Top, size) = erased
      BY <2>1, Zenon DEF erasedKeys
    <2>. HIDE DEF split, erased
    <2>3. register_unmap(dict, Top, size) = kept
      BY <2>1, <2>2, Zenon DEF register_unmap, Restrict
    <2>. HIDE DEF kept
    <2>. QED  BY <2>3, Zenon DEF register_map
  <1>5. /\ \A k \in Nat : k < Top => (k \in DOMAIN split <=> k \in DOMAIN dict)
        /\ \A k \in DOMAIN dict : k < Top => split[k] = dict[k]
    <2>1. CASE split = dict
      BY <2>1
    <2>2. ASSUME NEW c \in DOMAIN dict, Across(dict, c, Top + size), split = CutAt(dict, c, Top + size)
          PROVE  /\ \A k \in Nat : k < Top => (k \in DOMAIN split <=> k \in DOMAIN dict)
                 /\ \A k \in DOMAIN dict : k < Top => split[k] = dict[k]
      <3>1. ~ (c < Top)
        BY <1>0, <1>1, <1>2, <2>2 DEF Across
      <3>2. ~ (Top + size < Top)
        BY <1>0
      <3>. HIDE DEF split
      <3>. QED  BY <2>2, <3>1, <3>2 DEF CutAt
    <2>. QED  BY <1>0, <2>1, <2>2, SplitDictCases
  <1>. HIDE DEF split
  <1>6. \A k \in DOMAIN split : k \in Nat
    BY <1>0, SplitDict DEF DictOK, split
  <1>7. DOMAIN mapped \subseteq Nat
    BY <1>0, <1>6
  <1>8. \A k \in Nat : k < Top => /\ k \in DOMAIN mapped <=> k \in DOMAIN dict
                                  /\ k \in DOMAIN dict => mapped[k] = dict[k]
    <2>. SUFFICES ASSUME NEW k \in Nat, k < Top
                  PROVE  /\ k \in DOMAIN mapped <=> k \in DOMAIN dict
                         /\ k \in DOMAIN dict => mapped[k] = dict[k]
      OBVIOUS
    <2>1. k \notin erased /\ k # Top
      BY <1>0
    <2>2. k \in DOMAIN kept <=> k \in DOMAIN split
      BY <2>1
    <2>3. k \in DOMAIN kept => kept[k] = split[k]
      OBVIOUS
    <2>4. DOMAIN mapped = DOMAIN kept \cup {Top} /\ (k \in DOMAIN kept => mapped[k] = kept[k])
      BY <2>1
    <2>. HIDE DEF erased, kept, mapped
    <2>. QED  BY <1>5, <2>1, <2>2, <2>3, <2>4
  <1>. HIDE DEF mapped
  <1>9. \A k \in DOMAIN map \ {MAP_FAILED} : k \in DOMAIN dict /\ k \in Nat /\ k < Top
    BY <1>1 DEF SameSlices
  <1>10. SameSlices(mapped, map)
    <2>1. {k \in DOMAIN mapped : k < Top} = {k \in DOMAIN dict : k < Top}
      BY <1>1, <1>7, <1>8
    <2>2. \A k \in DOMAIN map \ {MAP_FAILED} : mapped[k].size = dict[k].size
      BY <1>8, <1>9
    <2>. QED  BY <2>1, <2>2 DEF SameSlices
  <1>. QED  BY <1>4, <1>10

LEMMA StoppedStatus ==
  ASSUME NEW why
  PROVE  stop(why).status = why
  BY StoppedRecord DEF stop, newParser

\* The parser after a MAP line, if it got as far as register_map().
LEMMA ReplayMapSame ==
  ASSUME NEW state, ParserOK(state), NEW map, ParserSame(state, map),
         NEW pointer \in Nat, NEW len \in Nat, NEW id \in Nat \ {0}, NEW mapped,
         state.status = "running" /\ round_up_page(len) # 0
           => SameSlices(register_map(state.dict, pointer, round_up_page(len), id), mapped)
  PROVE  ParserSame(replay(state, [type |-> "MAP", pointer |-> pointer, len |-> len, stackTraceId |-> id]),
                    mapped)
  <1>. DEFINE line == [type |-> "MAP", pointer |-> pointer, len |-> len, stackTraceId |-> id]
              size == round_up_page(len)
              dict == register_map(state.dict, pointer, size, id)
              after == replay(state, line)
  <1>1. CASE state.status # "running"
    <2>1. after = state
      BY <1>1 DEF replay
    <2>. HIDE DEF after
    <2>. QED  BY <1>1, <2>1 DEF ParserSame, after
  <1>2. CASE state.status = "running"
    <2>1. after = replayMap(state, pointer, len, id)
      BY <1>2 DEF replay
    <2>2. size \in Nat
      BY RoundUpType
    <2>3. CASE size = 0
      <3>1. after = stop("size is zero")
        BY <2>1, <2>3 DEF replayMap
      <3>2. after.status = "size is zero"
        BY <3>1, StoppedStatus, Zenon
      <3>. HIDE DEF after
      <3>. QED  BY <3>2 DEF ParserSame, after
    <2>4. CASE size # 0
      <3>. HIDE DEF size
      <3>1. asserts(state.dict, pointer, size)
        BY <2>2, <2>4, MapDict DEF ParserOK
      <3>2. PICK total : after = [state EXCEPT !.dict = dict, !.accum_memory = total]
        BY <2>1, <2>4, <3>1 DEF replayMap, size
      <3>. HIDE DEF after, dict
      <3>3. after.dict = dict /\ after.status = "running"
        BY <1>2, <3>2 DEF ParserOK
      <3>4. SameSlices(dict, mapped)
        BY <1>2, <2>4 DEF dict, size
      <3>. QED  BY <3>3, <3>4 DEF ParserSame, after
    <2>. QED  BY <2>3, <2>4
  <1>. QED  BY <1>1, <1>2

\* The parser after an UNMAP line that has a slice to erase.
LEMMA ReplayUnmapSame ==
  ASSUME NEW state, ParserOK(state), NEW map, ParserSame(state, map),
         NEW pointer \in Nat, NEW len \in Nat, NEW left,
         state.status = "running"
           => /\ erasedKeys(state.dict, pointer, round_up_page(len)) # {}
              /\ SameSlices(register_unmap(state.dict, pointer, round_up_page(len)), left)
  PROVE  ParserSame(replay(state, [type |-> "UNMAP", pointer |-> pointer, len |-> len]), left)
  <1>. DEFINE line == [type |-> "UNMAP", pointer |-> pointer, len |-> len]
              size == round_up_page(len)
              dict == register_unmap(state.dict, pointer, size)
              after == replay(state, line)
  <1>1. CASE state.status # "running"
    <2>1. after = state
      BY <1>1 DEF replay
    <2>. HIDE DEF after
    <2>. QED  BY <1>1, <2>1 DEF ParserSame, after
  <1>2. CASE state.status = "running"
    <2>1. after = replayUnmap(state, pointer, len)
      BY <1>2 DEF replay
    <2>2. size \in Nat
      BY RoundUpType
    <2>3. CASE size = 0
      <3>1. after = stop("size is zero")
        BY <2>1, <2>3 DEF replayUnmap
      <3>2. after.status = "size is zero"
        BY <3>1, StoppedStatus, Zenon
      <3>. HIDE DEF after
      <3>. QED  BY <3>2 DEF ParserSame, after
    <2>4. CASE size # 0
      <3>. HIDE DEF size
      <3>1. /\ asserts(state.dict, pointer, size)
            /\ \A filter : /\ erasedBytes(state.dict, pointer, size, filter) \in Nat
                           /\ erasedBytes(state.dict, pointer, size, filter) <= size
        BY <2>2, UnmapDict DEF ParserOK
      <3>2. ~ (erasedBytes(state.dict, pointer, size, AllIds(state.dict)) > size)
        BY <2>2, <3>1
      <3>3. erasedKeys(state.dict, pointer, size) # {} /\ SameSlices(dict, left)
        BY <1>2 DEF size
      <3>4. PICK total : after = [state EXCEPT !.dict = dict, !.accum_memory = total]
        BY <2>1, <2>4, <3>1, <3>2, <3>3 DEF replayUnmap, size
      <3>. HIDE DEF after, dict
      <3>5. after.dict = dict /\ after.status = "running"
        BY <1>2, <3>4 DEF ParserOK
      <3>. QED  BY <3>3, <3>5 DEF ParserSame, after
    <2>. QED  BY <2>3, <2>4
  <1>. QED  BY <1>1, <1>2

-----------------------------------------------------------------------------
(* The steps, as long as nothing disturbed the tool.                       *)

\* The pages of the calls in flight.
LEMMA FlightPages ==
  ASSUME NEW p
  PROVE  /\ p \in PagesInFlight("mmap") <=>
              \E t \in Thread : call[t].type = "mmap" /\ call[t].start # MAP_FAILED /\ p \in rangeOf(t)
         /\ p \in PagesInFlight("munmap") <=>
              \E t \in Thread : call[t].type = "munmap" /\ call[t].ret = 0 /\ p \in rangeOf(t)
         /\ p \in PagesInFlight("mmap") \cup PagesInFlight("munmap") <=>
              \E t \in Thread : inFlight(t) /\ p \in rangeOf(t)
  <1>1. p \in PagesInFlight("mmap") <=>
          \E t \in Thread : call[t].type = "mmap" /\ call[t].start # MAP_FAILED /\ p \in rangeOf(t)
    BY DEF PagesInFlight, rangeOf
  <1>2. p \in PagesInFlight("munmap") <=>
          \E t \in Thread : call[t].type = "munmap" /\ call[t].ret = 0 /\ p \in rangeOf(t)
    BY DEF PagesInFlight, rangeOf
  <1>. QED  BY <1>1, <1>2 DEF inFlight

LEMMA InitFollowed == Init => Undisturbed
  <1>. SUFFICES ASSUME Init PROVE Undisturbed
    OBVIOUS
  <1>1. memoryMap = << >> /\ DOMAIN memoryMap = {}
    BY EmptyDomain DEF Init, emptyMemoryMap
  <1>2. SliceMap(memoryMap)
    BY <1>1 DEF SliceMap, Disjoint
  <1>3. \A t \in Thread : ~ inFlight(t)
    BY DEF Init, NoCall, inFlight
  <1>4. FlightsApart
    BY <1>3 DEF FlightsApart
  <1>5. KernelKnown
    BY <1>1 DEF KernelKnown, covered, Init
  <1>6. parser.dict = << >> /\ parser.status = "running"
    BY DEF Init, newParser
  <1>7. ParserSame(parser, memoryMap)
    BY <1>1, <1>6, EmptyDomain DEF ParserSame, SameSlices
  <1>. QED  BY <1>2, <1>4, <1>5, <1>7 DEF Undisturbed

\* A real call that fails changes nothing that is in flight.
LEMMA FailedCallFollowed ==
  ASSUME Inv, Undisturbed, NEW t \in Thread, call[t] = NoCall,
         NEW c, call' = [call EXCEPT ![t] = c],
         (c.type = "mmap" /\ c.start = MAP_FAILED) \/ (c.type = "munmap" /\ c.ret # 0),
         UNCHANGED <<kernel, memoryMap, parser>>
  PROVE  Undisturbed'
  <1>1. call'[t] = c /\ \A u \in Thread : u # t => call'[u] = call[u]
    BY DEF Inv, VariableTypes
  <1>2. ~ inFlight(t) /\ ~ inFlight(t)'
    BY <1>1 DEF inFlight, NoCall
  <1>3. \A u \in Thread : /\ inFlight(u)' <=> inFlight(u)
                          /\ inFlight(u) => call'[u] = call[u] /\ rangeOf(u)' = rangeOf(u)
    BY <1>1, <1>2 DEF inFlight, rangeOf
  <1>4. FlightsApart'
    BY <1>3 DEF Undisturbed, FlightsApart
  <1>5. KernelKnown'
    BY <1>3 DEF Undisturbed, KernelKnown
  <1>. QED  BY <1>4, <1>5 DEF Undisturbed

\* A real call that succeeds on a range that no call in flight has.
LEMMA RealCallFollowed ==
  ASSUME Inv, Undisturbed, NEW t \in Thread, call[t] = NoCall,
         NEW c \in MmapCall \cup MunmapCall, call' = [call EXCEPT ![t] = c],
         NEW value, kernel' = [p \in Page |-> IF p \in PagesIn(c.start, c.len) THEN value ELSE kernel[p]],
         ~ isWide(c.len),
         \A u \in Thread, p \in PagesIn(c.start, c.len) : inFlight(u) => p \notin rangeOf(u),
         \/ /\ c.type = "mmap" /\ c.start # MAP_FAILED /\ value = "anonymous"
            /\ \A p \in PagesIn(c.start, c.len) : kernel[p] # "anonymous"
         \/ c.type = "munmap" /\ c.ret = 0 /\ value # "anonymous",
         UNCHANGED <<memoryMap, parser>>
  PROVE  Undisturbed'
  <1>. DEFINE range == PagesIn(c.start, c.len)
  <1>0. range \subseteq Page /\ rangeOf(t)' = range
    BY DEF PagesIn, rangeOf, Inv, VariableTypes
  <1>1. call'[t] = c /\ \A u \in Thread : u # t => call'[u] = call[u]
    BY DEF Inv, VariableTypes
  <1>2. ~ inFlight(t)
    BY DEF inFlight, NoCall
  <1>3. \A u \in Thread : u # t => (inFlight(u)' <=> inFlight(u)) /\ rangeOf(u)' = rangeOf(u)
    BY <1>1 DEF inFlight, rangeOf
  <1>4. /\ \A p \in range : kernel'[p] = value
        /\ \A p \in Page \ range : kernel'[p] = kernel[p]
    BY <1>0
  <1>. HIDE DEF range
  <1>5. \A u \in Thread, p \in range : inFlight(u) => p \notin rangeOf(u)
    BY DEF range
  <1>6. \A u \in Thread : rangeOf(u) \subseteq Page
    BY DEF rangeOf, PagesIn
  <1>7. ASSUME NEW u \in Thread, inFlight(u)' PROVE ~ isWide(call'[u].len)
    BY <1>1, <1>3, <1>7 DEF Undisturbed, FlightsApart
  <1>8. ASSUME NEW u \in Thread, inFlight(u)', NEW p \in rangeOf(u)'
        PROVE  IF call'[u].type = "mmap" THEN kernel'[p] = "anonymous" /\ ~ covered(memoryMap, p)
               ELSE kernel'[p] # "anonymous"
    <2>1. CASE u = t
      <3>1. p \in range /\ p \in Page
        BY <1>0, <1>8, <2>1
      <3>2. c.type = "mmap" => ~ covered(memoryMap, p)
        BY <1>5, <3>1 DEF Undisturbed, KernelKnown, range
      <3>. QED  BY <1>1, <1>4, <2>1, <3>1, <3>2
    <2>2. CASE u # t
      <3>1. inFlight(u) /\ p \in rangeOf(u) /\ p \in Page /\ p \notin range /\ call'[u] = call[u]
        BY <1>1, <1>3, <1>5, <1>6, <1>8, <2>2
      <3>2. kernel'[p] = kernel[p]
        BY <1>4, <3>1
      <3>. QED  BY <3>1, <3>2 DEF Undisturbed, FlightsApart
    <2>. QED  BY <2>1, <2>2
  <1>9. ASSUME NEW u \in Thread, NEW v \in Thread, u # v, inFlight(u)', inFlight(v)'
        PROVE  rangeOf(u)' \cap rangeOf(v)' = {}
    <2>1. CASE u = t
      BY <1>0, <1>3, <1>5, <1>9, <2>1
    <2>2. CASE v = t
      BY <1>0, <1>3, <1>5, <1>9, <2>2
    <2>3. CASE u # t /\ v # t
      BY <1>3, <1>9, <2>3 DEF Undisturbed, FlightsApart
    <2>. QED  BY <2>1, <2>2, <2>3
  <1>10. FlightsApart'
    BY <1>7, <1>8, <1>9 DEF FlightsApart
  <1>11. ASSUME NEW p \in Page, \A u \in Thread : inFlight(u)' => p \notin rangeOf(u)'
         PROVE  covered(memoryMap, p) <=> kernel'[p] = "anonymous"
    <2>1. inFlight(t)' => p \notin range
      BY <1>0, <1>11
    <2>2. CASE p \notin range
      <3>1. \A u \in Thread : inFlight(u) => p \notin rangeOf(u)
        BY <1>2, <1>3, <1>11
      <3>. QED  BY <1>4, <2>2, <3>1 DEF Undisturbed, KernelKnown
    <2>3. CASE p \in range
      <3>1. inFlight(t)'
        BY <1>1 DEF inFlight
      <3>. QED  BY <2>1, <2>3, <3>1
    <2>. QED  BY <2>2, <2>3
  <1>12. KernelKnown'
    BY <1>11 DEF KernelKnown
  <1>. QED  BY <1>10, <1>12 DEF Undisturbed

\* mmap(), the first half.
LEMMA RealMmapFollowed ==
  ASSUME Inv, Followed, NEW t \in Thread, RealMmap(t) \/ RealMmapFixed(t), ~ disturbed'
  PROVE  Undisturbed'
  <1>0. call[t] = NoCall /\ UNCHANGED <<memoryMap, parser>>
    BY DEF RealMmap, RealMmapFixed, mayCall
  <1>1. PICK start \in Page, len \in Size, s \in StackTrace :
          /\ kernel' = [p \in Page |-> IF p \in PagesIn(start, len) THEN "anonymous" ELSE kernel[p]]
          /\ call' = [call EXCEPT ![t] = [type |-> "mmap", start |-> start, len |-> len, stackTrace |-> s]]
          /\ ~ disturbed /\ ~ isWide(len)
          /\ \/ /\ \A p \in PagesIn(start, len) : kernel[p] = "free"
                /\ PagesIn(start, len) \cap PagesInFlight("munmap") = {}
             \/ /\ ~ \E p \in PagesIn(start, len) : kernel[p] = "anonymous"
                /\ PagesIn(start, len) \cap (PagesInFlight("mmap") \cup PagesInFlight("munmap")) = {}
    <2>1. CASE RealMmap(t)
      BY <2>1, Zenon DEF RealMmap
    <2>2. CASE RealMmapFixed(t)
      BY <2>2, Zenon DEF RealMmapFixed
    <2>. QED  BY <2>1, <2>2, Zenon
  <1>. DEFINE range == PagesIn(start, len)
  <1>2. Undisturbed
    BY <1>1, Zenon DEF Followed
  <1>. HIDE DEF range
  <1>3. ASSUME NEW u \in Thread, NEW p \in range, inFlight(u) PROVE p \notin rangeOf(u)
    <2>. SUFFICES ASSUME p \in rangeOf(u) PROVE FALSE
      OBVIOUS
    <2>1. p \in PagesInFlight("mmap") \cup PagesInFlight("munmap")
      BY <1>3, FlightPages
    <2>2. CASE call[u].type = "mmap"
      <3>1. kernel[p] = "anonymous"
        BY <1>2, <1>3, <2>2 DEF Undisturbed, FlightsApart
      <3>. QED  BY <1>1, <2>1, <3>1 DEF range
    <2>3. CASE call[u].type # "mmap"
      <3>1. p \in PagesInFlight("munmap")
        BY <1>3, <2>3, FlightPages DEF inFlight
      <3>. QED  BY <1>1, <3>1 DEF range
    <2>. QED  BY <2>2, <2>3
  <1>4. \A p \in range : kernel[p] # "anonymous"
    BY <1>1 DEF range
  <1>5. PICK c : c = [type |-> "mmap", start |-> start, len |-> len, stackTrace |-> s]
    OBVIOUS
  <1>6. /\ c \in MmapCall \cup MunmapCall /\ c.type = "mmap" /\ c.start = start /\ c.len = len
        /\ c.start # MAP_FAILED /\ PagesIn(c.start, c.len) = range
    BY <1>5, PageType DEF MmapCall, range, MAP_FAILED
  <1>7. call' = [call EXCEPT ![t] = c]
    BY <1>1, <1>5, Zenon
  <1>8. kernel' = [p \in Page |-> IF p \in PagesIn(c.start, c.len) THEN "anonymous" ELSE kernel[p]]
    BY <1>1, <1>6, Zenon
  <1>9. /\ \A u \in Thread, p \in PagesIn(c.start, c.len) : inFlight(u) => p \notin rangeOf(u)
        /\ \A p \in PagesIn(c.start, c.len) : kernel[p] # "anonymous"
    BY <1>3, <1>4, <1>6
  <1>10. ~ isWide(c.len)
    BY <1>1, <1>6, Zenon
  <1>. QED  BY <1>0, <1>2, <1>6, <1>7, <1>8, <1>9, <1>10, RealCallFollowed

\* munmap(), the first half.
LEMMA RealMunmapFollowed ==
  ASSUME Inv, Followed, NEW t \in Thread, RealMunmap(t), ~ disturbed'
  PROVE  Undisturbed'
  <1>0. call[t] = NoCall /\ UNCHANGED <<memoryMap, parser>>
    BY DEF RealMunmap, mayCall
  <1>1. PICK start \in Page, len \in Size :
          /\ kernel' = [p \in Page |-> IF p \in PagesIn(start, len) THEN "free" ELSE kernel[p]]
          /\ call' = [call EXCEPT ![t] = [type |-> "munmap", start |-> start, len |-> len, ret |-> 0]]
          /\ ~ disturbed /\ ~ isWide(len)
          /\ PagesIn(start, len) \cap (PagesInFlight("mmap") \cup PagesInFlight("munmap")) = {}
    BY Zenon DEF RealMunmap
  <1>. DEFINE range == PagesIn(start, len)
  <1>2. Undisturbed
    BY <1>1, Zenon DEF Followed
  <1>. HIDE DEF range
  <1>3. ASSUME NEW u \in Thread, NEW p \in range, inFlight(u) PROVE p \notin rangeOf(u)
    <2>1. p \notin PagesInFlight("mmap") \cup PagesInFlight("munmap")
      BY <1>1 DEF range
    <2>. QED  BY <1>3, <2>1, FlightPages
  <1>5. PICK c : c = [type |-> "munmap", start |-> start, len |-> len, ret |-> 0]
    OBVIOUS
  <1>6. /\ c \in MmapCall \cup MunmapCall /\ c.type = "munmap" /\ c.start = start /\ c.len = len
        /\ c.ret = 0 /\ PagesIn(c.start, c.len) = range
    BY <1>5 DEF MunmapCall, range
  <1>7. call' = [call EXCEPT ![t] = c]
    BY <1>1, <1>5, Zenon
  <1>8. kernel' = [p \in Page |-> IF p \in PagesIn(c.start, c.len) THEN "free" ELSE kernel[p]]
    BY <1>1, <1>6, Zenon
  <1>9. \A u \in Thread, p \in PagesIn(c.start, c.len) : inFlight(u) => p \notin rangeOf(u)
    BY <1>3, <1>6
  <1>10. ~ isWide(c.len)
    BY <1>1, <1>6, Zenon
  <1>. QED  BY <1>0, <1>2, <1>6, <1>7, <1>8, <1>9, <1>10, RealCallFollowed

\* A real call that fails.
LEMMA RealFailsFollowed ==
  ASSUME Inv, Followed, NEW t \in Thread, RealMmapFails(t) \/ RealMunmapFails(t), ~ disturbed'
  PROVE  Undisturbed'
  <1>0. call[t] = NoCall /\ UNCHANGED <<kernel, memoryMap, parser>>
    BY DEF RealMmapFails, RealMunmapFails, mayCall
  <1>1. Undisturbed
    <2>1. disturbed' = disturbed
      BY DEF RealMmapFails, RealMunmapFails
    <2>. QED  BY <2>1, Zenon DEF Followed
  <1>2. PICK c : /\ call' = [call EXCEPT ![t] = c]
                 /\ (c.type = "mmap" /\ c.start = MAP_FAILED) \/ (c.type = "munmap" /\ c.ret # 0)
    <2>1. CASE RealMmapFails(t)
      <3>1. PICK len \in Size, s \in StackTrace :
              call' = [call EXCEPT ![t] =
                         [type |-> "mmap", start |-> MAP_FAILED, len |-> len, stackTrace |-> s]]
        BY <2>1 DEF RealMmapFails
      <3>2. PICK c : c = [type |-> "mmap", start |-> MAP_FAILED, len |-> len, stackTrace |-> s]
        OBVIOUS
      <3>3. c.type = "mmap" /\ c.start = MAP_FAILED
        BY <3>2
      <3>. QED  BY <3>1, <3>2, <3>3, Zenon
    <2>2. CASE RealMunmapFails(t)
      <3>1. PICK start \in Page, len \in Size :
              call' = [call EXCEPT ![t] =
                         [type |-> "munmap", start |-> start, len |-> len, ret |-> -1]]
        BY <2>2 DEF RealMunmapFails
      <3>2. PICK c : c = [type |-> "munmap", start |-> start, len |-> len, ret |-> -1]
        OBVIOUS
      <3>3. c.type = "munmap" /\ c.ret # 0
        BY <3>2
      <3>. QED  BY <3>1, <3>2, <3>3, Zenon
    <2>. QED  BY <2>1, <2>2
  <1>. QED  BY <1>0, <1>1, <1>2, FailedCallFollowed

\* A file that is mapped over no anonymous memory, though perhaps where a
\* munmap() is not noted yet.
LEMMA MmapFileFollowed ==
  ASSUME Inv, Followed, NEW t \in Thread, MmapFile(t), ~ disturbed'
  PROVE  Undisturbed'
  <1>0. UNCHANGED <<memoryMap, parser, call>>
    BY DEF MmapFile
  <1>1. PICK start \in Page, len \in Size :
          /\ kernel' = [p \in Page |-> IF p \in PagesIn(start, len) THEN "file" ELSE kernel[p]]
          /\ ~ disturbed
          /\ ~ \E p \in PagesIn(start, len) : kernel[p] = "anonymous"
    BY Zenon DEF MmapFile
  <1>2. Undisturbed
    BY <1>1, Zenon DEF Followed
  <1>3. \A p \in Page : kernel'[p] = "anonymous" <=> kernel[p] = "anonymous"
    BY <1>1
  <1>4. \A u \in Thread : /\ inFlight(u)' <=> inFlight(u)
                          /\ rangeOf(u)' = rangeOf(u) /\ rangeOf(u) \subseteq Page
    BY <1>0 DEF inFlight, rangeOf, PagesIn
  <1>5. FlightsApart'
    BY <1>0, <1>2, <1>3, <1>4 DEF Undisturbed, FlightsApart
  <1>6. KernelKnown'
    BY <1>0, <1>2, <1>3, <1>4 DEF Undisturbed, KernelKnown
  <1>. QED  BY <1>0, <1>2, <1>5, <1>6 DEF Undisturbed

\* A call that is noted leaves its range known as the kernel has it, and the
\* rest as it was.
LEMMA NotedFollowed ==
  ASSUME Inv, Undisturbed, NEW t \in Thread, call' = [call EXCEPT ![t] = NoCall], UNCHANGED kernel,
         SliceMap(memoryMap'), ParserSame(parser', memoryMap'),
         NEW range, inFlight(t) => range = rangeOf(t), ~ inFlight(t) => range = {},
         \A p \in Page : p \notin range => (covered(memoryMap', p) <=> covered(memoryMap, p)),
         \A p \in range : covered(memoryMap', p) <=> kernel[p] = "anonymous"
  PROVE  Undisturbed'
  <1>1. call'[t] = NoCall /\ \A u \in Thread : u # t => call'[u] = call[u]
    BY DEF Inv, VariableTypes
  <1>2. ~ inFlight(t)'
    BY <1>1 DEF inFlight, NoCall
  <1>3. \A u \in Thread : u # t => (inFlight(u)' <=> inFlight(u)) /\ rangeOf(u)' = rangeOf(u)
    BY <1>1 DEF inFlight, rangeOf
  <1>4. \A u \in Thread : rangeOf(u) \subseteq Page
    BY DEF rangeOf, PagesIn
  <1>5. ASSUME NEW u \in Thread, inFlight(u)' PROVE u # t /\ inFlight(u) /\ rangeOf(u) \cap range = {}
    <2>1. u # t /\ inFlight(u)
      BY <1>2, <1>3, <1>5
    <2>2. CASE inFlight(t)
      BY <2>1, <2>2 DEF Undisturbed, FlightsApart
    <2>3. CASE ~ inFlight(t)
      BY <2>1, <2>3
    <2>. QED  BY <2>1, <2>2, <2>3
  <1>6. ASSUME NEW u \in Thread, inFlight(u)', NEW p \in rangeOf(u)'
        PROVE  IF call'[u].type = "mmap" THEN kernel'[p] = "anonymous" /\ ~ covered(memoryMap', p)
               ELSE kernel'[p] # "anonymous"
    <2>1. inFlight(u) /\ p \in rangeOf(u) /\ p \in Page /\ p \notin range /\ call'[u] = call[u]
      BY <1>1, <1>3, <1>4, <1>5, <1>6
    <2>2. covered(memoryMap', p) <=> covered(memoryMap, p)
      BY <2>1
    <2>. QED  BY <2>1, <2>2 DEF Undisturbed, FlightsApart
  <1>7. \A u \in Thread : inFlight(u)' => ~ isWide(call'[u].len)
    BY <1>1, <1>5 DEF Undisturbed, FlightsApart
  <1>8. \A u, v \in Thread : u # v /\ inFlight(u)' /\ inFlight(v)' => rangeOf(u)' \cap rangeOf(v)' = {}
    BY <1>3, <1>5 DEF Undisturbed, FlightsApart
  <1>9. FlightsApart'
    BY <1>6, <1>7, <1>8 DEF FlightsApart
  <1>10. ASSUME NEW p \in Page, \A u \in Thread : inFlight(u)' => p \notin rangeOf(u)'
         PROVE  covered(memoryMap', p) <=> kernel'[p] = "anonymous"
    <2>1. CASE p \in range
      BY <2>1
    <2>2. CASE p \notin range
      <3>1. \A u \in Thread : inFlight(u) => p \notin rangeOf(u)
        BY <1>3, <1>10, <2>2
      <3>. QED  BY <2>2, <3>1 DEF Undisturbed, KernelKnown
    <2>. QED  BY <2>1, <2>2
  <1>11. KernelKnown'
    BY <1>10 DEF KernelKnown
  <1>. QED  BY <1>9, <1>11 DEF Undisturbed

\* The range of a call in flight, once its length is rounded up.
LEMMA FlightRange ==
  ASSUME Inv, Undisturbed, NEW t \in Thread, inFlight(t)
  PROVE  LET start == call[t].start
             size == roundUpToPageMultiple(call[t].len)
         IN  /\ start \in Page /\ call[t].len \in Nat
             /\ size = round_up_page(call[t].len) /\ size \in Nat /\ size > 0
             /\ start + size \in Page \cup {EndOfMemory}
             /\ rangeOf(t) = PagesIn(start, size)
  <1>. DEFINE start == call[t].start
              len == call[t].len
  <1>1. start \in Page /\ len \in Size
    BY DEF Inv, VariableTypes, inFlight, NoCall, MmapCall, MunmapCall
  <1>2. len \in Nat /\ len > 0 /\ start + len <= EndOfMemory
    BY <1>1, MmapAssumption DEF Inv, fits
  <1>3. ~ isWide(len)
    BY DEF Undisturbed, FlightsApart
  <1>4. roundUpToPageMultiple(len) = round_up_page(len)
    BY <1>2, <1>3, RoundUpModulo
  <1>5. rangeOf(t) = PagesIn(start, len)
    BY DEF rangeOf
  <1>. HIDE DEF start, len
  <1>6. /\ round_up_page(len) \in Nat /\ len <= round_up_page(len)
        /\ start + round_up_page(len) \in Page \cup {EndOfMemory}
        /\ PagesIn(start, round_up_page(len)) = PagesIn(start, len)
    BY <1>1, <1>2, RoundUp
  <1>7. round_up_page(len) > 0
    BY <1>2, <1>6
  <1>8. rangeOf(t) = PagesIn(start, roundUpToPageMultiple(len))
    BY <1>4, <1>5, <1>6, Zenon
  <1>9. start + roundUpToPageMultiple(len) \in Page \cup {EndOfMemory}
    BY <1>4, <1>6, Zenon
  <1>. QED  BY <1>1, <1>2, <1>4, <1>6, <1>7, <1>8, <1>9 DEF start, len

LEMMA NoteMmapFollowed ==
  ASSUME Inv, Followed, NEW t \in Thread, NoteMmap(t), ~ disturbed'
  PROVE  Undisturbed'
  <1>. DEFINE c == call[t]
              a == [id |-> freshId, stackTrace |-> c.stackTrace]
              size == roundUpToPageMultiple(c.len)
              id == knownStackTraceHashToId'[c.stackTrace]
  <1>0. /\ call' = [call EXCEPT ![t] = NoCall] /\ UNCHANGED kernel
        /\ parser' = replay(parser, [type |-> "MAP", pointer |-> logged(c.start), len |-> c.len,
                                     stackTraceId |-> id])
        /\ memoryMap' = registerMap(memoryMap, c.start, size, a)
    BY DEF NoteMmap
  <1>1. Undisturbed
    <2>1. disturbed' = disturbed
      BY DEF NoteMmap
    <2>. QED  BY <2>1, Zenon DEF Followed
  <1>2. c \in MmapCall /\ c.type = "mmap"
    BY DEF NoteMmap, Inv, VariableTypes, NoCall, MunmapCall
  <1>3. /\ c.len \in Nat /\ c.stackTrace \in StackTrace /\ logged(c.start) \in Nat
        /\ c.start = MAP_FAILED => logged(c.start) = Top
        /\ c.start # MAP_FAILED => logged(c.start) = c.start
    BY <1>2, PageType, MmapAssumption DEF MmapCall, logged
  <1>4. id \in Nat \ {0}
    <2>1. c.stackTrace \in DOMAIN knownStackTraceHashToId'
          /\ \A s \in DOMAIN knownStackTraceHashToId' : knownStackTraceHashToId'[s] \in Nat \ {0}
      BY <1>3, StackIds DEF NoteMmap
    <2>. QED  BY <2>1
  <1>. HIDE DEF id, a
  <1>5. /\ MapOK(memoryMap) /\ SliceMap(memoryMap) /\ ParserOK(parser) /\ DictOK(parser.dict)
        /\ ParserSame(parser, memoryMap)
    BY <1>1 DEF Inv, VariableTypes, ParserOK, Undisturbed
  <1>6. parser.status = "running" => SameSlices(parser.dict, memoryMap)
    BY <1>5 DEF ParserSame
  <1>7. CASE c.start # MAP_FAILED
    <2>1. inFlight(t)
      BY <1>2, <1>7 DEF inFlight
    <2>2. /\ c.start \in Page /\ size = round_up_page(c.len) /\ size \in Nat /\ size > 0
          /\ c.start + size \in Page \cup {EndOfMemory} /\ rangeOf(t) = PagesIn(c.start, size)
      BY <1>1, <2>1, FlightRange
    <2>3. \A p \in PagesIn(c.start, size) : kernel[p] = "anonymous" /\ ~ covered(memoryMap, p)
      BY <1>1, <1>2, <2>1, <2>2 DEF Undisturbed, FlightsApart
    <2>. HIDE DEF size
    <2>4. /\ SliceMap(memoryMap')
          /\ \A x \in Nat : covered(memoryMap', x) <=> covered(memoryMap, x) \/ (c.start <= x /\ x < c.start + size)
          /\ \A dict, i : DictOK(dict) /\ SameSlices(dict, memoryMap)
                            => SameSlices(register_map(dict, c.start, size, i), memoryMap')
      BY <1>0, <1>5, <2>2, <2>3, MapFollows
    <2>5. parser.status = "running" /\ round_up_page(c.len) # 0
            => SameSlices(register_map(parser.dict, logged(c.start), round_up_page(c.len), id), memoryMap')
      BY <1>3, <1>5, <1>6, <1>7, <2>2, <2>4, Zenon
    <2>6. ParserSame(parser', memoryMap')
      <3>. HIDE DEF c
      <3>. QED  BY <1>0, <1>3, <1>4, <1>5, <2>5, ReplayMapSame
    <2>7. \A p \in Page : p \notin rangeOf(t) => (covered(memoryMap', p) <=> covered(memoryMap, p))
      BY <2>2, <2>4, PageType DEF PagesIn
    <2>8. \A p \in rangeOf(t) : covered(memoryMap', p) <=> kernel[p] = "anonymous"
      BY <2>2, <2>3, <2>4, PageType DEF PagesIn
    <2>. QED  BY <1>0, <1>1, <2>1, <2>4, <2>6, <2>7, <2>8, NotedFollowed
  <1>8. CASE c.start = MAP_FAILED
    <2>1. ~ inFlight(t)
      BY <1>2, <1>8 DEF inFlight
    <2>2. size \in Nat /\ size < UIntModulus
      BY <1>3, RoundUpModulo
    <2>. HIDE DEF size
    <2>3. memoryMap' = registerMap(memoryMap, MAP_FAILED, size, a)
      BY <1>0, <1>8, Zenon
    <2>4. /\ SliceMap(memoryMap')
          /\ \A p \in Page : covered(memoryMap', p) <=> covered(memoryMap, p)
          /\ \A dict : SameSlices(dict, memoryMap) => SameSlices(dict, memoryMap')
      BY <1>5, <2>2, <2>3, MapFailedFollows
    <2>5. ASSUME parser.status = "running", round_up_page(c.len) # 0
          PROVE  SameSlices(register_map(parser.dict, Top, round_up_page(c.len), id), memoryMap')
      <3>1. round_up_page(c.len) \in Nat \ {0}
        BY <1>3, <2>5, RoundUpType
      <3>2. SameSlices(register_map(parser.dict, Top, round_up_page(c.len), id), memoryMap)
        BY <1>5, <1>6, <2>5, <3>1, LoggedFailure
      <3>. QED  BY <2>4, <3>2
    <2>6. parser.status = "running" /\ round_up_page(c.len) # 0
            => SameSlices(register_map(parser.dict, logged(c.start), round_up_page(c.len), id), memoryMap')
      BY <1>3, <1>8, <2>5, Zenon
    <2>7. ParserSame(parser', memoryMap')
      <3>. HIDE DEF c
      <3>. QED  BY <1>0, <1>3, <1>4, <1>5, <2>6, ReplayMapSame
    <2>8. PICK none : none = {}
      OBVIOUS
    <2>9. /\ \A p \in Page : p \notin none => (covered(memoryMap', p) <=> covered(memoryMap, p))
          /\ \A p \in none : covered(memoryMap', p) <=> kernel[p] = "anonymous"
          /\ inFlight(t) => none = rangeOf(t)
      BY <2>1, <2>4, <2>8
    <2>. QED  BY <1>0, <1>1, <2>4, <2>7, <2>8, <2>9, NotedFollowed
  <1>. QED  BY <1>7, <1>8

LEMMA NoteMunmapFollowed ==
  ASSUME Inv, Followed, NEW t \in Thread, NoteMunmap(t), ~ disturbed'
  PROVE  Undisturbed'
  <1>. DEFINE c == call[t]
              size == roundUpToPageMultiple(c.len)
              result == registerUnmap(memoryMap, c.start, size)
  <1>0. /\ call' = [call EXCEPT ![t] = NoCall] /\ UNCHANGED kernel
        /\ parser' = IF result.erased THEN replay(parser, [type |-> "UNMAP", pointer |-> c.start, len |-> c.len])
                     ELSE parser
        /\ memoryMap' = result.map
    BY DEF NoteMunmap
  <1>1. Undisturbed
    <2>1. disturbed' = disturbed
      BY DEF NoteMunmap
    <2>. QED  BY <2>1, Zenon DEF Followed
  <1>2. inFlight(t) /\ c.type = "munmap"
    BY DEF NoteMunmap, inFlight
  <1>3. /\ c.start \in Page /\ size = round_up_page(c.len) /\ size \in Nat /\ size > 0 /\ c.len \in Nat
        /\ c.start + size \in Page \cup {EndOfMemory} /\ rangeOf(t) = PagesIn(c.start, size)
    BY <1>1, <1>2, FlightRange
  <1>4. c.start \in Nat
    BY <1>3, PageType
  <1>5. /\ MapOK(memoryMap) /\ SliceMap(memoryMap) /\ ParserOK(parser) /\ DictOK(parser.dict)
        /\ ParserSame(parser, memoryMap)
    BY <1>1 DEF Inv, VariableTypes, ParserOK, Undisturbed
  <1>6. parser.status = "running" => SameSlices(parser.dict, memoryMap)
    BY <1>5 DEF ParserSame
  <1>. HIDE DEF size
  <1>7. /\ SliceMap(result.map)
        /\ \A x \in Nat : covered(result.map, x) <=> covered(memoryMap, x) /\ ~ (c.start <= x /\ x < c.start + size)
    BY <1>3, <1>5, UnmapFollows
  <1>8. ~ result.erased => /\ DOMAIN result.map = DOMAIN memoryMap
                           /\ \A k \in DOMAIN memoryMap : result.map[k] = memoryMap[k]
    BY <1>3, <1>5, NothingErased
  <1>9. parser.status = "running"
          => /\ SameSlices(register_unmap(parser.dict, c.start, size), result.map)
             /\ result.erased = (erasedKeys(parser.dict, c.start, size) # {})
    BY <1>3, <1>5, <1>6, UnmapSame
  <1>. HIDE DEF result
  <1>10. ParserSame(parser', memoryMap')
    <2>1. CASE result.erased
      <3>1. parser.status = "running"
              => /\ erasedKeys(parser.dict, c.start, round_up_page(c.len)) # {}
                 /\ SameSlices(register_unmap(parser.dict, c.start, round_up_page(c.len)), memoryMap')
        BY <1>0, <1>3, <1>9, <2>1, Zenon
      <3>2. parser' = replay(parser, [type |-> "UNMAP", pointer |-> c.start, len |-> c.len])
        BY <1>0, <2>1, Zenon
      <3>. HIDE DEF c
      <3>. QED  BY <1>3, <1>4, <1>5, <3>1, <3>2, ReplayUnmapSame
    <2>2. CASE ~ result.erased
      <3>1. parser' = parser
        BY <1>0, <2>2, Zenon
      <3>2. DOMAIN memoryMap' = DOMAIN memoryMap /\ \A k \in DOMAIN memoryMap : memoryMap'[k] = memoryMap[k]
        BY <1>0, <1>8, <2>2, Zenon
      <3>3. SameSlices(parser.dict, memoryMap) => SameSlices(parser.dict, memoryMap')
        BY <3>2 DEF SameSlices
      <3>. QED  BY <1>5, <3>1, <3>3 DEF ParserSame
    <2>. QED  BY <2>1, <2>2
  <1>11. \A p \in Page : p \notin rangeOf(t) => (covered(memoryMap', p) <=> covered(memoryMap, p))
    BY <1>0, <1>3, <1>7, PageType DEF PagesIn
  <1>12. \A p \in rangeOf(t) : kernel[p] # "anonymous"
    BY <1>1, <1>2 DEF Undisturbed, FlightsApart
  <1>13. \A p \in rangeOf(t) : covered(memoryMap', p) <=> kernel[p] = "anonymous"
    BY <1>0, <1>3, <1>7, <1>12, PageType DEF PagesIn
  <1>14. SliceMap(memoryMap')
    BY <1>0, <1>7
  <1>. QED  BY <1>0, <1>1, <1>2, <1>10, <1>11, <1>13, <1>14, NotedFollowed

LEMMA NoteMunmapFailedFollowed ==
  ASSUME Inv, Followed, NEW t \in Thread, NoteMunmapFailed(t), ~ disturbed'
  PROVE  Undisturbed'
  <1>0. /\ call' = [call EXCEPT ![t] = NoCall] /\ UNCHANGED <<kernel, memoryMap>>
        /\ parser' = replay(parser, [type |-> "ERROR"]) /\ disturbed' = disturbed
    BY DEF NoteMunmapFailed
  <1>1. Undisturbed
    BY <1>0, Zenon DEF Followed
  <1>2. ~ inFlight(t)
    BY DEF NoteMunmapFailed, inFlight
  <1>3. ParserSame(parser', memoryMap')
    <2>1. CASE parser.status # "running"
      <3>1. parser' = parser
        BY <1>0, <2>1 DEF replay
      <3>. QED  BY <1>0, <1>1, <3>1 DEF Undisturbed
    <2>2. CASE parser.status = "running"
      <3>1. parser' = stop("unknown line")
        BY <1>0, <2>2 DEF replay, replayUnknownLine
      <3>2. parser'.status = "unknown line"
        BY <3>1, StoppedStatus, Zenon
      <3>. QED  BY <3>2 DEF ParserSame
    <2>. QED  BY <2>1, <2>2
  <1>4. SliceMap(memoryMap')
    BY <1>0, <1>1 DEF Undisturbed
  <1>5. PICK none : none = {}
    OBVIOUS
  <1>6. /\ \A p \in Page : p \notin none => (covered(memoryMap', p) <=> covered(memoryMap, p))
        /\ \A p \in none : covered(memoryMap', p) <=> kernel[p] = "anonymous"
        /\ inFlight(t) => none = rangeOf(t)
    BY <1>0, <1>2, <1>5
  <1>. QED  BY <1>0, <1>1, <1>3, <1>4, <1>5, <1>6, NotedFollowed

LEMMA StutterFollowed ==
  ASSUME Followed, UNCHANGED vars
  PROVE  Followed'
  BY DEF vars, Followed, Undisturbed, FlightsApart, KernelKnown, inFlight, rangeOf

\* As long as a step does not disturb the tool, the tool follows it.
LEMMA StepFollowed == Inv /\ Followed /\ [Next]_vars => Followed'
  <1>. SUFFICES ASSUME Inv, Followed, [Next]_vars PROVE Followed'
    OBVIOUS
  <1>1. CASE UNCHANGED vars
    BY <1>1, StutterFollowed
  <1>2. CASE Idle
    BY <1>2, StutterFollowed DEF Idle
  <1>. DEFINE Kept == ~ disturbed' => Undisturbed'
  <1>3. ASSUME NEW t \in Thread, RealMmap(t) \/ RealMmapFixed(t) PROVE Kept
    BY <1>3, RealMmapFollowed
  <1>4. ASSUME NEW t \in Thread, RealMunmap(t) PROVE Kept
    BY <1>4, RealMunmapFollowed
  <1>5. ASSUME NEW t \in Thread, RealMmapFails(t) \/ RealMunmapFails(t) PROVE Kept
    BY <1>5, RealFailsFollowed
  <1>6. ASSUME NEW t \in Thread, MmapFile(t) PROVE Kept
    BY <1>6, MmapFileFollowed
  <1>7. ASSUME NEW t \in Thread, NoteMmap(t) PROVE Kept
    BY <1>7, NoteMmapFollowed
  <1>8. ASSUME NEW t \in Thread, NoteMunmap(t) PROVE Kept
    BY <1>8, NoteMunmapFollowed
  <1>9. ASSUME NEW t \in Thread, NoteMunmapFailed(t) PROVE Kept
    BY <1>9, NoteMunmapFailedFollowed
  <1>10. Kept => Followed'
    BY Zenon DEF Followed
  <1>. HIDE DEF Kept
  <1>. QED  BY <1>1, <1>2, <1>3, <1>4, <1>5, <1>6, <1>7, <1>8, <1>9, <1>10 DEF Next

\* Slices that do not overlap contain an address at most once.
LEMMA SlicesAtAddress ==
  ASSUME MapOK(memoryMap), SliceMap(memoryMap), NEW p \in Page
  PROVE  Cardinality(slicesAt(p)) = IF covered(memoryMap, p) THEN 1 ELSE 0
  <1>1. CASE ~ covered(memoryMap, p)
    <2>1. slicesAt(p) = {}
      BY <1>1 DEF covered, slicesAt
    <2>. QED  BY <1>1, <2>1, FS_EmptySet
  <1>2. CASE covered(memoryMap, p)
    <2>1. PICK k \in DOMAIN memoryMap : inSlice(memoryMap, k, p)
      BY <1>2 DEF covered
    <2>2. p \in Nat /\ \A l \in DOMAIN memoryMap : l \in Int /\ memoryMap[l].size \in Nat
      BY SliceTypes, PageType
    <2>3. ASSUME NEW l \in DOMAIN memoryMap, inSlice(memoryMap, l, p) PROVE l = k
      <3>1. /\ l < k => l + memoryMap[l].size <= k
            /\ k < l => k + memoryMap[k].size <= l
        BY DEF SliceMap, Disjoint
      <3>. QED  BY <2>1, <2>2, <2>3, <3>1 DEF inSlice
    <2>4. slicesAt(p) = {k}
      BY <2>1, <2>3 DEF slicesAt
    <2>. QED  BY <1>2, <2>4, FS_Singleton
  <1>. QED  BY <1>1, <1>2

LEMMA FollowedImplies == Inv /\ Followed => SlicesDescribeKernel /\ ParserFollowsMap /\ LoggedUnmapErases
  <1>. SUFFICES ASSUME Inv, Followed
                PROVE  SlicesDescribeKernel /\ ParserFollowsMap /\ LoggedUnmapErases
    OBVIOUS
  <1>1. CASE disturbed
    BY <1>1 DEF SlicesDescribeKernel, ParserFollowsMap, LoggedUnmapErases
  <1>2. CASE ~ disturbed
    <2>1. Undisturbed /\ MapOK(memoryMap)
      BY <1>2, Zenon DEF Followed, Inv, VariableTypes
    <2>2. SlicesDescribeKernel
      <3>. SUFFICES ASSUME NEW p \in Page, p \notin PagesInFlight("mmap") \cup PagesInFlight("munmap")
                    PROVE  Cardinality(slicesAt(p)) = IF kernel[p] = "anonymous" THEN 1 ELSE 0
        BY DEF SlicesDescribeKernel
      <3>1. \A t \in Thread : inFlight(t) => p \notin rangeOf(t)
        BY FlightPages
      <3>2. covered(memoryMap, p) <=> kernel[p] = "anonymous"
        BY <2>1, <3>1 DEF Undisturbed, KernelKnown
      <3>. QED  BY <2>1, <3>2, SlicesAtAddress DEF Undisturbed
    <2>3. ParserFollowsMap
      BY <2>1 DEF Undisturbed, ParserSame, SameSlices, ParserFollowsMap
    <2>4. LoggedUnmapErases
      BY <2>1 DEF Undisturbed, ParserSame, LoggedUnmapErases
    <2>. QED  BY <2>2, <2>3, <2>4
  <1>. QED  BY <1>1, <1>2

\* As long as nothing disturbed the tool, the slices are whole pages that do not
\* overlap, known memory is anonymous memory but for the calls in flight, which
\* have ranges of their own, and the parser has the same slices.
THEOREM FollowedAlways == Spec => []Followed
  <1>1. Init => Followed
    BY InitFollowed, Zenon DEF Followed
  <1>. QED  BY <1>1, MmapInvariant, StepFollowed, PTL DEF Spec

\* registerMap() and registerUnmap() keep exactly the anonymous memory of the
\* process, page by page, in the order in which its threads get the lock.
THEOREM SlicesDescribeKernelAlways == Spec => []SlicesDescribeKernel
  BY MmapInvariant, FollowedAlways, FollowedImplies, PTL

\* parse-mmap-log.py has the very slices the process had, failed calls aside.
THEOREM ParserFollowsMapAlways == Spec => []ParserFollowsMap
  BY MmapInvariant, FollowedAlways, FollowedImplies, PTL

\* The assertion at parse-mmap-log.py:147 cannot fail on a log of a process in
\* which nothing disturbed the tool.
THEOREM LoggedUnmapErasesAlways == Spec => []LoggedUnmapErases
  BY MmapInvariant, FollowedAlways, FollowedImplies, PTL
=============================================================================
