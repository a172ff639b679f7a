----------------------------- MODULE FiniteSums -----------------------------
(***************************************************************************)
(* Sums over finite sets, the folds of FiniteSetsExt, and induction.  The  *)
(* principles of induction of the library have an operator as a parameter; *)
(* here they are about sets, which the provers can instantiate.            *)
(***************************************************************************)
EXTENDS Integers, FiniteSetsExt, FiniteSetTheorems, WellFoundedInduction, TLAPS

-----------------------------------------------------------------------------
(* Induction.                                                              *)

\* A set of naturals has a least element.
LEMMA LeastNatural ==
  ASSUME NEW T \in SUBSET Nat, T # {}
  PROVE  \E m \in T : \A k \in T : m <= k
  <1>1. PICK m \in T : \A k \in T : ~ (<<k, m>> \in OpToRel(<, Nat))
    BY NatLessThanWellFounded, WFMin
  <1>2. \A k \in T : ~ (k < m)
    BY <1>1 DEF OpToRel
  <1>. QED  BY <1>2

\* A set with 0 and with the successor of each member holds every natural.
LEMMA SetInduction ==
  ASSUME NEW Good, 0 \in Good, \A n \in Nat : n \in Good => n + 1 \in Good
  PROVE  Nat \subseteq Good
  <1>. SUFFICES ASSUME NEW z \in Nat, z \notin Good PROVE FALSE
    OBVIOUS
  <1>. DEFINE Bad == {n \in Nat : n \notin Good}
  <1>1. PICK m \in Bad : \A k \in Bad : m <= k
    BY LeastNatural
  <1>2. m \in Nat /\ m # 0 /\ m - 1 \in Nat /\ m - 1 \notin Bad
    BY <1>1
  <1>. QED  BY <1>2

\* A set of subsets with {} and with all that are one larger has the whole.
LEMMA SubsetInduction ==
  ASSUME NEW S, IsFiniteSet(S), NEW Good, {} \in Good,
         \A T \in SUBSET S : \A x \in S \ T : T \in Good => T \cup {x} \in Good
  PROVE  S \in Good
  <1>. DEFINE OfSize(n) == {T \in SUBSET S : Cardinality(T) = n}
              Sizes == {n \in Nat : OfSize(n) \subseteq Good}
  <1>1. \A T \in SUBSET S : IsFiniteSet(T) /\ Cardinality(T) \in Nat
    BY FS_Subset, FS_CardinalityType
  <1>2. 0 \in Sizes
    BY <1>1, FS_EmptySet
  <1>3. ASSUME NEW n \in Nat, n \in Sizes PROVE n + 1 \in Sizes
    <2>. SUFFICES ASSUME NEW T \in SUBSET S, Cardinality(T) = n + 1 PROVE T \in Good
      OBVIOUS
    <2>1. PICK x \in T : TRUE
      <3>1. Cardinality(T) # 0
        OBVIOUS
      <3>2. T # {}
        BY <3>1, FS_EmptySet, Zenon
      <3>. QED  BY <3>2
    <2>2. Cardinality(T \ {x}) = n
      <3>1. IsFiniteSet(T) /\ x \in T
        BY <1>1, <2>1
      <3>2. Cardinality(T \ {x}) = Cardinality(T) - 1
        BY <3>1, FS_RemoveElement
      <3>. QED  BY <3>2
    <2>3. T \ {x} \in Good
      BY <1>3, <2>2
    <2>4. (T \ {x}) \cup {x} = T /\ x \in S \ (T \ {x}) /\ T \ {x} \in SUBSET S
      BY <2>1
    <2>. QED  BY <2>3, <2>4
  <1>4. Nat \subseteq Sizes
    BY <1>2, <1>3, SetInduction
  <1>. QED  BY <1>1, <1>4

\* A set of integers that none exceeds has a greatest element, and Max is it.
LEMMA MaxOfBounded ==
  ASSUME NEW S, S # {}, NEW b \in Int, \A x \in S : x \in Int /\ x <= b
  PROVE  Max(S) \in S /\ \A x \in S : x <= Max(S)
  <1>. DEFINE T == {n \in Nat : b - n \in S}
  <1>1. T # {}
    <2>1. PICK x \in S : TRUE
      OBVIOUS
    <2>2. b - x \in Nat /\ b - (b - x) = x
      BY <2>1
    <2>. QED  BY <2>1, <2>2
  <1>2. PICK m \in T : \A k \in T : m <= k
    BY <1>1, LeastNatural
  <1>3. \A x \in S : x <= b - m
    <2>. TAKE x \in S
    <2>1. b - x \in Nat /\ b - (b - x) = x
      OBVIOUS
    <2>2. m <= b - x
      BY <1>2, <2>1
    <2>. QED  BY <1>2, <2>2
  <1>4. \E x \in S : \A y \in S : x >= y
    BY <1>2, <1>3
  <1>. QED  BY <1>4 DEF Max

\* The values of a function on a finite set are finitely many.
LEMMA FiniteImage ==
  ASSUME NEW S, IsFiniteSet(S), NEW f
  PROVE  IsFiniteSet({f[x] : x \in S}) /\ Cardinality({f[x] : x \in S}) <= Cardinality(S)
  <1>. DEFINE T == {f[x] : x \in S}
              g == [x \in S |-> f[x]]
  <1>1. g \in Surjection(S, T)
    BY DEF Surjection
  <1>. HIDE DEF g, T
  <1>2. IsFiniteSet(T) /\ Cardinality(T) <= Cardinality(S)
    BY <1>1, FS_Surjection
  <1>. QED  BY <1>2 DEF T

-----------------------------------------------------------------------------
(* What the fold of a sum computes.                                        *)

SumOver(f, S) == MapThenSumSet(LAMBDA x : f[x], S)

pick(s) == CHOOSE x \in s : TRUE

\* g adds up f over each set of D, one element at a time.
AddsUpOn(f, D, g) == g = [s \in D |-> IF s = {} THEN 0 ELSE f[pick(s)] + g[s \ {pick(s)}]]

AddsUp(f, S, g) == AddsUpOn(f, SUBSET S, g)

LEMMA SumIsChoice ==
  ASSUME NEW f, NEW S
  PROVE  SumOver(f, S) = (CHOOSE g : AddsUp(f, S, g))[S]
  BY DEF SumOver, MapThenSumSet, MapThenFoldSet, AddsUp, AddsUpOn, pick

\* The recursion is well founded: there is such a function.
LEMMA AddingUpExists ==
  ASSUME NEW f, NEW S, IsFiniteSet(S)
  PROVE  \E g : AddsUp(f, S, g)
  <1>. DEFINE Sub(n) == {s \in SUBSET S : Cardinality(s) <= n}
              Good == {n \in Nat : \E g : AddsUpOn(f, Sub(n), g)}
  <1>1. \A T \in SUBSET S : IsFiniteSet(T) /\ Cardinality(T) \in Nat
    BY FS_Subset, FS_CardinalityType
  <1>2. 0 \in Good
    <2>. DEFINE g == [s \in Sub(0) |-> 0]
    <2>1. \A s \in Sub(0) : s = {}
      BY <1>1, FS_EmptySet
    <2>2. AddsUpOn(f, Sub(0), g)
      BY <2>1 DEF AddsUp, AddsUpOn
    <2>. QED  BY <2>2
  <1>3. ASSUME NEW n \in Nat, n \in Good PROVE n + 1 \in Good
    <2>1. PICK g : AddsUpOn(f, Sub(n), g)
      BY <1>3
    <2>. DEFINE h == [s \in Sub(n + 1) |-> IF s = {} THEN 0 ELSE f[pick(s)] + g[s \ {pick(s)}]]
    <2>2. ASSUME NEW s \in Sub(n + 1), s # {}
          PROVE  s \ {pick(s)} \in Sub(n) /\ s \ {pick(s)} \in Sub(n + 1)
      <3>1. pick(s) \in s
        BY <2>2 DEF pick
      <3>2. Cardinality(s \ {pick(s)}) = Cardinality(s) - 1
        BY <1>1, <3>1, FS_RemoveElement
      <3>. QED  BY <1>1, <3>2
    <2>3. \A s \in Sub(n) : s \in Sub(n + 1) /\ h[s] = g[s]
      <3>. TAKE s \in Sub(n)
      <3>1. s \in Sub(n + 1)
        BY <1>1
      <3>2. g[s] = IF s = {} THEN 0 ELSE f[pick(s)] + g[s \ {pick(s)}]
        BY <2>1 DEF AddsUp, AddsUpOn
      <3>. QED  BY <3>1, <3>2
    <2>4. \A s \in Sub(n + 1) : h[s] = IF s = {} THEN 0 ELSE f[pick(s)] + h[s \ {pick(s)}]
      BY <2>2, <2>3
    <2>. DEFINE k == [s \in Sub(n + 1) |-> IF s = {} THEN 0 ELSE f[pick(s)] + h[s \ {pick(s)}]]
    <2>5. h = k
      BY <2>4
    <2>6. AddsUpOn(f, Sub(n + 1), h)
      BY <2>5 DEF AddsUp, AddsUpOn
    <2>. HIDE DEF h, k
    <2>. QED  BY <2>6
  <1>4. Cardinality(S) \in Good
    <2>. HIDE DEF Good
    <2>. QED  BY <1>1, <1>2, <1>3, SetInduction
  <1>5. Sub(Cardinality(S)) = SUBSET S
    BY FS_Subset
  <1>. QED  BY <1>4, <1>5 DEF AddsUp

\* Two such functions agree where both are defined.
LEMMA AddingUpUnique ==
  ASSUME NEW f, NEW S, NEW T, NEW g, NEW h,
         T \subseteq S, IsFiniteSet(T), AddsUp(f, S, g), AddsUp(f, T, h)
  PROVE  g[T] = h[T]
  <1>. DEFINE OfSize(n) == {s \in SUBSET T : Cardinality(s) = n}
              Good == {n \in Nat : \A s \in OfSize(n) : g[s] = h[s]}
  <1>1. \A s \in SUBSET T : IsFiniteSet(s) /\ Cardinality(s) \in Nat
    BY FS_Subset, FS_CardinalityType
  <1>2. ASSUME NEW s \in SUBSET T
        PROVE  /\ g[s] = IF s = {} THEN 0 ELSE f[pick(s)] + g[s \ {pick(s)}]
               /\ h[s] = IF s = {} THEN 0 ELSE f[pick(s)] + h[s \ {pick(s)}]
    BY DEF AddsUp, AddsUpOn
  <1>3. 0 \in Good
    BY <1>1, <1>2, FS_EmptySet
  <1>4. ASSUME NEW n \in Nat, n \in Good PROVE n + 1 \in Good
    <2>. SUFFICES ASSUME NEW s \in SUBSET T, Cardinality(s) = n + 1 PROVE g[s] = h[s]
      OBVIOUS
    <2>1. s # {} /\ pick(s) \in s
      <3>1. Cardinality(s) # 0
        OBVIOUS
      <3>2. s # {}
        BY <3>1, FS_EmptySet, Zenon
      <3>. QED  BY <3>2 DEF pick
    <2>2. Cardinality(s \ {pick(s)}) = n
      BY <1>1, <2>1, FS_RemoveElement
    <2>3. g[s \ {pick(s)}] = h[s \ {pick(s)}]
      BY <1>4, <2>2
    <2>. QED  BY <1>2, <2>1, <2>3
  <1>5. Cardinality(T) \in Good
    <2>. HIDE DEF Good
    <2>. QED  BY <1>1, <1>3, <1>4, SetInduction
  <1>. QED  BY <1>5

\* So a sum is what such a function gives.
LEMMA SumAddsUp ==
  ASSUME NEW f, NEW S, IsFiniteSet(S)
  PROVE  \E g : AddsUp(f, S, g) /\ SumOver(f, S) = g[S]
  <1>. DEFINE g == CHOOSE h : AddsUp(f, S, h)
  <1>1. \E h : AddsUp(f, S, h)
    BY AddingUpExists
  <1>2. AddsUp(f, S, g)
    BY <1>1, Zenon
  <1>3. SumOver(f, S) = g[S]
    BY SumIsChoice
  <1>. WITNESS g
  <1>. QED  BY <1>2, <1>3

\* It is the picked summand and the sum of the rest.
LEMMA SumUnfolds ==
  ASSUME NEW f, NEW S, IsFiniteSet(S)
  PROVE  SumOver(f, S) = IF S = {} THEN 0 ELSE f[pick(S)] + SumOver(f, S \ {pick(S)})
  <1>1. PICK T : T = S \ {pick(S)} /\ IsFiniteSet(T) /\ T \subseteq S
    BY FS_RemoveElement
  <1>2. PICK g : AddsUp(f, S, g) /\ SumOver(f, S) = g[S]
    BY SumAddsUp
  <1>3. PICK h : AddsUp(f, T, h) /\ SumOver(f, T) = h[T]
    BY <1>1, SumAddsUp
  <1>4. g[T] = h[T]
    BY <1>1, <1>2, <1>3, AddingUpUnique
  <1>5. g[S] = IF S = {} THEN 0 ELSE f[pick(S)] + g[T]
    BY <1>1, <1>2 DEF AddsUp, AddsUpOn
  <1>. QED  BY <1>1, <1>2, <1>3, <1>4, <1>5

LEMMA SumSplits ==
  ASSUME NEW f, NEW S, IsFiniteSet(S), S # {}
  PROVE  \E y \in S : SumOver(f, S) = f[y] + SumOver(f, S \ {y})
  <1>1. pick(S) \in S
    BY DEF pick
  <1>2. SumOver(f, S) = f[pick(S)] + SumOver(f, S \ {pick(S)})
    BY SumUnfolds
  <1>. WITNESS pick(S) \in S
  <1>. QED  BY <1>2

-----------------------------------------------------------------------------
(* Sums of naturals.                                                       *)

\* What holds of a set if it holds of its proper subsets holds of all subsets.
LEMMA ProperSubsetInduction ==
  ASSUME NEW S, IsFiniteSet(S), NEW Good,
         \A T \in SUBSET S : (\A U \in SUBSET T : U # T => U \in Good) => T \in Good
  PROVE  SUBSET S \subseteq Good
  <1>. DEFINE Sizes == {n \in Nat : \A T \in SUBSET S : Cardinality(T) < n => T \in Good}
  <1>1. \A T \in SUBSET S : IsFiniteSet(T) /\ Cardinality(T) \in Nat
    BY FS_Subset, FS_CardinalityType
  <1>2. 0 \in Sizes
    BY <1>1
  <1>3. ASSUME NEW n \in Nat, n \in Sizes PROVE n + 1 \in Sizes
    <2>. SUFFICES ASSUME NEW T \in SUBSET S, Cardinality(T) < n + 1 PROVE T \in Good
      OBVIOUS
    <2>1. ASSUME NEW U \in SUBSET T, U # T PROVE U \in Good
      <3>1. IsFiniteSet(T) /\ Cardinality(T) \in Nat /\ Cardinality(U) \in Nat /\ U \in SUBSET S
        BY <1>1
      <3>2. Cardinality(U) <= Cardinality(T) /\ Cardinality(U) # Cardinality(T)
        BY <2>1, <3>1, FS_Subset
      <3>3. Cardinality(U) < n
        BY <3>1, <3>2
      <3>. QED  BY <1>3, <3>1, <3>3
    <2>. QED  BY <2>1
  <1>4. Nat \subseteq Sizes
    <2>. HIDE DEF Sizes
    <2>. QED  BY <1>2, <1>3, SetInduction
  <1>5. ASSUME NEW T \in SUBSET S PROVE T \in Good
    <2>1. PICK c \in Nat : c = Cardinality(T)
      BY <1>1, Zenon
    <2>2. PICK n \in Nat : n = c + 1
      BY ONLY c \in Nat
    <2>3. Cardinality(T) < n
      BY ONLY <2>1, <2>2
    <2>4. n \in Sizes
      BY <1>4, Zenon
    <2>. QED  BY <2>3, <2>4, Zenon
  <1>. QED  BY <1>5

NaturalSummands(f, S) == \A x \in S : f[x] \in Nat

\* A sum of naturals is one.
LEMMA SumType ==
  ASSUME NEW f, NEW S, IsFiniteSet(S), NaturalSummands(f, S)
  PROVE  SumOver(f, S) \in Nat
  <1>. DEFINE Good == {T \in SUBSET S : SumOver(f, T) \in Nat}
  <1>1. ASSUME NEW T \in SUBSET S, \A U \in SUBSET T : U # T => U \in Good
        PROVE  T \in Good
    <2>1. IsFiniteSet(T)
      BY FS_Subset
    <2>2. SumOver(f, T) = IF T = {} THEN 0 ELSE f[pick(T)] + SumOver(f, T \ {pick(T)})
      BY <2>1, SumUnfolds
    <2>3. CASE T # {}
      <3>1. pick(T) \in T
        BY <2>3 DEF pick
      <3>2. T \ {pick(T)} \in Good
        BY <1>1, <3>1
      <3>. QED  BY <2>2, <2>3, <3>1, <3>2 DEF NaturalSummands
    <2>. QED  BY <2>2, <2>3
  <1>2. SUBSET S \subseteq Good
    <2>. HIDE DEF Good
    <2>. QED  BY <1>1, ProperSubsetInduction
  <1>. QED  BY <1>2

\* Any summand may be taken out, not only the picked one.
LEMMA SumRemove ==
  ASSUME NEW f, NEW S, IsFiniteSet(S), NaturalSummands(f, S), NEW z \in S
  PROVE  SumOver(f, S) = f[z] + SumOver(f, S \ {z})
  <1>. DEFINE Good == {T \in SUBSET S : \A x \in T : SumOver(f, T) = f[x] + SumOver(f, T \ {x})}
  <1>1. ASSUME NEW T \in SUBSET S
        PROVE  IsFiniteSet(T) /\ SumOver(f, T) \in Nat
    <2>1. IsFiniteSet(T) /\ NaturalSummands(f, T)
      BY FS_Subset DEF NaturalSummands
    <2>. QED  BY <2>1, SumType
  <1>2. ASSUME NEW T \in SUBSET S, \A U \in SUBSET T : U # T => U \in Good
        PROVE  T \in Good
    <2>. SUFFICES ASSUME NEW x \in T
                  PROVE  SumOver(f, T) = f[x] + SumOver(f, T \ {x})
      OBVIOUS
    <2>1. PICK y \in T : SumOver(f, T) = f[y] + SumOver(f, T \ {y})
      <3>1. IsFiniteSet(T) /\ T # {}
        BY <1>1
      <3>. QED  BY <3>1, SumSplits
    <2>2. CASE x # y
      <3>1. SumOver(f, T \ {y}) = f[x] + SumOver(f, (T \ {y}) \ {x})
        <4>1. T \ {y} \in Good /\ x \in T \ {y}
          BY <1>2, <2>1, <2>2
        <4>. QED  BY <4>1
      <3>2. SumOver(f, T \ {x}) = f[y] + SumOver(f, (T \ {x}) \ {y})
        <4>1. T \ {x} \in Good /\ y \in T \ {x}
          BY <1>2, <2>1, <2>2
        <4>. QED  BY <4>1
      <3>3. (T \ {y}) \ {x} = (T \ {x}) \ {y}
        OBVIOUS
      <3>4. SumOver(f, (T \ {x}) \ {y}) \in Nat /\ f[x] \in Nat /\ f[y] \in Nat
        BY <1>1 DEF NaturalSummands
      <3>5. SumOver(f, T \ {y}) = f[x] + SumOver(f, (T \ {x}) \ {y})
        BY <3>1, <3>3, Zenon
      <3>. QED  BY <2>1, <3>2, <3>4, <3>5
    <2>. QED  BY <2>1, <2>2
  <1>3. SUBSET S \subseteq Good
    <2>. HIDE DEF Good
    <2>. QED  BY <1>2, ProperSubsetInduction
  <1>. QED  BY <1>3

\* The sum depends on the summands only.
LEMMA SumSame ==
  ASSUME NEW f, NEW g, NEW S, IsFiniteSet(S), \A x \in S : f[x] = g[x]
  PROVE  SumOver(f, S) = SumOver(g, S)
  <1>. DEFINE Good == {T \in SUBSET S : SumOver(f, T) = SumOver(g, T)}
  <1>1. ASSUME NEW T \in SUBSET S, \A U \in SUBSET T : U # T => U \in Good
        PROVE  T \in Good
    <2>1. IsFiniteSet(T)
      BY FS_Subset
    <2>2. /\ SumOver(f, T) = IF T = {} THEN 0 ELSE f[pick(T)] + SumOver(f, T \ {pick(T)})
          /\ SumOver(g, T) = IF T = {} THEN 0 ELSE g[pick(T)] + SumOver(g, T \ {pick(T)})
      BY <2>1, SumUnfolds
    <2>3. CASE T # {}
      <3>1. pick(T) \in T
        BY <2>3 DEF pick
      <3>2. T \ {pick(T)} \in Good
        BY <1>1, <3>1
      <3>. QED  BY <2>2, <2>3, <3>1, <3>2
    <2>. QED  BY <2>2, <2>3
  <1>2. SUBSET S \subseteq Good
    <2>. HIDE DEF Good
    <2>. QED  BY <1>1, ProperSubsetInduction
  <1>. QED  BY <1>2

\* The empty sum, and one more summand.
LEMMA SumEmpty ==
  ASSUME NEW f
  PROVE  SumOver(f, {}) = 0
  BY SumUnfolds, FS_EmptySet

LEMMA SumAdd ==
  ASSUME NEW f, NEW S, IsFiniteSet(S), NaturalSummands(f, S), NEW z, z \notin S, f[z] \in Nat
  PROVE  SumOver(f, S \cup {z}) = SumOver(f, S) + f[z]
  <1>. DEFINE T == S \cup {z}
  <1>1. T \ {z} = S /\ IsFiniteSet(T) /\ z \in T
    BY FS_AddElement
  <1>2. NaturalSummands(f, T)
    BY <1>1 DEF NaturalSummands
  <1>3. SumOver(f, T) = f[z] + SumOver(f, S)
    <2>1. IsFiniteSet(T) /\ z \in T
      BY <1>1
    <2>2. SumOver(f, T) = f[z] + SumOver(f, T \ {z})
      BY <1>2, <2>1, SumRemove
    <2>. QED  BY <1>1, <2>2, Zenon
  <1>. QED  BY <1>1, <1>3, SumType

\* The sum over two sets with nothing in common.
LEMMA SumUnion ==
  ASSUME NEW f, NEW S, NEW T, IsFiniteSet(S), IsFiniteSet(T), S \cap T = {},
         NaturalSummands(f, S \cup T)
  PROVE  SumOver(f, S \cup T) = SumOver(f, S) + SumOver(f, T)
  <1>. DEFINE Good == {U \in SUBSET T : SumOver(f, S \cup U) = SumOver(f, S) + SumOver(f, U)}
  <1>1. NaturalSummands(f, S) /\ NaturalSummands(f, T)
    BY DEF NaturalSummands
  <1>2. {} \in Good
    <2>1. S \cup {} = S
      OBVIOUS
    <2>. QED  BY <1>1, <2>1, SumEmpty, SumType
  <1>3. ASSUME NEW U \in SUBSET T, NEW x \in T \ U, U \in Good PROVE U \cup {x} \in Good
    <2>1. IsFiniteSet(U) /\ IsFiniteSet(S \cup U) /\ NaturalSummands(f, U) /\ NaturalSummands(f, S \cup U)
      BY <1>1, FS_Subset, FS_Union DEF NaturalSummands
    <2>2. f[x] \in Nat /\ x \notin U /\ x \notin S \cup U
      BY DEF NaturalSummands
    <2>3. SumOver(f, U \cup {x}) = SumOver(f, U) + f[x]
      BY <2>1, <2>2, SumAdd
    <2>4. SumOver(f, (S \cup U) \cup {x}) = SumOver(f, S \cup U) + f[x]
      BY <2>1, <2>2, SumAdd
    <2>5. (S \cup U) \cup {x} = S \cup (U \cup {x})
      OBVIOUS
    <2>6. SumOver(f, S) \in Nat /\ SumOver(f, U) \in Nat
      BY <1>1, <2>1, SumType
    <2>7. SumOver(f, S \cup U) = SumOver(f, S) + SumOver(f, U)
      BY <1>3
    <2>8. SumOver(f, S \cup (U \cup {x})) = SumOver(f, S) + SumOver(f, U \cup {x})
      <3>1. SumOver(f, S \cup (U \cup {x})) = SumOver(f, S \cup U) + f[x]
        BY <2>4, <2>5, Zenon
      <3>. QED  BY <2>2, <2>3, <2>6, <2>7, <3>1
    <2>. QED  BY <2>8
  <1>4. T \in Good
    <2>. HIDE DEF Good
    <2>. QED  BY <1>2, <1>3, SubsetInduction
  <1>. QED  BY <1>4

PartOf(T, S) == T \subseteq S

\* The sum over a part and over the rest.
LEMMA SumOfPart ==
  ASSUME NEW f, NEW S, NEW T, IsFiniteSet(S), PartOf(T, S), NaturalSummands(f, S)
  PROVE  /\ SumOver(f, S) = SumOver(f, T) + SumOver(f, S \ T)
         /\ SumOver(f, T) \in Nat /\ SumOver(f, S \ T) \in Nat
  <1>1. IsFiniteSet(T) /\ IsFiniteSet(S \ T) /\ NaturalSummands(f, T) /\ NaturalSummands(f, S \ T)
    BY FS_Subset, FS_Difference DEF NaturalSummands, PartOf
  <1>2. T \cup (S \ T) = S /\ T \cap (S \ T) = {}
    BY DEF PartOf
  <1>3. SumOver(f, T) \in Nat /\ SumOver(f, S \ T) \in Nat
    BY <1>1, SumType
  <1>4. SumOver(f, T \cup (S \ T)) = SumOver(f, T) + SumOver(f, S \ T)
    BY <1>1, <1>2, SumUnion
  <1>5. SumOver(f, S) = SumOver(f, T) + SumOver(f, S \ T)
    BY <1>2, <1>4
  <1>. QED  BY <1>3, <1>5
=============================================================================
