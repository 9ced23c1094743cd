---------------------------- MODULE Sums_proofs ----------------------------
(***************************************************************************)
(* What a sum over a finite set is: its elements may be taken in any       *)
(* order, and its value is bounded, split and compared as one expects.     *)
(* The other proof modules cite these facts; they are stated for a set of  *)
(* subsets instead of a predicate, so that no lemma takes an operator.     *)
(***************************************************************************)
EXTENDS Sums, FiniteSetTheorems, TLAPS

(* Of a set of subsets of a finite set one has no smaller one.             *)
LEMMA SmallestSubset ==
    ASSUME NEW S, IsFiniteSet(S), NEW B \in SUBSET SUBSET S, B # {}
    PROVE  \E T \in B : \A U \in SUBSET T : U # T => U \notin B
  <1>1. B \subseteq FiniteSubsetsOf(S)
    BY FS_Subset DEF FiniteSubsetsOf
  <1>2. IsWellFoundedOn(StrictSubsetOrdering(S), FiniteSubsetsOf(S))
    BY FS_StrictSubsetOrderingWellFounded
  <1>3. PICK T \in B : \A U \in B : ~(<<U, T>> \in StrictSubsetOrdering(S))
    BY <1>1, <1>2, WFMin
  <1>4. ASSUME NEW U \in SUBSET T, U # T, U \in B
        PROVE  FALSE
    BY <1>3, <1>4 DEF StrictSubsetOrdering
  <1> QED
    BY <1>4

(* Induction on the subsets of a finite set.                               *)
LEMMA SubsetInduction ==
    ASSUME NEW S, IsFiniteSet(S), NEW G,
           \A T \in SUBSET S : (\A U \in SUBSET T : U # T => U \in G) => T \in G
    PROVE  \A T \in SUBSET S : T \in G
  <1> DEFINE B == {T \in SUBSET S : T \notin G}
  <1> SUFFICES ASSUME B # {} PROVE FALSE
    OBVIOUS
  <1>1. PICK T \in B : \A U \in SUBSET T : U # T => U \notin B
    <2>1. B \in SUBSET SUBSET S
      OBVIOUS
    <2> HIDE DEF B
    <2> QED
      BY <2>1, SmallestSubset
  <1>2. \A U \in SUBSET T : U # T => U \in G
    BY <1>1
  <1> QED
    BY <1>1, <1>2

-----------------------------------------------------------------------------
(* The recursive function behind a sum.                                    *)
One(s) == CHOOSE x \in s : TRUE
Adds(it, f, S) ==
    it = [s \in SUBSET S |-> IF s = {} THEN 0 ELSE f[One(s)] + it[s \ {One(s)}]]

LEMMA OneIn ==
    ASSUME NEW s, s # {}
    PROVE  One(s) \in s
  BY DEF One

LEMMA SumIsFold ==
    ASSUME NEW f, NEW S
    PROVE  SumOver(f, S) = (CHOOSE it : Adds(it, f, S))[S]
  BY DEF SumOver, MapThenSumSet, MapThenFoldSet, Adds, One

(* Two such functions agree on what both are defined for.                  *)
LEMMA AddsAgree ==
    ASSUME NEW f, NEW S, NEW T, IsFiniteSet(T), T \subseteq S,
           NEW it, NEW iu, Adds(it, f, S), Adds(iu, f, T)
    PROVE  it[T] = iu[T]
  <1> DEFINE G == {U \in SUBSET T : it[U] = iu[U]}
  <1>1. ASSUME NEW U \in SUBSET T, \A V \in SUBSET U : V # U => V \in G
        PROVE  U \in G
    <2>1. it[U] = IF U = {} THEN 0 ELSE f[One(U)] + it[U \ {One(U)}]
      BY DEF Adds
    <2>2. iu[U] = IF U = {} THEN 0 ELSE f[One(U)] + iu[U \ {One(U)}]
      BY DEF Adds
    <2>3. CASE U = {}
      BY <2>1, <2>2, <2>3
    <2>4. CASE U # {}
      <3>1. U \ {One(U)} \in SUBSET U /\ U \ {One(U)} # U
        BY <2>4, OneIn
      <3>2. it[U \ {One(U)}] = iu[U \ {One(U)}]
        BY <1>1, <3>1
      <3> QED
        BY <2>1, <2>2, <2>4, <3>2
    <2> QED
      BY <2>3, <2>4
  <1> HIDE DEF G
  <1>2. T \in G
    BY <1>1, SubsetInduction
  <1> QED
    BY <1>2 DEF G

(* There is one for every finite set.                                      *)
LEMMA AddsExist ==
    ASSUME NEW f, NEW S, IsFiniteSet(S)
    PROVE  \E it : Adds(it, f, S)
  <1> DEFINE G == {T \in SUBSET S : \E it : Adds(it, f, T)}
             It(T) == CHOOSE it : Adds(it, f, T)
  <1>1. ASSUME NEW T \in SUBSET S, \A U \in SUBSET T : U # T => U \in G
        PROVE  T \in G
    <2> DEFINE g == [s \in SUBSET T |->
                       IF s = {} THEN 0
                       ELSE f[One(s)] + It(s \ {One(s)})[s \ {One(s)}]]
    <2>1. ASSUME NEW U \in SUBSET T, U # T
          PROVE  Adds(It(U), f, U) /\ IsFiniteSet(U)
      <3>1. \E it : Adds(it, f, U)
        BY <1>1, <2>1
      <3> QED
        BY <3>1, FS_Subset
    <2>2. ASSUME NEW s \in SUBSET T, s # {}
          PROVE  g[s] = f[One(s)] + g[s \ {One(s)}]
      <3> DEFINE r == s \ {One(s)}
      <3>1. r \in SUBSET T /\ r # T
        BY <2>2, OneIn
      <3>2. g[s] = f[One(s)] + It(r)[r]
        BY <2>2
      <3>3. Adds(It(r), f, r)
        BY <2>1, <3>1
      <3>4. CASE r = {}
        <4>1. It(r)[r] = 0
          BY <3>3, <3>4 DEF Adds
        <4> QED
          BY <3>1, <3>2, <3>4, <4>1
      <3>5. CASE r # {}
        <4> DEFINE q == r \ {One(r)}
        <4>1. q \in SUBSET r /\ q # T
          BY <3>1
        <4>2. q \in SUBSET T
          BY <3>1, <4>1
        <4>3. Adds(It(q), f, q) /\ IsFiniteSet(q)
          BY <2>1, <4>1, <4>2
        <4>4. It(r)[r] = f[One(r)] + It(r)[q]
          BY <3>3, <3>5 DEF Adds
        <4>5. It(r)[q] = It(q)[q]
          <5> HIDE DEF It, q, r
          <5> QED
            BY <3>3, <4>1, <4>3, AddsAgree
        <4>6. g[r] = f[One(r)] + It(q)[q]
          BY <3>1, <3>5
        <4> HIDE DEF g, It, q
        <4> QED
          BY <3>2, <4>4, <4>5, <4>6
      <3> QED
        BY <3>4, <3>5
    <2>3. g[{}] = 0
      OBVIOUS
    <2>4. Adds(g, f, T)
      <3>1. g = [s \in SUBSET T |-> g[s]]
        OBVIOUS
      <3> HIDE DEF g
      <3> QED
        BY <2>2, <2>3, <3>1 DEF Adds
    <2> QED
      BY <2>4
  <1> HIDE DEF G
  <1>2. S \in G
    BY <1>1, SubsetInduction
  <1> QED
    BY <1>2 DEF G

-----------------------------------------------------------------------------
(* Nothing sums to nothing.                                                *)
LEMMA SumEmpty ==
    ASSUME NEW f
    PROVE  SumOver(f, {}) = 0
  <1>1. IsFiniteSet({})
    BY FS_EmptySet
  <1>2. PICK it : Adds(it, f, {})
    BY <1>1, AddsExist
  <1>3. Adds(CHOOSE i : Adds(i, f, {}), f, {})
    BY <1>2
  <1>4. (CHOOSE i : Adds(i, f, {}))[{}] = 0
    BY <1>3 DEF Adds
  <1> QED
    BY <1>4, SumIsFold

(* The fold takes one element, and sums the rest.                          *)
LEMMA SumStep ==
    ASSUME NEW f, NEW S, IsFiniteSet(S), S # {}
    PROVE  SumOver(f, S) = f[One(S)] + SumOver(f, S \ {One(S)})
  <1> DEFINE R == S \ {One(S)}
             It(T) == CHOOSE it : Adds(it, f, T)
  <1>1. IsFiniteSet(R) /\ R \subseteq S
    BY FS_Subset
  <1>2. Adds(It(S), f, S) /\ Adds(It(R), f, R)
    BY <1>1, AddsExist
  <1>3. It(S)[S] = f[One(S)] + It(S)[R]
    BY <1>2 DEF Adds
  <1>4. It(S)[R] = It(R)[R]
    <2> HIDE DEF It, R
    <2> QED
      BY <1>1, <1>2, AddsAgree
  <1> QED
    BY <1>3, <1>4, SumIsFold

(* A sum of integers is an integer, and of naturals a natural.             *)
LEMMA SumInt ==
    ASSUME NEW f, NEW S, IsFiniteSet(S), \A k \in S : f[k] \in Int
    PROVE  SumOver(f, S) \in Int
  <1> DEFINE G == {T \in SUBSET S : SumOver(f, T) \in Int}
  <1>1. ASSUME NEW T \in SUBSET S, \A U \in SUBSET T : U # T => U \in G
        PROVE  T \in G
    <2>1. CASE T = {}
      BY <2>1, SumEmpty
    <2>2. CASE T # {}
      <3>1. SumOver(f, T) = f[One(T)] + SumOver(f, T \ {One(T)})
        BY <2>2, SumStep, FS_Subset
      <3>2. One(T) \in T /\ T \ {One(T)} \in SUBSET T /\ T \ {One(T)} # T
        BY <2>2, OneIn
      <3>3. SumOver(f, T \ {One(T)}) \in Int
        BY <1>1, <3>2
      <3> QED
        BY <3>1, <3>2, <3>3
    <2> QED
      BY <2>1, <2>2
  <1> HIDE DEF G
  <1>2. S \in G
    BY <1>1, SubsetInduction
  <1> QED
    BY <1>2 DEF G

(* Any element may be the one that is taken.                               *)
LEMMA SumTake ==
    ASSUME NEW f, NEW S, IsFiniteSet(S), \A k \in S : f[k] \in Int, NEW x \in S
    PROVE  SumOver(f, S) = f[x] + SumOver(f, S \ {x})
  <1> DEFINE Holds(T) == \A y \in T : SumOver(f, T) = f[y] + SumOver(f, T \ {y})
             G == {T \in SUBSET S : Holds(T)}
  <1>1. ASSUME NEW T \in SUBSET S, \A U \in SUBSET T : U # T => U \in G
        PROVE  T \in G
    <2> SUFFICES ASSUME NEW y \in T
                 PROVE  SumOver(f, T) = f[y] + SumOver(f, T \ {y})
      OBVIOUS
    <2> DEFINE c == One(T)
               R == T \ {c, y}
    <2>1. c \in T /\ SumOver(f, T) = f[c] + SumOver(f, T \ {c})
      BY SumStep, OneIn, FS_Subset
    <2>2. CASE y = c
      BY <2>1, <2>2
    <2>3. CASE y # c
      <3>1. Holds(T \ {c}) /\ Holds(T \ {y})
        <4>1. /\ T \ {c} \in SUBSET T /\ T \ {c} # T
              /\ T \ {y} \in SUBSET T /\ T \ {y} # T
          BY <2>1
        <4> QED
          BY <1>1, <4>1
      <3>2. (T \ {c}) \ {y} = R /\ (T \ {y}) \ {c} = R /\ y \in T \ {c} /\ c \in T \ {y}
        BY <2>1, <2>3
      <3>3. /\ SumOver(f, T \ {c}) = f[y] + SumOver(f, R)
            /\ SumOver(f, T \ {y}) = f[c] + SumOver(f, R)
        BY <3>1, <3>2
      <3>4. SumOver(f, R) \in Int /\ f[c] \in Int /\ f[y] \in Int
        BY <2>1, SumInt, FS_Subset
      <3> HIDE DEF c, R
      <3> QED
        BY <2>1, <3>3, <3>4
    <2> QED
      BY <2>2, <2>3
  <1> HIDE DEF G
  <1>2. S \in G
    BY <1>1, SubsetInduction
  <1> QED
    BY <1>2 DEF G

LEMMA SumOfOne ==
    ASSUME NEW f, NEW x, f[x] \in Int
    PROVE  SumOver(f, {x}) = f[x]
  <1>1. IsFiniteSet({x}) /\ {x} \ {x} = {}
    BY FS_Singleton
  <1>2. SumOver(f, {x}) = f[x] + SumOver(f, {})
    BY <1>1, SumTake
  <1> QED
    BY <1>2, SumEmpty

(* Columns that agree, or one that is not above the other.                 *)
LEMMA SumSame ==
    ASSUME NEW f, NEW h, NEW S, IsFiniteSet(S), \A k \in S : f[k] = h[k]
    PROVE  SumOver(f, S) = SumOver(h, S)
  <1> DEFINE G == {T \in SUBSET S : SumOver(f, T) = SumOver(h, T)}
  <1>1. ASSUME NEW T \in SUBSET S, \A U \in SUBSET T : U # T => U \in G
        PROVE  T \in G
    <2>1. CASE T = {}
      BY <2>1, SumEmpty
    <2>2. CASE T # {}
      <3>1. /\ SumOver(f, T) = f[One(T)] + SumOver(f, T \ {One(T)})
            /\ SumOver(h, T) = h[One(T)] + SumOver(h, T \ {One(T)})
        BY <2>2, SumStep, FS_Subset
      <3>2. One(T) \in T /\ T \ {One(T)} \in SUBSET T /\ T \ {One(T)} # T
        BY <2>2, OneIn
      <3> QED
        BY <1>1, <3>1, <3>2
    <2> QED
      BY <2>1, <2>2
  <1> HIDE DEF G
  <1>2. S \in G
    BY <1>1, SubsetInduction
  <1> QED
    BY <1>2 DEF G

LEMMA SumAtMost ==
    ASSUME NEW f, NEW h, NEW S, IsFiniteSet(S),
           \A k \in S : f[k] \in Int /\ h[k] \in Int /\ f[k] <= h[k]
    PROVE  SumOver(f, S) <= SumOver(h, S)
  <1> DEFINE G == {T \in SUBSET S : SumOver(f, T) <= SumOver(h, T)}
  <1>1. ASSUME NEW T \in SUBSET S, \A U \in SUBSET T : U # T => U \in G
        PROVE  T \in G
    <2>1. CASE T = {}
      BY <2>1, SumEmpty
    <2>2. CASE T # {}
      <3> DEFINE R == T \ {One(T)}
      <3>1. /\ SumOver(f, T) = f[One(T)] + SumOver(f, R)
            /\ SumOver(h, T) = h[One(T)] + SumOver(h, R)
        BY <2>2, SumStep, FS_Subset
      <3>2. One(T) \in T /\ R \in SUBSET T /\ R # T
        BY <2>2, OneIn
      <3>3. SumOver(f, R) <= SumOver(h, R)
        BY <1>1, <3>2
      <3>4. SumOver(f, R) \in Int /\ SumOver(h, R) \in Int
        BY <3>2, SumInt, FS_Subset
      <3>5. f[One(T)] \in Int /\ h[One(T)] \in Int /\ f[One(T)] <= h[One(T)]
        BY <3>2
      <3> HIDE DEF R
      <3> QED
        BY <3>1, <3>3, <3>4, <3>5
    <2> QED
      BY <2>1, <2>2
  <1> HIDE DEF G
  <1>2. S \in G
    BY <1>1, SubsetInduction
  <1> QED
    BY <1>2 DEF G

(* Zeros sum to 0.                                                         *)
LEMMA SumZero ==
    ASSUME NEW f, NEW S, IsFiniteSet(S), \A k \in S : f[k] = 0
    PROVE  SumOver(f, S) = 0
  <1>1. \A T \in SUBSET S : IsFiniteSet(T)
    BY FS_Subset
  <1> DEFINE G == {T \in SUBSET S : SumOver(f, T) = 0}
  <1>2. ASSUME NEW T \in SUBSET S, \A U \in SUBSET T : U # T => U \in G
        PROVE  T \in G
    <2>1. CASE T = {}
      BY <2>1, SumEmpty
    <2>2. CASE T # {}
      <3>1. One(T) \in T /\ T \ {One(T)} \in SUBSET T /\ T \ {One(T)} # T
        BY <2>2, OneIn
      <3>2. SumOver(f, T) = f[One(T)] + SumOver(f, T \ {One(T)})
        BY <1>1, <2>2, SumStep
      <3>3. SumOver(f, T \ {One(T)}) = 0 /\ f[One(T)] = 0
        BY <1>2, <3>1
      <3> QED
        BY <3>2, <3>3
    <2> QED
      BY <2>1, <2>2
  <1> HIDE DEF G
  <1>3. S \in G
    BY <1>2, SubsetInduction
  <1> QED
    BY <1>3 DEF G

(* Naturals: none is above the sum.                                        *)
LEMMA SumNat ==
    ASSUME NEW f, NEW S, IsFiniteSet(S), \A k \in S : f[k] \in Nat
    PROVE  SumOver(f, S) \in Nat /\ \A x \in S : f[x] <= SumOver(f, S)
  <1>1. \A T \in SUBSET S : IsFiniteSet(T)
    BY FS_Subset
  <1>2. ASSUME NEW T \in SUBSET S
        PROVE  SumOver(f, T) \in Nat
    <2>1. \A U \in SUBSET S : 0 <= SumOver(f, U)
      <3> DEFINE G == {U \in SUBSET S : 0 <= SumOver(f, U)}
      <3>1. ASSUME NEW U \in SUBSET S, \A V \in SUBSET U : V # U => V \in G
            PROVE  U \in G
        <4>1. CASE U = {}
          BY <4>1, SumEmpty
        <4>2. CASE U # {}
          <5>1. One(U) \in U /\ U \ {One(U)} \in SUBSET U /\ U \ {One(U)} # U
            BY <4>2, OneIn
          <5>2. SumOver(f, U) = f[One(U)] + SumOver(f, U \ {One(U)})
            BY <1>1, <4>2, SumStep
          <5>3. 0 <= SumOver(f, U \ {One(U)}) /\ SumOver(f, U \ {One(U)}) \in Int
            BY <1>1, <3>1, <5>1, SumInt
          <5> QED
            BY <5>1, <5>2, <5>3
        <4> QED
          BY <4>1, <4>2
      <3> HIDE DEF G
      <3>2. \A U \in SUBSET S : U \in G
        BY <3>1, SubsetInduction
      <3> QED
        BY <3>2 DEF G
    <2>2. SumOver(f, T) \in Int
      BY <1>1, SumInt
    <2> QED
      BY <2>1, <2>2
  <1>3. ASSUME NEW x \in S
        PROVE  f[x] <= SumOver(f, S)
    <2>1. SumOver(f, S) = f[x] + SumOver(f, S \ {x})
      BY SumTake
    <2>2. SumOver(f, S \ {x}) \in Nat
      BY <1>2
    <2> QED
      BY <2>1, <2>2
  <1> QED
    BY <1>2, <1>3

(* A common bound, counted once for each element.                          *)
LEMMA SumBound ==
    ASSUME NEW f, NEW S, IsFiniteSet(S), NEW c \in Int,
           \A k \in S : f[k] \in Int /\ f[k] <= c
    PROVE  SumOver(f, S) <= c * Cardinality(S)
  <1> DEFINE G == {T \in SUBSET S : SumOver(f, T) <= c * Cardinality(T)}
  <1>1. \A T \in SUBSET S : IsFiniteSet(T)
    BY FS_Subset
  <1>2. ASSUME NEW T \in SUBSET S, \A U \in SUBSET T : U # T => U \in G
        PROVE  T \in G
    <2>1. CASE T = {}
      BY <2>1, SumEmpty, FS_EmptySet
    <2>2. CASE T # {}
      <3> DEFINE R == T \ {One(T)}
      <3>1. One(T) \in T /\ R \in SUBSET T /\ R # T
        BY <2>2, OneIn
      <3>2. SumOver(f, T) = f[One(T)] + SumOver(f, R)
        BY <1>1, <2>2, SumStep
      <3>3. SumOver(f, R) <= c * Cardinality(R)
        BY <1>2, <3>1
      <3>4. /\ Cardinality(R) \in Nat /\ Cardinality(T) \in Nat
            /\ Cardinality(R) = Cardinality(T) - 1
        BY <1>1, <3>1, FS_RemoveElement, FS_CardinalityType
      <3>5. SumOver(f, R) \in Int /\ f[One(T)] \in Int /\ f[One(T)] <= c
        BY <1>1, <3>1, SumInt
      <3>6. c * Cardinality(R) = c * Cardinality(T) - c
        <4>1. \A n, m \in Int : m = n - 1 => c * m = c * n - c
          OBVIOUS
        <4> QED
          BY <3>4, <4>1
      <3>7. c * Cardinality(T) \in Int
        BY <3>4
      <3> HIDE DEF R
      <3> QED
        BY <3>2, <3>3, <3>5, <3>6, <3>7
    <2> QED
      BY <2>1, <2>2
  <1> HIDE DEF G
  <1>3. S \in G
    BY <1>2, SubsetInduction
  <1> QED
    BY <1>3 DEF G

(* The sum of a column that is one plus a multiple of another.             *)
LEMMA SumLinear ==
    ASSUME NEW f, NEW g, NEW h, NEW S, IsFiniteSet(S), NEW c \in Int,
           \A k \in S : f[k] \in Int /\ g[k] \in Int /\ h[k] = f[k] + c * g[k]
    PROVE  SumOver(h, S) = SumOver(f, S) + c * SumOver(g, S)
  <1> DEFINE G == {T \in SUBSET S : SumOver(h, T) = SumOver(f, T) + c * SumOver(g, T)}
  <1>1. \A T \in SUBSET S : IsFiniteSet(T)
    BY FS_Subset
  <1>2. ASSUME NEW T \in SUBSET S, \A U \in SUBSET T : U # T => U \in G
        PROVE  T \in G
    <2>1. CASE T = {}
      BY <2>1, SumEmpty
    <2>2. CASE T # {}
      <3> DEFINE R == T \ {One(T)}
      <3>1. One(T) \in T /\ R \in SUBSET T /\ R # T
        BY <2>2, OneIn
      <3>2. /\ SumOver(f, T) = f[One(T)] + SumOver(f, R)
            /\ SumOver(g, T) = g[One(T)] + SumOver(g, R)
            /\ SumOver(h, T) = h[One(T)] + SumOver(h, R)
        BY <1>1, <2>2, SumStep
      <3>3. SumOver(h, R) = SumOver(f, R) + c * SumOver(g, R)
        BY <1>2, <3>1
      <3>4. SumOver(f, R) \in Int /\ SumOver(g, R) \in Int
        BY <1>1, <3>1, SumInt
      <3>5. /\ f[One(T)] \in Int /\ g[One(T)] \in Int
            /\ h[One(T)] = f[One(T)] + c * g[One(T)]
        BY <3>1
      <3>6. \A a, b, x, y \in Int : (a + c * b) + (x + c * y) = (a + x) + c * (b + y)
        OBVIOUS
      <3> HIDE DEF R
      <3> QED
        BY <3>2, <3>3, <3>4, <3>5, <3>6
    <2> QED
      BY <2>1, <2>2
  <1> HIDE DEF G
  <1>3. S \in G
    BY <1>2, SubsetInduction
  <1> QED
    BY <1>3 DEF G

(* A sum is that over a part and that over the rest.                       *)
LEMMA SumSplit ==
    ASSUME NEW f, NEW S, IsFiniteSet(S), \A k \in S : f[k] \in Int, NEW A \in SUBSET S
    PROVE  SumOver(f, S) = SumOver(f, A) + SumOver(f, S \ A)
  <1> DEFINE G == {T \in SUBSET A : SumOver(f, S) = SumOver(f, T) + SumOver(f, S \ T)}
  <1>1. \A T \in SUBSET S : IsFiniteSet(T) /\ SumOver(f, T) \in Int
    BY FS_Subset, SumInt
  <1>2. ASSUME NEW T \in SUBSET A, \A U \in SUBSET T : U # T => U \in G
        PROVE  T \in G
    <2>1. CASE T = {}
      <3>1. S \ T = S
        BY <2>1
      <3> QED
        BY <1>1, <2>1, <3>1, SumEmpty
    <2>2. CASE T # {}
      <3> DEFINE x == One(T)
                 R == T \ {x}
      <3>1. x \in T /\ R \in SUBSET T /\ R # T
        BY <2>2, OneIn
      <3>2. SumOver(f, T) = f[x] + SumOver(f, R)
        BY <1>1, <2>2, SumStep
      <3>3. SumOver(f, S) = SumOver(f, R) + SumOver(f, S \ R)
        BY <1>2, <3>1
      <3>4. SumOver(f, S \ R) = f[x] + SumOver(f, S \ T)
        <4>1. (S \ R) \ {x} = S \ T /\ x \in S \ R
          BY <3>1
        <4>2. IsFiniteSet(S \ R) /\ \A k \in S \ R : f[k] \in Int
          BY <1>1
        <4> HIDE DEF R, x
        <4> QED
          BY <4>1, <4>2, SumTake
      <3>5. /\ SumOver(f, R) \in Int /\ SumOver(f, S \ T) \in Int
            /\ f[x] \in Int
        BY <1>1, <3>1
      <3> HIDE DEF R, x
      <3> QED
        BY <3>2, <3>3, <3>4, <3>5
    <2> QED
      BY <2>1, <2>2
  <1> HIDE DEF G
  <1>3. A \in G
    BY <1>1, <1>2, SubsetInduction
  <1> QED
    BY <1>3 DEF G

-----------------------------------------------------------------------------
(* Of finitely many numbers some come first by a key, and of these one is  *)
(* the lowest: there is one without a better one, because the better ones  *)
(* of a better one are fewer.                                              *)
LEMMA LowestOfFirst ==
    ASSUME NEW S \in SUBSET Int, IsFiniteSet(S), S # {}, NEW key,
           \A k \in S : key[k] \in Int
    PROVE  \E k \in S : \A j \in S : key[k] < key[j] \/ (key[k] = key[j] /\ k <= j)
  <1> DEFINE better(j, k) == \/ key[j] < key[k]
                             \/ (key[j] = key[k] /\ j < k)
             Betters(k) == {j \in S : better(j, k)}
             All == {Betters(k) : k \in S}
  <1>1. PICK x \in All : \A y \in SUBSET x : y # x => y \notin All
    <2>1. All \in SUBSET SUBSET S /\ All # {}
      OBVIOUS
    <2> HIDE DEF All
    <2> QED
      BY <2>1, SmallestSubset
  <1>2. PICK k \in S : x = Betters(k)
    BY <1>1
  <1>3. \A j \in S : ~better(j, k)
    <2> SUFFICES ASSUME NEW j \in S, better(j, k) PROVE FALSE
      OBVIOUS
    <2>1. Betters(j) \subseteq Betters(k)
      <3> SUFFICES ASSUME NEW i \in S, better(i, j) PROVE better(i, k)
        OBVIOUS
      <3>1. key[i] \in Int /\ key[j] \in Int /\ key[k] \in Int /\ i \in Int /\ j \in Int /\ k \in Int
        OBVIOUS
      <3> QED
        BY <3>1
    <2>2. j \in Betters(k) /\ j \notin Betters(j)
      OBVIOUS
    <2>3. Betters(j) \in All
      OBVIOUS
    <2> HIDE DEF Betters, All
    <2> QED
      BY <2>1, <2>2, <2>3, <1>1, <1>2
  <1> QED
    BY <1>3

==============================================================================
