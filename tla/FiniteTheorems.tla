----------------------------- MODULE FiniteTheorems -----------------------------
(***************************************************************************)
(* Facts about finite sets.  An order has a minimal element on them, and   *)
(* integers a least and a greatest one.  SumFunction, the sum of a         *)
(* function's values over its finite domain: what it is of nothing, and    *)
(* what adding or removing one element does to it; the ledgers of the      *)
(* position book and of the simulator are such sums.                       *)
(*                                                                         *)
(* The fold behind a sum is a recursive function on the subsets of a set.  *)
(* Instead of an induction, the proofs take a smallest subset for which a  *)
(* claim fails.                                                            *)
(***************************************************************************)
EXTENDS Integers, FiniteSets, FiniteSetsExt, Functions, FiniteSetTheorems, WellFoundedInduction, TLAPS

-----------------------------------------------------------------------------
(* Orders on finite sets *)

\* No element of S is before x in the strict order R.
Minimal(S, R, x) == \A y \in S : <<y, x>> \notin R

\* A strict order has a minimal element on a finite set.
LEMMA HasMinimal ==
    ASSUME NEW S, IsFiniteSet(S), S # {}, NEW R,
           \A x \in S : <<x, x>> \notin R,
           \A x, y, z \in S : <<x, y>> \in R /\ <<y, z>> \in R => <<x, z>> \in R
    PROVE  \E x \in S : Minimal(S, R, x)
  <1> DEFINE Before(x) == {t \in S : <<t, x>> \in R}
             K == {Cardinality(Before(x)) : x \in S}
             L == OpToRel(<, Nat)
  <1>1. \A x \in S : Before(x) \in SUBSET S
    OBVIOUS
  <1>2. ASSUME NEW x \in S, NEW y \in S, <<y, x>> \in R
        PROVE  Before(y) \in SUBSET Before(x) /\ y \in Before(x) /\ y \notin Before(y)
    BY <1>2
  <1> HIDE DEF Before
  <1>3. \A x \in S : IsFiniteSet(Before(x)) /\ Cardinality(Before(x)) \in Nat
    BY <1>1, FS_Subset, FS_CardinalityType
  <1>4. K \subseteq Nat /\ K # {} /\ \A x \in S : Cardinality(Before(x)) \in K
    BY <1>3
  <1> HIDE DEF K
  <1>5. PICK k \in K : \A j \in K : ~(<<j, k>> \in L)
    BY <1>4, NatLessThanWellFounded, WFMin
  <1>6. PICK x \in S : k = Cardinality(Before(x))
    BY <1>5 DEF K
  <1>7. ASSUME NEW y \in S, <<y, x>> \in R PROVE FALSE
    <2>1. Before(y) \in SUBSET Before(x) /\ Before(y) # Before(x)
      BY <1>2, <1>7
    <2>2. /\ Cardinality(Before(y)) \in Nat /\ Cardinality(Before(x)) \in Nat
          /\ IsFiniteSet(Before(x)) /\ Cardinality(Before(y)) \in K
      BY <1>3, <1>4
    <2>3. Cardinality(Before(y)) < Cardinality(Before(x))
      BY <2>1, <2>2, FS_Subset
    <2>4. <<Cardinality(Before(y)), k>> \in L
      BY <1>6, <2>2, <2>3 DEF OpToRel
    <2>5. QED
      BY <1>5, <2>2, <2>4
  <1>8. QED
    BY <1>7 DEF Minimal

\* A finite set of integers has a least and a greatest element.
LEMMA Least ==
    ASSUME NEW S \in SUBSET Int, IsFiniteSet(S), S # {}
    PROVE  Min(S) \in S /\ \A y \in S : Min(S) <= y
  <1> DEFINE R == {e \in S \X S : e[1] < e[2]}
  <1>1. \A x, y \in S : <<x, y>> \in R <=> x < y
    OBVIOUS
  <1>2. /\ \A x \in S : <<x, x>> \notin R
        /\ \A x, y, z \in S : <<x, y>> \in R /\ <<y, z>> \in R => <<x, z>> \in R
    BY <1>1
  <1> HIDE DEF R
  <1>3. PICK x \in S : Minimal(S, R, x)
    BY <1>2, HasMinimal
  <1>4. ASSUME NEW y \in S PROVE x <= y
    <2>1. ~(y < x) /\ x \in Int /\ y \in Int
      BY <1>1, <1>3 DEF Minimal
    <2>2. QED
      BY <2>1
  <1>5. QED
    BY <1>3, <1>4, Zenon DEF Min

LEMMA Greatest ==
    ASSUME NEW S \in SUBSET Int, IsFiniteSet(S), S # {}
    PROVE  Max(S) \in S /\ \A y \in S : Max(S) >= y
  <1> DEFINE R == {e \in S \X S : e[1] > e[2]}
  <1>1. \A x, y \in S : <<x, y>> \in R <=> x > y
    OBVIOUS
  <1>2. /\ \A x \in S : <<x, x>> \notin R
        /\ \A x, y, z \in S : <<x, y>> \in R /\ <<y, z>> \in R => <<x, z>> \in R
    BY <1>1
  <1> HIDE DEF R
  <1>3. PICK x \in S : Minimal(S, R, x)
    BY <1>2, HasMinimal
  <1>4. ASSUME NEW y \in S PROVE x >= y
    <2>1. ~(y > x) /\ x \in Int /\ y \in Int
      BY <1>1, <1>3 DEF Minimal
    <2>2. QED
      BY <2>1
  <1>5. QED
    BY <1>3, <1>4, Zenon DEF Max

-----------------------------------------------------------------------------
(* Sums *)

Picked(s) == CHOOSE x \in s : TRUE

\* g is the function that the fold of f defines on the subsets of S.
Folds(f, g, S) ==
    g = [s \in SUBSET S |-> IF s = {} THEN 0 ELSE f[Picked(s)] + g[s \ {Picked(s)}]]

Sum(f, S) == SumFunctionOnSet(f, S)

-----------------------------------------------------------------------------

LEMMA PickedIn == ASSUME NEW s, s # {} PROVE Picked(s) \in s
  BY DEF Picked

\* Among sets of subsets of a finite set there is one that contains no other.
LEMMA Smallest ==
    ASSUME NEW S, IsFiniteSet(S), NEW B \in SUBSET SUBSET S, B # {}
    PROVE  \E T \in B : \A U \in B : U \subseteq T => U = T
  <1> DEFINE K == {Cardinality(T) : T \in B}
             R == OpToRel(<, Nat)
  <1>1. \A T \in B : IsFiniteSet(T) /\ Cardinality(T) \in Nat
    BY FS_Subset, FS_CardinalityType
  <1>2. K \subseteq Nat /\ K # {}
    BY <1>1
  <1>3. PICK k \in K : \A j \in K : ~(<<j, k>> \in R)
    <2> HIDE DEF K
    <2>1. QED
      BY <1>2, NatLessThanWellFounded, WFMin
  <1>4. PICK T \in B : k = Cardinality(T)
    BY <1>3
  <1>5. ASSUME NEW U \in B, U \subseteq T, U # T PROVE FALSE
    <2>1. Cardinality(U) < Cardinality(T) /\ Cardinality(U) \in Nat /\ Cardinality(T) \in Nat
      BY <1>1, <1>5, FS_Subset
    <2>2. <<Cardinality(U), k>> \in R
      BY <1>4, <2>1 DEF OpToRel
    <2>3. Cardinality(U) \in K
      OBVIOUS
    <2>4. QED
      BY <1>3, <2>2, <2>3
  <1>6. QED
    BY <1>5

\* A fold has the same values whatever set it is defined over.
LEMMA FoldsAgree ==
    ASSUME NEW f, NEW g, NEW h, NEW S, NEW T, IsFiniteSet(S), S \subseteq T,
           Folds(f, g, S), Folds(f, h, T)
    PROVE  \A s \in SUBSET S : g[s] = h[s]
  <1> DEFINE B == {s \in SUBSET S : g[s] # h[s]}
  <1>1. SUFFICES ASSUME B # {} PROVE FALSE
    OBVIOUS
  <1>2. PICK s \in B : \A u \in B : u \subseteq s => u = s
    <2>1. B \in SUBSET SUBSET S
      OBVIOUS
    <2> HIDE DEF B
    <2>2. QED
      BY <1>1, <2>1, Smallest
  <1>3. s # {} /\ Picked(s) \in s
    <2>1. g[{}] = 0
      BY DEF Folds
    <2>2. h[{}] = 0
      BY DEF Folds
    <2>3. QED
      BY <2>1, <2>2, PickedIn
  <1>4. g[s \ {Picked(s)}] = h[s \ {Picked(s)}]
    BY <1>2, <1>3
  <1>5. g[s] = f[Picked(s)] + g[s \ {Picked(s)}]
    BY <1>3 DEF Folds
  <1>6. h[s] = f[Picked(s)] + h[s \ {Picked(s)}]
    BY <1>3 DEF Folds
  <1>7. QED
    BY <1>2, <1>4, <1>5, <1>6

\* What a fold comes to over the whole of its set.
FoldOf(f, S) == (CHOOSE g : Folds(f, g, S))[S]

\* If every proper subset has a fold, so has the set.
LEMMA FoldStep ==
    ASSUME NEW f, NEW S, IsFiniteSet(S),
           \A s \in SUBSET S : s # S => \E g : Folds(f, g, s)
    PROVE  \E g : Folds(f, g, S)
  <1> DEFINE G == [s \in SUBSET S |->
                      IF s = {} THEN 0 ELSE f[Picked(s)] + FoldOf(f, s \ {Picked(s)})]
  <1>1. \A s \in SUBSET S : s # {} => s \ {Picked(s)} \in SUBSET S /\ s \ {Picked(s)} # S
    BY PickedIn
  <1>2. ASSUME NEW s \in SUBSET S, s # {}
        PROVE  G[s \ {Picked(s)}] = FoldOf(f, s \ {Picked(s)})
    <2> DEFINE u == s \ {Picked(s)}
               w == u \ {Picked(u)}
               g == CHOOSE h : Folds(f, h, u)
               h == CHOOSE k : Folds(f, k, w)
    <2>1. u \in SUBSET S /\ u # S
      BY <1>1, <1>2
    <2>2. Folds(f, g, u)
      BY <2>1
    <2>3. FoldOf(f, u) = g[u]
      BY DEF FoldOf
    <2>4. CASE u = {}
      <3>1. g[u] = 0
        BY <2>2, <2>4 DEF Folds
      <3>2. G[u] = 0
        BY <2>1, <2>4
      <3>3. QED
        BY <2>3, <3>1, <3>2
    <2>5. CASE u # {}
      <3>1. w \in SUBSET S /\ w # S /\ w \in SUBSET u
        BY <1>1, <2>1, <2>5
      <3>2. Folds(f, h, w)
        BY <3>1
      <3>3. g[w] = h[w]
        <4>1. IsFiniteSet(w)
          BY <3>1, FS_Subset
        <4> HIDE DEF g, h, u, w
        <4>2. QED
          BY <2>2, <3>1, <3>2, <4>1, FoldsAgree
      <3>4. FoldOf(f, w) = h[w]
        BY DEF FoldOf
      <3> HIDE DEF g, h
      <3>5. g[u] = f[Picked(u)] + g[w]
        BY <2>2, <2>5 DEF Folds
      <3>6. G[u] = f[Picked(u)] + FoldOf(f, w)
        BY <2>1, <2>5
      <3>7. QED
        BY <2>3, <3>3, <3>4, <3>5, <3>6
    <2>6. QED
      BY <2>4, <2>5
  <1>3. G = [s \in SUBSET S |-> IF s = {} THEN 0 ELSE f[Picked(s)] + G[s \ {Picked(s)}]]
    BY <1>2
  <1> HIDE DEF G
  <1>4. QED
    BY <1>3 DEF Folds

\* Over a finite set the fold is well defined.
LEMMA FoldExists ==
    ASSUME NEW f, NEW S, IsFiniteSet(S)
    PROVE  \E g : Folds(f, g, S)
  <1> DEFINE B == {s \in SUBSET S : ~\E g : Folds(f, g, s)}
  <1>1. SUFFICES ASSUME B # {} PROVE FALSE
    OBVIOUS
  <1>2. B \in SUBSET SUBSET S
    OBVIOUS
  <1>3. PICK s \in B : \A u \in B : u \subseteq s => u = s
    <2> HIDE DEF B
    <2>1. QED
      BY <1>1, <1>2, Smallest
  <1>4. IsFiniteSet(s)
    BY FS_Subset
  <1>5. \A u \in SUBSET s : u # s => \E g : Folds(f, g, u)
    BY <1>3
  <1>6. \E g : Folds(f, g, s)
    <2> HIDE DEF B
    <2>1. QED
      BY <1>4, <1>5, FoldStep
  <1>7. QED
    BY <1>6

LEMMA SumIsFold == ASSUME NEW f, NEW S PROVE Sum(f, S) = FoldOf(f, S)
  BY DEF Sum, SumFunctionOnSet, FoldFunctionOnSet, MapThenFoldSet, FoldOf, Folds, Picked

-----------------------------------------------------------------------------

\* The sum of nothing, and of a set whose picked element is set apart.
LEMMA SumEmpty == ASSUME NEW f PROVE Sum(f, {}) = 0
  <1> DEFINE g == CHOOSE h : Folds(f, h, {})
  <1>1. Folds(f, g, {})
    BY FoldExists, FS_EmptySet
  <1>2. FoldOf(f, {}) = g[{}]
    BY DEF FoldOf
  <1> HIDE DEF g
  <1>3. g[{}] = 0
    BY <1>1 DEF Folds
  <1>4. QED
    BY <1>2, <1>3, SumIsFold

LEMMA SumPicked ==
    ASSUME NEW f, NEW S, IsFiniteSet(S), S # {}
    PROVE  Sum(f, S) = f[Picked(S)] + Sum(f, S \ {Picked(S)})
  <1> DEFINE T == S \ {Picked(S)}
             g == CHOOSE h : Folds(f, h, S)
             h == CHOOSE k : Folds(f, k, T)
  <1>1. Folds(f, g, S)
    BY FoldExists
  <1>2. IsFiniteSet(T) /\ T \subseteq S
    BY FS_Subset
  <1>3. Folds(f, h, T)
    BY <1>2, FoldExists
  <1>4. FoldOf(f, S) = g[S] /\ FoldOf(f, T) = h[T]
    BY DEF FoldOf
  <1> HIDE DEF g, h, T
  <1>5. h[T] = g[T]
    BY <1>1, <1>2, <1>3, FoldsAgree
  <1>6. g[S] = f[Picked(S)] + g[T]
    BY <1>1 DEF Folds, T
  <1>7. QED
    BY <1>4, <1>5, <1>6, SumIsFold DEF T

\* A sum of integers is an integer.
LEMMA SumInt ==
    ASSUME NEW f, NEW S, IsFiniteSet(S), \A x \in S : f[x] \in Int
    PROVE  Sum(f, S) \in Int
  <1> DEFINE B == {s \in SUBSET S : Sum(f, s) \notin Int}
  <1>1. SUFFICES ASSUME B # {} PROVE FALSE
    OBVIOUS
  <1>2. B \in SUBSET SUBSET S
    OBVIOUS
  <1>3. PICK s \in B : \A u \in B : u \subseteq s => u = s
    <2> HIDE DEF B
    <2>1. QED
      BY <1>1, <1>2, Smallest
  <1>4. s # {}
    BY SumEmpty
  <1>5. Picked(s) \in s /\ IsFiniteSet(s)
    BY <1>4, PickedIn, FS_Subset
  <1>6. Sum(f, s \ {Picked(s)}) \in Int
    BY <1>3, <1>5
  <1>7. Sum(f, s) = f[Picked(s)] + Sum(f, s \ {Picked(s)})
    BY <1>4, <1>5, SumPicked
  <1>8. f[Picked(s)] \in Int
    BY <1>5
  <1>9. QED
    BY <1>6, <1>7, <1>8

\* A sum whose terms are at most m times those of another is at most m times it.
LEMMA SumAtMost ==
    ASSUME NEW f, NEW g, NEW m \in Nat, NEW S, IsFiniteSet(S),
           \A x \in S : f[x] \in Int /\ g[x] \in Int /\ 0 <= g[x] /\ g[x] <= m * f[x]
    PROVE  0 <= Sum(g, S) /\ Sum(g, S) <= m * Sum(f, S)
  <1> DEFINE Holds(s) == 0 <= Sum(g, s) /\ Sum(g, s) <= m * Sum(f, s)
             B == {s \in SUBSET S : ~Holds(s)}
  <1>1. SUFFICES ASSUME B # {} PROVE FALSE
    OBVIOUS
  <1>2. B \in SUBSET SUBSET S
    OBVIOUS
  <1>3. PICK s \in B : \A u \in B : u \subseteq s => u = s
    <2> HIDE DEF B
    <2>1. QED
      BY <1>1, <1>2, Smallest
  <1>4. s # {}
    BY SumEmpty
  <1>5. Picked(s) \in s /\ IsFiniteSet(s)
    BY <1>4, PickedIn, FS_Subset
  <1> DEFINE t == s \ {Picked(s)}
             x == Picked(s)
  <1>6. Holds(t) /\ t \in SUBSET S /\ IsFiniteSet(t)
    BY <1>3, <1>5, FS_Subset
  <1>7. Sum(f, s) = f[x] + Sum(f, t) /\ Sum(g, s) = g[x] + Sum(g, t)
    BY <1>4, <1>5, SumPicked
  <1>8. /\ f[x] \in Int /\ g[x] \in Int /\ 0 <= g[x] /\ g[x] <= m * f[x]
        /\ Sum(f, t) \in Int /\ Sum(g, t) \in Int
    BY <1>3, <1>5, <1>6, SumInt
  <1>9. \A a, b \in Int : m * (a + b) = m * a + m * b /\ m * a \in Int /\ m * b \in Int
    OBVIOUS
  <1> HIDE DEF t, x
  <1>10. Holds(s)
    BY <1>6, <1>7, <1>8, <1>9
  <1>11. QED
    BY <1>3, <1>10

\* A sum depends only on the values it adds.
LEMMA SumCongruent ==
    ASSUME NEW f, NEW g, NEW S, IsFiniteSet(S), \A x \in S : f[x] = g[x]
    PROVE  Sum(f, S) = Sum(g, S)
  <1> DEFINE B == {s \in SUBSET S : Sum(f, s) # Sum(g, s)}
  <1>1. SUFFICES ASSUME B # {} PROVE FALSE
    OBVIOUS
  <1>2. B \in SUBSET SUBSET S
    OBVIOUS
  <1>3. PICK s \in B : \A u \in B : u \subseteq s => u = s
    <2> HIDE DEF B
    <2>1. QED
      BY <1>1, <1>2, Smallest
  <1>4. s # {}
    BY SumEmpty
  <1>5. Picked(s) \in s /\ IsFiniteSet(s)
    BY <1>4, PickedIn, FS_Subset
  <1>6. Sum(f, s \ {Picked(s)}) = Sum(g, s \ {Picked(s)})
    BY <1>3, <1>5
  <1>7. /\ Sum(f, s) = f[Picked(s)] + Sum(f, s \ {Picked(s)})
        /\ Sum(g, s) = g[Picked(s)] + Sum(g, s \ {Picked(s)})
    BY <1>4, <1>5, SumPicked
  <1>8. QED
    BY <1>5, <1>6, <1>7

\* Any element may be set apart, not only the one the fold picks first.
LEMMA SumSplit ==
    ASSUME NEW f, NEW S, IsFiniteSet(S), NEW x \in S, \A y \in S : f[y] \in Int
    PROVE  Sum(f, S) = f[x] + Sum(f, S \ {x})
  <1> DEFINE B == {s \in SUBSET S : \E y \in s : Sum(f, s) # f[y] + Sum(f, s \ {y})}
  <1>1. SUFFICES ASSUME B # {} PROVE FALSE
    OBVIOUS
  <1>2. B \in SUBSET SUBSET S
    OBVIOUS
  <1>3. PICK s \in B : \A u \in B : u \subseteq s => u = s
    <2> HIDE DEF B
    <2>1. QED
      BY <1>1, <1>2, Smallest
  <1>4. PICK y \in s : Sum(f, s) # f[y] + Sum(f, s \ {y})
    OBVIOUS
  <1> DEFINE p == Picked(s)
  <1>5. s \in SUBSET S /\ p \in s /\ IsFiniteSet(s)
    BY PickedIn, FS_Subset
  <1>6. Sum(f, s) = f[p] + Sum(f, s \ {p})
    BY <1>5, SumPicked
  <1>7. p # y
    BY <1>4, <1>6
  <1>least. \A u \in SUBSET s : u # s => \A z \in u : Sum(f, u) = f[z] + Sum(f, u \ {z})
    BY <1>3, <1>5
  <1>8. Sum(f, s \ {p}) = f[y] + Sum(f, (s \ {p}) \ {y})
    <2>1. s \ {p} \in SUBSET s /\ s \ {p} # s /\ y \in s \ {p}
      BY <1>5, <1>7
    <2> HIDE DEF p, B
    <2>2. QED
      BY <1>least, <2>1
  <1>9. Sum(f, s \ {y}) = f[p] + Sum(f, (s \ {y}) \ {p})
    <2>1. s \ {y} \in SUBSET s /\ s \ {y} # s /\ p \in s \ {y}
      BY <1>5, <1>7
    <2> HIDE DEF p, B
    <2>2. QED
      BY <1>least, <2>1
  <1>10. (s \ {p}) \ {y} = (s \ {y}) \ {p}
    OBVIOUS
  <1>11. f[p] \in Int /\ f[y] \in Int /\ Sum(f, (s \ {p}) \ {y}) \in Int
    <2>1. IsFiniteSet((s \ {p}) \ {y}) /\ \A z \in (s \ {p}) \ {y} : f[z] \in Int
      BY <1>5, FS_Subset
    <2>2. QED
      BY <1>5, <2>1, SumInt
  <1> HIDE DEF p, B
  <1> DEFINE rest == Sum(f, (s \ {p}) \ {y})
  <1>12. f[p] + (f[y] + rest) = f[y] + (f[p] + rest)
    BY <1>11
  <1>13. QED
    BY <1>4, <1>6, <1>8, <1>9, <1>10, <1>12

\* The sum over two disjoint sets is the sum of their sums.
LEMMA SumDisjoint ==
    ASSUME NEW f, NEW S, NEW T, IsFiniteSet(S), IsFiniteSet(T), S \cap T = {},
           \A x \in S \cup T : f[x] \in Int
    PROVE  Sum(f, S \cup T) = Sum(f, S) + Sum(f, T)
  <1> DEFINE B == {s \in SUBSET S : Sum(f, s \cup T) # Sum(f, s) + Sum(f, T)}
  <1>1. SUFFICES ASSUME B # {} PROVE FALSE
    OBVIOUS
  <1>2. B \in SUBSET SUBSET S
    OBVIOUS
  <1>3. PICK s \in B : \A u \in B : u \subseteq s => u = s
    <2> HIDE DEF B
    <2>1. QED
      BY <1>1, <1>2, Smallest
  <1>4. Sum(f, T) \in Int
    <2>1. \A y \in T : f[y] \in Int
      OBVIOUS
    <2>2. QED
      BY <2>1, SumInt
  <1>5. s # {}
    <2>1. {} \cup T = T /\ Sum(f, {}) = 0 /\ 0 + Sum(f, T) = Sum(f, T)
      BY <1>4, SumEmpty
    <2>2. {} \notin B
      BY <2>1
    <2>3. QED
      BY <1>3, <2>2
  <1>6. PICK x \in s : TRUE
    BY <1>5
  <1>7. IsFiniteSet(s) /\ IsFiniteSet(s \cup T) /\ IsFiniteSet(s \ {x})
    BY FS_Subset, FS_Union
  <1>8. Sum(f, s) = f[x] + Sum(f, s \ {x})
    BY <1>7, SumSplit
  <1>9. Sum(f, s \cup T) = f[x] + Sum(f, (s \ {x}) \cup T)
    <2>1. (s \cup T) \ {x} = (s \ {x}) \cup T /\ x \in s \cup T
      OBVIOUS
    <2>2. \A y \in s \cup T : f[y] \in Int
      OBVIOUS
    <2> HIDE DEF B
    <2>3. QED
      BY <1>7, <2>1, <2>2, SumSplit
  <1>10. Sum(f, (s \ {x}) \cup T) = Sum(f, s \ {x}) + Sum(f, T)
    BY <1>3, <1>6
  <1>11. f[x] \in Int /\ Sum(f, s \ {x}) \in Int
    <2>1. \A y \in s \ {x} : f[y] \in Int
      OBVIOUS
    <2>2. QED
      BY <1>6, <1>7, <2>1, SumInt
  <1> DEFINE a == Sum(f, s \ {x})
             b == Sum(f, T)
  <1>12. f[x] + (a + b) = (f[x] + a) + b
    BY <1>4, <1>11
  <1>13. QED
    BY <1>8, <1>9, <1>10, <1>12

-----------------------------------------------------------------------------
(* The same of SumFunction, the form the modules use *)

\* The sum of a function on a finite domain with integer values.
LEMMA SumFunctionInt ==
    ASSUME NEW f, IsFiniteSet(DOMAIN f), \A x \in DOMAIN f : f[x] \in Int
    PROVE  SumFunction(f) \in Int
  <1>1. SumFunction(f) = Sum(f, DOMAIN f)
    BY DEF SumFunction, Sum
  <1>2. QED
    BY <1>1, SumInt

LEMMA SumFunctionEmpty ==
    ASSUME NEW f, DOMAIN f = {}
    PROVE  SumFunction(f) = 0
  BY SumEmpty DEF SumFunction, Sum

\* A function of one element is worth its value.
LEMMA SumFunctionOne ==
    ASSUME NEW f, NEW x, DOMAIN f = {x}, f[x] \in Int
    PROVE  SumFunction(f) = f[x]
  <1>1. IsFiniteSet({x})
    BY FS_Singleton
  <1>2. Sum(f, {x}) = f[x] + Sum(f, {x} \ {x})
    BY <1>1, SumSplit
  <1>3. Sum(f, {x} \ {x}) = 0
    <2>1. {x} \ {x} = {}
      OBVIOUS
    <2>2. QED
      BY <2>1, SumEmpty
  <1>4. SumFunction(f) = Sum(f, {x})
    BY DEF SumFunction, Sum
  <1>5. QED
    BY <1>2, <1>3, <1>4

\* g is f with one element more.
LEMMA SumFunctionAdd ==
    ASSUME NEW f, NEW g, NEW x, IsFiniteSet(DOMAIN f), x \notin DOMAIN f,
           DOMAIN g = DOMAIN f \cup {x},
           \A y \in DOMAIN f : f[y] \in Int /\ g[y] = f[y],
           g[x] \in Int
    PROVE  SumFunction(g) = SumFunction(f) + g[x]
  <1> DEFINE S == DOMAIN f
             T == DOMAIN g
  <1>1. IsFiniteSet(T) /\ x \in T /\ \A y \in T : g[y] \in Int
    BY FS_AddElement
  <1>2. Sum(g, T) = g[x] + Sum(g, T \ {x})
    <2> HIDE DEF T
    <2>1. QED
      BY <1>1, SumSplit
  <1>3. T \ {x} = S
    OBVIOUS
  <1>4. Sum(g, S) = Sum(f, S) /\ Sum(f, S) \in Int
    <2>1. \A y \in S : g[y] = f[y] /\ f[y] \in Int
      OBVIOUS
    <2> HIDE DEF S
    <2>2. IsFiniteSet(S)
      BY DEF S
    <2>3. QED
      BY <2>1, <2>2, SumCongruent, SumInt
  <1>5. SumFunction(g) = Sum(g, T) /\ SumFunction(f) = Sum(f, S)
    BY DEF SumFunction, Sum
  <1>6. g[x] \in Int
    OBVIOUS
  <1>7. g[x] + Sum(f, S) = Sum(f, S) + g[x]
    BY <1>4, <1>6
  <1> HIDE DEF S, T
  <1>8. QED
    BY <1>2, <1>3, <1>4, <1>5, <1>7

\* g is f with one element less.
LEMMA SumFunctionRemove ==
    ASSUME NEW f, NEW g, NEW x \in DOMAIN f, IsFiniteSet(DOMAIN f),
           DOMAIN g = DOMAIN f \ {x},
           \A y \in DOMAIN f : f[y] \in Int,
           \A y \in DOMAIN g : g[y] = f[y]
    PROVE  SumFunction(g) = SumFunction(f) - f[x]
  <1>1. IsFiniteSet(DOMAIN g)
    BY FS_Subset
  <1>2. DOMAIN f = DOMAIN g \cup {x}
    OBVIOUS
  <1>3. SumFunction(f) = SumFunction(g) + f[x]
    BY <1>1, <1>2, SumFunctionAdd
  <1>4. SumFunction(g) \in Int /\ f[x] \in Int
    BY <1>1, SumFunctionInt
  <1>5. QED
    BY <1>3, <1>4

\* Two functions with the same domain and values.
LEMMA SumFunctionSame ==
    ASSUME NEW f, NEW g, IsFiniteSet(DOMAIN f), DOMAIN g = DOMAIN f,
           \A x \in DOMAIN f : f[x] = g[x]
    PROVE  SumFunction(f) = SumFunction(g)
  BY SumCongruent DEF SumFunction, Sum

\* f's domain is split between g and h.
LEMMA SumFunctionUnion ==
    ASSUME NEW f, NEW g, NEW h, IsFiniteSet(DOMAIN f),
           DOMAIN f = DOMAIN g \cup DOMAIN h, DOMAIN g \cap DOMAIN h = {},
           \A x \in DOMAIN f : f[x] \in Int,
           \A x \in DOMAIN g : g[x] = f[x],
           \A x \in DOMAIN h : h[x] = f[x]
    PROVE  SumFunction(f) = SumFunction(g) + SumFunction(h)
  <1>1. IsFiniteSet(DOMAIN g) /\ IsFiniteSet(DOMAIN h)
    BY FS_Subset
  <1>2. Sum(f, DOMAIN f) = Sum(f, DOMAIN g) + Sum(f, DOMAIN h)
    BY <1>1, SumDisjoint
  <1>3. Sum(f, DOMAIN g) = Sum(g, DOMAIN g) /\ Sum(f, DOMAIN h) = Sum(h, DOMAIN h)
    BY <1>1, SumCongruent
  <1>4. QED
    BY <1>2, <1>3 DEF SumFunction, Sum

\* A sum whose terms are at most m times those of another is at most m times it.
LEMMA SumFunctionAtMost ==
    ASSUME NEW f, NEW g, NEW m \in Nat, IsFiniteSet(DOMAIN f), DOMAIN g = DOMAIN f,
           \A x \in DOMAIN f : f[x] \in Int /\ g[x] \in Int /\ 0 <= g[x] /\ g[x] <= m * f[x]
    PROVE  0 <= SumFunction(g) /\ SumFunction(g) <= m * SumFunction(f)
  <1>1. SumFunction(f) = Sum(f, DOMAIN f) /\ SumFunction(g) = Sum(g, DOMAIN f)
    BY DEF SumFunction, Sum
  <1>2. QED
    BY <1>1, SumAtMost

=============================================================================
