----------------------------- MODULE SumProofs ------------------------------
(***************************************************************************)
(* The laws of Total, and two principles of induction they rest on.         *)
(*                                                                         *)
(* The induction theorems of the library quantify over an operator, which   *)
(* no backend instantiates.  WFMin does not: it says that a nonempty set    *)
(* has a minimal element.  So what is to be shown is written as a set, and  *)
(* the set of counterexamples would have a minimal element.                 *)
(***************************************************************************)
EXTENDS Sums, FiniteSetTheorems, WellFoundedInduction, TLAPS

\* Induction over the subsets of a finite set, with the property as a set of
\* subsets: what holds of a set when it holds of its strict subsets holds of all.
LEMMA SubsetInduction ==
  ASSUME NEW S, IsFiniteSet(S), NEW Q,
         \A s \in SUBSET S : (\A t \in SUBSET s : t # s => t \in Q) => s \in Q
  PROVE  SUBSET S \subseteq Q
<1> DEFINE R == StrictSubsetOrdering(S)
           Bad == (SUBSET S) \ Q
<1>1. IsWellFoundedOn(R, SUBSET S)
  BY FS_StrictSubsetOrderingWellFounded, FS_FiniteSubsetsOfFinite
<1>2. SUFFICES ASSUME Bad # {} PROVE FALSE
  OBVIOUS
<1>3. Bad \subseteq SUBSET S
  OBVIOUS
<1> HIDE DEF Bad
<1>4. PICK s \in Bad : \A t \in Bad : ~ (<<t, s>> \in R)
  BY <1>1, <1>2, <1>3, WFMin
<1>5. \A t \in SUBSET s : t # s => t \in Q
  BY <1>3, <1>4 DEF Bad, StrictSubsetOrdering
<1> QED BY <1>3, <1>4, <1>5 DEF Bad

\* Induction over the naturals, with the property as a set.
LEMMA NatSteps ==
  ASSUME NEW T, 0 \in T, \A n \in Nat : n \in T => n + 1 \in T
  PROVE  Nat \subseteq T
<1> DEFINE Bad == Nat \ T
           R   == OpToRel(<, Nat)
<1>1. IsWellFoundedOn(R, Nat)
  BY NatLessThanWellFounded
<1>2. SUFFICES ASSUME Bad # {} PROVE FALSE
  OBVIOUS
<1>3. Bad \subseteq Nat
  OBVIOUS
<1> HIDE DEF Bad, R
<1>4. PICK n \in Bad : \A m \in Bad : ~ (<<m, n>> \in R)
  BY <1>1, <1>2, <1>3, WFMin
<1>5. n \in Nat /\ n \notin T /\ n # 0
  BY <1>4 DEF Bad
<1>6. n - 1 \in Nat /\ n - 1 < n
  BY <1>5
<1>7. n - 1 \notin Bad
  BY <1>4, <1>5, <1>6 DEF R, OpToRel
<1>8. n - 1 \in T
  BY <1>6, <1>7 DEF Bad
<1> QED BY <1>5, <1>6, <1>8

-----------------------------------------------------------------------------
(* The sum is well defined *)

\* The element that the fold takes out of a set, and the equation of its function.
Choice(s) == CHOOSE x \in s : TRUE
SumDef(f, S, g) ==
  g = [s \in SUBSET S |-> IF s = {} THEN 0
                          ELSE f[Choice(s)] + g[s \ {Choice(s)}]]

\* Total is the value of the recursive function at the whole set.
LEMMA TotalDef ==
  ASSUME NEW f, NEW S
  PROVE Total(f, S) = (CHOOSE g : SumDef(f, S, g))[S]
BY DEF Total, MapThenSumSet, MapThenFoldSet, SumDef, Choice

\* g satisfies the equation on the sets in U.
Solves(f, U, g) ==
  \A s \in U : g[s] = IF s = {} THEN 0 ELSE f[Choice(s)] + g[s \ {Choice(s)}]

LEMMA ChoiceIn == ASSUME NEW s, s # {} PROVE Choice(s) \in s
BY DEF Choice

\* The subsets with at most n elements.
Small(S, n) == {s \in SUBSET S : Cardinality(s) <= n}

\* The equation has a solution: one for the sets of at most n elements gives one for
\* those of at most n + 1, and so on to the whole set.
LEMMA SumExists ==
  ASSUME NEW f, NEW S, IsFiniteSet(S)
  PROVE  \E g : SumDef(f, S, g)
<1> DEFINE T == {n \in Nat : \E g : Solves(f, Small(S, n), g)}
<1>1. 0 \in T
  <2> DEFINE g == [s \in SUBSET S |-> 0]
  <2>1. ASSUME NEW s \in Small(S, 0) PROVE s = {}
    BY FS_EmptySet, FS_Subset, FS_CardinalityType DEF Small
  <2>2. Solves(f, Small(S, 0), g)
    BY <2>1 DEF Solves, Small
  <2> QED BY <2>2
<1>2. ASSUME NEW n \in Nat, n \in T PROVE n + 1 \in T
  <2>1. PICK g : Solves(f, Small(S, n), g)
    BY <1>2
  <2> DEFINE V(s) == IF s = {} THEN 0 ELSE f[Choice(s)] + g[s \ {Choice(s)}]
             h == [s \in SUBSET S |-> V(s)]
  <2>2. ASSUME NEW s \in Small(S, n + 1), s # {}
        PROVE  h[s] = f[Choice(s)] + h[s \ {Choice(s)}]
    <3> DEFINE t == s \ {Choice(s)}
    <3>1. s \in SUBSET S /\ Choice(s) \in s /\ Cardinality(s) <= n + 1
      BY <2>2, ChoiceIn DEF Small
    <3>2. IsFiniteSet(s) /\ Cardinality(s) \in Nat
      BY <3>1, FS_Subset, FS_CardinalityType
    <3>3. t \in SUBSET S /\ Cardinality(t) = Cardinality(s) - 1
      BY <3>1, <3>2, FS_RemoveElement
    <3>4. t \in Small(S, n)
      BY <3>1, <3>2, <3>3 DEF Small
    <3>5. g[t] = V(t)
      BY <2>1, <3>4 DEF Solves
    <3>6. h[t] = V(t) /\ h[s] = V(s)
      BY <3>1, <3>3
    <3> QED BY <2>2, <3>5, <3>6
  <2>3. ASSUME NEW s \in Small(S, n + 1), s = {} PROVE h[s] = 0
    BY <2>3
  <2> HIDE DEF h
  <2>4. Solves(f, Small(S, n + 1), h)
    BY <2>2, <2>3 DEF Solves
  <2> QED BY <2>4
<1> HIDE DEF T
<1>3. Cardinality(S) \in T
  BY <1>1, <1>2, NatSteps, FS_CardinalityType
<1>4. PICK g : Solves(f, Small(S, Cardinality(S)), g)
  BY <1>3 DEF T
<1>5. Small(S, Cardinality(S)) = SUBSET S
  BY FS_Subset DEF Small
<1> DEFINE h == [s \in SUBSET S |-> g[s]]
<1>6. ASSUME NEW s \in SUBSET S
      PROVE  h[s] = IF s = {} THEN 0 ELSE f[Choice(s)] + h[s \ {Choice(s)}]
  <2>1. h[s] = g[s] /\ h[s \ {Choice(s)}] = g[s \ {Choice(s)}]
    OBVIOUS
  <2> QED BY <1>4, <1>5, <2>1 DEF Solves
<1>7. SumDef(f, S, h)
  BY <1>6 DEF SumDef
<1> QED BY <1>7

\* The solutions for a set and for a part of it agree on the part.
LEMMA SumAgrees ==
  ASSUME NEW f, NEW S, IsFiniteSet(S), NEW U \in SUBSET S,
         NEW g, SumDef(f, S, g), NEW h, SumDef(f, U, h)
  PROVE  \A s \in SUBSET U : g[s] = h[s]
<1> DEFINE Q == {s \in SUBSET U : g[s] = h[s]}
<1>1. IsFiniteSet(U)
  BY FS_Subset
<1>2. ASSUME NEW s \in SUBSET U, \A t \in SUBSET s : t # s => t \in Q
      PROVE  s \in Q
  <2>1. s \in SUBSET S
    OBVIOUS
  <2>2. /\ g[s] = IF s = {} THEN 0 ELSE f[Choice(s)] + g[s \ {Choice(s)}]
        /\ h[s] = IF s = {} THEN 0 ELSE f[Choice(s)] + h[s \ {Choice(s)}]
    BY <2>1 DEF SumDef
  <2>3. CASE s = {}
    BY <2>2, <2>3
  <2>4. CASE s # {}
    <3>1. s \ {Choice(s)} \in SUBSET s /\ s \ {Choice(s)} # s
      BY <2>4, ChoiceIn
    <3>2. s \ {Choice(s)} \in Q
      BY <1>2, <3>1
    <3> QED BY <2>2, <3>2
  <2> QED BY <2>3, <2>4
<1> HIDE DEF Q
<1>3. SUBSET U \subseteq Q
  BY <1>1, <1>2, SubsetInduction
<1> QED BY <1>3 DEF Q

-----------------------------------------------------------------------------
(* Laws *)

LEMMA TotalEmpty ==
  ASSUME NEW f
  PROVE  Total(f, {}) = 0
<1>1. \E g : SumDef(f, {}, g)
  BY SumExists, FS_EmptySet
<1> DEFINE g == CHOOSE g : SumDef(f, {}, g)
<1>2. SumDef(f, {}, g)
  BY <1>1
<1>3. Total(f, {}) = g[{}]
  BY TotalDef
<1> HIDE DEF g
<1> QED BY <1>2, <1>3 DEF SumDef

\* The element the fold chooses first.
LEMMA TotalChoice ==
  ASSUME NEW f, NEW S, IsFiniteSet(S), S # {}
  PROVE  Total(f, S) = f[Choice(S)] + Total(f, S \ {Choice(S)})
<1> DEFINE U == S \ {Choice(S)}
           g == CHOOSE g : SumDef(f, S, g)
           h == CHOOSE h : SumDef(f, U, h)
<1>1. IsFiniteSet(U)
  BY FS_RemoveElement
<1>2. SumDef(f, S, g) /\ SumDef(f, U, h)
  BY <1>1, SumExists
<1>3. Total(f, S) = g[S] /\ Total(f, U) = h[U]
  BY TotalDef
<1> HIDE DEF g, h
<1>4. g[U] = h[U]
  BY <1>2, SumAgrees
<1>5. g[S] = f[Choice(S)] + g[U]
  BY <1>2 DEF SumDef
<1> QED BY <1>3, <1>4, <1>5

\* A sum of naturals is one.
LEMMA TotalType ==
  ASSUME NEW f, NEW S, IsFiniteSet(S), \A x \in S : f[x] \in Nat
  PROVE  Total(f, S) \in Nat
<1> DEFINE Q == {s \in SUBSET S : Total(f, s) \in Nat}
<1>1. ASSUME NEW s \in SUBSET S, \A t \in SUBSET s : t # s => t \in Q
      PROVE  s \in Q
  <2>1. CASE s = {}
    BY <2>1, TotalEmpty
  <2>2. CASE s # {}
    <3>1. IsFiniteSet(s) /\ Choice(s) \in s
      BY <2>2, ChoiceIn, FS_Subset
    <3>2. s \ {Choice(s)} \in Q
      BY <1>1, <3>1
    <3>3. Total(f, s) = f[Choice(s)] + Total(f, s \ {Choice(s)})
      BY <2>2, <3>1, TotalChoice
    <3> QED BY <3>1, <3>2, <3>3
  <2> QED BY <2>1, <2>2
<1> HIDE DEF Q
<1>2. S \in Q
  BY <1>1, SubsetInduction
<1> QED BY <1>2 DEF Q

\* Any element may be taken out first: addition does not depend on the order.
LEMMA TotalSplit ==
  ASSUME NEW f, NEW S, IsFiniteSet(S), \A x \in S : f[x] \in Nat, NEW y \in S
  PROVE  Total(f, S) = f[y] + Total(f, S \ {y})
<1> DEFINE Q == {s \in SUBSET S :
                   \A x \in s : Total(f, s) = f[x] + Total(f, s \ {x})}
<1>1. ASSUME NEW s \in SUBSET S, \A t \in SUBSET s : t # s => t \in Q, NEW x \in s
      PROVE  Total(f, s) = f[x] + Total(f, s \ {x})
  <2> DEFINE c == Choice(s)
  <2>1. IsFiniteSet(s) /\ c \in s
    BY ChoiceIn, FS_Subset
  <2>2. Total(f, s) = f[c] + Total(f, s \ {c})
    BY <2>1, TotalChoice
  <2> HIDE DEF c
  <2>3. CASE x = c
    BY <2>2, <2>3
  <2>4. CASE x # c
    <3> DEFINE r == s \ {x, c}
    <3>1. s \ {c} \in Q /\ s \ {x} \in Q
      BY <1>1, <2>1
    <3>2. Total(f, s \ {c}) = f[x] + Total(f, (s \ {c}) \ {x})
      BY <2>4, <3>1
    <3>3. Total(f, s \ {x}) = f[c] + Total(f, (s \ {x}) \ {c})
      BY <2>1, <2>4, <3>1
    <3>4. (s \ {c}) \ {x} = r /\ (s \ {x}) \ {c} = r
      OBVIOUS
    <3>5. Total(f, r) \in Nat
      BY FS_Subset, TotalType
    <3>6. f[x] \in Nat /\ f[c] \in Nat
      BY <2>1
    <3>7. Total(f, s) = f[c] + (f[x] + Total(f, r))
      BY <2>2, <3>2, <3>4
    <3>8. Total(f, s \ {x}) = f[c] + Total(f, r)
      BY <3>3, <3>4
    <3> HIDE DEF r
    <3> QED BY <3>5, <3>6, <3>7, <3>8
  <2> QED BY <2>3, <2>4
<1>2. ASSUME NEW s \in SUBSET S, \A t \in SUBSET s : t # s => t \in Q
      PROVE  s \in Q
  BY <1>1, <1>2
<1> HIDE DEF Q
<1>3. S \in Q
  BY <1>2, SubsetInduction
<1> QED BY <1>3 DEF Q

\* The sum depends on the values over the set only.
LEMMA TotalSame ==
  ASSUME NEW f, NEW g, NEW S, IsFiniteSet(S), \A x \in S : f[x] = g[x]
  PROVE  Total(f, S) = Total(g, S)
<1> DEFINE Q == {s \in SUBSET S : Total(f, s) = Total(g, s)}
<1>1. ASSUME NEW s \in SUBSET S, \A t \in SUBSET s : t # s => t \in Q
      PROVE  s \in Q
  <2>1. CASE s = {}
    BY <2>1, TotalEmpty
  <2>2. CASE s # {}
    <3>1. IsFiniteSet(s) /\ Choice(s) \in s
      BY <2>2, ChoiceIn, FS_Subset
    <3>2. s \ {Choice(s)} \in Q
      BY <1>1, <3>1
    <3>3. /\ Total(f, s) = f[Choice(s)] + Total(f, s \ {Choice(s)})
          /\ Total(g, s) = g[Choice(s)] + Total(g, s \ {Choice(s)})
      BY <2>2, <3>1, TotalChoice
    <3> QED BY <3>1, <3>2, <3>3
  <2> QED BY <2>1, <2>2
<1> HIDE DEF Q
<1>2. S \in Q
  BY <1>1, SubsetInduction
<1> QED BY <1>2 DEF Q

\* One value changed.
LEMMA TotalUpdate ==
  ASSUME NEW f, NEW g, NEW S, IsFiniteSet(S), NEW y \in S,
         \A x \in S : f[x] \in Nat /\ g[x] \in Nat,
         \A x \in S \ {y} : g[x] = f[x]
  PROVE  Total(g, S) = Total(f, S) + g[y] - f[y]
<1>1. IsFiniteSet(S \ {y})
  BY FS_RemoveElement
<1>2. Total(f, S) = f[y] + Total(f, S \ {y})
  BY TotalSplit
<1>3. Total(g, S) = g[y] + Total(g, S \ {y})
  BY TotalSplit
<1>4. Total(g, S \ {y}) = Total(f, S \ {y})
  BY <1>1, TotalSame
<1>5. Total(f, S \ {y}) \in Nat
  BY <1>1, TotalType
<1> QED BY <1>2, <1>3, <1>4, <1>5

\* No value exceeds the sum, and no two.
LEMMA TotalBounds ==
  ASSUME NEW f, NEW S, IsFiniteSet(S), \A x \in S : f[x] \in Nat
  PROVE  /\ \A y \in S : f[y] <= Total(f, S)
         /\ \A y, z \in S : y # z => f[y] + f[z] <= Total(f, S)
<1>1. ASSUME NEW y \in S
      PROVE  f[y] <= Total(f, S)
  <2>1. Total(f, S \ {y}) \in Nat
    BY FS_RemoveElement, TotalType
  <2> QED BY <2>1, TotalSplit
<1>2. ASSUME NEW y \in S, NEW z \in S, y # z
      PROVE  f[y] + f[z] <= Total(f, S)
  <2>1. Total(f, S) = f[y] + Total(f, S \ {y})
    BY TotalSplit
  <2>2. Total(f, S \ {y}) = f[z] + Total(f, (S \ {y}) \ {z})
    <3>1. IsFiniteSet(S \ {y}) /\ z \in S \ {y} /\ \A x \in S \ {y} : f[x] \in Nat
      BY <1>2, FS_RemoveElement
    <3> HIDE <1>2
    <3> QED BY <3>1, TotalSplit
  <2>3. Total(f, (S \ {y}) \ {z}) \in Nat
    <3>1. IsFiniteSet((S \ {y}) \ {z})
      BY FS_RemoveElement
    <3> QED BY <3>1, TotalType
  <2> QED BY <2>1, <2>2, <2>3
<1> QED BY <1>1, <1>2

\* Equal values.
LEMMA TotalConstant ==
  ASSUME NEW f, NEW S, IsFiniteSet(S), NEW n \in Nat, \A x \in S : f[x] = n
  PROVE  Total(f, S) = n * Cardinality(S)
<1> DEFINE Q == {s \in SUBSET S : Total(f, s) = n * Cardinality(s)}
<1>1. ASSUME NEW s \in SUBSET S, \A t \in SUBSET s : t # s => t \in Q
      PROVE  s \in Q
  <2>1. CASE s = {}
    BY <2>1, TotalEmpty, FS_EmptySet
  <2>2. CASE s # {}
    <3>1. IsFiniteSet(s) /\ Choice(s) \in s /\ Cardinality(s) \in Nat
      BY <2>2, ChoiceIn, FS_Subset, FS_CardinalityType
    <3>2. Cardinality(s \ {Choice(s)}) = Cardinality(s) - 1
      BY <3>1, FS_RemoveElement
    <3>3. s \ {Choice(s)} \in Q
      BY <1>1, <3>1
    <3>4. Total(f, s) = n + Total(f, s \ {Choice(s)})
      BY <2>2, <3>1, TotalChoice
    <3>5. Total(f, s \ {Choice(s)}) = n * (Cardinality(s) - 1)
      BY <3>2, <3>3
    <3>6. n + n * (Cardinality(s) - 1) = n * Cardinality(s)
      BY <3>1
    <3> QED BY <3>4, <3>5, <3>6
  <2> QED BY <2>1, <2>2
<1> HIDE DEF Q
<1>2. S \in Q
  BY <1>1, SubsetInduction
<1> QED BY <1>2 DEF Q
=============================================================================
