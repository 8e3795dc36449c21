---------------------------- MODULE SumTheorems ----------------------------
(***************************************************************************)
(* Sums over finite sets (SumFunctionOnSet of the community modules) for   *)
(* the proofs about counters that are the sum of what some slots, ranges   *)
(* or launches hold.                                                       *)
(*                                                                         *)
(* SumFunctionOnSet is a recursive function over the subsets of a set.     *)
(* The argument is by minimal counterexample: strict inclusion of finite   *)
(* sets, and < on the naturals, are well-founded.                          *)
(***************************************************************************)
EXTENDS Integers, FiniteSets, Functions, Folds, FiniteSetTheorems,
        WellFoundedInduction, TLAPS

---------------------------------------------------------------------------
(* Minimal counterexamples. *)

\* Among subsets of a finite set there is a minimal one.
LEMMA MinimalSubset ==
  ASSUME NEW S, IsFiniteSet(S), NEW B, B \subseteq SUBSET S, B # {}
  PROVE  \E m \in B : \A y \in B : y \subseteq m => y = m
  <1> DEFINE R == StrictSubsetOrdering(S)
  <1>1. IsWellFoundedOn(R, SUBSET S)
    <2>1. FiniteSubsetsOf(S) = SUBSET S
      BY FS_FiniteSubsetsOfFinite
    <2>2. IsWellFoundedOn(R, FiniteSubsetsOf(S))
      BY FS_StrictSubsetOrderingWellFounded
    <2> QED
      BY <2>1, <2>2
  <1>2. PICK m \in B : \A y \in B : <<y, m>> \notin R
    <2> HIDE DEF R
    <2> QED
     BY <1>1, WFMin
  <1> QED
    BY <1>2 DEF StrictSubsetOrdering

\* A collection that has the empty set, and a subset of S whenever it has that
\* subset without one of its elements, has S.
LEMMA SubsetInduction ==
  ASSUME NEW S, IsFiniteSet(S), NEW G, {} \in G,
         \A T \in SUBSET S, x \in S : x \in T /\ T \ {x} \in G => T \in G
  PROVE  S \in G
  <1> SUFFICES ASSUME S \notin G PROVE FALSE
    OBVIOUS
  <1> DEFINE B == {T \in SUBSET S : T \notin G}
  <1>1. S \in B /\ B \subseteq SUBSET S
    OBVIOUS
  <1>2. PICK m \in B : \A y \in B : y \subseteq m => y = m
    <2> HIDE DEF B
    <2> QED BY <1>1, MinimalSubset
  <1>3. PICK x : x \in m
    BY <1>2
  <1>4. m \ {x} \notin B
    BY <1>2, <1>3
  <1> QED
    BY <1>2, <1>3, <1>4

\* A set that has zero and the successor of every number it has, has them all.
LEMMA NatInduct ==
  ASSUME NEW G, 0 \in G, \A n \in Nat : n \in G => n + 1 \in G
  PROVE  Nat \subseteq G
  <1> SUFFICES ASSUME NEW k \in Nat, k \notin G PROVE FALSE
    OBVIOUS
  <1> DEFINE B == {n \in Nat : n \notin G}
             R == OpToRel(<, Nat)
  <1>1. IsWellFoundedOn(R, Nat)
    BY NatLessThanWellFounded
  <1>2. PICK m \in B : \A y \in B : <<y, m>> \notin R
    <2>1. B \subseteq Nat /\ B # {}
      OBVIOUS
    <2> HIDE DEF B, R
    <2> QED
      BY <1>1, <2>1, WFMin
  <1>3. \A y \in Nat : y < m => y \in G
    BY <1>2 DEF OpToRel
  <1> HIDE DEF R
  <1>4. m # 0 /\ m - 1 \in Nat /\ m - 1 < m
    BY <1>2
  <1> QED
    BY <1>2, <1>3, <1>4

---------------------------------------------------------------------------
(* The sum as a function of the subset. *)

\* One unfolding of the sum of f: the chosen element and the rest, by g.
SumStep(f, g, s) == IF s = {} THEN 0
                 ELSE f[CHOOSE x \in s : TRUE] + g[s \ {CHOOSE x \in s : TRUE}]

\* g is the function of sums of f over the subsets of S.
Sums(f, S, g) == g = [s \in SUBSET S |-> SumStep(f, g, s)]

\* What the library's definition says.
LEMMA SumUnfold ==
  ASSUME NEW S, NEW f
  PROVE  SumFunctionOnSet(f, S) = (CHOOSE g : Sums(f, S, g))[S]
  BY DEF SumFunctionOnSet, FoldFunctionOnSet, MapThenFoldSet, SumStep, Sums

\* There is such a function: up to every size of the subsets.
LEMMA SumExists ==
  ASSUME NEW S, IsFiniteSet(S), NEW f, \A x \in S : f[x] \in Int
  PROVE  \E g \in [SUBSET S -> Int] : Sums(f, S, g)
  <1> DEFINE Upto(n) == \E g \in [SUBSET S -> Int] :
                          \A s \in SUBSET S : Cardinality(s) <= n => g[s] = SumStep(f, g, s)
             G == {n \in Nat : Upto(n)}
  <1>1. \A s \in SUBSET S : IsFiniteSet(s) /\ Cardinality(s) \in Nat
    BY FS_Subset, FS_CardinalityType
  <1>2. 0 \in G
    <2>1. [s \in SUBSET S |-> 0] \in [SUBSET S -> Int]
      OBVIOUS
    <2>2. \A s \in SUBSET S : Cardinality(s) <= 0 => s = {}
      BY <1>1, FS_EmptySet
    <2> QED
      BY <2>1, <2>2 DEF SumStep
  <1>3. ASSUME NEW n \in Nat, n \in G PROVE n + 1 \in G
    <2>1. PICK g \in [SUBSET S -> Int] :
            \A s \in SUBSET S : Cardinality(s) <= n => g[s] = SumStep(f, g, s)
      BY <1>3
    <2> DEFINE h == [s \in SUBSET S |-> IF Cardinality(s) <= n THEN g[s] ELSE SumStep(f, g, s)]
    <2>2. \A s \in SUBSET S : SumStep(f, g, s) \in Int
      BY DEF SumStep
    <2>3. h \in [SUBSET S -> Int]
      BY <2>2
    <2>4. ASSUME NEW s \in SUBSET S, Cardinality(s) <= n + 1 PROVE h[s] = SumStep(f, h, s)
      <3>1. h[s] = SumStep(f, g, s)
        BY <2>1
      <3>2. CASE s = {}
        BY <3>1, <3>2 DEF SumStep
      <3>3. CASE s # {}
        <4> DEFINE x == CHOOSE x \in s : TRUE
        <4>1. x \in s
          BY <3>3
        <4>2. Cardinality(s \ {x}) <= n /\ s \ {x} \in SUBSET S
          <5>1. IsFiniteSet(s) /\ Cardinality(s) \in Nat
            BY <1>1
          <5>2. Cardinality(s \ {x}) = Cardinality(s) - 1
            BY <4>1, <5>1, FS_RemoveElement
          <5> QED
            BY <2>4, <5>1, <5>2
        <4>3. h[s \ {x}] = g[s \ {x}]
          BY <4>2
        <4> QED
          BY <3>1, <3>3, <4>3 DEF SumStep
      <3> QED
        BY <3>2, <3>3
    <2> HIDE DEF h
    <2> QED
      BY <2>3, <2>4
  <1>4. Cardinality(S) \in G
    <2> HIDE DEF G
    <2> QED
      BY <1>1, <1>2, <1>3, NatInduct
  <1>5. PICK g \in [SUBSET S -> Int] :
          \A s \in SUBSET S : Cardinality(s) <= Cardinality(S) => g[s] = SumStep(f, g, s)
    BY <1>4
  <1>6. \A s \in SUBSET S : g[s] = SumStep(f, g, s)
    BY <1>5, FS_Subset
  <1> QED
    BY <1>6 DEF Sums

\* Two functions that satisfy the equation are the same.
LEMMA SumUnique ==
  ASSUME NEW S, IsFiniteSet(S), NEW f, NEW g, NEW h,
         Sums(f, S, g), Sums(f, S, h)
  PROVE  g = h
  <1> DEFINE B == {s \in SUBSET S : g[s] # h[s]}
  <1>1. \A s \in SUBSET S : g[s] = SumStep(f, g, s) /\ h[s] = SumStep(f, h, s)
    BY DEF Sums
  <1>2. ASSUME B # {} PROVE FALSE
    <2>1. PICK m \in B : \A y \in B : y \subseteq m => y = m
      <3>1. B \subseteq SUBSET S
        OBVIOUS
      <3> HIDE DEF B
      <3> QED
        BY <1>2, <3>1, MinimalSubset
    <2>2. CASE m = {}
      BY <1>1, <2>1, <2>2 DEF SumStep
    <2>3. CASE m # {}
      <3> DEFINE x == CHOOSE x \in m : TRUE
      <3>1. x \in m
        BY <2>3
      <3>2. g[m \ {x}] = h[m \ {x}]
        BY <2>1, <3>1
      <3>3. g[m] = SumStep(f, g, m) /\ h[m] = SumStep(f, h, m) /\ g[m] # h[m]
        BY <1>1, <2>1
      <3>4. SumStep(f, g, m) = f[x] + g[m \ {x}] /\ SumStep(f, h, m) = f[x] + h[m \ {x}]
        BY <2>3 DEF SumStep
      <3> QED
        BY <3>2, <3>3, <3>4
    <2> QED
      BY <2>2, <2>3
  <1>3. g = [s \in SUBSET S |-> g[s]] /\ h = [s \in SUBSET S |-> h[s]]
    BY DEF Sums
  <1> QED
    BY <1>2, <1>3

\* The sums over the subsets of a finite set satisfy the equation.
LEMMA SumEquation ==
  ASSUME NEW S, IsFiniteSet(S), NEW f, \A x \in S : f[x] \in Int
  PROVE  /\ \A T \in SUBSET S : SumFunctionOnSet(f, T) \in Int
         /\ SumFunctionOnSet(f, {}) = 0
         /\ \A T \in SUBSET S : T # {} =>
              \E c \in T : SumFunctionOnSet(f, T) = f[c] + SumFunctionOnSet(f, T \ {c})
  <1>1. PICK g \in [SUBSET S -> Int] : Sums(f, S, g)
    BY SumExists
  <1>2. ASSUME NEW T \in SUBSET S
        PROVE  SumFunctionOnSet(f, T) = g[T]
    <2> DEFINE h == [s \in SUBSET T |-> g[s]]
    <2>1. Sums(f, T, h)
      <3>1. \A s \in SUBSET T : g[s] = SumStep(f, g, s)
        BY <1>1 DEF Sums
      <3>2. \A s \in SUBSET T : SumStep(f, g, s) = SumStep(f, h, s)
        BY DEF SumStep
      <3> QED
        BY <3>1, <3>2 DEF Sums
    <2>2. IsFiniteSet(T)
      BY FS_Subset
    <2>3. Sums(f, T, CHOOSE k : Sums(f, T, k))
      BY <2>1
    <2>4. (CHOOSE k : Sums(f, T, k)) = h
      BY <2>1, <2>2, <2>3, SumUnique
    <2> QED
      BY <2>4, SumUnfold
  <1>3. \A s \in SUBSET S : g[s] = SumStep(f, g, s)
    BY <1>1 DEF Sums
  <1>4. ASSUME NEW T \in SUBSET S, T # {}
        PROVE  \E c \in T : SumFunctionOnSet(f, T) = f[c] + SumFunctionOnSet(f, T \ {c})
    <2> DEFINE x == CHOOSE x \in T : TRUE
    <2>1. x \in T /\ T \ {x} \in SUBSET S
      BY <1>4
    <2>2. g[T] = f[x] + g[T \ {x}]
      BY <1>3, <1>4 DEF SumStep
    <2> QED
      BY <1>2, <2>1, <2>2
  <1>5. SumFunctionOnSet(f, {}) = 0
    <2>1. g[{}] = SumStep(f, g, {})
      BY <1>3
    <2> QED
      BY <1>2, <2>1 DEF SumStep
  <1> QED
    BY <1>1, <1>2, <1>4, <1>5

---------------------------------------------------------------------------
(* The rules of sums. *)

\* A sum is its value at any one element and the sum over the others.
THEOREM SumRemove ==
  ASSUME NEW S, IsFiniteSet(S), NEW f, \A x \in S : f[x] \in Int, NEW a \in S
  PROVE  SumFunctionOnSet(f, S) = f[a] + SumFunctionOnSet(f, S \ {a})
  <1> DEFINE Sum(T) == SumFunctionOnSet(f, T)
             B == {T \in SUBSET S : \E x \in T : Sum(T) # f[x] + Sum(T \ {x})}
  <1>1. ASSUME B # {} PROVE FALSE
    <2>1. PICK T \in B : \A y \in B : y \subseteq T => y = T
      <3>1. B \subseteq SUBSET S
        OBVIOUS
      <3> HIDE DEF B
      <3> QED
        BY <1>1, <3>1, MinimalSubset
    <2>2. PICK x \in T : Sum(T) # f[x] + Sum(T \ {x})
      BY <2>1
    <2>3. T \in SUBSET S
      BY <2>1
    <2>4. PICK c \in T : Sum(T) = f[c] + Sum(T \ {c})
      BY <2>2, <2>3, SumEquation
    <2>5. c # x
      BY <2>2, <2>4
    <2>11. \A y \in SUBSET S : y \subseteq T /\ y # T =>
            \A z \in y : Sum(y) = f[z] + Sum(y \ {z})
      BY <2>1
    <2> HIDE DEF Sum, B
    <2>6. Sum(T \ {c}) = f[x] + Sum((T \ {c}) \ {x})
      BY <2>11, <2>3, <2>5
    <2>7. Sum(T \ {x}) = f[c] + Sum((T \ {c}) \ {x})
      <3>1. (T \ {c}) \ {x} = (T \ {x}) \ {c}
        OBVIOUS
      <3> QED
        BY <2>11, <2>3, <2>5, <3>1
    <2>8. Sum((T \ {c}) \ {x}) \in Int /\ f[x] \in Int /\ f[c] \in Int
      BY <2>3, SumEquation DEF Sum
    <2>9. Sum(T) = f[c] + (f[x] + Sum((T \ {c}) \ {x}))
      BY <2>4, <2>6
    <2>10. Sum(T) = f[x] + (f[c] + Sum((T \ {c}) \ {x}))
      BY <2>8, <2>9
    <2> QED
      BY <2>2, <2>7, <2>10
  <1> QED
    BY <1>1

\* The sum over nothing is zero.
THEOREM SumEmpty ==
  ASSUME NEW f
  PROVE  SumFunctionOnSet(f, {}) = 0
  BY SumEquation, FS_EmptySet

\* Sums of integers are integers.
THEOREM SumType ==
  ASSUME NEW S, IsFiniteSet(S), NEW f, \A x \in S : f[x] \in Int
  PROVE  SumFunctionOnSet(f, S) \in Int
  BY SumEquation

\* A new element adds its value.
THEOREM SumAdd ==
  ASSUME NEW S, IsFiniteSet(S), NEW f, NEW a, a \notin S,
         \A x \in S \cup {a} : f[x] \in Int
  PROVE  SumFunctionOnSet(f, S \cup {a}) = f[a] + SumFunctionOnSet(f, S)
  <1>1. IsFiniteSet(S \cup {a}) /\ (S \cup {a}) \ {a} = S
    BY FS_AddElement
  <1> QED
    BY <1>1, SumRemove

\* The sum depends on the values over the set only.
THEOREM SumSame ==
  ASSUME NEW S, IsFiniteSet(S), NEW f, NEW g,
         \A x \in S : f[x] \in Int /\ g[x] = f[x]
  PROVE  SumFunctionOnSet(g, S) = SumFunctionOnSet(f, S)
  <1> DEFINE G == {T \in SUBSET S : SumFunctionOnSet(g, T) = SumFunctionOnSet(f, T)}
  <1>1. {} \in G
    BY SumEmpty
  <1>2. ASSUME NEW T \in SUBSET S, NEW x \in S, x \in T, T \ {x} \in G
        PROVE  T \in G
    <2>1. IsFiniteSet(T)
      BY FS_Subset
    <2>2. /\ SumFunctionOnSet(f, T) = f[x] + SumFunctionOnSet(f, T \ {x})
          /\ SumFunctionOnSet(g, T) = g[x] + SumFunctionOnSet(g, T \ {x})
      BY <1>2, <2>1, SumRemove
    <2> QED
      BY <1>2, <2>2
  <1>3. S \in G
    <2> HIDE DEF G
    <2> QED
      BY <1>1, <1>2, SubsetInduction
  <1> QED
    BY <1>3

\* A value that changes at one element changes the sum by as much.
THEOREM SumChange ==
  ASSUME NEW S, IsFiniteSet(S), NEW f, NEW g, NEW a \in S,
         \A x \in S : f[x] \in Int /\ g[x] \in Int /\ (x # a => g[x] = f[x])
  PROVE  SumFunctionOnSet(g, S) = SumFunctionOnSet(f, S) - f[a] + g[a]
  <1>1. IsFiniteSet(S \ {a})
    BY FS_RemoveElement
  <1>2. SumFunctionOnSet(f, S) = f[a] + SumFunctionOnSet(f, S \ {a})
    BY SumRemove
  <1>3. SumFunctionOnSet(g, S) = g[a] + SumFunctionOnSet(g, S \ {a})
    BY SumRemove
  <1>4. SumFunctionOnSet(g, S \ {a}) = SumFunctionOnSet(f, S \ {a})
    <2>1. \A x \in S \ {a} : f[x] \in Int /\ g[x] = f[x]
      OBVIOUS
    <2> QED
      BY <1>1, <2>1, SumSame
  <1>5. SumFunctionOnSet(f, S \ {a}) \in Int /\ f[a] \in Int /\ g[a] \in Int
    BY <1>1, SumType
  <1> QED
    BY <1>2, <1>3, <1>4, <1>5

\* A sum of zeros is zero.
THEOREM SumZero ==
  ASSUME NEW S, IsFiniteSet(S), NEW f, \A x \in S : f[x] = 0
  PROVE  SumFunctionOnSet(f, S) = 0
  <1> DEFINE G == {T \in SUBSET S : SumFunctionOnSet(f, T) = 0}
  <1>1. {} \in G
    BY SumEmpty
  <1>2. ASSUME NEW T \in SUBSET S, NEW x \in S, x \in T, T \ {x} \in G
        PROVE  T \in G
    <2>1. IsFiniteSet(T)
      BY FS_Subset
    <2>2. SumFunctionOnSet(f, T) = f[x] + SumFunctionOnSet(f, T \ {x})
      BY <1>2, <2>1, SumRemove
    <2> QED
      BY <1>2, <2>2
  <1>3. S \in G
    <2> HIDE DEF G
    <2> QED
      BY <1>1, <1>2, SubsetInduction
  <1> QED
    BY <1>3

\* Values that are at least as great sum up to at least as much.
THEOREM SumLeq ==
  ASSUME NEW S, IsFiniteSet(S), NEW f, NEW g,
         \A x \in S : f[x] \in Int /\ g[x] \in Int /\ f[x] <= g[x]
  PROVE  SumFunctionOnSet(f, S) <= SumFunctionOnSet(g, S)
  <1> DEFINE G == {T \in SUBSET S : SumFunctionOnSet(f, T) <= SumFunctionOnSet(g, T)}
  <1>1. {} \in G
    BY SumEmpty
  <1>2. ASSUME NEW T \in SUBSET S, NEW x \in S, x \in T, T \ {x} \in G
        PROVE  T \in G
    <2>1. IsFiniteSet(T) /\ IsFiniteSet(T \ {x})
      BY FS_Subset
    <2>2. /\ SumFunctionOnSet(f, T) = f[x] + SumFunctionOnSet(f, T \ {x})
          /\ SumFunctionOnSet(g, T) = g[x] + SumFunctionOnSet(g, T \ {x})
      BY <1>2, <2>1, SumRemove
    <2>3. SumFunctionOnSet(f, T \ {x}) \in Int /\ SumFunctionOnSet(g, T \ {x}) \in Int
      BY <2>1, SumType
    <2>4. SumFunctionOnSet(f, T) <= SumFunctionOnSet(g, T)
      BY <1>2, <2>2, <2>3
    <2> QED
      BY <2>4
  <1>3. S \in G
    <2> HIDE DEF G
    <2> QED
      BY <1>1, <1>2, SubsetInduction
  <1> QED
    BY <1>3

\* When every element of S has a counterpart of its own in T that counts at
\* least as much, and nothing in T counts below zero, T sums up to at least as
\* much as S.
THEOREM SumInjection ==
  ASSUME NEW S, IsFiniteSet(S), NEW T, IsFiniteSet(T), NEW f, NEW g,
         NEW m \in Injection(S, T),
         \A x \in S : f[x] \in Int /\ f[x] <= g[m[x]],
         \A y \in T : g[y] \in Int /\ g[y] >= 0
  PROVE  SumFunctionOnSet(f, S) <= SumFunctionOnSet(g, T)
  <1> DEFINE Sf(X) == SumFunctionOnSet(f, X)
             Sg(Y) == SumFunctionOnSet(g, Y)
             Ok(X, Y) == (\A x \in X : m[x] \in Y) => Sf(X) <= Sg(Y)
             G == {X \in SUBSET S : \A Y \in SUBSET T : Ok(X, Y)}
  <1>1. {} \in G
    <2> DEFINE H == {Y \in SUBSET T : Sg(Y) >= 0}
    <2>1. {} \in H
      BY SumEmpty
    <2>2. ASSUME NEW Y \in SUBSET T, NEW y \in T, y \in Y, Y \ {y} \in H
          PROVE  Y \in H
      <3>1. IsFiniteSet(Y) /\ IsFiniteSet(Y \ {y})
        BY FS_Subset
      <3>2. Sg(Y) = g[y] + Sg(Y \ {y})
        BY <2>2, <3>1, SumRemove
      <3>3. Sg(Y \ {y}) \in Int
        BY <3>1, SumType
      <3> QED
        BY <2>2, <3>2, <3>3
    <2>3. ASSUME NEW Y \in SUBSET T PROVE Y \in H
      <3>1. IsFiniteSet(Y)
        BY FS_Subset
      <3>2. \A Z \in SUBSET Y, y \in Y : y \in Z /\ Z \ {y} \in H => Z \in H
        BY <2>2
      <3> HIDE DEF H
      <3> QED
        BY <2>1, <3>1, <3>2, SubsetInduction
    <2> QED
      BY <2>3, SumEmpty
  <1>2. ASSUME NEW X \in SUBSET S, NEW x \in S, x \in X, X \ {x} \in G
        PROVE  X \in G
    <2> SUFFICES ASSUME NEW Y \in SUBSET T, \A z \in X : m[z] \in Y
                 PROVE  Sf(X) <= Sg(Y)
      OBVIOUS
    <2>1. IsFiniteSet(X) /\ IsFiniteSet(Y) /\ IsFiniteSet(X \ {x}) /\ IsFiniteSet(Y \ {m[x]})
      BY FS_Subset
    <2>2. \A z \in X \ {x} : m[z] \in Y \ {m[x]}
      BY <1>2 DEF Injection, IsInjective
    <2>3. Sf(X \ {x}) <= Sg(Y \ {m[x]})
      BY <1>2, <2>2
    <2>4. Sf(X) = f[x] + Sf(X \ {x})
      BY <1>2, <2>1, SumRemove
    <2>5. Sg(Y) = g[m[x]] + Sg(Y \ {m[x]})
      BY <1>2, <2>1, SumRemove
    <2>6. Sf(X \ {x}) \in Int /\ Sg(Y \ {m[x]}) \in Int
      BY <2>1, SumType
    <2>7. f[x] \in Int /\ g[m[x]] \in Int /\ f[x] <= g[m[x]]
      BY <1>2
    <2> QED
      BY <2>3, <2>4, <2>5, <2>6, <2>7
  <1>3. S \in G
    <2> HIDE DEF G
    <2> QED
      BY <1>1, <1>2, SubsetInduction
  <1> QED
    BY <1>3 DEF Injection

\* A part of a sum without negative values is at most the whole.
THEOREM SumMonotonic ==
  ASSUME NEW T, IsFiniteSet(T), NEW S \in SUBSET T, NEW f,
         \A x \in T : f[x] \in Int /\ f[x] >= 0
  PROVE  0 <= SumFunctionOnSet(f, S) /\ SumFunctionOnSet(f, S) <= SumFunctionOnSet(f, T)
  <1>1. ASSUME NEW X \in SUBSET T, NEW Y \in SUBSET T, X \subseteq Y
        PROVE  SumFunctionOnSet(f, X) <= SumFunctionOnSet(f, Y)
    <2> DEFINE m == [x \in X |-> x]
    <2>1. m \in Injection(X, Y)
      BY <1>1 DEF Injection, IsInjective
    <2>2. IsFiniteSet(X) /\ IsFiniteSet(Y)
      BY FS_Subset
    <2>3. \A x \in X : f[x] \in Int /\ f[x] <= f[m[x]]
      BY <1>1
    <2> HIDE DEF m
    <2> QED
      BY <1>1, <2>1, <2>2, <2>3, SumInjection
  <1>2. SumFunctionOnSet(f, {}) <= SumFunctionOnSet(f, S)
    BY <1>1
  <1> QED
    BY <1>1, <1>2, SumEmpty

\* Disjoint sets sum up one after the other.
THEOREM SumUnion ==
  ASSUME NEW S, IsFiniteSet(S), NEW T, IsFiniteSet(T), S \cap T = {}, NEW f,
         \A x \in S \cup T : f[x] \in Int
  PROVE  SumFunctionOnSet(f, S \cup T) = SumFunctionOnSet(f, S) + SumFunctionOnSet(f, T)
  <1> DEFINE Sum(X) == SumFunctionOnSet(f, X)
             G == {X \in SUBSET T : Sum(S \cup X) = Sum(S) + Sum(X)}
  <1>1. {} \in G
    <2>1. Sum(S) \in Int
      BY SumType
    <2> QED
      BY <2>1, SumEmpty
  <1>2. ASSUME NEW X \in SUBSET T, NEW x \in T, x \in X, X \ {x} \in G
        PROVE  X \in G
    <2>1. IsFiniteSet(X) /\ IsFiniteSet(X \ {x}) /\ IsFiniteSet(S \cup X)
      BY FS_Subset, FS_Union
    <2>2. Sum(X) = f[x] + Sum(X \ {x})
      BY <1>2, <2>1, SumRemove
    <2>3. (S \cup X) \ {x} = S \cup (X \ {x})
      BY <1>2
    <2>4. Sum(S \cup X) = f[x] + Sum((S \cup X) \ {x})
      BY <1>2, <2>1, SumRemove
    <2>5. Sum(S) \in Int /\ Sum(X \ {x}) \in Int /\ f[x] \in Int
      BY <1>2, <2>1, SumType
    <2>6. Sum(S \cup (X \ {x})) = Sum(S) + Sum(X \ {x})
      BY <1>2
    <2>7. Sum(S \cup X) = Sum(S) + Sum(X)
      <3> HIDE DEF Sum, G
      <3>1. Sum(S \cup X) = f[x] + Sum(S \cup (X \ {x}))
        BY <2>3, <2>4
      <3>2. Sum(S \cup X) = f[x] + (Sum(S) + Sum(X \ {x}))
        BY <2>6, <3>1
      <3> QED
        BY <2>2, <2>5, <3>2
    <2> QED
      BY <2>7
  <1>3. T \in G
    <2> HIDE DEF G
    <2> QED
      BY <1>1, <1>2, SubsetInduction
  <1> QED
    BY <1>3

\* b renames the elements of S, and c renames them back; what f says of one g
\* says of its new name.
Renaming(S, f, T, g, b, c) ==
  /\ b \in [S -> T] /\ c \in [T -> S]
  /\ \A x \in S : c[b[x]] = x /\ f[x] \in Nat /\ g[b[x]] = f[x]
  /\ \A y \in T : b[c[y]] = y /\ g[y] \in Nat

\* The sum of naturals does not depend on how the elements are called.
THEOREM SumRename ==
  ASSUME NEW S, IsFiniteSet(S), NEW T, IsFiniteSet(T), NEW f, NEW g, NEW b, NEW c,
         Renaming(S, f, T, g, b, c)
  PROVE  SumFunctionOnSet(f, S) = SumFunctionOnSet(g, T)
  <1> USE DEF Renaming
  <1>1. b \in Injection(S, T) /\ c \in Injection(T, S)
    BY DEF Injection, IsInjective
  <1>2. SumFunctionOnSet(f, S) <= SumFunctionOnSet(g, T)
    BY <1>1, SumInjection
  <1>3. \A y \in T : g[y] <= f[c[y]]
    <2>1. \A y \in T : g[b[c[y]]] = f[c[y]] /\ g[b[c[y]]] = g[y]
      OBVIOUS
    <2> QED
      BY <2>1
  <1>4. SumFunctionOnSet(g, T) <= SumFunctionOnSet(f, S)
    BY <1>1, <1>3, SumInjection
  <1>5. SumFunctionOnSet(f, S) \in Int /\ SumFunctionOnSet(g, T) \in Int
    BY SumType
  <1> QED
    BY <1>2, <1>4, <1>5
============================================================================
