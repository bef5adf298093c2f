-------------------------------- MODULE Totals --------------------------------
(***************************************************************************)
(* Totals of a function over a finite set.  MapThenSumSet adds in an order  *)
(* of its own; what it returns does not depend on that order.              *)
(*                                                                         *)
(* The library's induction over finite sets takes the property as an       *)
(* operator, which the provers cannot use; here a smallest counterexample  *)
(* is taken away instead.                                                  *)
(***************************************************************************)
EXTENDS Integers, FiniteSets, FiniteSetsExt, FiniteSetTheorems, WellFoundedInduction, TLAPS

Total(F, S) == MapThenSumSet(LAMBDA x : F[x], S)

\* g gives the sum of F over every part of S, in whatever order it is taken.
Sums(g, F, S) ==
  /\ g \in [SUBSET S -> Int]
  /\ g[{}] = 0
  /\ \A s \in SUBSET S : \A y \in s : g[s] = F[y] + g[s \ {y}]

\* A property of the finite sets that the empty set has, and that a set has
\* when it has it without one of its elements, holds of all of them.
LEMMA LeastCounterexample ==
  ASSUME NEW S, IsFiniteSet(S), NEW D \in SUBSET SUBSET S, D # {}
  PROVE  \E U \in D : \A x \in U : U \ {x} \notin D
  <1>1. D \subseteq FiniteSubsetsOf(S)
    BY FS_Subset DEF FiniteSubsetsOf
  <1>2. PICK U \in D : \A V \in D : ~(<<V, U>> \in StrictSubsetOrdering(S))
    BY <1>1, FS_StrictSubsetOrderingWellFounded, WFMin
  <1>3. ASSUME NEW x \in U, U \ {x} \in D PROVE FALSE
    <2>1. <<U \ {x}, U>> \in StrictSubsetOrdering(S)
      BY <1>3 DEF StrictSubsetOrdering
    <2> QED BY <1>2, <1>3, <2>1
  <1> QED BY <1>3

-----------------------------------------------------------------------------
(* The ends of a finite set of numbers.                                    *)

\* What CHOOSE is asked for exists.
LEMMA LeastIs ==
  ASSUME NEW S \in SUBSET Int, IsFiniteSet(S), S # {}
  PROVE  Min(S) \in S /\ \A y \in S : Min(S) <= y
  <1> DEFINE Has(U) == \E x \in U : \A y \in U : x <= y
             D == {U \in SUBSET S : U # {} /\ ~Has(U)}
  <1>1. Has(S)
    <2> SUFFICES ASSUME D # {} PROVE FALSE
      OBVIOUS
    <2>1. PICK U \in D : \A x \in U : U \ {x} \notin D
      <3> HIDE DEF D
      <3>1. D \in SUBSET SUBSET S
        BY DEF D
      <3> QED BY <3>1, LeastCounterexample
    <2>2. PICK x \in U : TRUE
      OBVIOUS
    <2>3. x \in Int /\ U \subseteq Int
      OBVIOUS
    <2>4. CASE U \ {x} = {}
      <3>1. \A y \in U : x <= y
        BY <2>2, <2>3, <2>4
      <3> QED BY <3>1
    <2>5. CASE U \ {x} # {}
      <3>1. PICK m \in U \ {x} : \A y \in U \ {x} : m <= y
        BY <2>1, <2>5
      <3>2. CASE m <= x
        BY <2>3, <3>1, <3>2
      <3>3. CASE x <= m
        BY <2>3, <3>1, <3>3
      <3> QED BY <2>3, <3>2, <3>3
    <2> QED BY <2>4, <2>5
  <1> QED BY <1>1 DEF Min

\* Natural numbers have a least, however many they are.
LEMMA LeastNat ==
  ASSUME NEW S \in SUBSET Nat, S # {}
  PROVE  Min(S) \in S /\ \A y \in S : Min(S) <= y
  <1>1. PICK n \in S : TRUE
    OBVIOUS
  <1> DEFINE T == S \cap (0 .. n)
  <1>2. T \in SUBSET Int /\ T # {} /\ IsFiniteSet(T)
    <2>1. IsFiniteSet(0 .. n)
      BY FS_Interval
    <2> QED BY <1>1, <2>1, FS_Subset
  <1>3. Min(T) \in T /\ \A y \in T : Min(T) <= y
    <2> HIDE DEF T
    <2> QED BY <1>2, LeastIs
  <1>4. Min(T) \in S /\ \A y \in S : Min(T) <= y
    <2>1. ASSUME NEW y \in S PROVE Min(T) <= y
      <3>1. CASE y \in T
        BY <1>3, <3>1
      <3>2. CASE y \notin T
        BY <1>3, <3>2
      <3> QED BY <3>1, <3>2
    <2> QED BY <1>3, <2>1
  <1> QED BY <1>4 DEF Min

LEMMA GreatestIs ==
  ASSUME NEW S \in SUBSET Int, IsFiniteSet(S), S # {}
  PROVE  Max(S) \in S /\ \A y \in S : y <= Max(S)
  <1> DEFINE Has(U) == \E x \in U : \A y \in U : x >= y
             D == {U \in SUBSET S : U # {} /\ ~Has(U)}
  <1>1. Has(S)
    <2> SUFFICES ASSUME D # {} PROVE FALSE
      OBVIOUS
    <2>1. PICK U \in D : \A x \in U : U \ {x} \notin D
      <3> HIDE DEF D
      <3>1. D \in SUBSET SUBSET S
        BY DEF D
      <3> QED BY <3>1, LeastCounterexample
    <2>2. PICK x \in U : TRUE
      OBVIOUS
    <2>3. x \in Int /\ U \subseteq Int
      OBVIOUS
    <2>4. CASE U \ {x} = {}
      <3>1. \A y \in U : x >= y
        BY <2>2, <2>3, <2>4
      <3> QED BY <3>1
    <2>5. CASE U \ {x} # {}
      <3>1. PICK m \in U \ {x} : \A y \in U \ {x} : m >= y
        BY <2>1, <2>5
      <3>2. CASE m >= x
        BY <2>3, <3>1, <3>2
      <3>3. CASE x >= m
        BY <2>3, <3>1, <3>3
      <3> QED BY <2>3, <3>2, <3>3
    <2> QED BY <2>4, <2>5
  <1>2. Max(S) \in S /\ \A y \in S : Max(S) >= y
    BY <1>1 DEF Max
  <1> QED BY <1>2

-----------------------------------------------------------------------------
(* Sums.                                                                   *)

LEMMA SumsExist ==
  ASSUME NEW S, IsFiniteSet(S), NEW F \in [S -> Int]
  PROVE  \E g : Sums(g, F, S)
  <1> DEFINE D == {U \in SUBSET S : ~\E g : Sums(g, F, U)}
  <1>1. SUFFICES ASSUME D # {} PROVE FALSE
    OBVIOUS
  <1>2. PICK U \in D : \A x \in U : U \ {x} \notin D
    <2> HIDE DEF D
    <2>1. D \in SUBSET SUBSET S
      BY DEF D
    <2> QED BY <1>1, <2>1, LeastCounterexample
  <1>3. CASE U = {}
    <2> DEFINE g == [s \in SUBSET U |-> 0]
    <2>1. Sums(g, F, U)
      BY <1>3 DEF Sums
    <2> QED BY <2>1
  <1>4. ASSUME NEW x \in U PROVE FALSE
    <2> DEFINE V == U \ {x}
    <2>1. PICK g : Sums(g, F, V)
      BY <1>2
    <2> DEFINE h == [s \in SUBSET U |-> IF x \in s THEN F[x] + g[s \ {x}] ELSE g[s]]
    <2>2. /\ \A s \in SUBSET V : g[s] \in Int
          /\ \A s \in SUBSET V : \A y \in s : g[s] = F[y] + g[s \ {y}]
          /\ g[{}] = 0
      BY <2>1 DEF Sums
    <2>3. \A y \in U : F[y] \in Int
      OBVIOUS
    <2>4. \A s \in SUBSET U : h[s] = IF x \in s THEN F[x] + g[s \ {x}] ELSE g[s]
      OBVIOUS
    <2>5. \A s \in SUBSET U : s \ {x} \in SUBSET V /\ (x \notin s => s \in SUBSET V)
      OBVIOUS
    <2>6. h \in [SUBSET U -> Int]
      BY <2>2, <2>3, <2>5
    <2> HIDE DEF h, V
    <2>7. h[{}] = 0
      BY <2>2, <2>4
    <2>8. ASSUME NEW s \in SUBSET U, NEW y \in s PROVE h[s] = F[y] + h[s \ {y}]
      <3>1. CASE x \notin s
        <4>1. h[s] = g[s] /\ h[s \ {y}] = g[s \ {y}]
          BY <2>4, <3>1
        <4> QED BY <2>2, <2>5, <3>1, <4>1
      <3>2. CASE y = x
        <4>1. h[s] = F[x] + g[s \ {x}] /\ h[s \ {x}] = g[s \ {x}]
          BY <2>4, <3>2
        <4> QED BY <3>2, <4>1
      <3>3. CASE x \in s /\ y # x
        <4>1. h[s] = F[x] + g[s \ {x}] /\ h[s \ {y}] = F[x] + g[(s \ {y}) \ {x}]
          BY <2>4, <3>3
        <4>2. g[s \ {x}] = F[y] + g[(s \ {x}) \ {y}]
          BY <2>2, <2>5, <3>3
        <4>3. (s \ {x}) \ {y} = (s \ {y}) \ {x}
          OBVIOUS
        <4>5. g[(s \ {x}) \ {y}] = g[(s \ {y}) \ {x}]
          BY <4>3
        <4>4. F[x] \in Int /\ F[y] \in Int /\ g[(s \ {y}) \ {x}] \in Int
          <5>1. (s \ {y}) \ {x} \in SUBSET V
            BY <2>5
          <5> QED BY <2>2, <2>3, <3>3, <5>1
        <4> DEFINE a == g[(s \ {y}) \ {x}]
        <4>6. h[s] = F[x] + (F[y] + a) /\ F[y] + h[s \ {y}] = F[y] + (F[x] + a)
          BY <4>1, <4>2, <4>5
        <4> HIDE DEF a
        <4> QED BY <4>4, <4>6 DEF a
      <3> QED BY <3>1, <3>2, <3>3
    <2>9. Sums(h, F, U)
      BY <2>6, <2>7, <2>8 DEF Sums
    <2> QED BY <2>9
  <1> QED BY <1>3, <1>4

\* What MapThenSumSet adds up in an order of its own is that sum.
LEMMA TotalSums ==
  ASSUME NEW S, IsFiniteSet(S), NEW F \in [S -> Int], NEW g, Sums(g, F, S)
  PROVE  \A s \in SUBSET S : Total(F, s) = g[s]
  <1> DEFINE pick(s) == CHOOSE x \in s : TRUE
  <1> SUFFICES ASSUME NEW U \in SUBSET S PROVE Total(F, U) = g[U]
    OBVIOUS
  <1> DEFINE Eq(h) == h = [s \in SUBSET U |-> IF s = {} THEN 0
                                              ELSE F[pick(s)] + h[s \ {pick(s)}]]
  <1>1. Total(F, U) = (CHOOSE h : Eq(h))[U]
    BY DEF Total, MapThenSumSet, MapThenFoldSet
  <1>2. \A s \in SUBSET U : s # {} => pick(s) \in s
    OBVIOUS
  <1>3. \E h : Eq(h)
    <2> DEFINE h == [s \in SUBSET U |-> g[s]]
    <2> HIDE DEF pick
    <2>1. ASSUME NEW s \in SUBSET U PROVE h[s] = IF s = {} THEN 0 ELSE F[pick(s)] + h[s \ {pick(s)}]
      BY <1>2 DEF Sums
    <2>2. h = [s \in SUBSET U |-> h[s]]
      OBVIOUS
    <2>3. [s \in SUBSET U |-> h[s]] = [s \in SUBSET U |-> IF s = {} THEN 0 ELSE F[pick(s)] + h[s \ {pick(s)}]]
      <3> HIDE DEF h
      <3> QED BY <2>1
    <2>4. Eq(h)
      <3> HIDE DEF h
      <3> QED BY <2>2, <2>3
    <2> QED BY <2>4
  <1>4. ASSUME NEW h, Eq(h) PROVE h[U] = g[U]
    <2> HIDE DEF pick
    <2>1. \A s \in SUBSET U : h[s] = IF s = {} THEN 0 ELSE F[pick(s)] + h[s \ {pick(s)}]
      BY <1>4
    <2> DEFINE D == {s \in SUBSET U : h[s] # g[s]}
    <2> HIDE DEF Eq
    <2>2. SUFFICES ASSUME D # {} PROVE FALSE
      OBVIOUS
    <2>3. PICK s \in D : \A x \in s : s \ {x} \notin D
      <3> HIDE DEF D
      <3>1. D \in SUBSET SUBSET U /\ IsFiniteSet(U)
        BY FS_Subset DEF D
      <3> QED BY <2>2, <3>1, LeastCounterexample
    <2>4. CASE s = {}
      BY <2>1, <2>4 DEF Sums
    <2>5. CASE s # {}
      <3>1. h[s] = F[pick(s)] + h[s \ {pick(s)}]
        BY <2>1, <2>5
      <3>2. g[s] = F[pick(s)] + g[s \ {pick(s)}]
        BY <1>2, <2>5 DEF Sums
      <3>3. h[s \ {pick(s)}] = g[s \ {pick(s)}]
        BY <1>2, <2>3, <2>5
      <3> QED BY <3>1, <3>2, <3>3
    <2> QED BY <2>4, <2>5
  <1> HIDE DEF Eq
  <1> QED BY <1>1, <1>3, <1>4

\* A total takes its elements one by one, in any order.
LEMMA TotalFacts ==
  ASSUME NEW S, IsFiniteSet(S), NEW F \in [S -> Int]
  PROVE  /\ Total(F, {}) = 0
         /\ \A s \in SUBSET S :
              /\ Total(F, s) \in Int
              /\ \A y \in s : Total(F, s) = F[y] + Total(F, s \ {y})
  <1>1. PICK g : Sums(g, F, S)
    BY SumsExist
  <1>2. \A s \in SUBSET S : Total(F, s) = g[s]
    BY <1>1, TotalSums
  <1>3. \A s \in SUBSET S : \A y \in s : s \ {y} \in SUBSET S
    OBVIOUS
  <1> QED BY <1>1, <1>2, <1>3 DEF Sums

\* What is added to a set is added to its total.
LEMMA TotalAdd ==
  ASSUME NEW S, IsFiniteSet(S), NEW F \in [S -> Int], NEW s \in SUBSET S,
         NEW x \in S, x \notin s
  PROVE  Total(F, s \cup {x}) = F[x] + Total(F, s)
  <1>1. s \cup {x} \in SUBSET S /\ (s \cup {x}) \ {x} = s
    OBVIOUS
  <1>2. Total(F, s \cup {x}) = F[x] + Total(F, (s \cup {x}) \ {x})
    BY <1>1, TotalFacts
  <1> QED BY <1>1, <1>2

\* A total depends on the values over its own elements only.
LEMMA TotalAgree ==
  ASSUME NEW S, NEW T, IsFiniteSet(S), IsFiniteSet(T), NEW F \in [S -> Int], NEW G \in [T -> Int],
         NEW U \in SUBSET (S \cap T), \A x \in U : F[x] = G[x]
  PROVE  Total(F, U) = Total(G, U)
  <1> DEFINE D == {s \in SUBSET U : Total(F, s) # Total(G, s)}
  <1>1. SUFFICES ASSUME D # {} PROVE FALSE
    OBVIOUS
  <1>2. PICK s \in D : \A x \in s : s \ {x} \notin D
    <2>1. D \in SUBSET SUBSET U
      OBVIOUS
    <2>2. IsFiniteSet(U)
      BY FS_Subset
    <2> HIDE DEF D
    <2> QED BY <1>1, <2>1, <2>2, LeastCounterexample
  <1>3. s \in SUBSET U /\ s \in SUBSET S /\ s \in SUBSET T /\ Total(F, s) # Total(G, s)
    OBVIOUS
  <1>4. s # {}
    BY <1>3, TotalFacts
  <1>5. PICK y \in s : TRUE
    BY <1>4
  <1>6. Total(F, s \ {y}) = Total(G, s \ {y})
    BY <1>2, <1>3, <1>5
  <1>7. Total(F, s) = F[y] + Total(F, s \ {y})
    BY <1>3, <1>5, TotalFacts
  <1>8. Total(G, s) = G[y] + Total(G, s \ {y})
    BY <1>3, <1>5, TotalFacts
  <1> QED BY <1>3, <1>5, <1>6, <1>7, <1>8

\* Totals add up.
LEMMA TotalPlus ==
  ASSUME NEW S, IsFiniteSet(S), NEW F \in [S -> Int], NEW G \in [S -> Int], NEW H \in [S -> Int],
         \A x \in S : H[x] = F[x] + G[x]
  PROVE  Total(H, S) = Total(F, S) + Total(G, S)
  <1> DEFINE D == {s \in SUBSET S : Total(H, s) # Total(F, s) + Total(G, s)}
  <1>1. SUFFICES ASSUME D # {} PROVE FALSE
    OBVIOUS
  <1>2. PICK s \in D : \A x \in s : s \ {x} \notin D
    <2>1. D \in SUBSET SUBSET S
      OBVIOUS
    <2> HIDE DEF D
    <2> QED BY <1>1, <2>1, LeastCounterexample
  <1>3. s \in SUBSET S /\ Total(H, s) # Total(F, s) + Total(G, s)
    OBVIOUS
  <1>4. s # {}
    <2>1. Total(F, {}) = 0 /\ Total(G, {}) = 0 /\ Total(H, {}) = 0
      BY TotalFacts
    <2>2. ASSUME s = {} PROVE Total(H, s) = Total(F, s) + Total(G, s)
      <3>1. Total(H, s) = 0 /\ Total(F, s) = 0 /\ Total(G, s) = 0
        BY <2>1, <2>2
      <3> QED BY <3>1
    <2> QED BY <1>3, <2>2
  <1>5. PICK y \in s : TRUE
    BY <1>4
  <1>6. Total(H, s \ {y}) = Total(F, s \ {y}) + Total(G, s \ {y})
    BY <1>2, <1>3, <1>5
  <1>7. s \ {y} \in SUBSET S /\ y \in S
    BY <1>3, <1>5
  <1> HIDE DEF D
  <1>8. /\ Total(F, s) = F[y] + Total(F, s \ {y}) /\ Total(F, s \ {y}) \in Int
        /\ Total(G, s) = G[y] + Total(G, s \ {y}) /\ Total(G, s \ {y}) \in Int
        /\ Total(H, s) = H[y] + Total(H, s \ {y}) /\ Total(H, s \ {y}) \in Int
    BY <1>3, <1>5, <1>7, TotalFacts
  <1>9. H[y] = F[y] + G[y] /\ F[y] \in Int /\ G[y] \in Int
    BY <1>7
  <1> QED BY <1>3, <1>6, <1>8, <1>9

\* A total grows with its values.
LEMMA TotalLeq ==
  ASSUME NEW S, IsFiniteSet(S), NEW F \in [S -> Int], NEW G \in [S -> Int],
         \A x \in S : F[x] <= G[x]
  PROVE  Total(F, S) <= Total(G, S)
  <1> DEFINE D == {s \in SUBSET S : ~(Total(F, s) <= Total(G, s))}
  <1>1. SUFFICES ASSUME D # {} PROVE FALSE
    OBVIOUS
  <1>2. PICK s \in D : \A x \in s : s \ {x} \notin D
    <2>1. D \in SUBSET SUBSET S
      OBVIOUS
    <2> HIDE DEF D
    <2> QED BY <1>1, <2>1, LeastCounterexample
  <1>3. s \in SUBSET S /\ ~(Total(F, s) <= Total(G, s))
    OBVIOUS
  <1>4. s # {}
    BY <1>3, TotalFacts
  <1>5. PICK y \in s : TRUE
    BY <1>4
  <1>6. Total(F, s \ {y}) <= Total(G, s \ {y})
    BY <1>2, <1>3, <1>5
  <1>7. s \ {y} \in SUBSET S /\ y \in S
    BY <1>3, <1>5
  <1> HIDE DEF D
  <1>8. /\ Total(F, s) = F[y] + Total(F, s \ {y}) /\ Total(F, s \ {y}) \in Int
        /\ Total(G, s) = G[y] + Total(G, s \ {y}) /\ Total(G, s \ {y}) \in Int
    BY <1>3, <1>5, <1>7, TotalFacts
  <1>9. F[y] <= G[y] /\ F[y] \in Int /\ G[y] \in Int
    BY <1>7
  <1> QED BY <1>3, <1>6, <1>8, <1>9

\* The total over a part is that of a function which is zero elsewhere.
LEMMA TotalPart ==
  ASSUME NEW S, IsFiniteSet(S), NEW T \in SUBSET S, NEW F \in [T -> Int], NEW G \in [S -> Int],
         \A x \in S : G[x] = IF x \in T THEN F[x] ELSE 0
  PROVE  Total(F, T) = Total(G, S)
  <1> DEFINE D == {s \in SUBSET S : Total(F, s \cap T) # Total(G, s)}
  <1>0. IsFiniteSet(T)
    BY FS_Subset
  <1>1. SUFFICES ASSUME D # {} PROVE FALSE
    <2>1. S \cap T = T /\ S \in SUBSET S
      OBVIOUS
    <2>2. Total(F, S \cap T) = Total(F, T)
      BY <2>1
    <2> QED BY <2>1, <2>2
  <1>2. PICK s \in D : \A x \in s : s \ {x} \notin D
    <2>1. D \in SUBSET SUBSET S
      OBVIOUS
    <2> HIDE DEF D
    <2> QED BY <1>1, <2>1, LeastCounterexample
  <1>3. s \in SUBSET S /\ Total(F, s \cap T) # Total(G, s)
    OBVIOUS
  <1>4. s # {}
    <2>1. Total(F, {}) = 0 /\ Total(G, {}) = 0
      BY <1>0, TotalFacts
    <2>2. s = {} => Total(F, s \cap T) = Total(F, {})
      OBVIOUS
    <2> QED BY <1>3, <2>1, <2>2
  <1>5. PICK y \in s : TRUE
    BY <1>4
  <1>6. Total(F, (s \ {y}) \cap T) = Total(G, s \ {y})
    BY <1>2, <1>3, <1>5
  <1>7. s \ {y} \in SUBSET S /\ y \in S
    BY <1>3, <1>5
  <1> HIDE DEF D
  <1>8. Total(G, s) = G[y] + Total(G, s \ {y}) /\ Total(G, s \ {y}) \in Int
    BY <1>3, <1>5, <1>7, TotalFacts
  <1>9. CASE y \in T
    <2>1. (s \cap T) \ {y} = (s \ {y}) \cap T /\ s \cap T \in SUBSET T /\ y \in s \cap T
      BY <1>5, <1>9
    <2>2. Total(F, s \cap T) = F[y] + Total(F, (s \cap T) \ {y})
      BY <1>0, <2>1, TotalFacts
    <2>3. Total(F, (s \cap T) \ {y}) = Total(F, (s \ {y}) \cap T)
      BY <2>1
    <2>4. G[y] = F[y]
      BY <1>7, <1>9
    <2> QED BY <1>3, <1>6, <1>8, <2>2, <2>3, <2>4
  <1>10. CASE y \notin T
    <2>1. s \cap T = (s \ {y}) \cap T
      BY <1>10
    <2>2. Total(F, s \cap T) = Total(F, (s \ {y}) \cap T)
      BY <2>1
    <2>3. G[y] = 0
      BY <1>7, <1>10
    <2> QED BY <1>3, <1>6, <1>8, <2>2, <2>3
  <1> QED BY <1>9, <1>10

LEMMA TotalZero ==
  ASSUME NEW S, IsFiniteSet(S), NEW Z \in [S -> Int], \A x \in S : Z[x] = 0
  PROVE  Total(Z, S) = 0
  <1> DEFINE E == [x \in {} |-> 0]
             N == {}
  <1>1. N \in SUBSET S /\ E \in [N -> Int]
    OBVIOUS
  <1>2. \A x \in S : Z[x] = IF x \in N THEN E[x] ELSE 0
    OBVIOUS
  <1>3. IsFiniteSet(N)
    BY FS_EmptySet
  <1>4. Total(E, N) = 0
    <2> HIDE DEF E
    <2>1. Total(E, {}) = 0
      BY <1>1, <1>3, TotalFacts
    <2> QED BY <2>1
  <1> HIDE DEF E, N
  <1> QED BY <1>1, <1>2, <1>4, TotalPart

\* The total of a function that is zero but at one point.
LEMMA TotalOne ==
  ASSUME NEW S, IsFiniteSet(S), NEW y \in S, NEW d \in Int, NEW E \in [S -> Int],
         \A x \in S : E[x] = IF x = y THEN d ELSE 0
  PROVE  Total(E, S) = d
  <1> DEFINE one == {y}
             e == [x \in one |-> d]
  <1>1. one \in SUBSET S /\ e \in [one -> Int] /\ \A x \in S : E[x] = IF x \in one THEN e[x] ELSE 0
    OBVIOUS
  <1>2. IsFiniteSet(one)
    BY FS_Singleton
  <1>3. y \in one /\ e[y] = d /\ one \ {y} = {}
    OBVIOUS
  <1> HIDE DEF e, one
  <1>4. Total(e, one) = d
    <2>1. Total(e, {}) = 0 /\ Total(e, one) = e[y] + Total(e, one \ {y})
      BY <1>1, <1>2, <1>3, TotalFacts
    <2>2. Total(e, one \ {y}) = 0
      BY <1>3, <2>1
    <2> QED BY <1>3, <2>1, <2>2
  <1> QED BY <1>1, <1>4, TotalPart

\* The sum of two functions.
Plus(F, G, S) == [x \in S |-> F[x] + G[x]]

LEMMA TotalOfPlus ==
  ASSUME NEW S, IsFiniteSet(S), NEW F \in [S -> Int], NEW G \in [S -> Int]
  PROVE  /\ Plus(F, G, S) \in [S -> Int]
         /\ \A x \in S : Plus(F, G, S)[x] = F[x] + G[x]
         /\ Total(Plus(F, G, S), S) = Total(F, S) + Total(G, S)
  <1>1. Plus(F, G, S) \in [S -> Int] /\ \A x \in S : Plus(F, G, S)[x] = F[x] + G[x]
    <2>1. \A x \in S : F[x] + G[x] \in Int
      OBVIOUS
    <2> QED BY <2>1 DEF Plus
  <1>2. Total(Plus(F, G, S), S) = Total(F, S) + Total(G, S)
    BY <1>1, TotalPlus
  <1> QED BY <1>1, <1>2

LEMMA TotalMinus ==
  ASSUME NEW S, IsFiniteSet(S), NEW F \in [S -> Int], NEW G \in [S -> Int],
         \A x \in S : G[x] = -F[x]
  PROVE  Total(G, S) = -Total(F, S)
  <1>1. /\ Plus(F, G, S) \in [S -> Int]
        /\ \A x \in S : Plus(F, G, S)[x] = F[x] + G[x]
        /\ Total(Plus(F, G, S), S) = Total(F, S) + Total(G, S)
    BY TotalOfPlus
  <1>2. \A x \in S : Plus(F, G, S)[x] = 0
    <2>1. \A x \in S : F[x] \in Int
      OBVIOUS
    <2> QED BY <1>1, <2>1
  <1>3. Total(Plus(F, G, S), S) = 0
    BY <1>1, <1>2, TotalZero
  <1>4. Total(F, S) \in Int /\ Total(G, S) \in Int
    BY TotalFacts
  <1> QED BY <1>1, <1>3, <1>4

\* A total of numbers that are not negative is not, and none of them is more.
LEMMA TotalNat ==
  ASSUME NEW S, IsFiniteSet(S), NEW F \in [S -> Nat]
  PROVE  /\ Total(F, S) \in Nat
         /\ \A x \in S : F[x] <= Total(F, S)
  <1> DEFINE D == {s \in SUBSET S : ~(Total(F, s) >= 0 /\ \A x \in s : F[x] <= Total(F, s))}
  <1>0. F \in [S -> Int]
    OBVIOUS
  <1>1. SUFFICES ASSUME D # {} PROVE FALSE
    <2>1. Total(F, S) \in Int /\ S \in SUBSET S
      BY <1>0, TotalFacts
    <2> QED BY <2>1
  <1>2. PICK s \in D : \A x \in s : s \ {x} \notin D
    <2>1. D \in SUBSET SUBSET S
      OBVIOUS
    <2> HIDE DEF D
    <2> QED BY <1>1, <2>1, LeastCounterexample
  <1>3. s \in SUBSET S /\ ~(Total(F, s) >= 0 /\ \A x \in s : F[x] <= Total(F, s))
    OBVIOUS
  <1>4. \A x \in s : /\ Total(F, s \ {x}) >= 0
                    /\ \A y \in s \ {x} : F[y] <= Total(F, s \ {x})
    BY <1>2, <1>3
  <1> HIDE DEF D
  <1>5. s # {}
    <2>1. Total(F, {}) = 0
      BY <1>0, TotalFacts
    <2> QED BY <1>3, <2>1
  <1>6. \A x \in s : /\ Total(F, s) = F[x] + Total(F, s \ {x})
                    /\ F[x] \in Nat /\ Total(F, s \ {x}) \in Int
    <2>1. ASSUME NEW x \in s PROVE /\ Total(F, s) = F[x] + Total(F, s \ {x})
                                   /\ F[x] \in Nat /\ Total(F, s \ {x}) \in Int
      <3>1. s \ {x} \in SUBSET S
        BY <1>3
      <3> QED BY <1>0, <1>3, <3>1, TotalFacts
    <2> QED BY <2>1
  <1>7. ASSUME NEW x \in s PROVE F[x] <= Total(F, s) /\ Total(F, s) >= 0
    <2>1. Total(F, s \ {x}) >= 0
      BY <1>4
    <2>2. Total(F, s) = F[x] + Total(F, s \ {x}) /\ F[x] \in Nat /\ Total(F, s \ {x}) \in Int
      BY <1>6
    <2> QED BY <2>1, <2>2
  <1> QED BY <1>3, <1>5, <1>7

\* The total over two sets that have nothing in common.
LEMMA TotalUnion ==
  ASSUME NEW S, IsFiniteSet(S), NEW T, IsFiniteSet(T), S \cap T = {},
         NEW F \in [S -> Int], NEW G \in [T -> Int], NEW H \in [S \cup T -> Int],
         \A x \in S : H[x] = F[x], \A x \in T : H[x] = G[x]
  PROVE  Total(H, S \cup T) = Total(F, S) + Total(G, T)
  <1> DEFINE U == S \cup T
             FF == [x \in U |-> IF x \in S THEN F[x] ELSE 0]
             GG == [x \in U |-> IF x \in T THEN G[x] ELSE 0]
  <1>1. IsFiniteSet(U)
    BY FS_Union
  <1>2. /\ FF \in [U -> Int] /\ GG \in [U -> Int] /\ H \in [U -> Int] /\ S \in SUBSET U /\ T \in SUBSET U
        /\ \A x \in U : FF[x] = (IF x \in S THEN F[x] ELSE 0) /\ GG[x] = (IF x \in T THEN G[x] ELSE 0)
    OBVIOUS
  <1>3. \A x \in U : H[x] = FF[x] + GG[x]
    <2>1. \A x \in S : F[x] \in Int
      OBVIOUS
    <2>2. \A x \in T : G[x] \in Int
      OBVIOUS
    <2> QED BY <2>1, <2>2
  <1> HIDE DEF FF, GG, U
  <1>4. Total(F, S) = Total(FF, U) /\ Total(G, T) = Total(GG, U)
    BY <1>1, <1>2, TotalPart
  <1>5. Total(H, U) = Total(FF, U) + Total(GG, U)
    BY <1>1, <1>2, <1>3, TotalPlus
  <1> QED BY <1>4, <1>5 DEF U

\* A total does not depend on what its elements are called.
LEMMA TotalRename ==
  ASSUME NEW S, IsFiniteSet(S), NEW T, NEW F \in [S -> Int], NEW G \in [T -> Int], NEW f \in [S -> T],
         \A x, y \in S : f[x] = f[y] => x = y, \A x \in S : G[f[x]] = F[x],
         T = {f[x] : x \in S}
  PROVE  Total(F, S) = Total(G, T)
  <1> DEFINE img(s) == {f[x] : x \in s}
             D == {s \in SUBSET S : Total(F, s) # Total(G, img(s))}
  <1>1. IsFiniteSet(T)
    <2>1. f \in Surjection(S, T)
      BY DEF Surjection
    <2> QED BY <2>1, FS_Surjection
  <1>2. SUFFICES ASSUME D # {} PROVE FALSE
    OBVIOUS
  <1>3. PICK s \in D : \A x \in s : s \ {x} \notin D
    <2>1. D \in SUBSET SUBSET S
      OBVIOUS
    <2> HIDE DEF D
    <2> QED BY <1>2, <2>1, LeastCounterexample
  <1>4. s \in SUBSET S /\ Total(F, s) # Total(G, img(s))
    OBVIOUS
  <1>5. \A x \in s : Total(F, s \ {x}) = Total(G, img(s \ {x}))
    BY <1>3, <1>4
  <1> HIDE DEF D
  <1>6. s # {}
    <2>1. Total(F, {}) = 0 /\ Total(G, {}) = 0
      BY <1>1, TotalFacts
    <2>2. img({}) = {}
      OBVIOUS
    <2> HIDE DEF img
    <2> QED BY <1>4, <2>1, <2>2
  <1>7. PICK y \in s : TRUE
    BY <1>6
  <1>8. /\ img(s) \in SUBSET T /\ f[y] \in img(s) /\ img(s \ {y}) = img(s) \ {f[y]}
        /\ G[f[y]] = F[y]
    BY <1>4
  <1> HIDE DEF img
  <1>9. Total(F, s) = F[y] + Total(F, s \ {y})
    BY <1>4, TotalFacts
  <1>10. Total(G, img(s)) = G[f[y]] + Total(G, img(s) \ {f[y]})
    BY <1>1, <1>8, TotalFacts
  <1>11. Total(G, img(s) \ {f[y]}) = Total(F, s \ {y})
    BY <1>5, <1>8
  <1> QED BY <1>4, <1>8, <1>9, <1>10, <1>11
\* A total of numbers that are not negative can be brought down to any less.
LEMMA TotalDown ==
  ASSUME NEW S, IsFiniteSet(S), NEW F \in [S -> Nat], NEW m \in Nat, m <= Total(F, S)
  PROVE  \E G \in [S -> Nat] : Total(G, S) = m /\ \A x \in S : G[x] <= F[x]
  <1> DEFINE Rest(s) == [x \in S |-> IF x \in s THEN F[x] ELSE 0]
             D == {s \in SUBSET S : Total(F, s) >= m}
  <1>1. PICK s \in D : \A x \in s : s \ {x} \notin D
    <2>1. D \in SUBSET SUBSET S /\ S \in D
      OBVIOUS
    <2> HIDE DEF D
    <2> QED BY <2>1, LeastCounterexample
  <1>2. s \in SUBSET S /\ Total(F, s) >= m /\ \A x \in s : ~(Total(F, s \ {x}) >= m)
    BY <1>1
  <1> HIDE DEF D
  <1>3. F \in [S -> Int]
    OBVIOUS
  <1>4. ASSUME NEW t \in SUBSET S
        PROVE  /\ Rest(t) \in [S -> Nat] /\ Rest(t) \in [S -> Int]
               /\ Total(Rest(t), S) = Total(F, t)
    <2>1. Rest(t) \in [S -> Nat] /\ Rest(t) \in [S -> Int]
      OBVIOUS
    <2> DEFINE f == [x \in t |-> F[x]]
    <2>2. f \in [t -> Int] /\ \A x \in S : Rest(t)[x] = IF x \in t THEN f[x] ELSE 0
      BY <1>3
    <2>3. \A x \in t : F[x] = f[x]
      OBVIOUS
    <2>4. IsFiniteSet(t) /\ t \in SUBSET (S \cap t)
      BY FS_Subset
    <2> HIDE DEF f, Rest
    <2>5. Total(F, t) = Total(f, t)
      BY <1>3, <2>2, <2>3, <2>4, TotalAgree
    <2>6. Total(f, t) = Total(Rest(t), S)
      BY <2>1, <2>2, TotalPart
    <2> QED BY <2>1, <2>5, <2>6
  <1>5. CASE s = {}
    <2>1. Total(F, s) = 0
      BY <1>3, <1>5, TotalFacts
    <2>2. Total(Rest(s), S) = m
      BY <1>2, <1>4, <2>1
    <2>3. \A x \in S : Rest(s)[x] <= F[x]
      BY <1>5
    <2> HIDE DEF Rest
    <2> QED BY <1>2, <1>4, <2>2, <2>3
  <1>6. CASE s # {}
    <2>1. PICK y \in s : TRUE
      BY <1>6
    <2> DEFINE t == s \ {y}
               d == m - Total(F, t)
               G == [x \in S |-> IF x = y THEN d ELSE Rest(t)[x]]
               E == [x \in S |-> IF x = y THEN d ELSE 0]
    <2>2. /\ t \in SUBSET S /\ y \in S /\ y \notin t
          /\ Total(F, t) \in Int /\ Total(F, s) = F[y] + Total(F, t)
      BY <1>2, <1>3, <2>1, TotalFacts
    <2>3. d \in Nat /\ d <= F[y]
      <3>1. F[y] \in Nat /\ ~(Total(F, t) >= m)
        BY <1>2, <2>1, <2>2
      <3> QED BY <1>2, <2>2, <3>1
    <2>4. Rest(t) \in [S -> Nat] /\ Rest(t) \in [S -> Int] /\ Total(Rest(t), S) = Total(F, t)
      BY <1>4, <2>2
    <2> HIDE DEF d
    <2>5. /\ G \in [S -> Nat] /\ G \in [S -> Int]
          /\ \A x \in S : G[x] <= F[x]
      BY <2>2, <2>3
    <2>6. E \in [S -> Int] /\ \A x \in S : G[x] = Rest(t)[x] + E[x]
      BY <2>2, <2>3
    <2>7. Total(E, S) = d
      <3>1. \A x \in S : E[x] = IF x = y THEN d ELSE 0
        BY <2>2
      <3> HIDE DEF E
      <3> QED BY <2>2, <2>3, <2>6, <3>1, TotalOne
    <2> HIDE DEF G, E, Rest, t
    <2>8. Total(G, S) = Total(Rest(t), S) + Total(E, S)
      BY <2>4, <2>5, <2>6, TotalPlus
    <2>9. Total(G, S) = m
      BY <2>2, <2>4, <2>7, <2>8 DEF d
    <2> QED BY <2>5, <2>9
  <1> QED BY <1>5, <1>6
=============================================================================
