--------------------------- MODULE ValidatorsProofs ---------------------------
(***************************************************************************)
(* Proofs about Validators, for every finite set of keys, every genesis    *)
(* file, all val transactions and every number of blocks and restarts.     *)
(***************************************************************************)
EXTENDS Validators, FiniteSetTheorems, TLAPS

\* Induction over the subsets of a finite set: a set G of sets that holds a
\* set as soon as it holds its proper subsets holds them all.
LEMMA SubsetInduction ==
  ASSUME NEW S, IsFiniteSet(S), NEW G,
         \A T \in SUBSET S : (\A R \in SUBSET T : R # T => R \in G) => T \in G
  PROVE  \A T \in SUBSET S : T \in G
<1> DEFINE Bad == {T \in SUBSET S : T \notin G}
           Order == StrictSubsetOrdering(S)
<1>1. SUFFICES ASSUME Bad # {} PROVE FALSE
  BY <1>1
<1>2. Bad \subseteq FiniteSubsetsOf(S)
  BY FS_Subset DEF FiniteSubsetsOf
<1>3. IsWellFoundedOn(Order, FiniteSubsetsOf(S))
  BY FS_StrictSubsetOrderingWellFounded
<1>4. PICK T \in Bad : \A R \in Bad : ~(<<R, T>> \in Order)
  <2> HIDE DEF Order, Bad
  <2> QED BY <1>1, <1>2, <1>3, WFMin
<1>5. \A R \in SUBSET T : R # T => R \in G
  <2>1. SUFFICES ASSUME NEW R \in SUBSET T, R # T, R \notin G PROVE FALSE
    OBVIOUS
  <2>2. R \in Bad
    BY <2>1
  <2>3. <<R, T>> \in Order
    BY <2>1 DEF StrictSubsetOrdering
  <2>4. QED
    BY <2>2, <2>3, <1>4
<1>6. QED
  BY <1>4, <1>5

-----------------------------------------------------------------------------
(***************************************************************************)
(* Sums.                                                                   *)
(***************************************************************************)

\* The sum of the values of f on S, as Total and VerifyCommit take it: by a
\* function on the subsets of S that takes out one element after the other.
Sum(f, S) == SumFunctionOnSet(f, S)

Picked(s) == CHOOSE x \in s : TRUE

IsSum(f, S, g) ==
  g = [s \in SUBSET S |-> IF s = {} THEN 0 ELSE f[Picked(s)] + g[s \ {Picked(s)}]]

\* Sum is the value of that function on the whole set.
LEMMA SumDef ==
  ASSUME NEW f, NEW S
  PROVE  Sum(f, S) = (CHOOSE g : IsSum(f, S, g))[S]
BY Zenon DEF Sum, SumFunctionOnSet, FoldFunctionOnSet, MapThenFoldSet, IsSum, Picked

\* The function exists, and so the sum takes out the element it picks.
LEMMA SumRecursive ==
  ASSUME NEW f, NEW K, IsFiniteSet(K)
  PROVE  \A T \in SUBSET K :
    Sum(f, T) = IF T = {} THEN 0 ELSE f[Picked(T)] + Sum(f, T \ {Picked(T)})
<1> DEFINE Unfolds(T) == IF T = {} THEN 0 ELSE f[Picked(T)] + Sum(f, T \ {Picked(T)})
           G == {T \in SUBSET K : Sum(f, T) = Unfolds(T)}
<1>1. ASSUME NEW T \in SUBSET K, \A R \in SUBSET T : R # T => R \in G
      PROVE  T \in G
  <2> DEFINE u == [s \in SUBSET T |-> Unfolds(s)]
             g == CHOOSE h : IsSum(f, T, h)
  <2>0. \A s : s # {} => Picked(s) \in s
    BY Zenon DEF Picked
  <2>1. \A R \in SUBSET T : R # T => Sum(f, R) = Unfolds(R)
    BY Zenon, <1>1
  <2>2. \A s \in SUBSET T : s # {} => /\ s \ {Picked(s)} \in SUBSET T
                                      /\ s \ {Picked(s)} # T
                                      /\ s \ {Picked(s)} \in SUBSET s
                                      /\ s \ {Picked(s)} # s
    BY <2>0
  <2> HIDE DEF Unfolds
  <2>3. \A s \in SUBSET T :
          u[s] = IF s = {} THEN 0 ELSE f[Picked(s)] + u[s \ {Picked(s)}]
    <3>1. SUFFICES ASSUME NEW s \in SUBSET T
                   PROVE  u[s] = IF s = {} THEN 0 ELSE f[Picked(s)] + u[s \ {Picked(s)}]
      BY Zenon
    <3>2. CASE s = {}
      BY Zenon, <3>2 DEF Unfolds
    <3>3. CASE s # {}
      <4>1. u[s \ {Picked(s)}] = Sum(f, s \ {Picked(s)})
        BY Zenon, <3>3, <2>1, <2>2
      <4>2. u[s] = f[Picked(s)] + Sum(f, s \ {Picked(s)})
        BY Zenon, <3>3 DEF Unfolds
      <4>3. QED
        BY Zenon, <4>1, <4>2, <3>3
    <3>4. QED
      BY Zenon, <3>2, <3>3
  <2>4. IsSum(f, T, u)
    <3> DEFINE h == [s \in SUBSET T |->
                       IF s = {} THEN 0 ELSE f[Picked(s)] + u[s \ {Picked(s)}]]
    <3>1. u = h
      <4>1. \A s \in SUBSET T : u[s] = h[s]
        BY Zenon, <2>3
      <4>2. u = [s \in SUBSET T |-> u[s]] /\ h = [s \in SUBSET T |-> h[s]]
        BY Zenon
      <4> HIDE DEF u, h
      <4> QED BY Zenon, <4>1, <4>2
    <3>2. QED
      BY Zenon, <3>1 DEF IsSum
  <2>5. IsSum(f, T, g)
    <3> HIDE DEF u
    <3> QED BY Zenon, <2>4
  <2>6. \A s \in SUBSET T :
          g[s] = IF s = {} THEN 0 ELSE f[Picked(s)] + g[s \ {Picked(s)}]
    <3> HIDE DEF g
    <3> QED BY Zenon, <2>5 DEF IsSum
  <2>7. \A s \in SUBSET T : s # T => g[s] = Sum(f, s)
    <3> DEFINE E == {s \in SUBSET T : s # T => g[s] = Sum(f, s)}
    <3>1. ASSUME NEW s \in SUBSET T, \A r \in SUBSET s : r # s => r \in E
          PROVE  s \in E
      <4> HIDE DEF g
      <4>1. SUFFICES ASSUME s # T PROVE g[s] = Sum(f, s)
        BY Zenon
      <4>2. Sum(f, s) = IF s = {} THEN 0 ELSE f[Picked(s)] + Sum(f, s \ {Picked(s)})
        BY Zenon, <4>1, <2>1 DEF Unfolds
      <4>3. s # {} => g[s \ {Picked(s)}] = Sum(f, s \ {Picked(s)})
        BY Zenon, <3>1, <2>2
      <4>4. QED
        BY Zenon, <4>2, <4>3, <2>6
    <3>2. IsFiniteSet(T)
      BY FS_Subset
    <3> HIDE DEF E
    <3>3. \A s \in SUBSET T : s \in E
      BY Zenon, <3>1, <3>2, SubsetInduction
    <3>4. QED
      BY Zenon, <3>3 DEF E
  <2>8. Sum(f, T) = g[T]
    BY Zenon, SumDef
  <2> HIDE DEF g
  <2>9. Sum(f, T) = IF T = {} THEN 0 ELSE f[Picked(T)] + g[T \ {Picked(T)}]
    BY Zenon, <2>8, <2>6
  <2>10. T # {} => g[T \ {Picked(T)}] = Sum(f, T \ {Picked(T)})
    BY Zenon, <2>7, <2>2
  <2>11. Sum(f, T) = Unfolds(T)
    BY Zenon, <2>9, <2>10 DEF Unfolds
  <2>12. QED
    BY Zenon, <2>11
<1>2. IsFiniteSet(K)
  OBVIOUS
<1>3. \A T \in SUBSET K : T \in G
  <2> HIDE DEF G
  <2> QED BY Zenon, <1>1, <1>2, SubsetInduction
<1>4. QED
  BY Zenon, <1>3

\* The sum takes out any element.
LEMMA SumRemove ==
  ASSUME NEW f, NEW K, IsFiniteSet(K), \A x \in K : f[x] \in Int
  PROVE  \A T \in SUBSET K : /\ Sum(f, T) \in Int
                        /\ \A x \in T : Sum(f, T) = f[x] + Sum(f, T \ {x})
<1> DEFINE Removes(T) == Sum(f, T) \in Int /\ \A x \in T : Sum(f, T) = f[x] + Sum(f, T \ {x})
           G == {T \in SUBSET K : Removes(T)}
<1>1. ASSUME NEW T \in SUBSET K, \A R \in SUBSET T : R # T => R \in G
      PROVE  T \in G
  <2> DEFINE y == Picked(T)
  <2>1. \A R \in SUBSET T : R # T => Removes(R)
    BY Zenon, <1>1
  <2> HIDE DEF G
  <2>2. CASE T = {}
    <3>1. Sum(f, T) = 0
      BY Zenon, <2>2, SumRecursive
    <3>2. QED
      BY <3>1, <2>2 DEF G
  <2>3. CASE T # {}
    <3>1. y \in T
      BY Zenon, <2>3 DEF Picked
    <3>2. Sum(f, T) = f[y] + Sum(f, T \ {y})
      BY Zenon, <2>3, SumRecursive
    <3> HIDE DEF y
    <3>3. \A x \in T : f[x] \in Int
      OBVIOUS
    <3>4. \A x \in T : T \ {x} \in SUBSET T /\ T \ {x} # T
      OBVIOUS
    <3>5. \A x \in T : Removes(T \ {x})
      BY Zenon, <3>4, <2>1
    <3>6. Sum(f, T) \in Int
      BY <3>1, <3>2, <3>3, <3>5
    <3>7. ASSUME NEW x \in T, x # y PROVE Sum(f, T) = f[x] + Sum(f, T \ {x})
      <4>1. Sum(f, T \ {y}) = f[x] + Sum(f, (T \ {y}) \ {x})
        BY Zenon, <3>1, <3>5, <3>7
      <4>2. Sum(f, T \ {x}) = f[y] + Sum(f, (T \ {x}) \ {y})
        BY Zenon, <3>1, <3>5, <3>7
      <4>3. (T \ {y}) \ {x} = (T \ {x}) \ {y}
        OBVIOUS
      <4>4. Sum(f, (T \ {x}) \ {y}) \in Int
        <5>1. (T \ {x}) \ {y} \in SUBSET T /\ (T \ {x}) \ {y} # T
          BY <3>1
        <5>2. QED
          BY Zenon, <5>1, <2>1
      <4>5. Sum(f, T) = f[y] + (f[x] + Sum(f, (T \ {x}) \ {y}))
        BY Zenon, <4>1, <4>3, <3>2
      <4>6. f[x] \in Int /\ f[y] \in Int
        BY Zenon, <3>1, <3>3
      <4>7. \A k, m, n \in Int : k + (m + n) = m + (k + n)
        OBVIOUS
      <4>8. Sum(f, T) = f[x] + (f[y] + Sum(f, (T \ {x}) \ {y}))
        BY Zenon, <4>4, <4>5, <4>6, <4>7
      <4>9. QED
        BY Zenon, <4>2, <4>8
    <3>8. QED
      BY Zenon, <3>2, <3>6, <3>7 DEF G
  <2>4. QED
    BY Zenon, <2>2, <2>3
<1>2. IsFiniteSet(K)
  OBVIOUS
<1>3. \A T \in SUBSET K : T \in G
  <2> HIDE DEF G
  <2> QED BY Zenon, <1>1, <1>2, SubsetInduction
<1>4. QED
  BY Zenon, <1>3

\* A sum over the empty set, a sum without one of its terms.
LEMMA SumTerms ==
  ASSUME NEW f, NEW S, IsFiniteSet(S), \A x \in S : f[x] \in Int
  PROVE  /\ Sum(f, S) \in Int
         /\ Sum(f, {}) = 0
         /\ \A x \in S : /\ Sum(f, S) = f[x] + Sum(f, S \ {x})
                         /\ Sum(f, S \ {x}) \in Int
<1>1. S \in SUBSET S /\ {} \in SUBSET S /\ \A x \in S : S \ {x} \in SUBSET S
  OBVIOUS
<1>2. Sum(f, {}) = 0
  BY Zenon, <1>1, SumRecursive
<1>3. \A T \in SUBSET S : Sum(f, T) \in Int /\ \A x \in T : Sum(f, T) = f[x] + Sum(f, T \ {x})
  <2> TAKE T \in SUBSET S
  <2> QED BY SumRemove
<1>4. QED
  BY Zenon, <1>1, <1>2, <1>3

\* Sums over the same set compare as their terms do.
LEMMA SumCompare ==
  ASSUME NEW S, IsFiniteSet(S), NEW a, NEW b, NEW c, NEW d,
         \A x \in S : /\ a[x] \in Int /\ b[x] \in Int /\ c[x] \in Int /\ d[x] \in Int
                      /\ a[x] + b[x] <= c[x] + d[x]
  PROVE  Sum(a, S) + Sum(b, S) <= Sum(c, S) + Sum(d, S)
<1> DEFINE G == {T \in SUBSET S : Sum(a, T) + Sum(b, T) <= Sum(c, T) + Sum(d, T)}
<1>1. ASSUME NEW T \in SUBSET S, \A R \in SUBSET T : R # T => R \in G
      PROVE  T \in G
  <2>0. IsFiniteSet(T)
    BY FS_Subset
  <2>1. CASE T = {}
    <3>1. Sum(a, T) = 0 /\ Sum(b, T) = 0 /\ Sum(c, T) = 0 /\ Sum(d, T) = 0
      BY <2>0, <2>1, SumTerms
    <3>2. QED
      BY <3>1
  <2>2. CASE T # {}
    <3>1. PICK x \in T : TRUE
      BY <2>2
    <3>2. Sum(a, T \ {x}) + Sum(b, T \ {x}) <= Sum(c, T \ {x}) + Sum(d, T \ {x})
      BY <3>1, <1>1
    <3>3. Sum(a, T) = a[x] + Sum(a, T \ {x}) /\ Sum(a, T \ {x}) \in Int
      BY Zenon, <2>0, SumTerms
    <3>4. Sum(b, T) = b[x] + Sum(b, T \ {x}) /\ Sum(b, T \ {x}) \in Int
      BY Zenon, <2>0, SumTerms
    <3>5. Sum(c, T) = c[x] + Sum(c, T \ {x}) /\ Sum(c, T \ {x}) \in Int
      BY Zenon, <2>0, SumTerms
    <3>6. Sum(d, T) = d[x] + Sum(d, T \ {x}) /\ Sum(d, T \ {x}) \in Int
      BY Zenon, <2>0, SumTerms
    <3>7. /\ a[x] \in Int /\ b[x] \in Int /\ c[x] \in Int /\ d[x] \in Int
          /\ a[x] + b[x] <= c[x] + d[x]
      OBVIOUS
    <3>8. Sum(a, T) + Sum(b, T) <= Sum(c, T) + Sum(d, T)
      BY <3>2, <3>3, <3>4, <3>5, <3>6, <3>7
    <3>9. QED
      BY Zenon, <3>8
  <2>3. QED
    BY Zenon, <2>1, <2>2
<1>2. S \in G
  <2> HIDE DEF G
  <2> QED BY Zenon, <1>1, SubsetInduction
<1>3. QED
  BY Zenon, <1>2

\* A sum of zeros.
LEMMA SumZero ==
  ASSUME NEW S, IsFiniteSet(S), NEW f, \A x \in S : f[x] = 0
  PROVE  Sum(f, S) = 0
<1> DEFINE G == {T \in SUBSET S : Sum(f, T) = 0}
<1>1. ASSUME NEW T \in SUBSET S, \A R \in SUBSET T : R # T => R \in G
      PROVE  T \in G
  <2>0. IsFiniteSet(T) /\ \A x \in T : f[x] \in Int
    BY FS_Subset
  <2>1. CASE T = {}
    <3>1. Sum(f, T) = 0
      BY <2>0, <2>1, SumTerms
    <3>2. QED
      BY Zenon, <3>1
  <2>2. CASE T # {}
    <3>1. PICK x \in T : TRUE
      BY <2>2
    <3>2. Sum(f, T \ {x}) = 0
      BY <3>1, <1>1
    <3>3. Sum(f, T) = f[x] + Sum(f, T \ {x})
      BY <2>0, SumTerms
    <3>4. Sum(f, T) = 0
      BY <3>2, <3>3
    <3>5. QED
      BY Zenon, <3>4
  <2>3. QED
    BY Zenon, <2>1, <2>2
<1>2. S \in G
  <2> HIDE DEF G
  <2> QED BY Zenon, <1>1, SubsetInduction
<1>3. QED
  BY Zenon, <1>2

\* The sum of the sums of two functions.
LEMMA SumPlus ==
  ASSUME NEW S, IsFiniteSet(S), NEW f, NEW g, NEW h,
         \A x \in S : f[x] \in Int /\ g[x] \in Int /\ h[x] = f[x] + g[x]
  PROVE  Sum(h, S) = Sum(f, S) + Sum(g, S)
<1> DEFINE z == [x \in S |-> 0]
<1>1. Sum(z, S) = 0
  <2>1. \A x \in S : z[x] = 0
    OBVIOUS
  <2> HIDE DEF z
  <2> QED BY <2>1, SumZero
<1>2. \A x \in S : /\ f[x] \in Int /\ g[x] \in Int /\ h[x] \in Int /\ z[x] \in Int
                   /\ f[x] + g[x] <= h[x] + z[x] /\ h[x] + z[x] <= f[x] + g[x]
  OBVIOUS
<1> HIDE DEF z
<1>3. Sum(f, S) + Sum(g, S) <= Sum(h, S) + Sum(z, S)
  BY <1>2, SumCompare
<1>4. Sum(h, S) + Sum(z, S) <= Sum(f, S) + Sum(g, S)
  BY <1>2, SumCompare
<1>5. Sum(f, S) \in Int /\ Sum(g, S) \in Int /\ Sum(h, S) \in Int
  BY <1>2, SumTerms
<1>6. QED
  BY <1>1, <1>3, <1>4, <1>5

\* A sum grows with its terms.
LEMMA SumLeq ==
  ASSUME NEW S, IsFiniteSet(S), NEW f, NEW g,
         \A x \in S : f[x] \in Int /\ g[x] \in Int /\ f[x] <= g[x]
  PROVE  Sum(f, S) \in Int /\ Sum(g, S) \in Int /\ Sum(f, S) <= Sum(g, S)
<1>1. \A x \in S : /\ f[x] \in Int /\ f[x] \in Int /\ g[x] \in Int /\ g[x] \in Int
                   /\ f[x] + f[x] <= g[x] + g[x]
  OBVIOUS
<1>2. Sum(f, S) + Sum(f, S) <= Sum(g, S) + Sum(g, S)
  BY <1>1, SumCompare
<1>3. Sum(f, S) \in Int /\ Sum(g, S) \in Int
  BY SumTerms
<1>4. QED
  BY <1>2, <1>3

\* Functions that agree on a set have the same sum over it.
LEMMA SumAgree ==
  ASSUME NEW S, IsFiniteSet(S), NEW f, NEW g, \A x \in S : f[x] \in Int /\ f[x] = g[x]
  PROVE  Sum(f, S) = Sum(g, S)
<1>1. \A x \in S : f[x] \in Int /\ g[x] \in Int /\ f[x] <= g[x] /\ g[x] <= f[x]
  OBVIOUS
<1>2. Sum(f, S) \in Int /\ Sum(g, S) \in Int /\ Sum(f, S) <= Sum(g, S)
  BY <1>1, SumLeq
<1>3. Sum(g, S) <= Sum(f, S)
  BY <1>1, SumLeq
<1>4. QED
  BY <1>2, <1>3

\* The sum over two sets without a common element.
LEMMA SumUnion ==
  ASSUME NEW S, NEW U, IsFiniteSet(S), IsFiniteSet(U), S \cap U = {},
         NEW f, \A x \in S \cup U : f[x] \in Int
  PROVE  Sum(f, S \cup U) = Sum(f, S) + Sum(f, U)
<1> DEFINE G == {T \in SUBSET U : Sum(f, S \cup T) = Sum(f, S) + Sum(f, T)}
<1>0. Sum(f, S) \in Int
  BY SumTerms
<1>1. ASSUME NEW T \in SUBSET U, \A R \in SUBSET T : R # T => R \in G
      PROVE  T \in G
  <2>0. IsFiniteSet(T) /\ IsFiniteSet(S \cup T)
    BY Zenon, FS_Subset, FS_Union
  <2>1. CASE T = {}
    <3>1. Sum(f, T) = 0 /\ S \cup T = S
      BY <2>0, <2>1, SumTerms
    <3>2. Sum(f, S \cup T) = Sum(f, S) + Sum(f, T)
      BY <3>1, <1>0
    <3>3. QED
      BY Zenon, <3>2
  <2>2. CASE T # {}
    <3>1. PICK x \in T : TRUE
      BY <2>2
    <3>2. Sum(f, S \cup (T \ {x})) = Sum(f, S) + Sum(f, T \ {x})
      <4>1. T \ {x} \in SUBSET T /\ T \ {x} # T
        BY <3>1
      <4>2. QED
        BY Zenon, <4>1, <1>1
    <3>3. (S \cup T) \ {x} = S \cup (T \ {x}) /\ x \in S \cup T
      BY <3>1
    <3>4. Sum(f, S \cup T) = f[x] + Sum(f, S \cup (T \ {x}))
      <4>1. \A y \in S \cup T : f[y] \in Int
        OBVIOUS
      <4>2. \A y \in S \cup T : Sum(f, S \cup T) = f[y] + Sum(f, (S \cup T) \ {y})
        BY <2>0, <4>1, SumTerms
      <4>3. QED
        BY Zenon, <4>2, <3>3
    <3>5. Sum(f, T) = f[x] + Sum(f, T \ {x}) /\ Sum(f, T \ {x}) \in Int
      BY <2>0, <3>1, SumTerms
    <3>6. f[x] \in Int
      BY <3>1
    <3>7. Sum(f, S \cup T) = Sum(f, S) + Sum(f, T)
      BY <1>0, <3>2, <3>4, <3>5, <3>6
    <3>8. QED
      BY Zenon, <3>7
  <2>3. QED
    BY Zenon, <2>1, <2>2
<1>2. U \in G
  <2> HIDE DEF G
  <2> QED BY Zenon, <1>1, SubsetInduction
<1>3. QED
  BY Zenon, <1>2

\* The sum over a part of a set, when no term is negative.
LEMMA SumPart ==
  ASSUME NEW S, IsFiniteSet(S), NEW R \in SUBSET S, NEW f, \A x \in S : f[x] \in Nat
  PROVE  /\ Sum(f, R) \in Nat /\ Sum(f, S) \in Nat /\ Sum(f, S \ R) \in Nat
         /\ Sum(f, S) = Sum(f, R) + Sum(f, S \ R)
<1>1. ASSUME NEW T \in SUBSET S PROVE IsFiniteSet(T) /\ Sum(f, T) \in Nat
  <2> DEFINE z == [x \in T |-> 0]
  <2>1. IsFiniteSet(T)
    BY FS_Subset
  <2>2. \A x \in T : z[x] = 0 /\ z[x] \in Int /\ f[x] \in Int /\ z[x] <= f[x]
    OBVIOUS
  <2> HIDE DEF z
  <2>3. Sum(z, T) = 0
    BY <2>1, <2>2, SumZero
  <2>4. Sum(f, T) \in Int /\ Sum(z, T) <= Sum(f, T)
    BY <2>1, <2>2, SumLeq
  <2>5. QED
    BY <2>1, <2>3, <2>4
<1>2. R \cup (S \ R) = S /\ R \cap (S \ R) = {} /\ \A x \in S : f[x] \in Int
  OBVIOUS
<1>3. IsFiniteSet(R) /\ IsFiniteSet(S \ R)
  BY <1>1
<1>4. Sum(f, R \cup (S \ R)) = Sum(f, R) + Sum(f, S \ R)
  BY <1>2, <1>3, SumUnion
<1>5. QED
  BY <1>1, <1>2, <1>4

-----------------------------------------------------------------------------
(***************************************************************************)
(* Voting power: commits of two sets that differ by less than one third.   *)
(***************************************************************************)

IsPowers(p) == DOMAIN p \subseteq Keys /\ p \in [DOMAIN p -> Nat]

IsSet(s) == DOMAIN s \subseteq Keys /\ s \in [DOMAIN s -> [power : Nat, accum : Int]]

\* The voting power of every key, zero for those that are no validators, and by
\* how much two sets differ at every key.
Weight(p) == [k \in Keys |-> IF k \in DOMAIN p THEN p[k] ELSE 0]
Distance(p, q) == [k \in Keys |-> Abs(Weight(p)[k] - Weight(q)[k])]

\* TotalVotingPower, and what some validators add up to, as sums of weights.
LEMMA WeightSum ==
  ASSUME NEW p, IsPowers(p)
  PROVE  /\ Weight(p) \in [Keys -> Nat]
         /\ Total(p) = Sum(Weight(p), Keys) /\ Total(p) \in Nat
         /\ \A c \in SUBSET DOMAIN p : Sum(p, c) = Sum(Weight(p), c)
<1> DEFINE w == Weight(p)
<1>1. IsFiniteSet(Keys) /\ DOMAIN p \in SUBSET Keys
  BY ValidatorsAssumption DEF IsPowers
<1>2. w \in [Keys -> Nat]
  BY DEF IsPowers, Weight
<1>3. \A k \in DOMAIN p : p[k] \in Int /\ p[k] = w[k]
  BY DEF IsPowers, Weight
<1>4. \A k \in Keys \ DOMAIN p : w[k] = 0
  BY DEF Weight
<1> HIDE DEF w
<1>5. \A c \in SUBSET DOMAIN p : Sum(p, c) = Sum(w, c)
  <2>1. SUFFICES ASSUME NEW c \in SUBSET DOMAIN p PROVE Sum(p, c) = Sum(w, c)
    BY Zenon
  <2>2. IsFiniteSet(c) /\ \A k \in c : p[k] \in Int /\ p[k] = w[k]
    BY <1>1, <1>3, FS_Subset
  <2>3. QED
    BY <2>2, SumAgree
<1>6. Sum(w, Keys) = Sum(w, DOMAIN p) + Sum(w, Keys \ DOMAIN p) /\ Sum(w, Keys) \in Nat
  BY ZenonT(30), <1>1, <1>2, SumPart
<1>7. Sum(w, Keys \ DOMAIN p) = 0
  <2>1. IsFiniteSet(Keys \ DOMAIN p)
    BY <1>1, FS_Subset
  <2>2. QED
    BY <1>4, <2>1, SumZero
<1>8. Total(p) = Sum(p, DOMAIN p)
  BY Zenon DEF Total, SumFunction, Sum
<1>9. Sum(w, DOMAIN p) \in Nat
  BY Zenon, <1>1, <1>2, SumPart
<1>10. Sum(p, DOMAIN p) = Sum(w, DOMAIN p)
  BY Zenon, <1>5
<1>11. Total(p) = Sum(w, Keys) /\ Total(p) \in Nat
  BY <1>6, <1>7, <1>8, <1>9, <1>10
<1>12. QED
  BY Zenon, <1>2, <1>5, <1>11 DEF w

\* How the totals of two sets, and their powers on the same keys, differ.
LEMMA Differences ==
  ASSUME NEW p, NEW q, IsPowers(p), IsPowers(q)
  PROVE  \E up, down \in [Keys -> Nat] :
           /\ Sum(Distance(p, q), Keys) = Sum(up, Keys) + Sum(down, Keys)
           /\ \A d \in SUBSET Keys :
                Sum(Weight(q), d) + Sum(down, d) = Sum(Weight(p), d) + Sum(up, d)
<1> DEFINE v == Weight(p)
           w == Weight(q)
           up == [k \in Keys |-> IF w[k] >= v[k] THEN w[k] - v[k] ELSE 0]
           down == [k \in Keys |-> IF w[k] >= v[k] THEN 0 ELSE v[k] - w[k]]
           both == [k \in Keys |-> v[k] + up[k]]
           dist == Distance(p, q)
<1>1. v \in [Keys -> Nat] /\ w \in [Keys -> Nat] /\ IsFiniteSet(Keys)
  BY WeightSum, ValidatorsAssumption
<1>2. dist = [k \in Keys |-> Abs(v[k] - w[k])]
  BY DEF Distance
<1> HIDE DEF v, w, dist
<1>3. up \in [Keys -> Nat] /\ down \in [Keys -> Nat]
  BY <1>1
<1>4. \A k \in Keys : /\ up[k] \in Int /\ down[k] \in Int /\ v[k] \in Int /\ w[k] \in Int
                      /\ dist[k] = up[k] + down[k]
                      /\ both[k] = v[k] + up[k] /\ both[k] = w[k] + down[k]
  <2>1. SUFFICES ASSUME NEW k \in Keys
                 PROVE  /\ up[k] \in Int /\ down[k] \in Int /\ v[k] \in Int /\ w[k] \in Int
                        /\ dist[k] = up[k] + down[k]
                        /\ both[k] = v[k] + up[k] /\ both[k] = w[k] + down[k]
    BY Zenon
  <2>2. /\ up[k] = IF w[k] >= v[k] THEN w[k] - v[k] ELSE 0
        /\ down[k] = IF w[k] >= v[k] THEN 0 ELSE v[k] - w[k]
        /\ both[k] = v[k] + up[k]
    BY Zenon
  <2>3. dist[k] = Abs(v[k] - w[k])
    BY Zenon, <1>2
  <2>4. v[k] \in Nat /\ w[k] \in Nat
    BY <1>1
  <2> HIDE DEF up, down, both
  <2>5. QED
    BY <2>2, <2>3, <2>4 DEF Abs
<1> HIDE DEF up, down, both
<1>5. Sum(dist, Keys) = Sum(up, Keys) + Sum(down, Keys)
  BY <1>1, <1>4, SumPlus
<1>6. ASSUME NEW d \in SUBSET Keys
      PROVE  Sum(w, d) + Sum(down, d) = Sum(v, d) + Sum(up, d)
  <2>1. IsFiniteSet(d)
    BY <1>1, FS_Subset
  <2>2. Sum(both, d) = Sum(w, d) + Sum(down, d)
    BY <1>4, <2>1, SumPlus
  <2>3. Sum(both, d) = Sum(v, d) + Sum(up, d)
    BY <1>4, <2>1, SumPlus
  <2>4. QED
    BY Zenon, <2>2, <2>3
<1>7. QED
  BY Zenon, <1>3, <1>5, <1>6 DEF v, w, dist

\* Two thirds of one set and two thirds of a set that is within one third of it
\* have a validator in common (VerifyCommit).
LEMMA QuorumsMeet ==
  ASSUME NEW p, NEW q, IsPowers(p), IsPowers(q),
         NEW c \in SUBSET DOMAIN p, NEW d \in SUBSET DOMAIN q,
         3 * Sum(Distance(p, q), Keys) <= Total(p),
         Sum(p, c) > (Total(p) * 2) \div 3,
         Sum(q, d) > (Total(q) * 2) \div 3
  PROVE  c \cap d # {}
<1> SUFFICES ASSUME c \cap d = {} PROVE FALSE
  OBVIOUS
<1> DEFINE v == Weight(p)
           w == Weight(q)
<1>1. PICK up, down \in [Keys -> Nat] :
        /\ Sum(Distance(p, q), Keys) = Sum(up, Keys) + Sum(down, Keys)
        /\ \A e \in SUBSET Keys :
             Sum(w, e) + Sum(down, e) = Sum(v, e) + Sum(up, e)
  BY Differences
<1>2. c \in SUBSET Keys /\ d \in SUBSET Keys /\ IsFiniteSet(Keys)
  BY ValidatorsAssumption DEF IsPowers
<1>3. /\ v \in [Keys -> Nat] /\ w \in [Keys -> Nat]
      /\ Total(p) = Sum(v, Keys) /\ Sum(p, c) = Sum(v, c)
      /\ Total(q) = Sum(w, Keys) /\ Sum(q, d) = Sum(w, d)
  BY WeightSum
<1> HIDE DEF v, w
<1>4. ASSUME NEW f \in [Keys -> Nat], NEW e \in SUBSET Keys
      PROVE  Sum(f, e) \in Nat /\ Sum(f, Keys) \in Nat /\ Sum(f, e) <= Sum(f, Keys)
  <2>1. \A x \in Keys : f[x] \in Nat
    OBVIOUS
  <2>2. /\ Sum(f, e) \in Nat /\ Sum(f, Keys) \in Nat /\ Sum(f, Keys \ e) \in Nat
        /\ Sum(f, Keys) = Sum(f, e) + Sum(f, Keys \ e)
    BY Zenon, <1>2, <2>1, SumPart
  <2>3. QED
    BY <2>2
<1>5. Sum(v, c) + Sum(v, d) <= Sum(v, Keys)
  <2>1. IsFiniteSet(c) /\ IsFiniteSet(d) /\ \A x \in c \cup d : v[x] \in Int
    BY SMTT(30), <1>2, <1>3, FS_Subset
  <2>2. Sum(v, c \cup d) = Sum(v, c) + Sum(v, d)
    BY <2>1, SumUnion
  <2>3. Sum(v, c \cup d) <= Sum(v, Keys)
    BY SMTT(30), <1>2, <1>3, <1>4
  <2>4. QED
    BY <2>2, <2>3
<1>6. Sum(up, d) <= Sum(up, Keys) /\ {Sum(up, d), Sum(up, Keys)} \subseteq Nat
  BY <1>2, <1>4
<1>7. {Sum(down, d), Sum(down, Keys)} \subseteq Nat
  BY <1>2, <1>4
<1>8. {Sum(v, c), Sum(v, d), Sum(v, Keys), Sum(w, d), Sum(w, Keys)} \subseteq Nat
  BY <1>2, <1>3, <1>4
<1>9. /\ Sum(w, d) + Sum(down, d) = Sum(v, d) + Sum(up, d)
      /\ Sum(w, Keys) + Sum(down, Keys) = Sum(v, Keys) + Sum(up, Keys)
  BY <1>1, <1>2
<1>10. 3 * (Sum(up, Keys) + Sum(down, Keys)) <= Sum(v, Keys)
  BY <1>1, <1>3
<1>11. \A n, t \in Nat : n > (t * 2) \div 3 => 3 * n > 2 * t
  OBVIOUS
<1>12. 3 * Sum(v, c) > 2 * Sum(v, Keys) /\ 3 * Sum(w, d) > 2 * Sum(w, Keys)
  BY <1>3, <1>8, <1>11
<1>13. QED
  BY <1>5, <1>6, <1>7, <1>8, <1>9, <1>10, <1>12

-----------------------------------------------------------------------------
(***************************************************************************)
(* The loops over the items of a transaction and over the updates.         *)
(***************************************************************************)

\* Induction over the natural numbers.
LEMMA NatSetInduction ==
  ASSUME NEW G, 0 \in G, \A n \in Nat : n \in G => n + 1 \in G
  PROVE  \A n \in Nat : n \in G
<1> DEFINE Bad == {n \in Nat : n \notin G}
           R == OpToRel(<, Nat)
<1>1. SUFFICES ASSUME Bad # {} PROVE FALSE
  BY Zenon
<1>2. PICK m \in Bad : \A y \in Bad : ~(<<y, m>> \in R)
  <2>1. IsWellFoundedOn(R, Nat)
    BY Zenon, NatLessThanWellFounded
  <2>2. Bad \subseteq Nat
    BY Zenon
  <2> HIDE DEF R, Bad
  <2> QED BY Zenon, <1>1, <2>1, <2>2, WFMin
<1>3. m \in Nat /\ m \notin G
  BY Zenon, <1>2
<1>4. m # 0 /\ m - 1 \in Nat /\ (m - 1) + 1 = m
  BY <1>3
<1>5. m - 1 \in Bad
  BY <1>3, <1>4
<1>6. <<m - 1, m>> \in R
  BY <1>3, <1>4 DEF OpToRel
<1>7. QED
  BY Zenon, <1>2, <1>5, <1>6

\* updateValidators takes the updates one after the other.
LEMMA SetAfterSteps ==
  ASSUME NEW set, NEW updates, Len(updates) \in Nat
  PROVE  /\ SetAfter(set, updates)[0] = set
         /\ \A n \in 1..Len(updates) :
              SetAfter(set, updates)[n] = ApplyUpdate(SetAfter(set, updates)[n - 1], updates[n])
<1> DEFINE Value(f, m) == IF m = 0 THEN set ELSE ApplyUpdate(f[m - 1], updates[m])
           Is(f, n) == f = [m \in 0..n |-> Value(f, m)]
           G == {n \in Nat : \E f : Is(f, n)}
<1>1. 0 \in G
  <2> DEFINE f == [m \in 0..0 |-> set]
  <2>1. f = [m \in 0..0 |-> Value(f, m)]
    OBVIOUS
  <2>2. QED
    BY Zenon, <2>1
<1>2. ASSUME NEW n \in Nat, n \in G PROVE n + 1 \in G
  <2>1. PICK f : Is(f, n)
    BY Zenon, <1>2
  <2> DEFINE g == [m \in 0..(n + 1) |-> IF m <= n THEN f[m] ELSE ApplyUpdate(f[n], updates[m])]
  <2>2. \A m \in 0..n : f[m] = Value(f, m)
    BY Zenon, <2>1
  <2>3. \A m \in 0..(n + 1) : g[m] = Value(g, m)
    <3>1. SUFFICES ASSUME NEW m \in 0..(n + 1) PROVE g[m] = Value(g, m)
      BY Zenon
    <3>2. CASE m = 0
      <4>1. g[0] = f[0] /\ f[0] = set
        BY <2>2
      <4>2. QED
        BY Zenon, <3>2, <4>1
    <3>3. CASE m \in 1..n
      <4>1. /\ m \in 0..n /\ m - 1 \in 0..(n + 1) /\ m - 1 <= n /\ m # 0
            /\ m <= n
        BY <3>3
      <4>2. g[m] = f[m] /\ g[m - 1] = f[m - 1]
        BY Zenon, <4>1
      <4> HIDE DEF g
      <4>3. QED
        BY Zenon, <4>1, <4>2, <2>2
    <3>4. CASE m = n + 1
      <4>1. ~(m <= n) /\ m - 1 = n /\ n \in 0..(n + 1) /\ m # 0 /\ n <= n
        BY <3>4
      <4>2. g[m] = ApplyUpdate(f[n], updates[m]) /\ g[n] = f[n]
        BY Zenon, <4>1
      <4> HIDE DEF g
      <4>3. QED
        BY Zenon, <4>1, <4>2
    <3>5. QED
      BY <3>2, <3>3, <3>4
  <2>4. g = [m \in 0..(n + 1) |-> g[m]]
    BY Zenon
  <2> HIDE DEF g, Value
  <2>5. Is(g, n + 1)
    BY Zenon, <2>3, <2>4
  <2>6. n + 1 \in Nat
    OBVIOUS
  <2>7. QED
    BY Zenon, <2>5, <2>6
<1> HIDE DEF G
<1>3. Len(updates) \in G
  BY Zenon, <1>1, <1>2, NatSetInduction
<1> DEFINE s == SetAfter(set, updates)
<1>4. s = CHOOSE f : Is(f, Len(updates))
  BY Zenon DEF SetAfter
<1>5. Is(s, Len(updates))
  <2> HIDE DEF s, Is
  <2> QED BY Zenon, <1>3, <1>4 DEF G
<1> HIDE DEF s
<1>6. \A m \in 0..Len(updates) : s[m] = Value(s, m)
  BY Zenon, <1>5
<1>7. 0 \in 0..Len(updates) /\ \A n \in 1..Len(updates) : n \in 0..Len(updates) /\ n # 0
  OBVIOUS
<1>8. QED
  BY Zenon, <1>6, <1>7 DEF s

\* So does the strategy with the items.
LEMMA StrategyAfterSteps ==
  ASSUME NEW powers, NEW items, Len(items) \in Nat
  PROVE  /\ StrategyAfter(powers, items)[0] =
              [current |-> powers, updates |-> items, owner |-> <<>>]
         /\ \A n \in 1..Len(items) :
              StrategyAfter(powers, items)[n] = ApplyItem(StrategyAfter(powers, items)[n - 1], n)
<1> DEFINE start == [current |-> powers, updates |-> items, owner |-> <<>>]
           Value(f, m) == IF m = 0 THEN start ELSE ApplyItem(f[m - 1], m)
           Is(f, n) == f = [m \in 0..n |-> Value(f, m)]
           G == {n \in Nat : \E f : Is(f, n)}
<1>1. 0 \in G
  <2> DEFINE f == [m \in 0..0 |-> start]
  <2>1. f = [m \in 0..0 |-> Value(f, m)]
    OBVIOUS
  <2>2. QED
    BY Zenon, <2>1
<1>2. ASSUME NEW n \in Nat, n \in G PROVE n + 1 \in G
  <2>1. PICK f : Is(f, n)
    BY Zenon, <1>2
  <2> DEFINE g == [m \in 0..(n + 1) |-> IF m <= n THEN f[m] ELSE ApplyItem(f[n], m)]
  <2>2. \A m \in 0..n : f[m] = Value(f, m)
    BY Zenon, <2>1
  <2>3. \A m \in 0..(n + 1) : g[m] = Value(g, m)
    <3>1. SUFFICES ASSUME NEW m \in 0..(n + 1) PROVE g[m] = Value(g, m)
      BY Zenon
    <3>2. CASE m = 0
      <4>1. g[0] = f[0] /\ f[0] = start
        BY <2>2
      <4>2. QED
        BY Zenon, <3>2, <4>1
    <3>3. CASE m \in 1..n
      <4>1. /\ m \in 0..n /\ m - 1 \in 0..(n + 1) /\ m - 1 <= n /\ m # 0
            /\ m <= n
        BY <3>3
      <4>2. g[m] = f[m] /\ g[m - 1] = f[m - 1]
        BY Zenon, <4>1
      <4> HIDE DEF g
      <4>3. QED
        BY Zenon, <4>1, <4>2, <2>2
    <3>4. CASE m = n + 1
      <4>1. ~(m <= n) /\ m - 1 = n /\ n \in 0..(n + 1) /\ m # 0 /\ n <= n
        BY <3>4
      <4>2. g[m] = ApplyItem(f[n], m) /\ g[n] = f[n]
        BY Zenon, <4>1
      <4> HIDE DEF g
      <4>3. QED
        BY Zenon, <4>1, <4>2
    <3>5. QED
      BY <3>2, <3>3, <3>4
  <2>4. g = [m \in 0..(n + 1) |-> g[m]]
    BY Zenon
  <2> HIDE DEF g, Value
  <2>5. Is(g, n + 1)
    BY Zenon, <2>3, <2>4
  <2>6. n + 1 \in Nat
    OBVIOUS
  <2>7. QED
    BY Zenon, <2>5, <2>6
<1> HIDE DEF G
<1>3. Len(items) \in G
  BY Zenon, <1>1, <1>2, NatSetInduction
<1> DEFINE s == StrategyAfter(powers, items)
<1>4. s = CHOOSE f : Is(f, Len(items))
  BY Zenon DEF StrategyAfter
<1>5. Is(s, Len(items))
  <2> HIDE DEF s, Is
  <2> QED BY Zenon, <1>3, <1>4 DEF G
<1> HIDE DEF s
<1>6. \A m \in 0..Len(items) : s[m] = Value(s, m)
  BY Zenon, <1>5
<1>7. 0 \in 0..Len(items) /\ \A n \in 1..Len(items) : n \in 0..Len(items) /\ n # 0
  OBVIOUS
<1>8. QED
  BY Zenon, <1>6, <1>7 DEF s

\* And so does a block with its transactions.
LEMMA DeliveredAfterSteps ==
  ASSUME NEW strategy, NEW b, Len(b) \in Nat
  PROVE  /\ DeliveredAfter(strategy, b)[0] = strategy
         /\ \A n \in 1..Len(b) :
              DeliveredAfter(strategy, b)[n] = CollectTx(DeliveredAfter(strategy, b)[n - 1], b[n])
<1> DEFINE Value(f, m) == IF m = 0 THEN strategy ELSE CollectTx(f[m - 1], b[m])
           Is(f, n) == f = [m \in 0..n |-> Value(f, m)]
           G == {n \in Nat : \E f : Is(f, n)}
<1>1. 0 \in G
  <2> DEFINE f == [m \in 0..0 |-> strategy]
  <2>1. f = [m \in 0..0 |-> Value(f, m)]
    OBVIOUS
  <2>2. QED
    BY Zenon, <2>1
<1>2. ASSUME NEW n \in Nat, n \in G PROVE n + 1 \in G
  <2>1. PICK f : Is(f, n)
    BY Zenon, <1>2
  <2> DEFINE g == [m \in 0..(n + 1) |-> IF m <= n THEN f[m] ELSE CollectTx(f[n], b[m])]
  <2>2. \A m \in 0..n : f[m] = Value(f, m)
    BY Zenon, <2>1
  <2>3. \A m \in 0..(n + 1) : g[m] = Value(g, m)
    <3>1. SUFFICES ASSUME NEW m \in 0..(n + 1) PROVE g[m] = Value(g, m)
      BY Zenon
    <3>2. CASE m = 0
      <4>1. g[0] = f[0] /\ f[0] = strategy
        BY <2>2
      <4>2. QED
        BY Zenon, <3>2, <4>1
    <3>3. CASE m \in 1..n
      <4>1. /\ m \in 0..n /\ m - 1 \in 0..(n + 1) /\ m - 1 <= n /\ m # 0
            /\ m <= n
        BY <3>3
      <4>2. g[m] = f[m] /\ g[m - 1] = f[m - 1]
        BY Zenon, <4>1
      <4> HIDE DEF g
      <4>3. QED
        BY Zenon, <4>1, <4>2, <2>2
    <3>4. CASE m = n + 1
      <4>1. ~(m <= n) /\ m - 1 = n /\ n \in 0..(n + 1) /\ m # 0 /\ n <= n
        BY <3>4
      <4>2. g[m] = CollectTx(f[n], b[m]) /\ g[n] = f[n]
        BY Zenon, <4>1
      <4> HIDE DEF g
      <4>3. QED
        BY Zenon, <4>1, <4>2
    <3>5. QED
      BY <3>2, <3>3, <3>4
  <2>4. g = [m \in 0..(n + 1) |-> g[m]]
    BY Zenon
  <2> HIDE DEF g, Value
  <2>5. Is(g, n + 1)
    BY Zenon, <2>3, <2>4
  <2>6. n + 1 \in Nat
    OBVIOUS
  <2>7. QED
    BY Zenon, <2>5, <2>6
<1> HIDE DEF G
<1>3. Len(b) \in G
  BY Zenon, <1>1, <1>2, NatSetInduction
<1> DEFINE s == DeliveredAfter(strategy, b)
<1>4. s = CHOOSE f : Is(f, Len(b))
  BY Zenon DEF DeliveredAfter
<1>5. Is(s, Len(b))
  <2> HIDE DEF s, Is
  <2> QED BY Zenon, <1>3, <1>4 DEF G
<1> HIDE DEF s
<1>6. \A m \in 0..Len(b) : s[m] = Value(s, m)
  BY Zenon, <1>5
<1>7. 0 \in 0..Len(b) /\ \A n \in 1..Len(b) : n \in 0..Len(b) /\ n # 0
  OBVIOUS
<1>8. QED
  BY Zenon, <1>6, <1>7 DEF s

\* The updates that EndBlock may return.
Update == [key : Keys, power : Nat]

\* The powers of a validator set.
LEMMA PowersOfSet ==
  ASSUME NEW s, IsSet(s)
  PROVE  IsPowers(PowersOf(s)) /\ DOMAIN PowersOf(s) = DOMAIN s
BY DEF IsSet, IsPowers, PowersOf

\* A round of updateValidators gives the key the power of the update.
LEMMA UpdateSets ==
  ASSUME NEW s, IsSet(s), NEW v \in Update
  PROVE  /\ IsSet(ApplyUpdate(s, v))
         /\ Weight(PowersOf(ApplyUpdate(s, v))) = [Weight(PowersOf(s)) EXCEPT ![v.key] = v.power]
<1>1. CASE v.key \notin DOMAIN s
  <2> DEFINE t == [j \in DOMAIN s \cup {v.key} |->
                     IF j = v.key THEN [power |-> v.power, accum |-> 0] ELSE s[j]]
  <2>1. ApplyUpdate(s, v) = t
    BY Zenon, <1>1 DEF ApplyUpdate, With
  <2>2. IsSet(t)
    BY DEF IsSet, Update
  <2>3. DOMAIN t = DOMAIN s \cup {v.key} /\ t[v.key].power = v.power
    OBVIOUS
  <2>4. \A j \in DOMAIN s : t[j] = s[j]
    BY <1>1
  <2> HIDE DEF t
  <2>5. Weight(PowersOf(t)) = [Weight(PowersOf(s)) EXCEPT ![v.key] = v.power]
    BY Zenon, <2>3, <2>4 DEF Weight, PowersOf
  <2>6. QED
    BY <2>1, <2>2, <2>5
<1>2. CASE v.key \in DOMAIN s /\ v.power = 0
  BY Zenon, <1>2 DEF IsSet, Update, ApplyUpdate, Without, Weight, PowersOf
<1>3. CASE v.key \in DOMAIN s /\ v.power # 0
  BY Zenon, <1>3 DEF IsSet, Update, ApplyUpdate, Weight, PowersOf
<1>4. QED
  BY <1>1, <1>2, <1>3

\* It moves no more power than changeInVotingPowerMoreOrEqualToOneThird counts
\* for the update, even when another update has named the same key before.
LEMMA UpdateMoves ==
  ASSUME NEW p, IsPowers(p), NEW s, IsSet(s), NEW v \in Update
  PROVE  Sum(Distance(p, PowersOf(ApplyUpdate(s, v))), Keys)
           <= Sum(Distance(p, PowersOf(s)), Keys) + Moved(p, v)
<1> DEFINE w == Weight(p)
           x == Weight(PowersOf(s))
           y == Weight(PowersOf(ApplyUpdate(s, v)))
           d == Distance(p, PowersOf(s))
           e == Distance(p, PowersOf(ApplyUpdate(s, v)))
           k == v.key
<1>1. IsFiniteSet(Keys) /\ k \in Keys /\ v.power \in Nat
  BY ValidatorsAssumption DEF Update
<1>2. w \in [Keys -> Nat] /\ x \in [Keys -> Nat]
  BY PowersOfSet, WeightSum
<1>3. y = [x EXCEPT ![k] = v.power]
  BY UpdateSets
<1>4. Moved(p, v) = Abs(w[k] - v.power)
  BY <1>1 DEF Moved, Weight, Abs
<1>5. d = [j \in Keys |-> Abs(w[j] - x[j])] /\ e = [j \in Keys |-> Abs(w[j] - y[j])]
  BY DEF Distance
<1> HIDE DEF w, x, y, d, e, k
<1>6. \A j \in Keys : d[j] \in Nat /\ e[j] \in Nat
  BY <1>1, <1>2, <1>3, <1>5 DEF Abs
<1>7. e[k] = Moved(p, v) /\ \A j \in Keys \ {k} : d[j] = e[j]
  BY <1>1, <1>2, <1>3, <1>4, <1>5
<1>8. Sum(d, Keys) = d[k] + Sum(d, Keys \ {k}) /\ Sum(d, Keys \ {k}) \in Int
  <2>1. \A j \in Keys : d[j] \in Int
    BY <1>6
  <2>2. QED
    BY Zenon, <1>1, <2>1, SumTerms
<1>9. Sum(e, Keys) = e[k] + Sum(e, Keys \ {k}) /\ Sum(e, Keys \ {k}) \in Int
  <2>1. \A j \in Keys : e[j] \in Int
    BY <1>6
  <2>2. QED
    BY Zenon, <1>1, <2>1, SumTerms
<1>10. Sum(d, Keys \ {k}) = Sum(e, Keys \ {k})
  <2>1. IsFiniteSet(Keys \ {k}) /\ \A j \in Keys \ {k} : d[j] \in Int /\ d[j] = e[j]
    BY <1>1, <1>6, <1>7, FS_Subset
  <2>2. QED
    BY <2>1, SumAgree
<1>11. Sum(e, Keys) <= Sum(d, Keys) + Moved(p, v)
  BY <1>1, <1>6, <1>7, <1>8, <1>9, <1>10
<1>12. QED
  BY Zenon, <1>11 DEF d, e

\* The sum over an initial segment of the naturals.
LEMMA SumUpTo ==
  ASSUME NEW f, NEW n \in Nat, \A i \in 1..(n + 1) : f[i] \in Int
  PROVE  Sum(f, 1..(n + 1)) = f[n + 1] + Sum(f, 1..n)
<1> DEFINE I == 1..(n + 1)
           m == n + 1
<1>1. IsFiniteSet(I) /\ m \in I /\ I \ {m} = 1..n
  BY FS_Interval
<1>2. \A i \in I : f[i] \in Int
  OBVIOUS
<1>3. Sum(f, I) = f[m] + Sum(f, I \ {m})
  <2> HIDE DEF I, m
  <2>1. QED
    BY <1>1, <1>2, SumTerms
<1>4. QED
  BY Zenon, <1>1, <1>3

\* All rounds together move no more than Change counts.
LEMMA UpdatesMove ==
  ASSUME NEW s, IsSet(s), NEW u \in Seq(Update)
  PROVE  /\ IsSet(updateValidators(s, u))
         /\ Sum(Distance(PowersOf(s), PowersOf(updateValidators(s, u))), Keys)
              <= Change(PowersOf(s), u)
         /\ Change(PowersOf(s), u) \in Int
<1> DEFINE p == PowersOf(s)
           after == SetAfter(s, u)
           moved == [i \in DOMAIN u |-> Moved(p, u[i])]
           far(n) == Sum(Distance(p, PowersOf(after[n])), Keys)
           G == {n \in Nat : n <= Len(u) =>
                   /\ IsSet(after[n])
                   /\ far(n) <= Sum(moved, 1..n)
                   /\ Sum(moved, 1..n) \in Int /\ far(n) \in Int}
<1>1. /\ Len(u) \in Nat /\ DOMAIN u = 1..Len(u) /\ \A i \in 1..Len(u) : u[i] \in Update
  OBVIOUS
<1>2. IsPowers(p) /\ IsFiniteSet(Keys)
  BY PowersOfSet, ValidatorsAssumption
<1>3. \A i \in 1..Len(u) : moved[i] = Moved(p, u[i]) /\ moved[i] \in Int
  <2>1. \A v \in Update : Moved(p, v) \in Int
    BY <1>2 DEF IsPowers, Update, Moved, Abs
  <2> HIDE DEF p
  <2>2. QED
    BY <1>1, <2>1
<1>4. /\ after[0] = s
      /\ \A n \in 1..Len(u) : after[n] = ApplyUpdate(after[n - 1], u[n])
  BY <1>1, SetAfterSteps
<1> HIDE DEF p, after, moved
<1>5. ASSUME NEW q, IsPowers(q) PROVE Sum(Distance(p, q), Keys) \in Int
  <2>1. Weight(p) \in [Keys -> Nat] /\ Weight(q) \in [Keys -> Nat]
    BY <1>2, <1>5, WeightSum
  <2>2. \A k \in Keys : Distance(p, q)[k] \in Int
    BY <2>1 DEF Distance, Abs
  <2>3. QED
    BY <1>2, <2>2, SumTerms
<1>6. 0 \in G
  <2>1. 1..0 = {}
    OBVIOUS
  <2>2. Sum(moved, {}) = 0
    BY SumTerms, FS_EmptySet
  <2>3. far(0) = 0
    <3>1. Weight(p) \in [Keys -> Nat]
      BY <1>2, WeightSum
    <3>2. \A k \in Keys : Distance(p, p)[k] = 0
      BY <3>1 DEF Distance, Abs
    <3>3. Sum(Distance(p, p), Keys) = 0
      BY <1>2, <3>2, SumZero
    <3>4. QED
      BY Zenon, <1>4, <3>3 DEF p
  <2>4. IsSet(after[0])
    BY Zenon, <1>4
  <2> HIDE DEF far
  <2>5. QED
    BY <2>1, <2>2, <2>3, <2>4
<1>7. ASSUME NEW n \in Nat, n \in G PROVE n + 1 \in G
  <2>1. SUFFICES ASSUME n + 1 <= Len(u)
                 PROVE  /\ IsSet(after[n + 1])
                        /\ far(n + 1) <= Sum(moved, 1..(n + 1))
                        /\ Sum(moved, 1..(n + 1)) \in Int /\ far(n + 1) \in Int
    <3>1. n + 1 \in Nat
      OBVIOUS
    <3>2. QED
      BY Zenon, <3>1
  <2>2. n + 1 \in 1..Len(u) /\ (n + 1) - 1 = n /\ n <= Len(u)
    BY <1>1, <2>1
  <2>3. /\ IsSet(after[n]) /\ far(n) <= Sum(moved, 1..n)
        /\ Sum(moved, 1..n) \in Int /\ far(n) \in Int
    BY Zenon, <1>7, <2>2
  <2>4. after[n + 1] = ApplyUpdate(after[n], u[n + 1])
    BY Zenon, <1>4, <2>2
  <2>5. u[n + 1] \in Update
    BY Zenon, <1>1, <2>2
  <2>6. IsSet(after[n + 1])
    BY <2>3, <2>4, <2>5, UpdateSets
  <2>7. far(n + 1) <= far(n) + moved[n + 1]
    BY Zenon, <1>2, <1>3, <2>2, <2>3, <2>4, <2>5, UpdateMoves
  <2>8. far(n + 1) \in Int
    BY Zenon, <1>5, <2>6, PowersOfSet
  <2>9. Sum(moved, 1..(n + 1)) = moved[n + 1] + Sum(moved, 1..n)
    <3>1. \A i \in 1..(n + 1) : moved[i] \in Int
      BY <1>1, <1>3, <2>1
    <3> HIDE DEF moved
    <3>2. QED
      BY Zenon, <3>1, SumUpTo
  <2>10. moved[n + 1] \in Int
    BY Zenon, <1>3, <2>2
  <2> HIDE DEF far
  <2>11. QED
    BY <2>3, <2>6, <2>7, <2>8, <2>9, <2>10
<1>8. Len(u) \in G
  <2> HIDE DEF G
  <2> QED BY Zenon, <1>1, <1>6, <1>7, NatSetInduction
<1>9. Change(p, u) = Sum(moved, 1..Len(u))
  <2>1. DOMAIN moved = 1..Len(u)
    BY <1>1 DEF moved
  <2>2. QED
    BY Zenon, <2>1 DEF Change, SumFunction, Sum, moved
<1>10. updateValidators(s, u) = after[Len(u)]
  BY Zenon DEF updateValidators, after
<1>11. Len(u) <= Len(u)
  BY <1>1
<1>12. QED
  BY Zenon, <1>1, <1>8, <1>9, <1>10, <1>11 DEF p

\* Without updates the set stays as it is.
LEMMA NoUpdates ==
  ASSUME NEW s
  PROVE  updateValidators(s, <<>>) = s
BY SetAfterSteps DEF updateValidators

\* The totals of two sets are no further apart than the sets.
LEMMA TotalsApart ==
  ASSUME NEW p, NEW q, IsPowers(p), IsPowers(q)
  PROVE  /\ Sum(Distance(p, q), Keys) \in Nat
         /\ Total(p) <= Total(q) + Sum(Distance(p, q), Keys)
<1>1. PICK up, down \in [Keys -> Nat] :
        /\ Sum(Distance(p, q), Keys) = Sum(up, Keys) + Sum(down, Keys)
        /\ \A c \in SUBSET Keys :
             Sum(Weight(q), c) + Sum(down, c) = Sum(Weight(p), c) + Sum(up, c)
  BY Differences
<1>2. Sum(up, Keys) \in Nat /\ Sum(down, Keys) \in Nat
  <2>1. (\A k \in Keys : up[k] \in Nat) /\ (\A k \in Keys : down[k] \in Nat)
    OBVIOUS
  <2>2. IsFiniteSet(Keys) /\ Keys \in SUBSET Keys
    BY ValidatorsAssumption
  <2>3. QED
    BY Zenon, <2>1, <2>2, SumPart
<1>3. /\ Total(p) = Sum(Weight(p), Keys) /\ Total(q) = Sum(Weight(q), Keys)
      /\ Total(p) \in Nat /\ Total(q) \in Nat
  BY Zenon, WeightSum
<1>4. Sum(Weight(q), Keys) + Sum(down, Keys) = Sum(Weight(p), Keys) + Sum(up, Keys)
  BY Zenon, <1>1
<1>5. QED
  BY SMTT(30), <1>1, <1>2, <1>3, <1>4

\* updateValidators after updates that changeInVotingPowerMoreOrEqualToOneThird
\* lets through: the set differs from the one before by at most a third, and it
\* is never empty.
LEMMA UpdateClose ==
  ASSUME NEW s, IsSet(s), Total(PowersOf(s)) > 0, NEW u \in Seq(Update),
         ~changeInVotingPowerMoreOrEqualToOneThird(PowersOf(s), u)
  PROVE  /\ IsSet(updateValidators(s, u))
         /\ 3 * Sum(Distance(PowersOf(s), PowersOf(updateValidators(s, u))), Keys)
              <= Total(PowersOf(s))
         /\ Total(PowersOf(updateValidators(s, u))) > 0
<1> DEFINE p == PowersOf(s)
           q == PowersOf(updateValidators(s, u))
           d == Sum(Distance(p, q), Keys)
<1>1. IsSet(updateValidators(s, u)) /\ d <= Change(p, u) /\ Change(p, u) \in Int
  BY UpdatesMove
<1>2. IsPowers(p) /\ IsPowers(q)
  BY <1>1, PowersOfSet
<1>3. Total(p) \in Nat /\ Total(q) \in Nat
  BY <1>2, WeightSum
<1>4. d \in Nat /\ Total(p) <= Total(q) + d
  <2> HIDE DEF p, q
  <2>1. QED
    BY Zenon, <1>2, TotalsApart
<1>7. 3 * d <= Total(p)
  <2>1. CASE u = <<>>
    <3>1. q = p
      BY Zenon, <2>1, NoUpdates
    <3>2. Weight(p) \in [Keys -> Nat] /\ IsFiniteSet(Keys)
      BY <1>2, WeightSum, ValidatorsAssumption
    <3>3. \A k \in Keys : Distance(p, q)[k] = 0
      BY <3>1, <3>2 DEF Distance, Abs
    <3>4. d = 0
      BY <3>2, <3>3, SumZero
    <3>5. QED
      BY <1>3, <3>4
  <2>2. CASE u # <<>>
    <3>1. ~(Change(p, u) >= Total(p) \div 3)
      BY Zenon, <2>2 DEF changeInVotingPowerMoreOrEqualToOneThird
    <3> HIDE DEF p, d
    <3>2. d \in Int
      BY <1>4
    <3>3. QED
      BY <1>1, <1>3, <3>1, <3>2
  <2>3. QED
    BY <2>1, <2>2
<1>8. Total(p) > 0
  OBVIOUS
<1>9. Total(q) > 0
  <2> HIDE DEF p, q, d
  <2>1. QED
    BY <1>3, <1>4, <1>7, <1>8
<1>10. QED
  BY <1>1, <1>7, <1>9

\* A set with some voting power is not empty.
LEMMA SomeValidator ==
  ASSUME NEW p, IsPowers(p), Total(p) > 0
  PROVE  DOMAIN p # {}
<1>1. SUFFICES ASSUME DOMAIN p = {} PROVE FALSE
  OBVIOUS
<1>2. Total(p) = Sum(p, {})
  BY Zenon, <1>1 DEF Total, SumFunction, Sum
<1>3. Sum(p, {}) = 0
  BY FS_EmptySet, SumZero
<1>4. QED
  BY <1>2, <1>3

-----------------------------------------------------------------------------
(* IncrementAccum.                                                         *)

\* The key that Mostest chooses exists.
LEMMA MostestExists ==
  ASSUME NEW s, IsSet(s), DOMAIN s # {}
  PROVE  /\ Mostest(s) \in DOMAIN s
         /\ \A j \in DOMAIN s : s[j].accum <= s[Mostest(s)].accum
<1> DEFINE D == DOMAIN s
           Beats(k, j) == \/ s[k].accum > s[j].accum
                          \/ s[k].accum = s[j].accum /\ k < j
           First(T) == \E k \in T : \A j \in T \ {k} : Beats(k, j)
           G == {T \in SUBSET D : T = {} \/ First(T)}
<1>1. IsFiniteSet(D) /\ D \subseteq Nat
  BY ValidatorsAssumption, FS_Subset DEF IsSet
<1>2. \A k \in D : s[k].accum \in Int
  BY DEF IsSet
<1>3. ASSUME NEW T \in SUBSET D, \A R \in SUBSET T : R # T => R \in G
      PROVE  T \in G
  <2>1. CASE T = {}
    BY <2>1
  <2>2. CASE T # {}
    <3>1. PICK x \in T : TRUE
      BY <2>2
    <3>2. T \ {x} \in G
      BY Zenon, <1>3, <3>1
    <3>3. CASE T \ {x} = {}
      <4>1. \A j \in T \ {x} : Beats(x, j)
        BY <3>3
      <4>2. QED
        BY Zenon, <3>1, <4>1
    <3>4. CASE T \ {x} # {}
      <4>1. PICK k \in T \ {x} : \A j \in (T \ {x}) \ {k} : Beats(k, j)
        BY Zenon, <3>2, <3>4
      <4>2. Beats(k, x) \/ Beats(x, k)
        BY <1>1, <1>2, <3>1, <4>1
      <4>3. CASE Beats(k, x)
        <5>1. \A j \in T \ {k} : Beats(k, j)
          BY Zenon, <4>1, <4>3
        <5>2. QED
          BY Zenon, <4>1, <5>1
      <4>4. CASE Beats(x, k)
        <5>1. ASSUME NEW j \in T \ {x} PROVE Beats(x, j)
          <6>1. CASE j = k
            BY <4>4, <6>1
          <6>2. CASE j # k
            <7>1. Beats(k, j)
              BY Zenon, <4>1, <6>2
            <7>2. /\ s[k].accum \in Int /\ s[j].accum \in Int /\ s[x].accum \in Int
                  /\ k \in Nat /\ j \in Nat /\ x \in Nat
              BY <1>1, <1>2, <3>1, <4>1
            <7>3. QED
              BY <4>4, <7>1, <7>2
          <6>3. QED
            BY <6>1, <6>2
        <5>2. QED
          BY Zenon, <3>1, <5>1
      <4>5. QED
        BY Zenon, <4>2, <4>3, <4>4
    <3>5. QED
      BY Zenon, <3>3, <3>4
  <2>3. QED
    BY Zenon, <2>1, <2>2
<1>4. First(D)
  <2>1. D \in SUBSET D
    OBVIOUS
  <2>2. \A T \in SUBSET D : (\A R \in SUBSET T : R # T => R \in G) => T \in G
    BY Zenon, <1>3
  <2> HIDE DEF G
  <2>3. D \in G
    BY <1>1, <2>1, <2>2, SubsetInduction
  <2>4. QED
    BY Zenon, <2>3 DEF G
<1>5. Mostest(s) \in D /\ \A j \in D \ {Mostest(s)} : Beats(Mostest(s), j)
  <2>1. Mostest(s) = CHOOSE k \in D : \A j \in D \ {k} : Beats(k, j)
    BY Zenon DEF Mostest
  <2>2. QED
    BY Zenon, <1>4, <2>1
<1>6. QED
  BY <1>2, <1>5

\* What IncrementAccum keeps of the priorities (accum) of a set: they add up to
\* zero, none is a whole total below zero, and those of m of n validators add
\* up to at most m (n - m) / (m + 1) totals.
Accum(s) == [k \in DOMAIN s |-> s[k].accum]

Balanced(s) ==
  LET T == Total(PowersOf(s))
      n == Cardinality(DOMAIN s)
  IN  /\ Sum(Accum(s), DOMAIN s) = 0
      /\ \A k \in DOMAIN s : s[k].accum > -T
      /\ \A S \in SUBSET DOMAIN s :
           (Cardinality(S) + 1) * Sum(Accum(s), S) <= Cardinality(S) * (n - Cardinality(S)) * T

\* IncrementAccum gives every validator its power, takes the total from the one
\* with the highest priority, and leaves the powers alone.
LEMMA IncrementSet ==
  ASSUME NEW s, IsSet(s), DOMAIN s # {}
  PROVE  /\ IsSet(IncrementAccum(s)) /\ DOMAIN IncrementAccum(s) = DOMAIN s
         /\ PowersOf(IncrementAccum(s)) = PowersOf(s)
         /\ Proposer(s) \in DOMAIN s
         /\ \A k \in DOMAIN s :
              IncrementAccum(s)[k].accum =
                IF k = Proposer(s) THEN s[k].accum + s[k].power - Total(PowersOf(s))
                ELSE s[k].accum + s[k].power
         /\ \A k \in DOMAIN s :
              s[k].accum + s[k].power <= s[Proposer(s)].accum + s[Proposer(s)].power
<1> DEFINE c == Accrued(s)
           p == Proposer(s)
           T == Total(PowersOf(s))
<1>1. IsSet(c) /\ DOMAIN c = DOMAIN s
  BY DEF Accrued, IsSet
<1>2. \A k \in DOMAIN s : c[k].accum = s[k].accum + s[k].power /\ c[k].power = s[k].power
  BY DEF Accrued, IsSet
<1>3. p \in DOMAIN s /\ \A k \in DOMAIN s : c[k].accum <= c[p].accum
  <2>1. p = Mostest(c)
    BY Zenon DEF Proposer
  <2>2. QED
    BY Zenon, <1>1, <2>1, MostestExists
<1>4. T \in Int
  BY PowersOfSet, WeightSum
<1>5. IncrementAccum(s) = [c EXCEPT ![p].accum = @ - T]
  BY Zenon DEF IncrementAccum, Proposer
<1> HIDE DEF c, p, T
<1>6. /\ IsSet(IncrementAccum(s)) /\ DOMAIN IncrementAccum(s) = DOMAIN s
      /\ \A k \in DOMAIN s : /\ IncrementAccum(s)[k].power = c[k].power
                             /\ IncrementAccum(s)[k].accum =
                                  IF k = p THEN c[k].accum - T ELSE c[k].accum
  BY SMTT(30), <1>1, <1>3, <1>4, <1>5 DEF IsSet
<1>7. PowersOf(IncrementAccum(s)) = PowersOf(s)
  BY <1>2, <1>6 DEF PowersOf
<1>8. ASSUME NEW k \in DOMAIN s
      PROVE  IncrementAccum(s)[k].accum =
               IF k = p THEN s[k].accum + s[k].power - T ELSE s[k].accum + s[k].power
  <2>1. IncrementAccum(s)[k].accum = IF k = p THEN c[k].accum - T ELSE c[k].accum
    BY Zenon, <1>6
  <2>2. c[k].accum = s[k].accum + s[k].power
    BY Zenon, <1>2
  <2>3. s[k].accum \in Int /\ s[k].power \in Int
    BY DEF IsSet
  <2>4. QED
    BY <1>4, <2>1, <2>2, <2>3
<1>9. \A k \in DOMAIN s : s[k].accum + s[k].power <= s[p].accum + s[p].power
  BY <1>2, <1>3
<1>10. QED
  BY Zenon, <1>3, <1>6, <1>7, <1>8, <1>9 DEF p, T

\* A sum of terms that are at most b.
LEMMA SumCard ==
  ASSUME NEW S, IsFiniteSet(S), NEW f, NEW b \in Int,
         \A x \in S : f[x] \in Int /\ f[x] <= b
  PROVE  Sum(f, S) <= Cardinality(S) * b
<1> DEFINE G == {R \in SUBSET S : Sum(f, R) <= Cardinality(R) * b}
<1>1. ASSUME NEW R \in SUBSET S, \A Q \in SUBSET R : Q # R => Q \in G
      PROVE  R \in G
  <2>1. IsFiniteSet(R) /\ \A x \in R : f[x] \in Int
    BY FS_Subset
  <2>2. CASE R = {}
    <3>1. Sum(f, {}) = 0
      BY <2>1, SumTerms
    <3>2. Cardinality({}) = 0
      BY FS_EmptySet
    <3>3. QED
      BY <2>2, <3>1, <3>2
  <2>3. CASE R # {}
    <3>1. PICK x \in R : TRUE
      BY <2>3
    <3> DEFINE Q == R \ {x}
    <3>2. Sum(f, Q) <= Cardinality(Q) * b
      BY Zenon, <1>1, <3>1
    <3>3. Sum(f, R) = f[x] + Sum(f, Q) /\ Sum(f, Q) \in Int
      BY Zenon, <2>1, <3>1, SumTerms
    <3>4. Cardinality(Q) = Cardinality(R) - 1 /\ Cardinality(R) \in Nat
      BY <2>1, <3>1, FS_RemoveElement, FS_CardinalityType
    <3>5. f[x] <= b /\ f[x] \in Int
      BY <3>1
    <3> HIDE DEF Q
    <3>6. (Cardinality(R) - 1) * b + b = Cardinality(R) * b
      BY <3>4
    <3>7. Sum(f, R) <= Cardinality(R) * b
      BY <3>2, <3>3, <3>4, <3>5, <3>6
    <3>8. QED
      BY Zenon, <3>7
  <2>4. QED
    BY Zenon, <2>2, <2>3
<1>2. S \in SUBSET S /\ \A R \in SUBSET S : (\A Q \in SUBSET R : Q # R => Q \in G) => R \in G
  BY Zenon, <1>1
<1>3. S \in G
  <2> HIDE DEF G
  <2>1. QED
    BY SMTT(30), <1>2, SubsetInduction
<1>4. QED
  BY Zenon, <1>3

\* The order of the products of integers with a natural number.
LEMMA Products ==
  ASSUME NEW m \in Nat, NEW x \in Int, NEW y \in Int
  PROVE  /\ x <= y => m * x <= m * y
         /\ (m + 1) * x <= (m + 1) * y => x <= y
<1>1. x <= y => m * x <= m * y
  OBVIOUS
<1>2. x > y => (m + 1) * x > (m + 1) * y
  OBVIOUS
<1>3. QED
  BY <1>1, <1>2

\* The arithmetic of a turn that goes to none of m of n validators: A is what
\* they have before the proposer pays, b the most that any validator has, and u
\* what they and the proposer had a turn ago.
LEMMA TurnElsewhere ==
  ASSUME NEW m \in Nat, NEW n \in Nat, m < n, NEW T \in Nat,
         NEW A \in Int, NEW b \in Int, NEW u \in Int,
         A <= m * b, A + b <= u + T,
         (m + 2) * u <= (m + 1) * (n - (m + 1)) * T
  PROVE  (m + 1) * A <= m * (n - m) * T
<1> DEFINE d == n - (m + 1)
<1>1. d \in Nat /\ n - m = d + 1
  OBVIOUS
<1>2. (m + 2) * u <= (m + 1) * d * T
  OBVIOUS
<1> HIDE DEF d
<1>3. (m + 1) * A <= m * (A + b)
  <2>1. (m + 1) * A = m * A + A /\ m * (A + b) = m * A + m * b
    OBVIOUS
  <2>2. m * A \in Int /\ m * b \in Int
    OBVIOUS
  <2>3. QED
    BY <2>1, <2>2
<1>4. m * (A + b) <= m * (u + T)
  BY Products
<1>5. (m + 2) * (u + T) <= (m + 2) * ((d + 1) * T)
  <2>1. (m + 2) * (u + T) = (m + 2) * u + (m + 2) * T
    OBVIOUS
  <2>2. (m + 2) * ((d + 1) * T) = (m + 1) * d * T + d * T + (m + 2) * T
    BY <1>1
  <2>3. d * T >= 0 /\ d * T \in Int
    BY <1>1
  <2>4. (m + 2) * u \in Int /\ (m + 1) * d * T \in Int /\ (m + 2) * T \in Int
    BY <1>1
  <2>5. QED
    BY <1>2, <2>1, <2>2, <2>3, <2>4
<1>6. u + T <= (d + 1) * T
  <2>1. m + 1 \in Nat /\ u + T \in Int /\ (d + 1) * T \in Int /\ (m + 1) + 1 = m + 2
    BY <1>1
  <2>2. QED
    BY <1>5, <2>1, Products
<1>7. m * (u + T) <= m * ((d + 1) * T)
  BY <1>1, <1>6, Products
<1>8. m * ((d + 1) * T) = m * (n - m) * T
  BY <1>1
<1>9. (m + 1) * A \in Int /\ m * (A + b) \in Int /\ m * (u + T) \in Int /\ m * ((d + 1) * T) \in Int
  BY <1>1
<1>10. QED
  BY <1>3, <1>4, <1>7, <1>8, <1>9

\* IncrementAccum keeps the priorities balanced.
LEMMA IncrementBalanced ==
  ASSUME NEW s, IsSet(s), Total(PowersOf(s)) > 0, Balanced(s)
  PROVE  Balanced(IncrementAccum(s))
<1> DEFINE D == DOMAIN s
           n == Cardinality(D)
           w == PowersOf(s)
           T == Total(w)
           p == Proposer(s)
           t == IncrementAccum(s)
           a == Accum(s)
           c == [k \in D |-> a[k] + w[k]]
           e == Accum(t)
<1>1. /\ IsFiniteSet(D) /\ n \in Nat /\ D # {}
      /\ T \in Nat /\ T > 0 /\ T = Sum(w, D)
  <2>1. IsPowers(w) /\ DOMAIN w = D
    BY PowersOfSet
  <2>2. T = Sum(w, D)
    BY Zenon, <2>1 DEF Total, SumFunction, Sum
  <2>3. T \in Nat
    BY Zenon, <2>1, WeightSum
  <2>4. D # {}
    BY Zenon, <2>1, SomeValidator
  <2>5. IsFiniteSet(D)
    BY ValidatorsAssumption, FS_Subset DEF IsSet
  <2>6. QED
    BY SMTT(30), <2>2, <2>3, <2>4, <2>5, FS_CardinalityType
<1>2. \A k \in D : a[k] \in Int /\ w[k] \in Nat /\ c[k] \in Int /\ c[k] = a[k] + w[k]
  BY DEF Accum, PowersOf, IsSet
<1>3. p \in D /\ DOMAIN t = D /\ PowersOf(t) = w
  BY Zenon, <1>1, IncrementSet
<1>4. \A k \in D : a[k] = s[k].accum /\ w[k] = s[k].power /\ e[k] = t[k].accum
  BY <1>3 DEF Accum, PowersOf
<1>5. \A k \in D : /\ c[k] <= c[p]
                   /\ k # p => e[k] = c[k]
                   /\ e[p] = c[p] - T
  <2>1. \A k \in D :
          /\ s[k].accum + s[k].power <= s[p].accum + s[p].power
          /\ t[k].accum = IF k = p THEN s[k].accum + s[k].power - T ELSE s[k].accum + s[k].power
    BY ZenonT(30), <1>1, IncrementSet
  <2>2. c[p] = s[p].accum + s[p].power /\ e[p] = s[p].accum + s[p].power - T
    <3>1. c[p] = s[p].accum + s[p].power
      BY Zenon, <1>2, <1>3, <1>4
    <3>2. e[p] = s[p].accum + s[p].power - T
      BY Zenon, <1>3, <1>4, <2>1
    <3>3. QED
      BY Zenon, <3>1, <3>2
  <2>3. ASSUME NEW k \in D
        PROVE  c[k] <= c[p] /\ (k # p => e[k] = c[k])
    <3>1. c[k] = s[k].accum + s[k].power
      BY <1>2, <1>4
    <3>2. k # p => e[k] = s[k].accum + s[k].power
      BY <1>4, <2>1
    <3> HIDE DEF D, c, e, p
    <3>3. QED
      BY SMTT(30), <2>1, <2>2, <3>1, <3>2
  <2>4. e[p] = c[p] - T
    <3>1. s[p].accum \in Int /\ s[p].power \in Int
      BY <1>3 DEF IsSet
    <3> HIDE DEF c, e, p, T
    <3>2. QED
      BY <1>1, <2>2, <3>1
  <2>5. QED
    BY Zenon, <2>3, <2>4
<1>6. /\ Sum(a, D) = 0
      /\ \A k \in D : a[k] > -T
      /\ \A S \in SUBSET D :
           (Cardinality(S) + 1) * Sum(a, S) <= Cardinality(S) * (n - Cardinality(S)) * T
  <2>1. /\ Sum(a, D) = 0
        /\ \A k \in D : s[k].accum > -T
        /\ \A S \in SUBSET D :
             (Cardinality(S) + 1) * Sum(a, S) <= Cardinality(S) * (n - Cardinality(S)) * T
    BY Zenon DEF Balanced
  <2>2. QED
    BY Zenon, <1>4, <2>1
<1> HIDE DEF D, n, w, T, p, t, a, c, e
<1>7. ASSUME NEW S \in SUBSET D
      PROVE  /\ IsFiniteSet(S) /\ Cardinality(S) \in Nat
             /\ Sum(a, S) \in Int /\ Sum(w, S) \in Nat /\ Sum(w, S) <= T
             /\ Sum(c, S) = Sum(a, S) + Sum(w, S)
  <2>1. IsFiniteSet(S)
    BY <1>1, FS_Subset
  <2>2. Sum(a, S) \in Int
    <3>1. \A k \in S : a[k] \in Int
      BY <1>2
    <3>2. QED
      BY <2>1, <3>1, SumTerms
  <2>3. Sum(w, S) \in Nat /\ Sum(w, S) <= T
    <3>1. \A k \in D : w[k] \in Nat
      BY <1>2
    <3>2. /\ Sum(w, S) \in Nat /\ Sum(w, D \ S) \in Nat
          /\ Sum(w, D) = Sum(w, S) + Sum(w, D \ S)
      BY <1>1, <3>1, SumPart
    <3>3. QED
      BY <1>1, <3>2
  <2>4. Sum(c, S) = Sum(a, S) + Sum(w, S)
    <3>1. \A k \in S : a[k] \in Int /\ w[k] \in Int /\ c[k] = a[k] + w[k]
      BY <1>2
    <3>2. QED
      BY <2>1, <3>1, SumPlus
  <2>5. QED
    BY <2>1, <2>2, <2>3, <2>4, FS_CardinalityType
<1>8. ASSUME NEW S \in SUBSET D, p \notin S
      PROVE  Sum(e, S) = Sum(c, S)
  <2>1. \A k \in S : c[k] \in Int /\ c[k] = e[k]
    BY <1>2, <1>5, <1>8
  <2>2. IsFiniteSet(S)
    BY <1>7
  <2>3. QED
    BY <2>1, <2>2, SumAgree
<1>9. ASSUME NEW S \in SUBSET D, p \in S
      PROVE  Sum(e, S) = Sum(c, S) - T
  <2>1. (\A k \in S : c[k] \in Int) /\ (\A k \in S : e[k] \in Int)
    BY <1>1, <1>2, <1>5
  <2>2. IsFiniteSet(S)
    BY <1>7
  <2>3. Sum(c, S) = c[p] + Sum(c, S \ {p}) /\ Sum(c, S \ {p}) \in Int
    BY SMTT(30), <1>9, <2>1, <2>2, SumTerms
  <2>4. Sum(e, S) = e[p] + Sum(e, S \ {p})
    BY <1>9, <2>1, <2>2, SumTerms
  <2>5. Sum(e, S \ {p}) = Sum(c, S \ {p})
    BY <1>8
  <2>6. e[p] = c[p] - T /\ c[p] \in Int
    BY <1>2, <1>3, <1>5
  <2>7. QED
    BY <1>1, <2>3, <2>4, <2>5, <2>6
<1>10. D \in SUBSET D
  OBVIOUS
<1>11. Sum(c, D) = T
  BY <1>1, <1>6, <1>7, <1>10
<1>12. Sum(e, D) = 0
  BY <1>1, <1>3, <1>9, <1>10, <1>11
<1>13. c[p] > 0
  <2>1. SUFFICES ASSUME c[p] <= 0 PROVE FALSE
    BY <1>2, <1>3
  <2>2. \A k \in D : c[k] \in Int /\ c[k] <= 0
    BY <1>2, <1>3, <1>5, <2>1
  <2>3. 0 \in Int
    OBVIOUS
  <2>4. Sum(c, D) <= n * 0
    BY <1>1, <2>2, <2>3, SumCard DEF n
  <2>5. QED
    BY <1>1, <1>11, <2>4
<1>14. ASSUME NEW k \in D PROVE e[k] > -T
  <2>1. CASE k = p
    BY SMTT(30), <1>1, <1>2, <1>3, <1>5, <1>13, <2>1
  <2>2. CASE k # p
    <3>1. e[k] = a[k] + w[k] /\ a[k] \in Int /\ w[k] \in Nat /\ a[k] > -T
      BY <1>2, <1>5, <1>6, <2>2
    <3>2. QED
      BY <1>1, <3>1
  <2>3. QED
    BY <2>1, <2>2
<1>15. ASSUME NEW S \in SUBSET D
       PROVE  (Cardinality(S) + 1) * Sum(e, S) <= Cardinality(S) * (n - Cardinality(S)) * T
  <2> DEFINE m == Cardinality(S)
  <2>1. /\ IsFiniteSet(S) /\ m \in Nat
        /\ Sum(a, S) \in Int /\ Sum(w, S) \in Nat /\ Sum(w, S) <= T
        /\ Sum(c, S) = Sum(a, S) + Sum(w, S)
    BY <1>7
  <2>2. (m + 1) * Sum(a, S) <= m * (n - m) * T
    BY <1>6
  <2>3. CASE p \in S
    <3>1. Sum(e, S) = Sum(c, S) - T
      BY <1>9, <2>3
    <3>2. Sum(e, S) \in Int /\ Sum(e, S) <= Sum(a, S)
      BY <1>1, <2>1, <3>1
    <3> HIDE DEF m
    <3>3. (m + 1) * Sum(e, S) <= (m + 1) * Sum(a, S)
      <4>1. m + 1 \in Nat
        BY <2>1
      <4>2. QED
        BY <2>1, <3>2, <4>1, Products
    <3>4. /\ (m + 1) * Sum(e, S) \in Int /\ (m + 1) * Sum(a, S) \in Int
          /\ m * (n - m) * T \in Int
      BY <1>1, <2>1, <3>2
    <3>5. QED
      BY <2>2, <3>3, <3>4 DEF m
  <2>4. CASE p \notin S
    <3> DEFINE U == S \cup {p}
    <3>1. U \in SUBSET D /\ U \ {p} = S /\ p \in U
      BY <1>3, <2>4
    <3>2. Cardinality(U) = m + 1
      BY <2>1, <2>4, FS_AddElement
    <3>3. m < n
      <4>1. Cardinality(U) <= n
        BY <1>1, <3>1, FS_Subset DEF n
      <4>2. QED
        BY <1>1, <2>1, <3>2, <4>1
    <3>4. Sum(c, S) <= m * c[p]
      <4>1. \A k \in S : c[k] \in Int /\ c[k] <= c[p]
        BY <1>2, <1>5
      <4>2. c[p] \in Int
        BY <1>2, <1>3
      <4>3. QED
        BY Zenon, <2>1, <4>1, <4>2, SumCard
    <3>5. /\ IsFiniteSet(U) /\ Sum(a, U) \in Int /\ Sum(w, U) \in Nat /\ Sum(w, U) <= T
          /\ Sum(c, U) = Sum(a, U) + Sum(w, U)
      BY <1>7, <3>1
    <3>6. (Cardinality(U) + 1) * Sum(a, U) <= Cardinality(U) * (n - Cardinality(U)) * T
      BY <1>6, <3>1
    <3> HIDE DEF U, m
    <3>7. Sum(c, U) = c[p] + Sum(c, U \ {p})
      <4>1. \A k \in U : c[k] \in Int
        BY <1>2, <3>1
      <4>2. QED
        BY <3>1, <3>5, <4>1, SumTerms
    <3>8. c[p] \in Int /\ Sum(c, S) \in Int
      BY <1>2, <1>3, <2>1
    <3>9. Sum(c, S) + c[p] <= Sum(a, U) + T
      BY <1>1, <3>1, <3>5, <3>7, <3>8
    <3>10. (m + 2) * Sum(a, U) <= (m + 1) * (n - (m + 1)) * T
      <4>1. (m + 1) + 1 = m + 2
        BY <2>1
      <4>2. QED
        BY <3>2, <3>6, <4>1
    <3>11. (m + 1) * Sum(c, S) <= m * (n - m) * T
      BY SMTT(30), <1>1, <2>1, <3>3, <3>4, <3>5, <3>8, <3>9, <3>10, TurnElsewhere
    <3>12. Sum(e, S) = Sum(c, S)
      BY <1>8, <2>4
    <3>13. QED
      BY Zenon, <3>11, <3>12 DEF m
  <2>5. QED
    BY <2>3, <2>4
<1>16. \A k \in D : t[k].accum > -T
  BY Zenon, <1>4, <1>14
<1>17. /\ D = DOMAIN t /\ T = Total(PowersOf(t))
  BY Zenon, <1>3 DEF T
<1>18. QED
  BY Zenon, <1>12, <1>15, <1>16, <1>17 DEF Balanced, e, t, n

\* The priorities of a set without a history are balanced.
LEMMA FreshBalanced ==
  ASSUME NEW g, IsPowers(g), Total(g) > 0
  PROVE  IsSet(Fresh(g)) /\ PowersOf(Fresh(g)) = g /\ Balanced(Fresh(g))
<1> DEFINE s == Fresh(g)
           a == Accum(s)
           T == Total(g)
<1>1. /\ IsSet(s) /\ DOMAIN s = DOMAIN g /\ PowersOf(s) = g
      /\ \A k \in DOMAIN g : s[k].accum = 0 /\ a[k] = 0
  BY DEF Fresh, PowersOf, IsSet, IsPowers, Accum
<1>2. IsFiniteSet(DOMAIN g) /\ T \in Nat
  BY ValidatorsAssumption, FS_Subset, WeightSum DEF IsPowers
<1> HIDE DEF s, a, T
<1>3. ASSUME NEW S \in SUBSET DOMAIN g
      PROVE  /\ Sum(a, S) = 0 /\ IsFiniteSet(S)
             /\ Cardinality(S) \in Nat /\ Cardinality(S) <= Cardinality(DOMAIN g)
             /\ Cardinality(DOMAIN g) \in Nat
  <2>1. \A k \in S : a[k] = 0
    BY <1>1
  <2>2. IsFiniteSet(S) /\ Cardinality(S) <= Cardinality(DOMAIN g)
    BY <1>2, FS_Subset
  <2>3. Sum(a, S) = 0
    BY <2>1, <2>2, SumZero
  <2>4. QED
    BY <1>2, <2>2, <2>3, FS_CardinalityType
<1>4. ASSUME NEW S \in SUBSET DOMAIN g
      PROVE  (Cardinality(S) + 1) * Sum(a, S)
               <= Cardinality(S) * (Cardinality(DOMAIN g) - Cardinality(S)) * T
  <2> DEFINE m == Cardinality(S)
             d == Cardinality(DOMAIN g) - m
  <2>1. m \in Nat /\ d \in Nat /\ Sum(a, S) = 0
    BY <1>3
  <2> HIDE DEF m, d
  <2>2. m * d * T >= 0
    BY <1>2, <2>1
  <2>3. (m + 1) * Sum(a, S) = 0
    BY <2>1
  <2>4. QED
    BY Zenon, <2>2, <2>3, <1>2, <2>1 DEF m, d
<1>5. \A k \in DOMAIN g : s[k].accum > -T
  BY <1>1, <1>2 DEF T
<1>6. Sum(a, DOMAIN g) = 0
  BY <1>3
<1>7. Balanced(s)
  BY Zenon, <1>1, <1>4, <1>5, <1>6 DEF Balanced, a, T
<1>8. QED
  BY Zenon, <1>1, <1>7 DEF s

-----------------------------------------------------------------------------
(* The strategy.                                                           *)

\* The strategy between two transactions: the powers and the updates so far.
IsStrategy(s) ==
  /\ s = [current |-> s.current, updates |-> s.updates]
  /\ IsPowers(s.current) /\ s.updates \in Seq(Update)

\* The strategy's updateValidators in the middle of a list of n updates: the
\* entries that validators share with the list are entries of it.
IsRun(r, n) ==
  /\ r = [current |-> r.current, updates |-> r.updates, owner |-> r.owner]
  /\ IsPowers(r.current) /\ r.updates \in Seq(Update) /\ Len(r.updates) = n
  /\ \A k \in DOMAIN r.owner : r.owner[k] \in 1..n

\* Writing the power of an entry of the list leaves a list of updates.
LEMMA PowerWritten ==
  ASSUME NEW u \in Seq(Update), NEW i \in 1..Len(u), NEW x \in Nat
  PROVE  /\ [u EXCEPT ![i].power = x] \in Seq(Update)
         /\ Len([u EXCEPT ![i].power = x]) = Len(u)
<1> DEFINE e == [u EXCEPT ![i].power = x]
<1>1. [u[i] EXCEPT !.power = x] \in Update
  <2>1. u[i] \in Update
    OBVIOUS
  <2>2. QED
    BY <2>1 DEF Update
<1>2. e = [u EXCEPT ![i] = [u[i] EXCEPT !.power = x]]
  OBVIOUS
<1>3. QED
  BY <1>1, <1>2

\* A round keeps the types.
LEMMA ItemTypes ==
  ASSUME NEW r, NEW n \in Nat, IsRun(r, n), NEW i \in 1..n
  PROVE  IsRun(ApplyItem(r, i), n)
<1> DEFINE c == r.current
           u == r.updates
           o == r.owner
           v == u[i]
<1>1. /\ r = [current |-> c, updates |-> u, owner |-> o]
      /\ IsPowers(c) /\ u \in Seq(Update) /\ Len(u) = n
      /\ \A k \in DOMAIN o : o[k] \in 1..n
  BY Zenon DEF IsRun
<1>2. v.key \in Keys /\ v.power \in Nat
  <2>1. v \in Update
    BY <1>1
  <2>2. QED
    BY <2>1 DEF Update
<1> HIDE DEF c, u, o
<1>3. r = [current |-> c, updates |-> u, owner |-> o]
  BY Zenon, <1>1
<1> HIDE DEF v
<1>4. CASE v.key \notin DOMAIN c
  <2>1. ApplyItem(r, i) = [current |-> With(c, v.key, v.power), updates |-> u,
                           owner |-> With(o, v.key, i)]
    BY Zenon, <1>3, <1>4 DEF ApplyItem, v
  <2>2. IsPowers(With(c, v.key, v.power))
    BY SMTT(30), <1>1, <1>2 DEF IsPowers, With
  <2>3. \A k \in DOMAIN With(o, v.key, i) : With(o, v.key, i)[k] \in 1..n
    BY <1>1 DEF With
  <2>4. QED
    BY <1>1, <2>1, <2>2, <2>3 DEF IsRun
<1>5. CASE v.key \in DOMAIN c /\ v.power = 0
  <2>1. ApplyItem(r, i) = [current |-> Without(c, v.key), updates |-> u,
                           owner |-> Without(o, v.key)]
    BY Zenon, <1>3, <1>5 DEF ApplyItem, v
  <2>2. IsPowers(Without(c, v.key))
    BY SMTT(30), <1>1, <1>2 DEF IsPowers, Without
  <2>3. \A k \in DOMAIN Without(o, v.key) : Without(o, v.key)[k] \in 1..n
    BY <1>1 DEF Without
  <2>4. QED
    BY <1>1, <2>1, <2>2, <2>3 DEF IsRun
<1>6. CASE v.key \in DOMAIN c /\ v.power # 0
  <2> DEFINE f == [c EXCEPT ![v.key] = v.power]
             e == IF v.key \in DOMAIN o THEN [u EXCEPT ![o[v.key]].power = v.power] ELSE u
  <2>1. ApplyItem(r, i) = [current |-> f, updates |-> e, owner |-> o]
    BY Zenon, <1>3, <1>6 DEF ApplyItem, v
  <2>2. IsPowers(f)
    BY Zenon, <1>1, <1>2 DEF IsPowers
  <2>3. e \in Seq(Update) /\ Len(e) = n
    <3>1. CASE v.key \in DOMAIN o
      <4>1. o[v.key] \in 1..Len(u)
        BY <1>1, <3>1
      <4>2. QED
        BY ZenonT(30), <1>1, <1>2, <3>1, <4>1, PowerWritten
    <3>2. CASE v.key \notin DOMAIN o
      BY <1>1, <3>2
    <3>3. QED
      BY <3>1, <3>2
  <2> HIDE DEF e, f
  <2>4. QED
    BY <1>1, <2>1, <2>2, <2>3 DEF IsRun
<1>7. QED
  BY <1>4, <1>5, <1>6

\* So does the whole of the strategy's updateValidators.
LEMMA StrategyTypes ==
  ASSUME NEW p, IsPowers(p), NEW u \in Seq(Update)
  PROVE  IsStrategy(updateStrategy(p, u))
<1> DEFINE after == StrategyAfter(p, u)
           G == {n \in Nat : n <= Len(u) => IsRun(after[n], Len(u))}
<1>1. Len(u) \in Nat
  OBVIOUS
<1>2. /\ after[0] = [current |-> p, updates |-> u, owner |-> <<>>]
      /\ \A n \in 1..Len(u) : after[n] = ApplyItem(after[n - 1], n)
  BY <1>1, StrategyAfterSteps
<1> HIDE DEF after
<1>3. 0 \in G
  <2>1. \A k \in DOMAIN <<>> : <<>>[k] \in 1..Len(u)
    OBVIOUS
  <2>2. IsRun(after[0], Len(u))
    BY <1>2, <2>1 DEF IsRun
  <2>3. QED
    BY <2>2
<1>4. ASSUME NEW n \in Nat, n \in G PROVE n + 1 \in G
  <2>1. SUFFICES ASSUME n + 1 <= Len(u) PROVE IsRun(after[n + 1], Len(u))
    OBVIOUS
  <2>2. IsRun(after[n], Len(u))
    BY <1>1, <1>4, <2>1
  <2>3. after[n + 1] = ApplyItem(after[n], n + 1)
    BY <1>1, <1>2, <2>1
  <2>4. n + 1 \in 1..Len(u)
    BY <1>1, <2>1
  <2>5. QED
    BY Zenon, <1>1, <2>2, <2>3, <2>4, ItemTypes
<1>5. Len(u) \in G
  <2>1. \A n \in Nat : n \in G => n + 1 \in G
    BY Zenon, <1>4
  <2> HIDE DEF G
  <2>2. QED
    BY Zenon, <1>1, <1>3, <2>1, NatSetInduction
<1>6. IsRun(after[Len(u)], Len(u))
  BY <1>1, <1>5
<1>7. updateStrategy(p, u) = [current |-> after[Len(u)].current, updates |-> after[Len(u)].updates]
  BY Zenon DEF updateStrategy, after
<1>8. QED
  BY <1>6, <1>7 DEF IsRun, IsStrategy

\* The items of a transaction without negative powers are updates.
LEMMA ItemsAreUpdates ==
  ASSUME NEW u \in Seq(ValItem), \A i \in DOMAIN u : u[i].power >= 0
  PROVE  u \in Seq(Update)
<1>1. \A i \in 1..Len(u) : u[i] \in Update
  <2>1. \A i \in 1..Len(u) : u[i] \in ValItem /\ u[i].power >= 0
    OBVIOUS
  <2>2. QED
    BY <2>1 DEF ValItem, Update
<1>2. QED
  BY <1>1

\* CollectTx keeps the types, whatever the transaction.
LEMMA CollectTypes ==
  ASSUME NEW s, IsStrategy(s), NEW tx \in ValTx
  PROVE  IsStrategy(CollectTx(s, tx))
<1>1. CASE ~ParseValidatorTx(tx, s.current)
  BY Zenon, <1>1 DEF CollectTx
<1>2. CASE ParseValidatorTx(tx, s.current)
  <2>1. tx.items \in Seq(Update)
    <3>1. tx.items \in Seq(ValItem)
      BY DEF ValTx
    <3>2. \A i \in DOMAIN tx.items : tx.items[i].power >= 0
      BY Zenon, <1>2 DEF ParseValidatorTx
    <3>3. QED
      BY Zenon, <3>1, <3>2, ItemsAreUpdates
  <2>2. CASE changeInVotingPowerMoreOrEqualToOneThird(s.current, tx.items)
    <3>1. CollectTx(s, tx) = [s EXCEPT !.updates = tx.items]
      BY Zenon, <1>2, <2>2 DEF CollectTx
    <3>2. QED
      BY <2>1, <3>1 DEF IsStrategy
  <2>3. CASE ~changeInVotingPowerMoreOrEqualToOneThird(s.current, tx.items)
    <3>1. CollectTx(s, tx) = updateStrategy(s.current, tx.items)
      BY Zenon, <1>2, <2>3 DEF CollectTx
    <3>2. IsPowers(s.current)
      BY Zenon DEF IsStrategy
    <3>3. QED
      BY Zenon, <2>1, <3>1, <3>2, StrategyTypes
  <2>4. QED
    BY <2>2, <2>3
<1>3. QED
  BY <1>1, <1>2

\* So does the delivery of a block.
LEMMA DeliveredTypes ==
  ASSUME NEW s, IsStrategy(s), NEW b \in Seq(ValTx)
  PROVE  IsStrategy(Delivered(s, b))
<1> DEFINE after == DeliveredAfter(s, b)
           G == {n \in Nat : n <= Len(b) => IsStrategy(after[n])}
<1>1. Len(b) \in Nat
  OBVIOUS
<1>2. after[0] = s /\ \A n \in 1..Len(b) : after[n] = CollectTx(after[n - 1], b[n])
  BY <1>1, DeliveredAfterSteps
<1> HIDE DEF after
<1>3. 0 \in G
  BY <1>2
<1>4. ASSUME NEW n \in Nat, n \in G PROVE n + 1 \in G
  <2>1. SUFFICES ASSUME n + 1 <= Len(b) PROVE IsStrategy(after[n + 1])
    OBVIOUS
  <2>2. IsStrategy(after[n])
    BY <1>1, <1>4, <2>1
  <2>3. after[n + 1] = CollectTx(after[n], b[n + 1]) /\ b[n + 1] \in ValTx
    BY <1>1, <1>2, <2>1
  <2>4. QED
    BY Zenon, <2>2, <2>3, CollectTypes
<1>5. Len(b) \in G
  <2>1. \A n \in Nat : n \in G => n + 1 \in G
    BY Zenon, <1>4
  <2> HIDE DEF G
  <2>2. QED
    BY Zenon, <1>1, <1>3, <2>1, NatSetInduction
<1>6. IsStrategy(after[Len(b)])
  BY SMTT(30), <1>1, <1>5
<1>7. QED
  BY Zenon, <1>6 DEF Delivered, after

\* A round of updateValidators changes the powers as a round of the strategy does.
LEMMA PowersStep ==
  ASSUME NEW s, IsSet(s), NEW v \in Update
  PROVE  PowersOf(ApplyUpdate(s, v)) =
           IF v.key \notin DOMAIN PowersOf(s) THEN With(PowersOf(s), v.key, v.power)
           ELSE IF v.power = 0 THEN Without(PowersOf(s), v.key)
           ELSE [PowersOf(s) EXCEPT ![v.key] = v.power]
<1>1. CASE v.key \notin DOMAIN s
  <2> DEFINE t == [j \in DOMAIN s \cup {v.key} |->
                     IF j = v.key THEN [power |-> v.power, accum |-> 0] ELSE s[j]]
  <2>1. ApplyUpdate(s, v) = t
    BY Zenon, <1>1 DEF ApplyUpdate, With
  <2>2. DOMAIN t = DOMAIN s \cup {v.key} /\ t[v.key].power = v.power
    OBVIOUS
  <2>3. \A j \in DOMAIN s : t[j] = s[j]
    BY <1>1
  <2> HIDE DEF t
  <2>4. PowersOf(t) = With(PowersOf(s), v.key, v.power)
    BY <1>1, <2>2, <2>3 DEF PowersOf, With
  <2>5. QED
    BY SMTT(30), <1>1, <2>1, <2>4 DEF PowersOf
<1>2. CASE v.key \in DOMAIN s /\ v.power = 0
  BY <1>2 DEF ApplyUpdate, Without, PowersOf
<1>3. CASE v.key \in DOMAIN s /\ v.power # 0
  BY Zenon, <1>3 DEF IsSet, Update, ApplyUpdate, PowersOf
<1>4. QED
  BY Zenon, <1>1, <1>2, <1>3

\* With a list that names no key twice, the strategy's updateValidators leaves
\* the list alone and ends with the powers of the node's updateValidators: no
\* entry of the list is written through a validator that it has just added.
LEMMA RegularStrategy ==
  ASSUME NEW s, IsSet(s), NEW u \in Seq(Update),
         \A j, k \in DOMAIN u : u[j].key = u[k].key => j = k
  PROVE  updateStrategy(PowersOf(s), u) =
           [current |-> PowersOf(updateValidators(s, u)), updates |-> u]
<1> DEFINE after == StrategyAfter(PowersOf(s), u)
           set == SetAfter(s, u)
           Named(n) == {u[i].key : i \in 1..n}
           Agrees(n) == \E o : /\ DOMAIN o \subseteq Named(n)
                               /\ after[n] = [current |-> PowersOf(set[n]), updates |-> u,
                                              owner |-> o]
           G == {n \in Nat : n <= Len(u) => IsSet(set[n]) /\ Agrees(n)}
<1>1. Len(u) \in Nat /\ DOMAIN u = 1..Len(u)
  BY SMTT(30)
<1>2. /\ after[0] = [current |-> PowersOf(s), updates |-> u, owner |-> <<>>]
      /\ \A n \in 1..Len(u) : after[n] = ApplyItem(after[n - 1], n)
  <2>1. Len(u) \in Nat
    BY Zenon, <1>1
  <2>2. QED
    BY <2>1, StrategyAfterSteps
<1>3. /\ set[0] = s
      /\ \A n \in 1..Len(u) : set[n] = ApplyUpdate(set[n - 1], u[n])
  BY <1>1, SetAfterSteps
<1> HIDE DEF after, set
<1>4. 0 \in G
  <2>1. DOMAIN <<>> \subseteq Named(0)
    OBVIOUS
  <2>2. Agrees(0)
    BY Zenon, <1>2, <1>3, <2>1
  <2>3. QED
    BY Zenon, <1>3, <2>2
<1>5. ASSUME NEW n \in Nat, n \in G PROVE n + 1 \in G
  <2>1. SUFFICES ASSUME n + 1 <= Len(u) PROVE IsSet(set[n + 1]) /\ Agrees(n + 1)
    <3>1. n + 1 \in Nat
      OBVIOUS
    <3>2. QED
      BY Zenon, <3>1
  <2>2. n <= Len(u) /\ n + 1 \in 1..Len(u)
    BY <1>1, <2>1
  <2>3. IsSet(set[n]) /\ Agrees(n)
    BY Zenon, <1>5, <2>2
  <2>4. PICK o : /\ DOMAIN o \subseteq Named(n)
                 /\ after[n] = [current |-> PowersOf(set[n]), updates |-> u, owner |-> o]
    BY Zenon, <2>3
  <2> DEFINE v == u[n + 1]
             c == PowersOf(set[n])
             d == PowersOf(set[n + 1])
  <2>5. v \in Update /\ v.key \notin DOMAIN o /\ v.key \in Named(n + 1)
    <3>1. v \in Update
      BY <2>2
    <3>2. v.key \notin Named(n)
      BY <1>1, <2>2
    <3>3. QED
      <4>1. n + 1 \in 1..(n + 1)
        OBVIOUS
      <4>2. v.key \in Named(n + 1)
        BY Zenon, <4>1
      <4> HIDE DEF v, Named
      <4>3. QED
        BY Zenon, <2>4, <3>1, <3>2, <4>2
  <2>6. /\ after[n + 1] = ApplyItem(after[n], n + 1)
        /\ set[n + 1] = ApplyUpdate(set[n], v)
    <3>1. (n + 1) - 1 = n
      OBVIOUS
    <3>2. QED
      BY Zenon, <1>2, <1>3, <2>2, <3>1
  <2>7. IsSet(set[n + 1])
    <3> HIDE DEF v
    <3>1. IsSet(ApplyUpdate(set[n], v))
      BY <2>3, <2>5, UpdateSets
    <3>2. QED
      BY ZenonT(30), <2>6, <3>1
  <2>8. d = IF v.key \notin DOMAIN c THEN With(c, v.key, v.power)
            ELSE IF v.power = 0 THEN Without(c, v.key)
            ELSE [c EXCEPT ![v.key] = v.power]
    <3> HIDE DEF v
    <3>1. PowersOf(ApplyUpdate(set[n], v)) =
            IF v.key \notin DOMAIN c THEN With(c, v.key, v.power)
            ELSE IF v.power = 0 THEN Without(c, v.key)
            ELSE [c EXCEPT ![v.key] = v.power]
      BY Zenon, <2>3, <2>5, PowersStep
    <3>2. QED
      BY ZenonT(30), <2>6, <3>1
  <2>9. Named(n) \subseteq Named(n + 1)
    BY SMTT(30)
  <2>10. \E q : /\ DOMAIN q \subseteq Named(n + 1)
                /\ after[n + 1] = [current |-> d, updates |-> u, owner |-> q]
    <3> DEFINE N == Named(n + 1)
    <3>1. /\ DOMAIN With(o, v.key, n + 1) \subseteq N
          /\ DOMAIN Without(o, v.key) \subseteq N
          /\ DOMAIN o \subseteq N
      BY <2>4, <2>5, <2>9 DEF With, Without
    <3>2. after[n + 1] = ApplyItem([current |-> c, updates |-> u, owner |-> o], n + 1)
      BY Zenon, <2>4, <2>6
    <3> HIDE DEF c, d, N
    <3>3. CASE v.key \notin DOMAIN c
      <4>1. after[n + 1] = [current |-> d, updates |-> u, owner |-> With(o, v.key, n + 1)]
        BY Zenon, <2>8, <3>2, <3>3 DEF ApplyItem
      <4>2. QED
        BY Zenon, <3>1, <4>1 DEF N
    <3>4. CASE v.key \in DOMAIN c /\ v.power = 0
      <4>1. after[n + 1] = [current |-> d, updates |-> u, owner |-> Without(o, v.key)]
        BY Zenon, <2>8, <3>2, <3>4 DEF ApplyItem
      <4>2. QED
        BY Zenon, <3>1, <4>1 DEF N
    <3>5. CASE v.key \in DOMAIN c /\ v.power # 0
      <4>1. after[n + 1] = [current |-> d, updates |-> u, owner |-> o]
        BY Zenon, <2>5, <2>8, <3>2, <3>5 DEF ApplyItem
      <4>2. QED
        BY Zenon, <3>1, <4>1 DEF N
    <3>6. QED
      BY ZenonT(30), <3>3, <3>4, <3>5
  <2>11. QED
    BY Zenon, <2>7, <2>10
<1>6. Len(u) \in G
  <2>1. \A n \in Nat : n \in G => n + 1 \in G
    BY Zenon, <1>5
  <2> HIDE DEF G
  <2>2. QED
    BY Zenon, <1>1, <1>4, <2>1, NatSetInduction
<1>7. Agrees(Len(u))
  <2>1. Len(u) <= Len(u)
    BY <1>1
  <2>2. QED
    BY Zenon, <1>6, <2>1
<1>8. /\ updateStrategy(PowersOf(s), u)
           = [current |-> after[Len(u)].current, updates |-> after[Len(u)].updates]
      /\ updateValidators(s, u) = set[Len(u)]
  BY Zenon DEF updateStrategy, updateValidators, after, set
<1>9. PICK o : after[Len(u)] = [current |-> PowersOf(set[Len(u)]), updates |-> u, owner |-> o]
  BY ZenonT(30), <1>7
<1>10. /\ after[Len(u)].current = PowersOf(set[Len(u)])
       /\ after[Len(u)].updates = u
  <2> HIDE DEF after, set
  <2>1. QED
    <3> DEFINE c == PowersOf(set[Len(u)])
               x == [current |-> c, updates |-> u, owner |-> o]
    <3>1. x.current = c /\ x.updates = u
      BY Zenon
    <3>2. after[Len(u)] = x
      BY Zenon, <1>9
    <3> HIDE DEF x
    <3>3. QED
      BY Zenon, <3>1, <3>2
<1>11. QED
  <2> HIDE DEF after, set
  <2>1. QED
    BY Zenon, <1>8, <1>10

\* A regular block has at most one val transaction.
LEMMA RegularLength ==
  ASSUME NEW b \in Seq(ValTx), Regular(b)
  PROVE  Len(b) = 0 \/ Len(b) = 1
<1>1. Len(b) <= 1 /\ Len(b) \in Nat
  BY DEF Regular
<1>2. \A n \in Nat : n <= 1 => n = 0 \/ n = 1
  OBVIOUS
<1>3. QED
  BY Zenon, <1>1, <1>2

\* What the delivery of a regular block to a strategy that knows the node's set
\* leads to: updates that the node accepts, and a strategy that knows the set
\* that they make.
LEMMA RegularDelivered ==
  ASSUME NEW s, IsSet(s), NEW b \in Seq(ValTx), Regular(b),
         NEW a, a = [current |-> PowersOf(s), updates |-> <<>>]
  PROVE  LET r == Delivered(a, b)
         IN  /\ ~changeInVotingPowerMoreOrEqualToOneThird(PowersOf(s), r.updates)
             /\ r.current = PowersOf(updateValidators(s, r.updates))
<1> DEFINE p == PowersOf(s)
           r == Delivered(a, b)
<1>1. Len(b) \in Nat
  BY SMTT(30)
<1>2. /\ DeliveredAfter(a, b)[0] = a
      /\ \A n \in 1..Len(b) : DeliveredAfter(a, b)[n] = CollectTx(DeliveredAfter(a, b)[n - 1], b[n])
  BY <1>1, DeliveredAfterSteps
<1>3. CASE r = a
  <2>1. r.updates = <<>> /\ r.current = p
    BY <1>3
  <2>2. ~changeInVotingPowerMoreOrEqualToOneThird(p, <<>>)
    BY Zenon DEF changeInVotingPowerMoreOrEqualToOneThird
  <2>3. QED
    BY Zenon, <2>1, <2>2, NoUpdates
<1>4. CASE Len(b) = 0
  BY Zenon, <1>2, <1>3, <1>4 DEF Delivered
<1>5. CASE Len(b) = 1
  <2> DEFINE tx == b[1]
             u == tx.items
  <2>1. r = CollectTx(a, tx)
    <3>1. 1 \in 1..Len(b) /\ 1 - 1 = 0
      BY <1>5
    <3>2. QED
      BY Zenon, <1>2, <1>5, <3>1 DEF Delivered
  <2>2. a.current = p
    OBVIOUS
  <2>3. CASE ~ParseValidatorTx(tx, p)
    BY Zenon, <1>3, <2>1, <2>2, <2>3 DEF CollectTx
  <2>4. CASE ParseValidatorTx(tx, p)
    <3>1. u \in Seq(Update)
      <4>1. u \in Seq(ValItem)
        <5>1. tx \in ValTx
          BY <1>5
        <5>2. QED
          BY <5>1 DEF ValTx
      <4>2. \A i \in DOMAIN u : u[i].power >= 0
        BY Zenon, <2>4 DEF ParseValidatorTx
      <4>3. QED
        BY Zenon, <4>1, <4>2, ItemsAreUpdates
    <3>2. ~changeInVotingPowerMoreOrEqualToOneThird(p, u)
      <4>1. Change(p, u) \in Int /\ Total(p) \in Nat
        BY Zenon, <3>1, UpdatesMove, PowersOfSet, WeightSum
      <4>2. Change(p, u) < Total(p) \div 3
        BY Zenon, <2>4 DEF ParseValidatorTx
      <4>3. ~(Change(p, u) >= Total(p) \div 3)
        <5> HIDE DEF p, u
        <5>1. QED
          BY <4>1, <4>2
      <4>4. \A i \in DOMAIN u : ~(u[i].power < 0)
        <5>1. \A i \in DOMAIN u : u[i].power \in Nat
          <6>1. \A i \in DOMAIN u : u[i] \in Update
            BY <3>1
          <6>2. QED
            BY <6>1 DEF Update
        <5>2. QED
          BY <5>1
      <4>5. QED
        BY Zenon, <4>3, <4>4 DEF changeInVotingPowerMoreOrEqualToOneThird
    <3>3. \A j, k \in DOMAIN u : u[j].key = u[k].key => j = k
      BY <1>5 DEF Regular
    <3>4. r = updateStrategy(p, u)
      BY Zenon, <2>1, <2>2, <2>4, <3>2 DEF CollectTx
    <3>5. r = [current |-> PowersOf(updateValidators(s, u)), updates |-> u]
      BY Zenon, <3>1, <3>3, <3>4, RegularStrategy
    <3>6. r.updates = u /\ r.current = PowersOf(updateValidators(s, u))
      BY <3>5
    <3>7. QED
      BY Zenon, <3>2, <3>6
  <2>5. QED
    BY Zenon, <2>3, <2>4
<1>6. QED
  <2>1. Len(b) = 0 \/ Len(b) = 1
    BY Zenon, RegularLength
  <2>2. QED
    BY Zenon, <1>4, <1>5, <2>1

-----------------------------------------------------------------------------
(* The inductive invariant.                                                *)

\* After h heights and n[k] turns, a priority is what the validator has been
\* given less what it has paid for its turns.
Accounts(s, h, n) ==
  \A k \in DOMAIN s : s[k].accum = h * s[k].power - n[k] * Total(PowersOf(s))

Proportions == lastChanged = 1 => Balanced(validators) /\ Accounts(validators, height + 1, turns)

\* A block that updateState has accepted is within the limit.
Accepted ==
  phase = "committed"
    => ~changeInVotingPowerMoreOrEqualToOneThird(PowersOf(validators), responses)

\* The set differs from the one before it by at most a third.
Close ==
  DOMAIN last # {} =>
    3 * Sum(Distance(PowersOf(last), PowersOf(validators)), Keys) <= Total(PowersOf(last))

\* Where the strategy's copy of the set stands as long as all blocks are regular.
InStep ==
  /\ regular => Regular(stored)
  /\ regular /\ ~missed =>
       /\ phase # "failed"
       /\ phase \in {"idle", "stored"} => app.current = PowersOf(validators)
       /\ phase \in {"executed", "committed"} =>
            /\ ~changeInVotingPowerMoreOrEqualToOneThird(PowersOf(validators), responses)
            /\ app.current = PowersOf(updateValidators(validators, responses))

VInv == TypeOK /\ Accepted /\ Close /\ InStep /\ Proportions

\* What the types say in the terms of the lemmas.
LEMMA Types ==
  ASSUME TypeOK
  PROVE  /\ IsSet(validators) /\ DOMAIN validators # {} /\ Total(PowersOf(validators)) > 0
         /\ IsPowers(PowersOf(validators)) /\ IsSet(last)
         /\ IsStrategy(app) /\ app = [current |-> app.current, updates |-> <<>>]
         /\ responses \in Seq(Update) /\ stored \in Seq(ValTx)
<1>1. IsSet(validators) /\ DOMAIN validators # {} /\ Total(PowersOf(validators)) > 0
  BY Zenon DEF TypeOK, IsSet
<1>2. IsSet(last)
  BY Zenon DEF TypeOK, IsSet
<1>3. IsPowers(PowersOf(validators))
  BY Zenon, <1>1, PowersOfSet
<1>4. responses \in Seq(Update)
  BY Zenon DEF TypeOK, Update
<1>5. stored \in Seq(ValTx)
  BY Zenon, ValidatorsAssumption DEF TypeOK
<1>6. app = [current |-> app.current, updates |-> <<>>] /\ IsPowers(app.current)
  BY Zenon DEF TypeOK, IsPowers
<1>7. app.updates = <<>>
  BY <1>6
<1>8. app = [current |-> app.current, updates |-> app.updates]
  BY Zenon, <1>6, <1>7
<1>9. <<>> \in Seq(Update)
  OBVIOUS
<1>10. QED
  BY Zenon, <1>1, <1>2, <1>3, <1>4, <1>5, <1>6, <1>7, <1>8, <1>9 DEF IsStrategy

\* A genesis file gives a set with some voting power.
LEMMA GenesisPowers ==
  ASSUME NEW g \in Geneses
  PROVE  IsPowers(g) /\ Total(g) > 0 /\ DOMAIN g # {}
<1>1. DOMAIN g \subseteq Keys /\ DOMAIN g # {} /\ g \in [DOMAIN g -> Nat \ {0}]
  BY Zenon, ValidatorsAssumption
<1>2. IsPowers(g)
  BY <1>1 DEF IsPowers
<1>3. IsFiniteSet(DOMAIN g)
  BY <1>1, FS_Subset, ValidatorsAssumption
<1>4. PICK k \in DOMAIN g : TRUE
  BY <1>1
<1>5. g[k] \in Nat /\ g[k] > 0
  BY <1>1, <1>4
<1>6. \A j \in DOMAIN g : g[j] \in Nat
  BY <1>1
<1>7. \A j \in DOMAIN g : g[j] \in Int
  BY <1>6
<1>8. Sum(g, DOMAIN g) = g[k] + Sum(g, DOMAIN g \ {k})
  BY <1>3, <1>4, <1>7, SumTerms
<1>9. Sum(g, DOMAIN g \ {k}) \in Nat
  <2>1. DOMAIN g \ {k} \in SUBSET DOMAIN g
    OBVIOUS
  <2>2. QED
    BY Zenon, <1>3, <1>6, <2>1, SumPart
<1>10. Total(g) = Sum(g, DOMAIN g)
  BY Zenon DEF Total, SumFunction, Sum
<1>11. QED
  BY <1>1, <1>2, <1>5, <1>8, <1>9, <1>10

\* What IncrementAccum does to the accounts of the turns: power, turns and total
\* are those of the set, h the heights that have had a proposer.
LEMMA TurnAccounted ==
  ASSUME NEW x \in Int, NEW w \in Int, NEW T \in Int, NEW h \in Int, NEW n \in Int,
         x = h * w - n * T
  PROVE  /\ x + w = (h + 1) * w - n * T
         /\ x + w - T = (h + 1) * w - (n + 1) * T
<1>1. (h + 1) * w = h * w + w /\ (n + 1) * T = n * T + T
  OBVIOUS
<1>2. h * w \in Int /\ n * T \in Int
  OBVIOUS
<1>3. QED
  BY <1>1, <1>2

\* The priorities and the turns after IncrementAccum.
LEMMA IncrementAccounts ==
  ASSUME NEW s, IsSet(s), DOMAIN s # {}, NEW h \in Int, NEW n \in [Keys -> Nat],
         Accounts(s, h, n)
  PROVE  /\ [n EXCEPT ![Proposer(s)] = @ + 1] \in [Keys -> Nat]
         /\ Accounts(IncrementAccum(s), h + 1, [n EXCEPT ![Proposer(s)] = @ + 1])
<1> DEFINE T == Total(PowersOf(s))
           p == Proposer(s)
           t == IncrementAccum(s)
           m == [n EXCEPT ![p] = @ + 1]
<1>1. /\ DOMAIN t = DOMAIN s /\ PowersOf(t) = PowersOf(s) /\ p \in DOMAIN s
      /\ \A k \in DOMAIN s :
           t[k].accum = IF k = p THEN s[k].accum + s[k].power - T ELSE s[k].accum + s[k].power
  BY Zenon, IncrementSet
<1>2. DOMAIN s \subseteq Keys /\ \A k \in DOMAIN s : s[k].power \in Int /\ s[k].accum \in Int
  BY DEF IsSet
<1>3. T \in Int
  BY PowersOfSet, WeightSum
<1>4. \A k \in DOMAIN s : t[k].power = s[k].power
  <2>1. \A k \in DOMAIN s : PowersOf(t)[k] = t[k].power /\ PowersOf(s)[k] = s[k].power
    BY Zenon, <1>1 DEF PowersOf
  <2>2. QED
    BY ZenonT(30), <1>1, <2>1
<1> HIDE DEF T, p, t
<1>5. m = [n EXCEPT ![p] = n[p] + 1] /\ p \in Keys
  BY <1>1, <1>2
<1>6. m \in [Keys -> Nat]
  BY <1>5
<1>7. ASSUME NEW k \in DOMAIN s
      PROVE  t[k].accum = (h + 1) * s[k].power - m[k] * T
  <2> DEFINE x == s[k].accum
             w == s[k].power
  <2>1. /\ x \in Int /\ w \in Int /\ n[k] \in Int /\ x = h * w - n[k] * T
        /\ k \in Keys
    BY <1>2 DEF Accounts, T
  <2> HIDE DEF x, w
  <2>2. /\ x + w = (h + 1) * w - n[k] * T
        /\ x + w - T = (h + 1) * w - (n[k] + 1) * T
    BY <1>3, <2>1, TurnAccounted
  <2>3. CASE k = p
    <3>1. t[k].accum = x + w - T /\ m[k] = n[k] + 1
      BY <1>1, <1>5, <2>3 DEF x, w
    <3>2. QED
      BY Zenon, <2>2, <3>1 DEF w
  <2>4. CASE k # p
    <3>1. t[k].accum = x + w /\ m[k] = n[k]
      BY <1>1, <1>5, <2>1, <2>4 DEF x, w
    <3>2. QED
      BY ZenonT(30), <2>2, <3>1 DEF w
  <2>5. QED
    BY SMTT(30), <2>3, <2>4
<1>8. \A k \in DOMAIN t : t[k].accum = (h + 1) * t[k].power - m[k] * Total(PowersOf(t))
  BY Zenon, <1>1, <1>4, <1>7 DEF T
<1> HIDE DEF m
<1>9. Accounts(t, h + 1, m)
  BY Zenon, <1>8 DEF Accounts
<1>10. QED
  BY Zenon, <1>6, <1>9 DEF t, m, p

\* The invariant holds initially.
LEMMA InitVInv ==
  ASSUME Init
  PROVE  VInv
<1>1. PICK g \in Geneses :
        /\ height = 0
        /\ validators = IncrementAccum(Fresh(g))
        /\ last = <<>>
        /\ lastChanged = 1
        /\ app = SetValidators(g)
        /\ stored = <<>> /\ responses = <<>> /\ phase = "idle"
        /\ turns = [k \in Keys |-> IF k = Proposer(Fresh(g)) THEN 1 ELSE 0]
        /\ vals = 0 /\ regular = TRUE /\ missed = FALSE /\ restarts = 0
  BY Zenon DEF Init
<1> DEFINE f == Fresh(g)
           n == [k \in Keys |-> 0]
<1>2. IsPowers(g) /\ Total(g) > 0 /\ DOMAIN g # {}
  BY Zenon, GenesisPowers
<1>3. IsSet(f) /\ PowersOf(f) = g /\ Balanced(f)
  BY Zenon, <1>2, FreshBalanced
<1>4. DOMAIN f = DOMAIN g /\ \A k \in DOMAIN f : f[k].accum = 0 /\ f[k].power \in Nat
  BY <1>2 DEF Fresh, IsPowers
<1>5. Total(g) \in Nat
  BY <1>2, WeightSum
<1> HIDE DEF f
<1>6. /\ IsSet(validators) /\ DOMAIN validators = DOMAIN f
      /\ PowersOf(validators) = g /\ Proposer(f) \in DOMAIN f
  BY Zenon, <1>1, <1>2, <1>3, <1>4, IncrementSet DEF f
<1>7. Balanced(validators)
  BY Zenon, <1>1, <1>2, <1>3, IncrementBalanced DEF f
<1>8. turns \in [Keys -> Nat] /\ Accounts(validators, height + 1, turns)
  <2>1. n \in [Keys -> Nat] /\ height \in Int
    BY SMTT(30), <1>1
  <2>2. Accounts(f, height, n)
    <3>1. DOMAIN f \subseteq Keys
      BY <1>3 DEF IsSet
    <3>2. QED
      BY <1>1, <1>3, <1>4, <1>5, <3>1 DEF Accounts
  <2>3. turns = [n EXCEPT ![Proposer(f)] = @ + 1]
    BY <1>1 DEF f
  <2>4. DOMAIN f # {}
    BY <1>2, <1>4
  <2> HIDE DEF n
  <2>5. validators = IncrementAccum(f)
    BY Zenon, <1>1 DEF f
  <2>6. QED
    BY Zenon, <1>3, <2>1, <2>2, <2>3, <2>4, <2>5, IncrementAccounts
<1>9. app = [current |-> g, updates |-> <<>>] /\ app.current = g
  BY <1>1 DEF SetValidators, emptyStrategy
<1>10. TypeOK
  <2>1. /\ DOMAIN validators \subseteq Keys /\ DOMAIN validators # {}
        /\ validators \in [DOMAIN validators -> [power : Nat, accum : Int]]
        /\ Total(PowersOf(validators)) > 0
    BY Zenon, <1>2, <1>4, <1>6 DEF IsSet
  <2>2. /\ DOMAIN app.current \subseteq Keys
        /\ app = [current |-> app.current, updates |-> <<>>]
        /\ app.current \in [DOMAIN app.current -> Nat]
    BY Zenon, <1>2, <1>9 DEF IsPowers
  <2>3. /\ DOMAIN last \subseteq Keys
        /\ last \in [DOMAIN last -> [power : Nat, accum : Int]]
    BY <1>1
  <2>4. stored \in Blocks /\ responses \in Seq([key : Keys, power : Nat])
    BY <1>1, ValidatorsAssumption
  <2>5. /\ height \in Nat /\ lastChanged \in 1..(height + 1)
        /\ vals \in 0..MaxVals /\ restarts \in 0..MaxRestarts
    BY <1>1, ValidatorsAssumption
  <2>6. /\ phase \in {"idle", "stored", "executed", "committed", "failed", "refused"}
        /\ regular \in BOOLEAN /\ missed \in BOOLEAN
    BY Zenon, <1>1
  <2>7. QED
    BY Zenon, <1>8, <2>1, <2>2, <2>3, <2>4, <2>5, <2>6 DEF TypeOK
<1>11. Accepted
  BY <1>1 DEF Accepted
<1>12. Close
  BY SMTT(30), <1>1 DEF Close
<1>13. InStep
  BY <1>1, <1>6, <1>9 DEF InStep, Regular
<1>14. Proportions
  BY Zenon, <1>7, <1>8 DEF Proportions
<1>15. QED
  BY Zenon, <1>10, <1>11, <1>12, <1>13, <1>14 DEF VInv

\* Steps that leave the State alone keep what the invariant says of it.
LEMMA SameState ==
  ASSUME VInv, UNCHANGED <<height, validators, last, lastChanged, turns>>
  PROVE  Close' /\ Proportions'
<1>1. /\ height' = height /\ validators' = validators /\ last' = last
      /\ lastChanged' = lastChanged /\ turns' = turns
  OBVIOUS
<1>2. Close'
  BY Zenon, <1>1 DEF VInv, Close
<1>3. Proportions'
  BY Zenon, <1>1 DEF VInv, Proportions
<1>4. QED
  BY <1>2, <1>3

\* StoreBlock keeps the invariant: the block is regular as long as all are.
LEMMA StoreVInv ==
  ASSUME VInv, StoreBlock
  PROVE  VInv'
<1>1. TypeOK /\ InStep
  BY Zenon DEF VInv
<1>2. PICK b \in Blocks :
        /\ b # <<>> => vals < MaxVals
        /\ vals' = vals + (IF b = <<>> THEN 0 ELSE 1)
        /\ stored' = b
        /\ regular' = (regular /\ Regular(b))
  BY Zenon DEF StoreBlock
<1>3. /\ phase = "idle" /\ phase' = "stored"
      /\ height' = height /\ validators' = validators /\ last' = last
      /\ lastChanged' = lastChanged /\ app' = app /\ responses' = responses
      /\ turns' = turns /\ missed' = missed /\ restarts' = restarts
  BY DEF StoreBlock
<1>4. TypeOK'
  <2>1. vals' \in 0..MaxVals
    <3>1. vals \in 0..MaxVals /\ MaxVals \in Nat
      BY <1>1, ValidatorsAssumption DEF TypeOK
    <3>2. QED
      BY <1>2, <3>1
  <2>2. regular' \in BOOLEAN /\ stored' \in Blocks
    <3>1. (regular /\ Regular(b)) \in BOOLEAN
      OBVIOUS
    <3>2. QED
      BY Zenon, <1>2, <3>1
  <2>3. phase' \in {"idle", "stored", "executed", "committed", "failed", "refused"}
    BY Zenon, <1>3
  <2>4. QED
    BY Zenon, <1>1, <1>3, <2>1, <2>2, <2>3 DEF TypeOK
<1>5. Close' /\ Proportions'
  BY Zenon, <1>3, SameState
<1>6. Accepted'
  BY <1>3 DEF Accepted
<1>7. InStep'
  <2>1. regular' => regular /\ Regular(stored')
    BY Zenon, <1>1, <1>2 DEF TypeOK
  <2>2. regular' /\ ~missed' => app'.current = PowersOf(validators')
    BY Zenon, <1>1, <1>3, <2>1 DEF InStep
  <2>3. /\ phase' # "failed" /\ phase' \notin {"executed", "committed"}
    BY <1>3
  <2>4. QED
    BY Zenon, <2>1, <2>2, <2>3 DEF InStep
<1>8. QED
  BY Zenon, <1>4, <1>5, <1>6, <1>7 DEF VInv

\* ExecBlock keeps the invariant: this is where a regular block meets a strategy
\* that knows the set of the State.
LEMMA ExecVInv ==
  ASSUME VInv, ExecBlock
  PROVE  VInv'
<1> DEFINE s == Delivered(app, stored)
<1>1. TypeOK /\ InStep
  BY Zenon DEF VInv
<1>2. /\ phase = "stored" /\ phase' = "executed"
      /\ responses' = s.updates /\ app' = GetUpdateValidators(s)
      /\ height' = height /\ validators' = validators /\ last' = last
      /\ lastChanged' = lastChanged /\ stored' = stored /\ turns' = turns
      /\ vals' = vals /\ regular' = regular /\ missed' = missed /\ restarts' = restarts
  BY DEF ExecBlock
<1>3. IsStrategy(s)
  BY Zenon, <1>1, Types, DeliveredTypes
<1>4. /\ IsPowers(s.current) /\ s.updates \in Seq(Update)
      /\ app' = [current |-> s.current, updates |-> <<>>] /\ app'.current = s.current
  <2> HIDE DEF s
  <2>1. QED
    BY <1>2, <1>3 DEF IsStrategy, GetUpdateValidators
<1>5. TypeOK'
  <2>1. /\ DOMAIN app'.current \subseteq Keys
        /\ app' = [current |-> app'.current, updates |-> <<>>]
        /\ app'.current \in [DOMAIN app'.current -> Nat]
    BY Zenon, <1>4 DEF IsPowers
  <2>2. responses' \in Seq([key : Keys, power : Nat])
    BY Zenon, <1>2, <1>4 DEF Update
  <2>3. phase' \in {"idle", "stored", "executed", "committed", "failed", "refused"}
    BY Zenon, <1>2
  <2>4. QED
    BY Zenon, <1>1, <1>2, <2>1, <2>2, <2>3 DEF TypeOK
<1>6. Close' /\ Proportions'
  BY Zenon, <1>2, SameState
<1>7. Accepted'
  BY <1>2 DEF Accepted
<1>8. InStep'
  <2>1. regular' => Regular(stored')
    BY Zenon, <1>1, <1>2 DEF InStep
  <2>2. ASSUME regular, ~missed
        PROVE  /\ ~changeInVotingPowerMoreOrEqualToOneThird(PowersOf(validators), s.updates)
               /\ s.current = PowersOf(updateValidators(validators, s.updates))
    <3>1. app.current = PowersOf(validators) /\ Regular(stored)
      BY Zenon, <1>1, <1>2, <2>2 DEF InStep
    <3>2. app = [current |-> PowersOf(validators), updates |-> <<>>]
      BY Zenon, <1>1, <3>1, Types
    <3>3. IsSet(validators) /\ stored \in Seq(ValTx)
      BY Zenon, <1>1, Types
    <3>4. QED
      BY Zenon, <3>1, <3>2, <3>3, RegularDelivered
  <2>3. phase' # "failed" /\ phase' \notin {"idle", "stored"}
    BY SMTT(30), <1>2
  <2>4. QED
    BY Zenon, <1>2, <1>4, <2>1, <2>2, <2>3 DEF InStep
<1>9. QED
  BY Zenon, <1>5, <1>6, <1>7, <1>8 DEF VInv

\* Commit keeps the invariant: it goes on only if the updates are accepted.
LEMMA CommitVInv ==
  ASSUME VInv, Commit
  PROVE  VInv'
<1>1. TypeOK /\ InStep
  BY Zenon DEF VInv
<1>2. /\ phase = "executed"
      /\ phase' = IF changeInVotingPowerMoreOrEqualToOneThird(PowersOf(validators), responses)
                    THEN "failed" ELSE "committed"
      /\ height' = height /\ validators' = validators /\ last' = last
      /\ lastChanged' = lastChanged /\ app' = app /\ stored' = stored
      /\ responses' = responses /\ turns' = turns
      /\ vals' = vals /\ regular' = regular /\ missed' = missed /\ restarts' = restarts
  BY DEF Commit
<1>3. TypeOK'
  <2>1. phase' \in {"idle", "stored", "executed", "committed", "failed", "refused"}
    BY Zenon, <1>2
  <2>2. QED
    BY Zenon, <1>1, <1>2, <2>1 DEF TypeOK
<1>4. Close' /\ Proportions'
  BY Zenon, <1>2, SameState
<1>5. Accepted'
  <2>1. "failed" # "committed"
    OBVIOUS
  <2>2. QED
    BY Zenon, <1>2, <2>1 DEF Accepted
<1>6. InStep'
  <2>1. regular' => Regular(stored')
    BY Zenon, <1>1, <1>2 DEF InStep
  <2>2. regular /\ ~missed =>
          /\ ~changeInVotingPowerMoreOrEqualToOneThird(PowersOf(validators), responses)
          /\ app.current = PowersOf(updateValidators(validators, responses))
    BY Zenon, <1>1, <1>2 DEF InStep
  <2>3. regular /\ ~missed => phase' = "committed"
    BY Zenon, <1>2, <2>2
  <2>4. "committed" # "failed" /\ "committed" \notin {"idle", "stored"}
    OBVIOUS
  <2>5. QED
    BY Zenon, <1>2, <2>1, <2>2, <2>3, <2>4 DEF InStep
<1>7. QED
  BY Zenon, <1>3, <1>4, <1>5, <1>6 DEF VInv

\* SaveState keeps the invariant: the set that updateValidators makes of updates
\* within the limit is close to the one before and is not empty, and a set that
\* has never changed stays balanced.
LEMMA SaveVInv ==
  ASSUME VInv, SaveState
  PROVE  VInv'
<1> DEFINE next == updateValidators(validators, responses)
<1>1. TypeOK /\ InStep /\ Accepted /\ Proportions
  BY Zenon DEF VInv
<1>2. /\ phase = "committed" /\ phase' = "idle"
      /\ validators' = IncrementAccum(next)
      /\ turns' = [turns EXCEPT ![Proposer(next)] = @ + 1]
      /\ last' = validators /\ lastChanged' = NextChanged /\ height' = height + 1
      /\ stored' = <<>> /\ responses' = <<>>
      /\ app' = app /\ vals' = vals /\ regular' = regular /\ missed' = missed
      /\ restarts' = restarts
  BY DEF SaveState
<1>3. ~changeInVotingPowerMoreOrEqualToOneThird(PowersOf(validators), responses)
  BY Zenon, <1>1, <1>2 DEF Accepted
<1>4. /\ IsSet(validators) /\ Total(PowersOf(validators)) > 0 /\ responses \in Seq(Update)
      /\ DOMAIN validators # {}
  BY Zenon, <1>1, Types
<1>5. /\ IsSet(next) /\ Total(PowersOf(next)) > 0
      /\ 3 * Sum(Distance(PowersOf(validators), PowersOf(next)), Keys)
           <= Total(PowersOf(validators))
  BY Zenon, <1>3, <1>4, UpdateClose
<1>6. DOMAIN next # {}
  <2> HIDE DEF next
  <2>1. IsPowers(PowersOf(next)) /\ DOMAIN PowersOf(next) = DOMAIN next
    BY <1>5, PowersOfSet
  <2>2. QED
    BY Zenon, <1>5, <2>1, SomeValidator
<1>7. /\ IsSet(validators') /\ DOMAIN validators' = DOMAIN next
      /\ PowersOf(validators') = PowersOf(next) /\ Proposer(next) \in Keys
  <2> HIDE DEF next
  <2>1. /\ IsSet(IncrementAccum(next)) /\ DOMAIN IncrementAccum(next) = DOMAIN next
        /\ PowersOf(IncrementAccum(next)) = PowersOf(next) /\ Proposer(next) \in DOMAIN next
    BY Zenon, <1>5, <1>6, IncrementSet
  <2>2. DOMAIN next \subseteq Keys
    BY Zenon, <1>5 DEF IsSet
  <2>3. Proposer(next) \in Keys
    BY Zenon, <2>1, <2>2
  <2>4. QED
    BY Zenon, <1>2, <2>1, <2>3
<1>8. height \in Nat /\ lastChanged \in 1..(height + 1) /\ turns \in [Keys -> Nat]
  BY Zenon, <1>1 DEF TypeOK
<1>9. lastChanged' = 1 => responses = <<>> /\ lastChanged = 1
  BY <1>2, <1>8 DEF NextChanged
<1>10. TypeOK'
  <2>1. /\ DOMAIN validators' \subseteq Keys /\ DOMAIN validators' # {}
        /\ validators' \in [DOMAIN validators' -> [power : Nat, accum : Int]]
        /\ Total(PowersOf(validators')) > 0
    BY Zenon, <1>5, <1>6, <1>7 DEF IsSet
  <2>2. /\ DOMAIN last' \subseteq Keys
        /\ last' \in [DOMAIN last' -> [power : Nat, accum : Int]]
    BY Zenon, <1>1, <1>2 DEF TypeOK
  <2>3. height' \in Nat /\ lastChanged' \in 1..(height' + 1)
    BY <1>2, <1>8 DEF NextChanged
  <2>4. turns' \in [Keys -> Nat]
    <3> HIDE DEF next
    <3>1. QED
      BY <1>2, <1>7, <1>8
  <2>5. stored' \in Blocks /\ responses' \in Seq([key : Keys, power : Nat])
    BY <1>2, ValidatorsAssumption
  <2>6. phase' \in {"idle", "stored", "executed", "committed", "failed", "refused"}
    BY Zenon, <1>2
  <2>7. QED
    BY Zenon, <1>1, <1>2, <2>1, <2>2, <2>3, <2>4, <2>5, <2>6 DEF TypeOK
<1>11. Accepted'
  BY <1>2 DEF Accepted
<1>12. Close'
  BY Zenon, <1>2, <1>5, <1>7 DEF Close
<1>13. InStep'
  <2>1. Regular(stored')
    BY <1>2 DEF Regular
  <2>2. regular' /\ ~missed' => app'.current = PowersOf(validators')
    BY Zenon, <1>1, <1>2, <1>7 DEF InStep
  <2>3. phase' # "failed" /\ phase' \notin {"executed", "committed"}
    BY <1>2
  <2>4. QED
    BY Zenon, <2>1, <2>2, <2>3 DEF InStep
<1>14. Proportions'
  <2>1. SUFFICES ASSUME lastChanged' = 1
                 PROVE  Balanced(validators') /\ Accounts(validators', height' + 1, turns')
    BY Zenon DEF Proportions
  <2>2. next = validators
    BY Zenon, <1>9, <2>1, NoUpdates
  <2>3. Balanced(validators) /\ Accounts(validators, height + 1, turns)
    BY Zenon, <1>1, <1>9, <2>1 DEF Proportions
  <2> HIDE DEF next
  <2>4. Balanced(validators')
    BY Zenon, <1>2, <1>4, <2>2, <2>3, IncrementBalanced
  <2>5. Accounts(validators', height' + 1, turns')
    <3>1. height + 1 \in Int /\ height' + 1 = (height + 1) + 1
      BY <1>2, <1>8
    <3>2. /\ validators' = IncrementAccum(validators)
          /\ turns' = [turns EXCEPT ![Proposer(validators)] = @ + 1]
      BY Zenon, <1>2, <2>2
    <3>3. QED
      BY Zenon, <1>4, <1>8, <2>3, <3>1, <3>2, IncrementAccounts
  <2>6. QED
    BY <2>4, <2>5
<1>15. QED
  BY Zenon, <1>10, <1>11, <1>12, <1>13, <1>14 DEF VInv

\* Restart keeps the invariant: the strategy is given the set of the State, which
\* is out of step only if a block that changes the set is not executed again.
LEMMA RestartVInv ==
  ASSUME VInv, Restart
  PROVE  VInv'
<1> DEFINE p == PowersOf(validators)
<1>1. TypeOK /\ InStep /\ Accepted
  BY Zenon DEF VInv
<1>2. /\ restarts < MaxRestarts /\ restarts' = restarts + 1
      /\ app' = SetValidators(p)
      /\ phase' = IF phase \in {"idle", "committed"} THEN phase
                  ELSE IF height = 0 THEN "refused" ELSE "stored"
      /\ missed' = (phase = "committed" /\ responses # <<>>)
      /\ height' = height /\ validators' = validators /\ last' = last
      /\ lastChanged' = lastChanged /\ stored' = stored /\ responses' = responses
      /\ turns' = turns /\ vals' = vals /\ regular' = regular
  BY DEF Restart
<1>3. IsPowers(p) /\ IsSet(validators)
  BY Zenon, <1>1, Types
<1>4. app' = [current |-> p, updates |-> <<>>] /\ app'.current = p
  BY <1>2 DEF SetValidators, emptyStrategy
<1>5. TypeOK'
  <2>1. /\ DOMAIN app'.current \subseteq Keys
        /\ app' = [current |-> app'.current, updates |-> <<>>]
        /\ app'.current \in [DOMAIN app'.current -> Nat]
    BY Zenon, <1>3, <1>4 DEF IsPowers
  <2>2. restarts' \in 0..MaxRestarts
    <3>1. restarts \in 0..MaxRestarts /\ MaxRestarts \in Nat
      BY <1>1, ValidatorsAssumption DEF TypeOK
    <3>2. QED
      BY <1>2, <3>1
  <2>3. missed' \in BOOLEAN
    <3>1. (phase = "committed" /\ responses # <<>>) \in BOOLEAN
      OBVIOUS
    <3>2. QED
      BY Zenon, <1>2, <3>1
  <2>4. phase' \in {"idle", "stored", "executed", "committed", "failed", "refused"}
    BY Zenon, <1>2
  <2>5. QED
    BY Zenon, <1>1, <1>2, <2>1, <2>2, <2>3, <2>4 DEF TypeOK
<1>6. Close' /\ Proportions'
  BY Zenon, <1>2, SameState
<1>7. /\ phase' \in {"idle", "committed"} => phase' = phase
      /\ phase' \notin {"failed", "executed"}
  BY <1>2
<1>8. Accepted'
  BY Zenon, <1>1, <1>2, <1>7 DEF Accepted
<1>9. InStep'
  <2>1. regular' => Regular(stored')
    BY Zenon, <1>1, <1>2 DEF InStep
  <2>2. app'.current = PowersOf(validators')
    BY Zenon, <1>2, <1>4
  <2>3. ASSUME ~missed', phase' \in {"executed", "committed"}
        PROVE  /\ ~changeInVotingPowerMoreOrEqualToOneThird(PowersOf(validators'), responses')
               /\ app'.current = PowersOf(updateValidators(validators', responses'))
    <3>1. phase' = "committed" /\ phase = "committed"
      BY <1>7, <2>3
    <3>2. responses' = <<>>
      BY Zenon, <1>2, <2>3, <3>1
    <3>3. QED
      BY Zenon, <1>2, <2>2, <3>2, NoUpdates DEF changeInVotingPowerMoreOrEqualToOneThird
  <2>4. phase' # "failed"
    BY Zenon, <1>7
  <2>5. QED
    BY Zenon, <2>1, <2>2, <2>3, <2>4 DEF InStep
<1>10. QED
  BY Zenon, <1>5, <1>6, <1>8, <1>9 DEF VInv

\* The invariant is inductive.
LEMMA StepVInv ==
  ASSUME VInv, [Next]_vars
  PROVE  VInv'
<1>1. CASE UNCHANGED vars
  <2>1. /\ height' = height /\ validators' = validators /\ last' = last
        /\ lastChanged' = lastChanged /\ app' = app /\ stored' = stored
        /\ responses' = responses /\ phase' = phase /\ turns' = turns
        /\ vals' = vals /\ regular' = regular /\ missed' = missed /\ restarts' = restarts
    BY <1>1 DEF vars
  <2>2. Close' /\ Proportions'
    BY Zenon, <2>1, SameState
  <2>3. TypeOK'
    BY Zenon, <2>1 DEF VInv, TypeOK
  <2>4. Accepted' /\ InStep'
    BY Zenon, <2>1 DEF VInv, Accepted, InStep
  <2>5. QED
    BY Zenon, <2>2, <2>3, <2>4 DEF VInv
<1>2. QED
  BY Zenon, <1>1, StoreVInv, ExecVInv, CommitVInv, SaveVInv, RestartVInv DEF Next

\* In every reachable state the invariant holds.
THEOREM InvariantThm == Spec => []VInv
<1>1. Init => VInv
  BY InitVInv
<1>2. VInv /\ [Next]_vars => VInv'
  BY StepVInv
<1>3. QED
  BY <1>1, <1>2, PTL DEF Spec

\* The variables have their types, the node's set is never empty and has some
\* voting power, and no power is negative, whatever the transactions say.
THEOREM TypeOKThm == Spec => []TypeOK
<1>1. VInv => TypeOK
  BY Zenon DEF VInv
<1>2. QED
  BY <1>1, InvariantThm, PTL

\* Two commits that the node accepts for consecutive heights have a signer in
\* common, whatever the genesis file, the transactions and the restarts: the
\* limit of one third that updateState checks is small enough.
THEOREM CommitsShareSignerThm == Spec => []CommitsShareSigner
<1>1. ASSUME VInv PROVE CommitsShareSigner
  <2> DEFINE p == PowersOf(last)
             q == PowersOf(validators)
  <2>1. SUFFICES ASSUME NEW c \in SUBSET DOMAIN last, NEW d \in SUBSET DOMAIN validators,
                        VerifyCommit(last, c), VerifyCommit(validators, d)
                 PROVE  c \cap d # {}
    BY Zenon DEF CommitsShareSigner
  <2>2. TypeOK /\ Close
    BY Zenon, <1>1 DEF VInv
  <2>3. /\ IsPowers(p) /\ DOMAIN p = DOMAIN last
        /\ IsPowers(q) /\ DOMAIN q = DOMAIN validators
    BY Zenon, <2>2, Types, PowersOfSet
  <2>4. Sum(p, c) > (Total(p) * 2) \div 3 /\ Sum(q, d) > (Total(q) * 2) \div 3
    BY Zenon, <2>1 DEF VerifyCommit, Sum
  <2>5. DOMAIN last # {}
    <3>1. SUFFICES ASSUME DOMAIN last = {} PROVE FALSE
      OBVIOUS
    <3>2. c = {} /\ DOMAIN p = {}
      BY <2>3, <3>1
    <3>3. Sum(p, {}) = 0
      BY FS_EmptySet, SumZero
    <3>4. Total(p) = Sum(p, {})
      BY Zenon, <3>2 DEF Total, SumFunction, Sum
    <3> HIDE DEF p
    <3>5. QED
      BY <2>4, <3>2, <3>3, <3>4
  <2>6. 3 * Sum(Distance(p, q), Keys) <= Total(p)
    BY Zenon, <2>2, <2>5 DEF Close
  <2>7. c \in SUBSET DOMAIN p /\ d \in SUBSET DOMAIN q
    BY Zenon, <2>1, <2>3
  <2> HIDE DEF p, q
  <2>8. QED
    BY <2>3, <2>4, <2>6, <2>7, QuorumsMeet
<1>2. QED
  BY <1>1, InvariantThm, PTL

\* As long as every block is regular, updateState never refuses the updates that
\* the strategy has returned, also when a restart makes the block be executed
\* twice.
THEOREM UpdatesAcceptedThm == Spec => []UpdatesAccepted
<1>1. VInv => UpdatesAccepted
  BY Zenon DEF VInv, InStep, UpdatesAccepted
<1>2. QED
  BY <1>1, InvariantThm, PTL

\* Between blocks the strategy knows exactly the set of the State, as long as
\* every block so far was regular and no restart fell between the application's
\* Commit and SaveState of a block that changes the set.
THEOREM StrategyMatchesStateThm == Spec => []StrategyMatchesState
<1>1. VInv => StrategyMatchesState
  BY Zenon DEF VInv, InStep, StrategyMatchesState
<1>2. QED
  BY <1>1, InvariantThm, PTL

\* While the set is the one of the genesis file, every validator has had less
\* than one turn more than its share of the heights, and of n validators none has
\* had more than (n - 1) / 2 turns less, for every genesis file and at every
\* height.
THEOREM ProposersProportionalThm == Spec => []ProposersProportional
<1>1. ASSUME VInv PROVE ProposersProportional
  <2> DEFINE T == Total(PowersOf(validators))
             n == Cardinality(DOMAIN validators)
             Ahead(k) == turns[k] * T - (height + 1) * validators[k].power
  <2>1. SUFFICES ASSUME lastChanged = 1, NEW k \in DOMAIN validators
                 PROVE  Ahead(k) < T /\ -2 * Ahead(k) <= (n - 1) * T
    BY Zenon DEF ProposersProportional
  <2>2. TypeOK /\ Balanced(validators) /\ Accounts(validators, height + 1, turns)
    BY Zenon, <1>1, <2>1 DEF VInv, Proportions
  <2>3. /\ IsSet(validators) /\ IsPowers(PowersOf(validators))
        /\ height \in Nat /\ turns \in [Keys -> Nat]
    BY Zenon, <2>2, Types DEF TypeOK
  <2> DEFINE a == validators[k].accum
             w == validators[k].power
  <2>4. /\ a \in Int /\ w \in Nat /\ k \in Keys /\ turns[k] \in Nat
        /\ a = (height + 1) * w - turns[k] * T
    BY <2>2, <2>3 DEF IsSet, Accounts
  <2>5. T \in Nat
    BY Zenon, <2>3, WeightSum
  <2>6. IsFiniteSet(DOMAIN validators) /\ n \in Nat
    BY <2>3, ValidatorsAssumption, FS_Subset, FS_CardinalityType DEF IsSet
  <2>7. a > -T
    BY Zenon, <2>2 DEF Balanced
  <2>8. 2 * a <= (n - 1) * T
    <3> DEFINE f == Accum(validators)
    <3>1. {k} \in SUBSET DOMAIN validators /\ f[k] = a
      BY DEF Accum
    <3>2. (Cardinality({k}) + 1) * Sum(f, {k}) <= Cardinality({k}) * (n - Cardinality({k})) * T
      BY Zenon, <2>2, <3>1 DEF Balanced
    <3>3. Cardinality({k}) = 1 /\ IsFiniteSet({k})
      BY FS_Singleton
    <3>4. Sum(f, {k}) = a
      <4>1. \A x \in {k} : f[x] \in Int
        BY <2>4, <3>1
      <4>2. {k} \ {k} = {} /\ k \in {k}
        BY SMTT(30)
      <4> HIDE DEF f
      <4>3. Sum(f, {k}) = f[k] + Sum(f, {k} \ {k}) /\ Sum(f, {}) = 0
        BY <3>3, <4>1, <4>2, SumTerms
      <4>4. Sum(f, {k}) = a + 0
        BY Zenon, <3>1, <4>2, <4>3
      <4> HIDE DEF a
      <4>5. QED
        BY <2>4, <4>4
    <3> HIDE DEF f, a, n, T
    <3>5. (1 + 1) * a <= 1 * (n - 1) * T
      BY Zenon, <3>2, <3>3, <3>4
    <3>6. QED
      BY <2>4, <2>5, <2>6, <3>5
  <2>9. Ahead(k) = -a
    <3>1. (height + 1) * w \in Int /\ turns[k] * T \in Int
      BY <2>3, <2>4, <2>5
    <3> HIDE DEF T, a
    <3>2. QED
      BY <2>4, <3>1
  <2> HIDE DEF T, a, n, Ahead
  <2>10. QED
    BY <2>4, <2>5, <2>6, <2>7, <2>8, <2>9
<1>2. QED
  BY <1>1, InvariantThm, PTL
=============================================================================
