---------------------------- MODULE TxPoolProofs ----------------------------
(***************************************************************************)
(* Proofs about TxPool, for every finite set of accounts and transactions  *)
(* and every limit on the lists of the pool.                               *)
(***************************************************************************)
EXTENDS TxPool, FiniteSetTheorems, TLAPS

\* Induction over the subsets of a finite set: a set G of sets that holds a
\* set as soon as it holds its proper subsets holds them all.
LEMMA SubsetInduction ==
  ASSUME NEW S, IsFiniteSet(S), NEW G,
         \A T \in SUBSET S : (\A R \in SUBSET T : R # T => R \in G) => T \in G
  PROVE  \A T \in SUBSET S : T \in G
<1> DEFINE Bad == {T \in SUBSET S : T \notin G}
           Order == StrictSubsetOrdering(S)
<1>1. SUFFICES ASSUME Bad # {} PROVE FALSE
  BY <1>1
<1>2. Bad \subseteq FiniteSubsetsOf(S)
  BY FS_Subset DEF FiniteSubsetsOf
<1>3. IsWellFoundedOn(Order, FiniteSubsetsOf(S))
  BY FS_StrictSubsetOrderingWellFounded
<1>4. PICK T \in Bad : \A R \in Bad : ~(<<R, T>> \in Order)
  <2> HIDE DEF Order, Bad
  <2> QED BY <1>1, <1>2, <1>3, WFMin
<1>5. \A R \in SUBSET T : R # T => R \in G
  <2>1. SUFFICES ASSUME NEW R \in SUBSET T, R # T, R \notin G PROVE FALSE
    OBVIOUS
  <2>2. R \in Bad
    BY <2>1
  <2>3. <<R, T>> \in Order
    BY <2>1 DEF StrictSubsetOrdering
  <2>4. QED
    BY <2>2, <2>3, <1>4
<1>6. QED
  BY <1>4, <1>5

-----------------------------------------------------------------------------
\* The sum of the costs of transactions.  Sum is defined by a function on the
\* subsets of its argument that takes out one element after the other.
Picked(s) == CHOOSE x \in s : TRUE

IsSum(S, f) ==
  f = [s \in SUBSET S |-> IF s = {} THEN 0 ELSE Picked(s).cost + f[s \ {Picked(s)}]]

\* Sum is the value of that function on the whole set.
LEMMA SumDef ==
  ASSUME NEW S
  PROVE  Sum(S) = (CHOOSE f : IsSum(S, f))[S]
BY Zenon DEF Sum, MapThenSumSet, MapThenFoldSet, IsSum, Picked

\* The function exists, and so the sum takes out the element it picks.
LEMMA SumRecursive ==
  \A T \in SUBSET Txs :
    Sum(T) = IF T = {} THEN 0 ELSE Picked(T).cost + Sum(T \ {Picked(T)})
<1> DEFINE Unfolds(T) == IF T = {} THEN 0 ELSE Picked(T).cost + Sum(T \ {Picked(T)})
           G == {T \in SUBSET Txs : Sum(T) = Unfolds(T)}
<1>1. ASSUME NEW T \in SUBSET Txs, \A R \in SUBSET T : R # T => R \in G
      PROVE  T \in G
  <2> DEFINE f == [s \in SUBSET T |-> Unfolds(s)]
             g == CHOOSE h : IsSum(T, h)
  <2>0. \A s : s # {} => Picked(s) \in s
    BY Zenon DEF Picked
  <2>1. \A R \in SUBSET T : R # T => Sum(R) = Unfolds(R)
    BY Zenon, <1>1
  <2>2. \A s \in SUBSET T : s # {} => /\ s \ {Picked(s)} \in SUBSET T
                                      /\ s \ {Picked(s)} # T
                                      /\ s \ {Picked(s)} \in SUBSET s
                                      /\ s \ {Picked(s)} # s
    BY <2>0
  <2> HIDE DEF Unfolds
  <2>3. \A s \in SUBSET T :
          f[s] = IF s = {} THEN 0 ELSE Picked(s).cost + f[s \ {Picked(s)}]
    <3>1. SUFFICES ASSUME NEW s \in SUBSET T
                   PROVE  f[s] = IF s = {} THEN 0 ELSE Picked(s).cost + f[s \ {Picked(s)}]
      BY Zenon
    <3>2. CASE s = {}
      BY Zenon, <3>2 DEF Unfolds
    <3>3. CASE s # {}
      <4>1. f[s \ {Picked(s)}] = Sum(s \ {Picked(s)})
        BY Zenon, <3>3, <2>1, <2>2
      <4>2. f[s] = Picked(s).cost + Sum(s \ {Picked(s)})
        BY Zenon, <3>3 DEF Unfolds
      <4>3. QED
        BY Zenon, <4>1, <4>2, <3>3
    <3>4. QED
      BY Zenon, <3>2, <3>3
  <2>4. IsSum(T, f)
    <3> DEFINE h == [s \in SUBSET T |->
                       IF s = {} THEN 0 ELSE Picked(s).cost + f[s \ {Picked(s)}]]
    <3>1. f = h
      <4>1. \A s \in SUBSET T : f[s] = h[s]
        BY Zenon, <2>3
      <4>2. f = [s \in SUBSET T |-> f[s]] /\ h = [s \in SUBSET T |-> h[s]]
        BY Zenon
      <4> HIDE DEF f, h
      <4> QED BY Zenon, <4>1, <4>2
    <3>2. QED
      BY Zenon, <3>1 DEF IsSum
  <2>5. IsSum(T, g)
    <3> HIDE DEF f
    <3> QED BY Zenon, <2>4
  <2>6. \A s \in SUBSET T :
          g[s] = IF s = {} THEN 0 ELSE Picked(s).cost + g[s \ {Picked(s)}]
    <3> HIDE DEF g
    <3> QED BY Zenon, <2>5 DEF IsSum
  <2>7. \A s \in SUBSET T : s # T => g[s] = Sum(s)
    <3> DEFINE E == {s \in SUBSET T : s # T => g[s] = Sum(s)}
    <3>1. ASSUME NEW s \in SUBSET T, \A r \in SUBSET s : r # s => r \in E
          PROVE  s \in E
      <4> HIDE DEF g
      <4>1. SUFFICES ASSUME s # T PROVE g[s] = Sum(s)
        BY Zenon
      <4>2. Sum(s) = IF s = {} THEN 0 ELSE Picked(s).cost + Sum(s \ {Picked(s)})
        BY Zenon, <4>1, <2>1 DEF Unfolds
      <4>3. s # {} => g[s \ {Picked(s)}] = Sum(s \ {Picked(s)})
        BY Zenon, <3>1, <2>2
      <4>4. QED
        BY Zenon, <4>2, <4>3, <2>6
    <3>2. IsFiniteSet(T)
      BY FS_Subset, TxPoolAssumption
    <3> HIDE DEF E
    <3>3. \A s \in SUBSET T : s \in E
      BY Zenon, <3>1, <3>2, SubsetInduction
    <3>4. QED
      BY Zenon, <3>3 DEF E
  <2>8. Sum(T) = g[T]
    BY Zenon, SumDef
  <2> HIDE DEF g
  <2>9. Sum(T) = IF T = {} THEN 0 ELSE Picked(T).cost + g[T \ {Picked(T)}]
    BY Zenon, <2>8, <2>6
  <2>10. T # {} => g[T \ {Picked(T)}] = Sum(T \ {Picked(T)})
    BY Zenon, <2>7, <2>2
  <2>11. Sum(T) = Unfolds(T)
    BY Zenon, <2>9, <2>10 DEF Unfolds
  <2>12. QED
    BY Zenon, <2>11
<1>2. IsFiniteSet(Txs)
  BY TxPoolAssumption
<1>3. \A T \in SUBSET Txs : T \in G
  <2> HIDE DEF G
  <2> QED BY Zenon, <1>1, <1>2, SubsetInduction
<1>4. QED
  BY Zenon, <1>3

\* The sum takes out any element.
LEMMA SumRemove ==
  \A T \in SUBSET Txs : /\ Sum(T) \in Nat
                        /\ \A x \in T : Sum(T) = x.cost + Sum(T \ {x})
<1> DEFINE Removes(T) == Sum(T) \in Nat /\ \A x \in T : Sum(T) = x.cost + Sum(T \ {x})
           G == {T \in SUBSET Txs : Removes(T)}
<1>1. ASSUME NEW T \in SUBSET Txs, \A R \in SUBSET T : R # T => R \in G
      PROVE  T \in G
  <2> DEFINE y == Picked(T)
  <2>1. \A R \in SUBSET T : R # T => Removes(R)
    BY Zenon, <1>1
  <2> HIDE DEF G
  <2>2. CASE T = {}
    <3>1. Sum(T) = 0
      BY Zenon, <2>2, SumRecursive
    <3>2. QED
      BY <3>1, <2>2 DEF G
  <2>3. CASE T # {}
    <3>1. y \in T
      BY Zenon, <2>3 DEF Picked
    <3>2. Sum(T) = y.cost + Sum(T \ {y})
      BY Zenon, <2>3, SumRecursive
    <3> HIDE DEF y
    <3>3. \A x \in T : x.cost \in Nat
      BY TxPoolAssumption
    <3>4. \A x \in T : T \ {x} \in SUBSET T /\ T \ {x} # T
      OBVIOUS
    <3>5. \A x \in T : Removes(T \ {x})
      BY Zenon, <3>4, <2>1
    <3>6. Sum(T) \in Nat
      BY <3>1, <3>2, <3>3, <3>5
    <3>7. ASSUME NEW x \in T, x # y PROVE Sum(T) = x.cost + Sum(T \ {x})
      <4>1. Sum(T \ {y}) = x.cost + Sum((T \ {y}) \ {x})
        BY <3>1, <3>5, <3>7
      <4>2. Sum(T \ {x}) = y.cost + Sum((T \ {x}) \ {y})
        BY <3>1, <3>5, <3>7
      <4>3. (T \ {y}) \ {x} = (T \ {x}) \ {y}
        OBVIOUS
      <4>4. Sum((T \ {x}) \ {y}) \in Nat
        <5>1. (T \ {x}) \ {y} \in SUBSET T /\ (T \ {x}) \ {y} # T
          BY <3>1
        <5>2. QED
          BY Zenon, <5>1, <2>1
      <4>5. Sum(T) = y.cost + (x.cost + Sum((T \ {x}) \ {y}))
        BY Zenon, <4>1, <4>3, <3>2
      <4>6. x.cost \in Nat /\ y.cost \in Nat
        BY Zenon, <3>1, <3>3
      <4>7. \A k, m, n \in Nat : k + (m + n) = m + (k + n)
        OBVIOUS
      <4>8. Sum(T) = x.cost + (y.cost + Sum((T \ {x}) \ {y}))
        BY Zenon, <4>4, <4>5, <4>6, <4>7
      <4>9. QED
        BY Zenon, <4>2, <4>8
    <3>8. QED
      BY Zenon, <3>2, <3>6, <3>7 DEF G
  <2>4. QED
    BY Zenon, <2>2, <2>3
<1>2. IsFiniteSet(Txs)
  BY TxPoolAssumption
<1>3. \A T \in SUBSET Txs : T \in G
  <2> HIDE DEF G
  <2> QED BY Zenon, <1>1, <1>2, SubsetInduction
<1>4. QED
  BY Zenon, <1>3

\* The sum of two lists without a common transaction.
LEMMA SumUnion ==
  ASSUME NEW S \in SUBSET Txs, NEW U \in SUBSET Txs, S \cap U = {}
  PROVE  Sum(S \cup U) = Sum(S) + Sum(U)
<1> DEFINE G == {T \in SUBSET U : Sum(S \cup T) = Sum(S) + Sum(T)}
<1>1. ASSUME NEW T \in SUBSET U, \A R \in SUBSET T : R # T => R \in G
      PROVE  T \in G
  <2>1. CASE T = {}
    <3>1. Sum(T) = 0 /\ S \cup T = S /\ Sum(S) \in Nat
      BY Zenon, <2>1, SumRecursive, SumRemove
    <3>2. QED
      BY <3>1
  <2>2. CASE T # {}
    <3>1. PICK x \in T : TRUE
      BY <2>2
    <3>2. T \ {x} \in G
      BY <3>1, <1>1
    <3>3. (S \cup T) \ {x} = S \cup (T \ {x})
      BY <3>1
    <3>4. Sum(S \cup T) = x.cost + Sum(S \cup (T \ {x}))
      BY <3>1, <3>3, SumRemove
    <3>5. Sum(T) = x.cost + Sum(T \ {x})
      BY <3>1, SumRemove
    <3>6. /\ x.cost \in Nat /\ Sum(S) \in Nat /\ Sum(T \ {x}) \in Nat
      BY <3>1, SumRemove, TxPoolAssumption
    <3>7. QED
      BY <3>2, <3>4, <3>5, <3>6
  <2>3. QED
    BY <2>1, <2>2
<1>2. IsFiniteSet(U)
  BY FS_Subset, TxPoolAssumption
<1>3. U \in G
  <2> HIDE DEF G
  <2> QED BY Zenon, <1>1, <1>2, SubsetInduction
<1>4. QED
  BY Zenon, <1>3

\* Dropping transactions sets their cost free.
LEMMA SumSubset ==
  ASSUME NEW S \in SUBSET Txs, NEW R \in SUBSET S
  PROVE  Sum(R) \in Nat /\ Sum(S) \in Nat /\ Sum(R) <= Sum(S)
<1>1. Sum(R \cup (S \ R)) = Sum(R) + Sum(S \ R)
  BY SumUnion
<1>2. R \cup (S \ R) = S
  OBVIOUS
<1>3. Sum(R) \in Nat /\ Sum(S) \in Nat /\ Sum(S \ R) \in Nat
  BY SumRemove
<1>4. QED
  BY <1>1, <1>2, <1>3

-----------------------------------------------------------------------------
\* The lowest nonce of a list.
LEMMA MinOf ==
  ASSUME NEW S \in SUBSET Nat, S # {}
  PROVE  Min(S) \in S /\ \A y \in S : Min(S) <= y
<1> DEFINE R == OpToRel(<, Nat)
<1>1. PICK m \in S : \A y \in S : ~(<<y, m>> \in R)
  <2>1. IsWellFoundedOn(R, Nat)
    BY Zenon, NatLessThanWellFounded
  <2> HIDE DEF R
  <2> QED BY Zenon, <2>1, WFMin
<1>2. \A y \in S : y < m => <<y, m>> \in R
  BY DEF OpToRel
<1> HIDE DEF R
<1>3. \A y \in S : ~(y < m)
  BY Zenon, <1>1, <1>2
<1>4. \A y \in S : m <= y
  BY <1>3
<1>5. QED
  BY Zenon, <1>4 DEF Min

\* The highest number of a finite set.
LEMMA MaxOf ==
  ASSUME NEW S \in SUBSET Int, IsFiniteSet(S), S # {}
  PROVE  Max(S) \in S /\ \A y \in S : y <= Max(S)
<1> DEFINE G == {T \in SUBSET S : T # {} => \E m \in T : \A y \in T : m >= y}
<1>1. ASSUME NEW T \in SUBSET S, \A R \in SUBSET T : R # T => R \in G
      PROVE  T \in G
  <2>1. SUFFICES ASSUME T # {} PROVE \E m \in T : \A y \in T : m >= y
    OBVIOUS
  <2>2. PICK x \in T : TRUE
    BY Zenon, <2>1
  <2>3. CASE T = {x}
    BY <2>3
  <2>4. CASE T # {x}
    <3>1. T \ {x} \in G /\ T \ {x} # {}
      BY Zenon, <2>2, <2>4, <1>1
    <3>2. PICK m \in T \ {x} : \A y \in T \ {x} : m >= y
      BY <3>1
    <3>3. CASE m >= x
      BY <3>2, <3>3
    <3>4. CASE ~(m >= x)
      BY <3>2, <3>4
    <3>5. QED
      BY <3>3, <3>4
  <2>5. QED
    BY <2>3, <2>4
<1>2. S \in G
  <2> HIDE DEF G
  <2> QED BY Zenon, <1>1, SubsetInduction
<1>3. PICK m \in S : \A y \in S : m >= y
  BY <1>2
<1>4. Max(S) \in S /\ \A y \in S : Max(S) >= y
  BY Zenon, <1>3 DEF Max
<1>5. QED
  BY <1>4

-----------------------------------------------------------------------------
\* No two transactions of a list have the same nonce (txSortedMap is a map).
Distinct(txs) == \A s, t \in txs : s.nonce = t.nonce => s = t

\* The transactions fill the nonces from lo on, up to but not including hi.
Fills(txs, lo, hi) ==
  /\ \A tx \in txs : lo <= tx.nonce /\ tx.nonce < hi
  /\ \A n \in Nat : lo <= n /\ n < hi => \E tx \in txs : tx.nonce = n

\* The nonces of a list are numbers, finitely many.
LEMMA NoncesOf ==
  ASSUME NEW txs \in SUBSET Txs
  PROVE  /\ Nonces(txs) \in SUBSET Nat
         /\ IsFiniteSet(Nonces(txs)) /\ IsFiniteSet(txs)
         /\ Nonces(txs) = {} <=> txs = {}
<1> DEFINE f == [tx \in txs |-> tx.nonce]
<1>1. Nonces(txs) \in SUBSET Nat
  BY TxPoolAssumption DEF Nonces
<1>2. IsFiniteSet(txs)
  BY FS_Subset, TxPoolAssumption
<1>3. f \in Surjection(txs, Nonces(txs))
  <2>1. f \in [txs -> Nonces(txs)]
    BY DEF Nonces
  <2>2. \A n \in Nonces(txs) : \E tx \in txs : f[tx] = n
    BY DEF Nonces
  <2> HIDE DEF f
  <2>3. QED
    BY Zenon, <2>1, <2>2 DEF Surjection
<1> HIDE DEF f
<1>4. IsFiniteSet(Nonces(txs))
  BY Zenon, <1>2, <1>3, FS_Surjection
<1>5. Nonces(txs) = {} <=> txs = {}
  BY Zenon DEF Nonces
<1>6. QED
  BY <1>1, <1>2, <1>4, <1>5

\* A list that fills a run of nonces has as many transactions as nonces.
LEMMA FillsCount ==
  ASSUME NEW txs \in SUBSET Txs, NEW lo \in Nat, NEW hi \in Nat, lo <= hi,
         Distinct(txs), Fills(txs, lo, hi)
  PROVE  /\ Cardinality(txs) = hi - lo
         /\ Nonces(txs) = lo..(hi - 1)
<1> DEFINE f == [tx \in txs |-> tx.nonce]
           N == lo..(hi - 1)
<1>1. \A tx \in txs : tx.nonce \in N
  BY TxPoolAssumption DEF Fills
<1>2. \A n \in N : \E tx \in txs : tx.nonce = n
  BY DEF Fills
<1>3. Nonces(txs) = N
  <2> HIDE DEF N
  <2> QED BY Zenon, <1>1, <1>2 DEF Nonces
<1>4. IsFiniteSet(N) /\ Cardinality(N) = hi - lo
  <2>1. lo \in Int /\ hi - 1 \in Int
    OBVIOUS
  <2>2. /\ IsFiniteSet(N)
        /\ Cardinality(N) = IF lo > hi - 1 THEN 0 ELSE (hi - 1) - lo + 1
    BY Zenon, <2>1, FS_Interval
  <2> HIDE DEF N
  <2>3. QED
    BY <2>2
<1> HIDE DEF N
<1>5. f \in [txs -> N] /\ \A tx \in txs : f[tx] = tx.nonce
  BY Zenon, <1>1
<1> HIDE DEF f
<1>6. f \in Surjection(txs, N)
  BY Zenon, <1>2, <1>5 DEF Surjection
<1>7. f \in Injection(txs, N)
  <2>1. DOMAIN f = txs
    BY Zenon, <1>5
  <2>2. \A s, t \in DOMAIN f : f[s] = f[t] => s = t
    BY Zenon, <2>1, <1>5 DEF Distinct
  <2>3. QED
    BY Zenon, <2>2, <1>5 DEF Injection, IsInjective
<1>8. IsFiniteSet(txs)
  BY NoncesOf
<1>9. Cardinality(txs) = Cardinality(N)
  BY Zenon, <1>6, <1>7, <1>8, FS_Surjection
<1>10. QED
  BY <1>3, <1>4, <1>9 DEF N

\* What Ready takes from a list that has nothing below start: nothing while
\* start is missing, else the whole run from start on, so that the next nonce
\* is missing in what is left.
LEMMA ReadyRun ==
  ASSUME NEW txs \in SUBSET Txs, NEW start \in Nat,
         \A tx \in txs : start <= tx.nonce
  PROVE  /\ Ready(txs, start) \subseteq txs
         /\ Ready(txs, start) = {} => \A tx \in txs : tx.nonce > start
         /\ Ready(txs, start) # {} =>
              LET hi == Max(Nonces(Ready(txs, start))) + 1
              IN /\ hi \in Nat /\ start < hi
                 /\ Fills(Ready(txs, start), start, hi)
                 /\ \A tx \in txs \ Ready(txs, start) : tx.nonce > hi
<1> DEFINE R == Ready(txs, start)
           m == Min(Nonces(txs))
           top == Max(Nonces(R))
<1>0. \A tx \in txs : tx.nonce \in Nat
  BY TxPoolAssumption
<1>1. R \subseteq txs
  BY DEF Ready
<1>2. \A n : n \in Nonces(txs) <=> \E tx \in txs : tx.nonce = n
  BY DEF Nonces
<1>3. \A n : n \in Nonces(R) <=> \E tx \in R : tx.nonce = n
  BY DEF Nonces
<1>4. txs # {} => m \in Nonces(txs) /\ m \in Nat /\ \A y \in Nonces(txs) : m <= y
  BY MinOf, NoncesOf
<1>5. \A tx : tx \in R <=> tx \in txs /\ m <= start /\ (m..tx.nonce) \subseteq Nonces(txs)
  BY DEF Ready
<1> HIDE DEF R, m
<1>6. ASSUME R = {}, NEW tx \in txs PROVE tx.nonce > start
  <2>1. SUFFICES ASSUME tx.nonce = start PROVE FALSE
    BY <1>0
  <2>2. m = start
    BY <2>1, <1>0, <1>2, <1>4
  <2>3. (m..tx.nonce) \subseteq Nonces(txs)
    BY <2>1, <2>2, <1>2
  <2>4. QED
    BY <2>2, <2>3, <1>5, <1>6
<1>7. ASSUME R # {}
      PROVE  /\ top + 1 \in Nat /\ start < top + 1
             /\ Fills(R, start, top + 1)
             /\ \A tx \in txs \ R : tx.nonce > top + 1
  <2>1. m = start
    BY SMTT(30), <1>7, <1>0, <1>1, <1>2, <1>4, <1>5
  <2>2. top \in Nonces(R) /\ top \in Nat /\ \A y \in Nonces(R) : y <= top
    <3>1. Nonces(R) \in SUBSET Nat /\ IsFiniteSet(Nonces(R)) /\ Nonces(R) # {}
      BY <1>1, <1>7, NoncesOf
    <3>2. Nonces(R) \in SUBSET Int
      BY <3>1
    <3>3. QED
      BY <3>1, <3>2, MaxOf
  <2> HIDE DEF top
  <2>3. PICK last \in R : last.nonce = top
    BY <2>2, <1>3
  <2>4. (start..top) \subseteq Nonces(txs)
    BY <2>1, <2>3, <1>5
  <2>5. start <= top
    BY <2>3, <1>1
  <2>6. \A tx \in R : start <= tx.nonce /\ tx.nonce < top + 1
    BY <2>2, <1>0, <1>1, <1>3
  <2>7. ASSUME NEW tx \in txs, tx.nonce <= top + 1,
               tx.nonce = top + 1 => top + 1 \in Nonces(txs)
        PROVE  tx \in R
    <3>1. (start..tx.nonce) \subseteq Nonces(txs)
      <4>1. SUFFICES ASSUME NEW n \in start..tx.nonce PROVE n \in Nonces(txs)
        OBVIOUS
      <4>2. n \in start..top \/ n = top + 1
        BY <2>7, <2>2, <1>0
      <4>3. QED
        BY <4>2, <2>4, <2>7, <1>0, <2>2
    <3>2. QED
      BY <3>1, <2>1, <1>5
  <2>8. \A n \in Nat : start <= n /\ n < top + 1 => \E tx \in R : tx.nonce = n
    <3>1. SUFFICES ASSUME NEW n \in Nat, start <= n, n < top + 1
                   PROVE  \E tx \in R : tx.nonce = n
      OBVIOUS
    <3>2. n \in start..top
      BY <3>1, <2>2
    <3>3. PICK tx \in txs : tx.nonce = n
      BY <3>2, <2>4, <1>2
    <3>4. QED
      BY <3>1, <3>3, <2>2, <2>7
  <2>9. \A tx \in txs \ R : tx.nonce > top + 1
    BY <2>2, <2>7, <1>0, <1>2
  <2>10. QED
    BY SMTT(30), <2>2, <2>5, <2>6, <2>8, <2>9 DEF Fills
<1>8. QED
  BY Zenon, <1>1, <1>6, <1>7 DEF R

\* Cap gives up the highest nonces: with a transaction those above it.
LEMMA CapUpward ==
  ASSUME NEW txs \in SUBSET Txs, NEW n \in Int
  PROVE  /\ Cap(txs, n) \subseteq txs
         /\ \A s \in Cap(txs, n), t \in txs : s.nonce <= t.nonce => t \in Cap(txs, n)
<1>1. Cap(txs, n) \subseteq txs
  BY DEF Cap
<1>2. ASSUME NEW s \in Cap(txs, n), NEW t \in txs, s.nonce <= t.nonce
      PROVE  t \in Cap(txs, n)
  <2>1. s \in txs /\ Cardinality(Above(txs, s.nonce)) < Cardinality(txs) - n
    BY DEF Cap
  <2>2. s.nonce \in Nat /\ t.nonce \in Nat /\ \A tx \in txs : tx.nonce \in Nat
    BY <2>1, TxPoolAssumption
  <2>3. Above(txs, t.nonce) \in SUBSET Above(txs, s.nonce)
    BY <1>2, <2>2 DEF Above
  <2>4. Above(txs, s.nonce) \in SUBSET txs
    BY DEF Above
  <2>5. IsFiniteSet(txs) /\ IsFiniteSet(Above(txs, s.nonce))
    BY <2>4, NoncesOf, FS_Subset
  <2>6. Cardinality(Above(txs, t.nonce)) <= Cardinality(Above(txs, s.nonce))
    BY <2>3, <2>5, FS_Subset
  <2>7. /\ Cardinality(Above(txs, t.nonce)) \in Nat
        /\ Cardinality(Above(txs, s.nonce)) \in Nat /\ Cardinality(txs) \in Nat
    BY <2>3, <2>5, FS_Subset, FS_CardinalityType
  <2>8. Cardinality(Above(txs, t.nonce)) < Cardinality(txs) - n
    BY <2>1, <2>6, <2>7
  <2>9. QED
    BY Zenon, <2>8 DEF Cap
<1>3. QED
  BY <1>1, <1>2

-----------------------------------------------------------------------------
\* What the pool holds of account a, whose head state is c: the index is the
\* union of the two lists, the pending nonces run from the head's nonce to the
\* pending nonce, and what is queued and not outdated lies behind them.
Listed(l, a, c) ==
  /\ l \in Part
  /\ l.all = l.pending \cup l.queue
  /\ \A tx \in l.all : tx.from = a
  /\ Distinct(l.pending) /\ Distinct(l.queue)
  /\ c.nonce <= l.nonce
  /\ Fills(l.pending, c.nonce, l.nonce)
  /\ \A tx \in l.queue : c.nonce <= tx.nonce => l.nonce <= tx.nonce
  /\ l.balance <= c.balance - Sum(l.pending)

\* The same between two operations of the pool: nothing queued is executable.
Settled(l, a, c) ==
  /\ Listed(l, a, c)
  /\ \A tx \in l.queue : l.nonce < tx.nonce

\* The fields of a record of the pool.
LEMMA PartFields ==
  ASSUME NEW l \in Part
  PROVE  /\ l.pending \in SUBSET Txs /\ l.queue \in SUBSET Txs /\ l.all \in SUBSET Txs
         /\ l.nonce \in Nat /\ l.balance \in Int /\ l.local \in BOOLEAN
         /\ \A tx \in l.pending \cup l.queue \cup l.all :
              tx.nonce \in Nat /\ tx.cost \in Nat /\ tx.from \in Accounts
BY TxPoolAssumption DEF Part

\* Joining two runs: what is promoted continues the pending transactions.
LEMMA FillsJoin ==
  ASSUME NEW S \in SUBSET Txs, NEW R \in SUBSET Txs,
         NEW lo \in Nat, NEW mid \in Nat, NEW hi \in Nat, lo <= mid, mid <= hi,
         Fills(S, lo, mid), Fills(R, mid, hi), Distinct(S), Distinct(R)
  PROVE  Fills(S \cup R, lo, hi) /\ Distinct(S \cup R) /\ S \cap R = {}
<1>1. \A tx \in S \cup R : tx.nonce \in Nat
  BY TxPoolAssumption
<1>2. \A tx \in S : lo <= tx.nonce /\ tx.nonce < mid
  BY DEF Fills
<1>3. \A tx \in R : mid <= tx.nonce /\ tx.nonce < hi
  BY DEF Fills
<1>4. \A s \in S, t \in R : s.nonce # t.nonce
  BY <1>1, <1>2, <1>3
<1>5. \A tx \in S \cup R : lo <= tx.nonce /\ tx.nonce < hi
  BY <1>1, <1>2, <1>3
<1>6. ASSUME NEW n \in Nat, lo <= n, n < hi PROVE \E tx \in S \cup R : tx.nonce = n
  <2>1. n < mid \/ mid <= n
    OBVIOUS
  <2>2. QED
    BY Zenon, <1>6, <2>1 DEF Fills
<1>7. Distinct(S \cup R)
  BY Zenon, <1>4 DEF Distinct
<1>8. S \cap R = {}
  BY Zenon, <1>4
<1>9. QED
  BY Zenon, <1>5, <1>6, <1>7, <1>8 DEF Fills

\* promoteAccount: what is left in the queue waits behind a gap.
LEMMA PromoteSettles ==
  ASSUME NEW l, NEW a, NEW c \in Account, Listed(l, a, c)
  PROVE  /\ Settled(promoteAccount(l, c), a, c)
         /\ promoteAccount(l, c).all \subseteq l.all
         /\ promoteAccount(l, c).local = l.local
<1> DEFINE old == {tx \in l.queue : tx.nonce < c.nonce}
           drops == {tx \in l.queue \ old : tx.cost > c.balance}
           kept == l.queue \ (old \cup drops)
           R == Ready(kept, l.nonce)
           p == [l EXCEPT !.queue = kept, !.all = @ \ (old \cup drops)]
           q == promoteTxs(p, R)
           over == IF l.local THEN {} ELSE Cap(q.queue, AccountQueue)
           hi == IF R = {} THEN l.nonce ELSE Max(Nonces(R)) + 1
           r == promoteAccount(l, c)
<1>0. l \in Part
  BY DEF Listed
<1>1. /\ l.pending \in SUBSET Txs /\ l.queue \in SUBSET Txs /\ l.all \in SUBSET Txs
      /\ l.nonce \in Nat /\ l.balance \in Int /\ l.local \in BOOLEAN
  BY <1>0, PartFields
<1>2. c.nonce \in Nat /\ c.balance \in Int
  BY TxPoolAssumption DEF Account
<1>3. kept \in SUBSET Txs /\ kept \subseteq l.queue /\ \A tx \in kept : l.nonce <= tx.nonce
  <2>1. kept \in SUBSET Txs /\ kept \subseteq l.queue
    BY <1>1
  <2>2. \A tx \in kept : ~(tx.nonce < c.nonce)
    OBVIOUS
  <2>3. \A tx \in kept : tx.nonce \in Nat
    BY <2>1, TxPoolAssumption
  <2>4. \A tx \in kept : c.nonce <= tx.nonce
    <3> HIDE DEF kept
    <3> QED BY <2>2, <2>3, <1>2
  <2> HIDE DEF kept
  <2>5. QED
    BY Zenon, <2>1, <2>4 DEF Listed
<1>4. /\ p \in Part
      /\ p.pending = l.pending /\ p.queue = kept /\ p.all = l.all \ (old \cup drops)
      /\ p.nonce = l.nonce /\ p.balance = l.balance /\ p.local = l.local
  BY Zenon, <1>0, <1>1 DEF Part
<1>5. r = [q EXCEPT !.queue = @ \ over, !.all = @ \ over]
  BY Zenon DEF promoteAccount
<1>6. /\ R \subseteq kept
      /\ R = {} => \A tx \in kept : tx.nonce > l.nonce
      /\ R # {} => /\ hi \in Nat /\ l.nonce < hi
                   /\ Fills(R, l.nonce, hi)
                   /\ \A tx \in kept \ R : tx.nonce > hi
  <2> HIDE DEF kept
  <2> QED BY Zenon, <1>1, <1>3, ReadyRun
<1> HIDE DEF old, drops, kept, R, p, hi
<1>7. R = {tx \in R : At(p.pending, tx.nonce) = {}}
  <2>1. \A tx \in R : l.nonce <= tx.nonce /\ tx.nonce \in Nat
    BY <1>3, <1>6, TxPoolAssumption
  <2>2. \A s \in l.pending : s.nonce < l.nonce /\ s.nonce \in Nat
    BY <1>1, TxPoolAssumption DEF Listed, Fills
  <2>3. QED
    BY <2>1, <2>2, <1>1, <1>4 DEF At
<1>8. /\ q \in [pending : SUBSET Txs, queue : SUBSET Txs, all : SUBSET Txs,
                nonce : {hi}, balance : {l.balance - Sum(R)}, local : BOOLEAN]
      /\ q.pending = l.pending \cup R /\ q.queue = kept \ R
      /\ q.all = l.all \ (old \cup drops)
      /\ q.nonce = hi /\ q.balance = l.balance - Sum(R) /\ q.local = l.local
  <2>1. q = [p EXCEPT !.queue = @ \ R, !.all = @ \ (R \ R), !.pending = @ \cup R,
                      !.nonce = IF R = {} THEN @ ELSE Max(Nonces(R)) + 1,
                      !.balance = @ - Sum(R)]
    BY Zenon, <1>7 DEF promoteTxs
  <2>2. q = [p EXCEPT !.queue = kept \ R, !.all = l.all \ (old \cup drops),
                      !.pending = l.pending \cup R, !.nonce = hi,
                      !.balance = l.balance - Sum(R)]
    <3>1. p.all \ (R \ R) = l.all \ (old \cup drops)
      BY <1>4
    <3>2. (IF R = {} THEN p.nonce ELSE Max(Nonces(R)) + 1) = hi
      BY Zenon, <1>4 DEF hi
    <3>3. QED
      BY Zenon, <2>1, <3>1, <3>2, <1>4
  <2> HIDE DEF q
  <2>3. QED
    BY Zenon, <2>2, <1>1, <1>3, <1>4, <1>6 DEF Part
<1> HIDE DEF q
<1>9. over \subseteq kept \ R
  BY <1>8 DEF Cap
<1> HIDE DEF over
<1>10. /\ r.pending = l.pending \cup R /\ r.queue = (kept \ R) \ over
       /\ r.all = (l.all \ (old \cup drops)) \ over
       /\ r.nonce = hi /\ r.balance = l.balance - Sum(R) /\ r.local = l.local
       /\ r \in [pending : SUBSET Txs, queue : SUBSET Txs, all : SUBSET Txs,
                 nonce : {hi}, balance : {l.balance - Sum(R)}, local : BOOLEAN]
  BY ZenonT(30), <1>5, <1>8
<1> HIDE DEF r
<1>11. hi \in Nat /\ l.nonce <= hi /\ Fills(R, l.nonce, hi)
       /\ \A tx \in kept \ R : hi < tx.nonce
  <2>1. CASE R = {}
    <3>1. hi = l.nonce
      BY Zenon, <2>1 DEF hi
    <3>2. \A tx \in kept : tx.nonce \in Nat
      BY <1>3, TxPoolAssumption
    <3>3. QED
      BY <2>1, <3>1, <3>2, <1>1, <1>6 DEF Fills
  <2>2. CASE R # {}
    <3>1. \A tx \in kept : tx.nonce \in Nat
      BY <1>3, TxPoolAssumption
    <3>2. QED
      BY SMTT(30), <2>2, <3>1, <1>1, <1>6
  <2>3. QED
    BY <2>1, <2>2
<1>12. R \in SUBSET Txs /\ Sum(R) \in Nat /\ Distinct(R)
  <2>1. R \in SUBSET Txs /\ R \subseteq l.queue
    BY <1>3, <1>6
  <2>2. QED
    BY <2>1, SumRemove DEF Listed, Distinct
<1>13. /\ Fills(r.pending, c.nonce, r.nonce) /\ Distinct(r.pending)
       /\ l.pending \cap R = {}
  <2>1. /\ c.nonce <= l.nonce /\ Fills(l.pending, c.nonce, l.nonce) /\ Distinct(l.pending)
    BY DEF Listed
  <2>2. /\ Fills(l.pending \cup R, c.nonce, hi) /\ Distinct(l.pending \cup R)
        /\ l.pending \cap R = {}
    BY SMTT(30), <2>1, <1>1, <1>2, <1>11, <1>12, FillsJoin
  <2>3. QED
    BY Zenon, <2>2, <1>10
<1>14. r \in Part
  <2>1. l.balance - Sum(R) \in Int
    BY <1>1, <1>12
  <2>2. QED
    BY <2>1, <1>10, <1>11 DEF Part
<1>15. r.all = r.pending \cup r.queue
  <2>1. old \subseteq l.queue /\ drops \subseteq l.queue /\ kept = l.queue \ (old \cup drops)
    BY DEF old, drops, kept
  <2>2. \A tx \in l.pending : tx \notin l.queue \/ tx \in old
    <3>1. \A tx \in l.pending : c.nonce <= tx.nonce /\ tx.nonce < l.nonce /\ tx.nonce \in Nat
      BY <1>1, TxPoolAssumption DEF Listed, Fills
    <3>2. \A tx \in l.queue : c.nonce <= tx.nonce => l.nonce <= tx.nonce
      BY DEF Listed
    <3>3. QED
      BY <3>1, <3>2, <1>1
  <2>3. \A tx \in l.pending : tx \notin old
    BY <1>1, <1>2, TxPoolAssumption DEF Listed, Fills, old
  <2>4. l.all = l.pending \cup l.queue
    BY DEF Listed
  <2>5. QED
    BY SMTT(30), <2>1, <2>2, <2>3, <2>4, <1>6, <1>9, <1>10
<1>16. /\ r.all \subseteq l.all /\ \A tx \in r.all : tx.from = a
       /\ Distinct(r.queue)
  <2>1. r.all \subseteq l.all /\ r.queue \subseteq l.queue
    BY <1>3, <1>10
  <2>2. QED
    BY Zenon, <2>1 DEF Listed, Distinct
<1>17. \A tx \in r.queue : r.nonce < tx.nonce
  BY <1>10, <1>11
<1>18. r.balance <= c.balance - Sum(r.pending)
  <2>1. l.balance <= c.balance - Sum(l.pending)
    BY DEF Listed
  <2>2. Sum(r.pending) = Sum(l.pending) + Sum(R) /\ Sum(l.pending) \in Nat
    BY SMTT(30), <1>1, <1>10, <1>12, <1>13, SumUnion, SumRemove
  <2>3. QED
    BY SMTT(30), <2>1, <2>2, <1>1, <1>2, <1>10, <1>12
<1>19. c.nonce <= r.nonce /\ \A tx \in r.queue : c.nonce <= tx.nonce => r.nonce <= tx.nonce
  <2>1. c.nonce <= l.nonce
    BY DEF Listed
  <2>2. \A tx \in r.queue : tx.nonce \in Nat
    BY <1>14, PartFields
  <2>3. QED
    BY SMTT(30), <2>1, <2>2, <1>1, <1>2, <1>10, <1>11, <1>17
<1>20. Settled(r, a, c)
  BY Zenon, <1>13, <1>14, <1>15, <1>16, <1>17, <1>18, <1>19 DEF Settled, Listed
<1>21. QED
  BY Zenon, <1>10, <1>16, <1>20 DEF r

\* demoteAccount and the new pending state: what stays pending runs from the
\* new head's nonce on, and what no longer can is queued behind it.
LEMMA DemoteLists ==
  ASSUME NEW l, NEW a, NEW c \in Account, NEW h \in Account, c.nonce <= h.nonce,
         Settled(l, a, c)
  PROVE  /\ Listed(manageState(demoteAccount(l, h), h), a, h)
         /\ manageState(demoteAccount(l, h), h).all \subseteq l.all
         /\ manageState(demoteAccount(l, h), h).local = l.local
<1> DEFINE old == {tx \in l.pending : tx.nonce < h.nonce}
           drops == {tx \in l.pending \ old : tx.cost > h.balance}
           left == l.pending \ (old \cup drops)
           inv == IF drops = {} THEN {} ELSE Above(left, Min(Nonces(drops)))
           P == left \ inv
           gapped == IF At(left \ inv, h.nonce) = {} THEN left \ inv ELSE {}
           q == [l EXCEPT !.all = @ \ (old \cup drops), !.pending = left \ (inv \cup gapped)]
           d == demoteAccount(l, h)
           r == manageState(d, h)
           m == IF drops # {} THEN Min(Nonces(drops))
                ELSE IF h.nonce <= l.nonce THEN l.nonce ELSE h.nonce
<1>0. l \in Part /\ Listed(l, a, c)
  BY DEF Listed, Settled
<1>1. /\ l.pending \in SUBSET Txs /\ l.queue \in SUBSET Txs /\ l.all \in SUBSET Txs
      /\ l.nonce \in Nat /\ l.balance \in Int /\ l.local \in BOOLEAN
      /\ \A tx \in l.pending \cup l.queue : tx.nonce \in Nat
  BY <1>0, PartFields
<1>2. c.nonce \in Nat /\ h.nonce \in Nat /\ h.balance \in Int
  BY TxPoolAssumption DEF Account
<1>3. /\ \A tx \in l.pending : c.nonce <= tx.nonce /\ tx.nonce < l.nonce
      /\ \A n \in Nat : c.nonce <= n /\ n < l.nonce => \E tx \in l.pending : tx.nonce = n
      /\ \A tx \in l.queue : l.nonce < tx.nonce
  BY Zenon, <1>0 DEF Listed, Fills, Settled
<1>4. /\ drops \subseteq l.pending /\ left \subseteq l.pending
      /\ left = l.pending \ (old \cup drops) /\ old \subseteq l.pending
      /\ \A tx \in l.pending : tx \in old <=> tx.nonce < h.nonce
  BY SMTT(30)
<1>5. /\ inv \subseteq left
      /\ drops = {} => inv = {}
      /\ drops # {} => \A tx \in left : tx \in inv <=> tx.nonce > m
  BY SMTT(30) DEF Above
<1>6. /\ m \in Nat /\ h.nonce <= m
      /\ drops # {} => m \in Nonces(drops) /\ \A tx \in drops : m <= tx.nonce
  <2>1. CASE drops = {}
    BY SMTT(30), <2>1, <1>1, <1>2
  <2>2. CASE drops # {}
    <3> HIDE DEF drops
    <3>1. m = Min(Nonces(drops))
      BY Zenon, <2>2
    <3>2. drops \in SUBSET Txs
      BY <1>1, <1>4
    <3>3. m \in Nonces(drops) /\ \A y \in Nonces(drops) : m <= y
      BY <3>1, <3>2, <2>2, MinOf, NoncesOf
    <3> HIDE DEF m
    <3>4. m \in Nat /\ \A tx \in drops : m <= tx.nonce
      <4>1. Nonces(drops) \in SUBSET Nat
        BY <3>2, NoncesOf
      <4>2. \A tx \in drops : tx.nonce \in Nonces(drops)
        BY DEF Nonces
      <4>3. QED
        BY Zenon, <4>1, <4>2, <3>3
    <3>5. PICK tx \in drops : tx.nonce = m
      BY <3>3 DEF Nonces
    <3>6. tx \in l.pending /\ ~(tx.nonce < h.nonce)
      BY SMTT(30), <3>5, <1>4 DEF drops
    <3>7. QED
      BY SMTT(30), <3>3, <3>4, <3>5, <3>6, <1>1, <1>2
  <2>3. QED
    BY Zenon, <2>1, <2>2
<1>7. m = h.nonce \/ m <= l.nonce
  <2>1. CASE drops = {}
    BY SMTT(30), <2>1, <1>1, <1>2
  <2>2. CASE drops # {}
    <3> HIDE DEF old, drops, left, inv, m
    <3>1. PICK tx \in drops : tx.nonce = m
      BY ZenonT(30), <2>2, <1>6 DEF Nonces
    <3>2. QED
      BY <3>1, <1>1, <1>3, <1>4
  <2>3. QED
    BY ZenonT(30), <2>1, <2>2
<1>8. Fills(P, h.nonce, m)
  <2>1. CASE drops = {}
    <3>1. m = IF h.nonce <= l.nonce THEN l.nonce ELSE h.nonce
      BY ZenonT(30), <2>1
    <3>2. P = {tx \in l.pending : ~(tx.nonce < h.nonce)}
      BY Zenon, <2>1, <1>4, <1>5
    <3> HIDE DEF m, P
    <3>3. \A tx \in P : h.nonce <= tx.nonce /\ tx.nonce < m
      BY <3>1, <3>2, <1>1, <1>2, <1>3
    <3>4. ASSUME NEW n \in Nat, h.nonce <= n, n < m PROVE \E tx \in P : tx.nonce = n
      <4>1. c.nonce <= n /\ n < l.nonce
        BY <3>1, <3>4, <1>1, <1>2
      <4>2. QED
        BY SMTT(30), <4>1, <3>2, <3>4, <1>1, <1>2, <1>3
    <3>5. QED
      BY Zenon, <3>3, <3>4 DEF Fills
  <2>2. CASE drops # {}
    <3>1. PICK first \in drops : first.nonce = m
      <4> HIDE DEF drops, m
      <4> QED BY Zenon, <2>2, <1>6 DEF Nonces
    <3>2. first \in l.pending /\ first \notin left
      BY <3>1, <1>4
    <3>3. \A tx \in left : tx.nonce # m
      BY ZenonT(30), <3>1, <3>2, <1>0, <1>4 DEF Listed, Distinct
    <3>4. \A tx \in P : tx \in left /\ ~(tx.nonce > m)
      BY Zenon, <2>2, <1>5
    <3> HIDE DEF m, P, left, old
    <3>5. \A tx \in P : h.nonce <= tx.nonce /\ tx.nonce < m
      BY <3>3, <3>4, <1>1, <1>2, <1>4, <1>6
    <3>6. ASSUME NEW n \in Nat, h.nonce <= n, n < m PROVE \E tx \in P : tx.nonce = n
      <4>1. m < l.nonce
        BY <3>1, <3>2, <1>3
      <4>2. PICK tx \in l.pending : tx.nonce = n
        BY SMTT(30), <3>6, <4>1, <1>1, <1>2, <1>3, <1>6
      <4>3. tx \notin old /\ tx \notin drops
        BY SMTT(30), <4>2, <3>6, <2>2, <1>2, <1>4, <1>6
      <4>4. tx \in left /\ tx \notin inv
        BY SMTT(30), <4>2, <4>3, <3>6, <2>2, <1>4, <1>5, <1>6
      <4>5. QED
        BY <4>2, <4>4 DEF P
    <3>7. QED
      BY ZenonT(30), <3>5, <3>6 DEF Fills
  <2>3. QED
    BY Zenon, <2>1, <2>2
<1>9. gapped = {}
  <2>1. SUFFICES ASSUME At(P, h.nonce) = {}, NEW tx \in P PROVE FALSE
    BY Zenon
  <2>2. tx \in l.pending
    BY Zenon, <1>4
  <2> HIDE DEF old, drops, left, inv, P, gapped, m
  <2>3. h.nonce <= tx.nonce /\ tx.nonce < m /\ tx.nonce \in Nat
    BY Zenon, <2>2, <1>1, <1>8 DEF Fills
  <2>4. h.nonce < m
    BY <2>3, <1>2, <1>6
  <2>5. h.nonce <= h.nonce
    BY <1>2
  <2>6. PICK s \in P : s.nonce = h.nonce
    BY Zenon, <2>4, <2>5, <1>2, <1>8 DEF Fills
  <2>7. QED
    BY Zenon, <2>1, <2>6 DEF At
<1>10. inv = {tx \in inv : At(l.queue, tx.nonce) = {}}
  <2> HIDE DEF old, drops, left, inv, P, gapped, m
  <2>1. \A s \in l.queue, t \in inv : s.nonce # t.nonce
    BY <1>1, <1>3, <1>4, <1>5
  <2>2. QED
    BY Zenon, <2>1 DEF At
<1>11. q = [l EXCEPT !.all = l.all \ (old \cup drops), !.pending = P]
  <2>1. left \ (inv \cup gapped) = P
    BY Zenon, <1>9
  <2>2. QED
    BY Zenon, <2>1
<1>12. d = enqueueTxs(q, inv \cup gapped)
  BY Zenon DEF demoteAccount
<1>13. inv \cup gapped = inv
  BY Zenon, <1>9
<1> HIDE DEF old, drops, left, inv, P, gapped, q, d, m
<1>14. P \in SUBSET Txs /\ P \subseteq l.pending /\ P \cup inv = left /\ inv \in SUBSET Txs
  BY <1>1, <1>4, <1>5 DEF P
<1>15. /\ q \in Part /\ q.pending = P /\ q.queue = l.queue /\ q.all = l.all \ (old \cup drops)
       /\ q.local = l.local /\ q.balance = l.balance /\ q.nonce = l.nonce
  BY Zenon, <1>0, <1>1, <1>11, <1>14 DEF Part
<1>16. /\ d \in Part /\ d.pending = P /\ d.queue = l.queue \cup inv
       /\ d.all = (l.all \ (old \cup drops)) \cup inv /\ d.local = l.local
  <2>1. d = [q EXCEPT !.queue = q.queue \cup inv, !.all = q.all \cup inv]
    BY Zenon, <1>10, <1>12, <1>13, <1>15 DEF enqueueTxs
  <2>2. QED
    BY Zenon, <2>1, <1>1, <1>14, <1>15 DEF Part
<1>17. (IF d.pending = {} THEN h.nonce - 1 ELSE Max(Nonces(d.pending))) + 1 = m
  <2>1. CASE P = {}
    <3>1. m = h.nonce
      BY <2>1, <1>2, <1>6, <1>8 DEF Fills
    <3>2. QED
      BY <2>1, <3>1, <1>2, <1>16
  <2>2. CASE P # {}
    <3>1. Distinct(P)
      BY Zenon, <1>0, <1>14 DEF Listed, Distinct
    <3>2. Nonces(P) = h.nonce..(m - 1)
      BY <3>1, <1>2, <1>6, <1>8, <1>14, FillsCount
    <3>3. /\ Nonces(P) \in SUBSET Int /\ IsFiniteSet(Nonces(P)) /\ Nonces(P) # {}
      BY <2>2, <1>14, NoncesOf
    <3>4. Max(Nonces(P)) \in Nonces(P) /\ \A y \in Nonces(P) : y <= Max(Nonces(P))
      BY <3>3, MaxOf
    <3>5. m - 1 \in Nonces(P)
      BY <3>2, <3>4, <1>2, <1>6
    <3>6. Max(Nonces(P)) = m - 1
      BY <3>2, <3>4, <3>5, <1>2, <1>6
    <3>7. QED
      BY <2>2, <3>6, <1>6, <1>16
  <2>3. QED
    BY <2>1, <2>2
<1>18. Sum(P) \in Nat
  BY <1>14, SumRemove
<1>19. /\ r \in Part /\ r.pending = P /\ r.queue = l.queue \cup inv
       /\ r.all = (l.all \ (old \cup drops)) \cup inv /\ r.local = l.local
       /\ r.nonce = m /\ r.balance = h.balance - Sum(P)
  <2>1. r = [d EXCEPT !.nonce = m, !.balance = h.balance - Sum(P)]
    BY Zenon, <1>16, <1>17 DEF manageState
  <2>2. h.balance - Sum(P) \in Int
    BY <1>2, <1>18
  <2>3. QED
    BY Zenon, <2>1, <2>2, <1>6, <1>16 DEF Part
<1> HIDE DEF r
<1>20. r.all = r.pending \cup r.queue /\ r.all \subseteq l.all
  <2>1. l.all = l.pending \cup l.queue
    BY <1>0 DEF Listed
  <2>2. l.pending \cap l.queue = {}
    BY <1>1, <1>3
  <2>3. QED
    BY SMTT(30), <2>1, <2>2, <1>4, <1>5, <1>14, <1>19
<1>21. Distinct(r.queue)
  <2>1. \A s \in l.queue, t \in inv : s.nonce # t.nonce
    BY <1>1, <1>3, <1>4, <1>5
  <2>2. Distinct(inv) /\ Distinct(l.queue)
    BY Zenon, <1>0, <1>4, <1>5 DEF Listed, Distinct
  <2>3. QED
    BY Zenon, <2>1, <2>2, <1>19 DEF Distinct
<1>22. \A tx \in r.queue : h.nonce <= tx.nonce => r.nonce <= tx.nonce
  <2>1. ASSUME NEW tx \in l.queue, h.nonce <= tx.nonce PROVE m <= tx.nonce
    BY <2>1, <1>1, <1>2, <1>3, <1>6, <1>7
  <2>2. ASSUME NEW tx \in inv PROVE m <= tx.nonce
    <3>1. tx.nonce > m /\ tx.nonce \in Nat
      BY <1>1, <1>4, <1>5
    <3>2. QED
      BY <3>1, <1>6
  <2>3. QED
    BY Zenon, <2>1, <2>2, <1>19
<1>23. Distinct(r.pending) /\ \A tx \in r.all : tx.from = a
  BY Zenon, <1>0, <1>14, <1>19, <1>20 DEF Listed, Distinct
<1>24. r.balance <= h.balance - Sum(r.pending)
  BY <1>2, <1>18, <1>19
<1>25. Listed(r, a, h)
  BY Zenon, <1>6, <1>8, <1>19, <1>20, <1>21, <1>22, <1>23, <1>24 DEF Listed
<1>26. QED
  BY Zenon, <1>19, <1>20, <1>25 DEF r, d

\* CapPending: the pending nonce follows what is cut from the top.
LEMMA CapSettles ==
  ASSUME NEW l, NEW a, NEW c \in Account, NEW n \in Int, Settled(l, a, c)
  PROVE  /\ Settled(CapPending(l, n), a, c)
         /\ CapPending(l, n).all \subseteq l.all
         /\ CapPending(l, n).local = l.local
<1> DEFINE drops == Cap(l.pending, n)
           N == Nonces(drops) \cup {l.nonce}
           k == Min(N)
           P == l.pending \ drops
           r == CapPending(l, n)
<1>0. l \in Part /\ Listed(l, a, c)
  BY DEF Listed, Settled
<1>1. /\ l.pending \in SUBSET Txs /\ l.queue \in SUBSET Txs /\ l.all \in SUBSET Txs
      /\ l.nonce \in Nat /\ l.balance \in Int /\ l.local \in BOOLEAN
      /\ \A tx \in l.pending \cup l.queue : tx.nonce \in Nat
  BY <1>0, PartFields
<1>2. c.nonce \in Nat /\ c.balance \in Int
  BY TxPoolAssumption DEF Account
<1>3. /\ \A tx \in l.pending : c.nonce <= tx.nonce /\ tx.nonce < l.nonce
      /\ \A i \in Nat : c.nonce <= i /\ i < l.nonce => \E tx \in l.pending : tx.nonce = i
      /\ \A tx \in l.queue : l.nonce < tx.nonce
  BY Zenon, <1>0 DEF Listed, Fills, Settled
<1>4. /\ drops \subseteq l.pending
      /\ \A s \in drops, t \in l.pending : s.nonce <= t.nonce => t \in drops
  BY <1>1, CapUpward
<1>5. r = [l EXCEPT !.pending = l.pending \ drops, !.all = l.all \ drops, !.nonce = k]
  BY Zenon DEF CapPending
<1> HIDE DEF drops
<1>6. k \in N /\ k \in Nat /\ \A y \in N : k <= y
  <2>1. N \in SUBSET Nat /\ N # {}
    BY <1>1, <1>4, NoncesOf
  <2> HIDE DEF N
  <2>2. QED
    BY Zenon, <2>1, MinOf
<1>7. /\ k <= l.nonce /\ \A tx \in drops : k <= tx.nonce
      /\ k = l.nonce \/ \E tx \in drops : tx.nonce = k
  BY Zenon, <1>6 DEF Nonces
<1> HIDE DEF k
<1>8. c.nonce <= k
  <2>1. c.nonce <= l.nonce
    BY <1>0 DEF Listed
  <2>2. QED
    BY <2>1, <1>3, <1>4, <1>7
<1>9. Fills(P, c.nonce, k)
  <2>1. \A tx \in P : c.nonce <= tx.nonce /\ tx.nonce < k
    BY <1>1, <1>3, <1>4, <1>6, <1>7
  <2>2. ASSUME NEW i \in Nat, c.nonce <= i, i < k PROVE \E tx \in P : tx.nonce = i
    <3>1. PICK tx \in l.pending : tx.nonce = i
      BY <2>2, <1>1, <1>3, <1>6, <1>7
    <3>2. tx \notin drops
      BY <3>1, <2>2, <1>6, <1>7
    <3>3. QED
      BY <3>1, <3>2
  <2>3. QED
    BY Zenon, <2>1, <2>2 DEF Fills
<1>10. /\ r \in Part /\ r.pending = P /\ r.queue = l.queue /\ r.all = l.all \ drops
       /\ r.nonce = k /\ r.balance = l.balance /\ r.local = l.local
  BY ZenonT(30), <1>0, <1>1, <1>5, <1>6 DEF Part
<1> HIDE DEF r
<1>11. r.all = r.pending \cup r.queue /\ r.all \subseteq l.all
  <2>1. l.all = l.pending \cup l.queue
    BY <1>0 DEF Listed
  <2>2. l.pending \cap l.queue = {}
    BY <1>1, <1>3
  <2>3. QED
    BY <2>1, <2>2, <1>4, <1>10
<1>12. /\ Distinct(r.pending) /\ Distinct(r.queue) /\ \A tx \in r.all : tx.from = a
  BY Zenon, <1>0, <1>10, <1>11 DEF Listed, Distinct
<1>13. /\ \A tx \in r.queue : r.nonce < tx.nonce
       /\ \A tx \in r.queue : c.nonce <= tx.nonce => r.nonce <= tx.nonce
  BY SMTT(30), <1>1, <1>3, <1>6, <1>7, <1>10
<1>14. r.balance <= c.balance - Sum(r.pending)
  <2>1. l.balance <= c.balance - Sum(l.pending)
    BY <1>0 DEF Listed
  <2>2. Sum(P) \in Nat /\ Sum(l.pending) \in Nat /\ Sum(P) <= Sum(l.pending)
    BY <1>1, SumSubset
  <2>3. QED
    BY <2>1, <2>2, <1>1, <1>2, <1>10
<1>15. Settled(r, a, c)
  BY Zenon, <1>8, <1>9, <1>10, <1>11, <1>12, <1>13, <1>14 DEF Settled, Listed
<1>16. QED
  BY Zenon, <1>10, <1>11, <1>15 DEF r

\* removeQueued: a queued transaction is not pending, so that removing it
\* leaves the pending ones alone.
LEMMA RemoveSettles ==
  ASSUME NEW l, NEW a, NEW c \in Account, Settled(l, a, c), NEW D, D \subseteq l.queue
  PROVE  /\ Settled(removeQueued(l, D), a, c)
         /\ removeQueued(l, D).all \subseteq l.all
         /\ removeQueued(l, D).local = l.local
<1> DEFINE r == removeQueued(l, D)
<1>0. l \in Part /\ Listed(l, a, c)
  BY DEF Listed, Settled
<1>1. /\ l.pending \in SUBSET Txs /\ l.queue \in SUBSET Txs /\ l.all \in SUBSET Txs
      /\ l.nonce \in Nat /\ \A tx \in l.pending \cup l.queue : tx.nonce \in Nat
  BY <1>0, PartFields
<1>2. /\ \A tx \in l.pending : tx.nonce < l.nonce
      /\ \A tx \in l.queue : l.nonce < tx.nonce
      /\ l.all = l.pending \cup l.queue
  BY Zenon, <1>0 DEF Listed, Fills, Settled
<1>3. \A s \in l.pending, t \in l.queue : s.nonce # t.nonce
  BY <1>1, <1>2
<1>4. D \subseteq l.all /\ Nonces(D) \cap Nonces(l.pending) = {}
  BY <1>2, <1>3 DEF Nonces
<1>5. r = [l EXCEPT !.all = l.all \ D, !.queue = l.queue \ D]
  BY Zenon, <1>4 DEF removeQueued
<1>6. /\ r \in Part /\ r.pending = l.pending /\ r.queue = l.queue \ D /\ r.all = l.all \ D
      /\ r.nonce = l.nonce /\ r.balance = l.balance /\ r.local = l.local
  BY Zenon, <1>0, <1>1, <1>5 DEF Part
<1> HIDE DEF r
<1>7. r.all = r.pending \cup r.queue /\ r.all \subseteq l.all /\ r.queue \subseteq l.queue
  <2>1. l.pending \cap l.queue = {}
    BY Zenon, <1>3
  <2>2. QED
    BY <2>1, <1>2, <1>6
<1>8. /\ Distinct(r.pending) /\ Distinct(r.queue) /\ \A tx \in r.all : tx.from = a
  BY Zenon, <1>0, <1>6, <1>7 DEF Listed, Distinct
<1>9. Settled(r, a, c)
  BY Zenon, <1>0, <1>6, <1>7, <1>8 DEF Settled, Listed
<1>10. QED
  BY Zenon, <1>6, <1>7, <1>9 DEF r

\* The record that add leaves to promoteExecutables: the transaction with the
\* pending nonce is at the head of the queue.
Enqueued(l, tx, local) == [enqueueTxs(l, {tx}) EXCEPT !.local = @ \/ local]

\* Nothing else of the account changes.
LEMMA EnqueueLists ==
  ASSUME NEW l, NEW a, NEW c \in Account, Settled(l, a, c),
         NEW tx \in Txs, tx.from = a, tx.nonce = l.nonce,
         At(l.queue, tx.nonce) = {}, NEW local \in BOOLEAN
  PROVE  /\ Listed(Enqueued(l, tx, local), a, c)
         /\ Enqueued(l, tx, local).all = l.all \cup {tx}
         /\ Enqueued(l, tx, local).local = (l.local \/ local)
<1> DEFINE e == enqueueTxs(l, {tx})
           r == [e EXCEPT !.local = @ \/ local]
<1>0. l \in Part /\ Listed(l, a, c)
  BY DEF Listed, Settled
<1>1. /\ l.pending \in SUBSET Txs /\ l.queue \in SUBSET Txs /\ l.all \in SUBSET Txs
      /\ l.nonce \in Nat /\ \A t \in l.pending \cup l.queue : t.nonce \in Nat
      /\ l.local \in BOOLEAN
  BY <1>0, PartFields
<1>2. {t \in {tx} : At(l.queue, t.nonce) = {}} = {tx}
  OBVIOUS
<1>3. e = [l EXCEPT !.queue = l.queue \cup {tx}, !.all = l.all \cup {tx}]
  BY Zenon, <1>2 DEF enqueueTxs
<1> HIDE DEF e
<1>4. /\ e \in Part /\ e.pending = l.pending /\ e.queue = l.queue \cup {tx}
      /\ e.all = l.all \cup {tx}
      /\ e.nonce = l.nonce /\ e.balance = l.balance /\ e.local = l.local
  BY Zenon, <1>0, <1>1, <1>3 DEF Part
<1>5. r = [e EXCEPT !.local = (l.local \/ local)] /\ (l.local \/ local) \in BOOLEAN
  BY Zenon, <1>1, <1>4
<1>6. /\ r \in Part /\ r.pending = l.pending /\ r.queue = l.queue \cup {tx}
      /\ r.all = l.all \cup {tx} /\ r.nonce = l.nonce /\ r.balance = l.balance
      /\ r.local = (l.local \/ local)
  <2> DEFINE b == l.local \/ local
  <2>1. r = [e EXCEPT !.local = b] /\ b \in BOOLEAN
    BY Zenon, <1>5
  <2> HIDE DEF r, b
  <2>2. /\ r \in Part /\ r.pending = e.pending /\ r.queue = e.queue
        /\ r.all = e.all /\ r.nonce = e.nonce /\ r.balance = e.balance
        /\ r.local = b
    BY <2>1, <1>4 DEF Part
  <2>3. QED
    BY Zenon, <2>2, <1>4 DEF b
<1> HIDE DEF r
<1>7. r.all = r.pending \cup r.queue /\ \A t \in r.all : t.from = a
  BY <1>0, <1>6 DEF Listed
<1>8. Distinct(r.pending) /\ Distinct(r.queue)
  <2>1. \A t \in l.queue : t.nonce # tx.nonce
    BY DEF At
  <2>2. QED
    BY Zenon, <2>1, <1>0, <1>6 DEF Listed, Distinct
<1>9. \A t \in r.queue : c.nonce <= t.nonce => r.nonce <= t.nonce
  <2>1. tx.nonce <= tx.nonce
    BY <1>1
  <2>2. QED
    BY Zenon, <2>1, <1>0, <1>6 DEF Listed
<1>10. Listed(r, a, c)
  BY Zenon, <1>0, <1>6, <1>7, <1>8, <1>9 DEF Listed
<1>11. QED
  BY Zenon, <1>6, <1>10 DEF r, e, Enqueued

-----------------------------------------------------------------------------
\* A pool between two operations, and a pool that has only given up
\* transactions of another.
Whole(p, c) == p \in [Accounts -> Part] /\ \A a \in Accounts : Settled(p[a], a, c[a])

Shrunk(r, p) ==
  \A a \in Accounts : r[a].all \subseteq p[a].all /\ r[a].local = p[a].local

\* equalize cuts lists from the top, whatever level it settles for.
LEMMA EqualizeWhole ==
  ASSUME NEW c \in [Accounts -> Account], NEW p, Whole(p, c)
  PROVE  Whole(equalize(p), c) /\ Shrunk(equalize(p), p)
<1> DEFINE fitting == {level \in AccountSlots..Cardinality(Known(p)) :
                         PendingCount(CutTo(p, level)) <= GlobalSlots}
           level == Max(fitting \cup {AccountSlots})
           r == CutTo(p, level)
<1>1. level \in Int
  <2>1. Known(p) \in SUBSET Txs
    BY PartFields DEF Whole, Known
  <2>2. Cardinality(Known(p)) \in Nat
    BY <2>1, FS_Subset, FS_CardinalityType, TxPoolAssumption
  <2> DEFINE I == AccountSlots..Cardinality(Known(p))
  <2>3. AccountSlots \in Int
    BY TxPoolAssumption
  <2>4. IsFiniteSet(I) /\ I \in SUBSET Int
    BY <2>2, <2>3, FS_Interval
  <2>5. fitting \in SUBSET I
    OBVIOUS
  <2> HIDE DEF I, fitting
  <2>6. /\ fitting \cup {AccountSlots} \in SUBSET Int
        /\ IsFiniteSet(fitting \cup {AccountSlots})
    BY Zenon, <2>3, <2>4, <2>5, FS_Subset, FS_AddElement
  <2>7. QED
    BY <2>6, MaxOf
<1>2. equalize(p) = r
  BY Zenon DEF equalize
<1> HIDE DEF level
<1>3. ASSUME NEW a \in Accounts
      PROVE  /\ Settled(r[a], a, c[a])
             /\ r[a].all \subseteq p[a].all /\ r[a].local = p[a].local
  <2>1. r[a] = CapPending(p[a], level) \/ r[a] = p[a]
    BY Zenon DEF CutTo
  <2>2. Settled(p[a], a, c[a]) /\ c[a] \in Account
    BY DEF Whole
  <2> HIDE DEF r
  <2>3. /\ Settled(CapPending(p[a], level), a, c[a])
        /\ CapPending(p[a], level).all \subseteq p[a].all
        /\ CapPending(p[a], level).local = p[a].local
    BY <2>2, <1>1, CapSettles
  <2>4. QED
    BY Zenon, <2>1, <2>2, <2>3
<1>4. \A a \in Accounts : r[a] \in Part
  BY Zenon, <1>3 DEF Settled, Listed
<1>5. r = [a \in Accounts |-> r[a]]
  BY Zenon DEF CutTo
<1> HIDE DEF r
<1>6. r \in [Accounts -> Part]
  BY Zenon, <1>4, <1>5
<1>7. QED
  BY Zenon, <1>2, <1>3, <1>6 DEF Whole, Shrunk

\* truncateQueue removes queued transactions only.
LEMMA TruncateWhole ==
  ASSUME NEW c \in [Accounts -> Account], NEW p, Whole(p, c), NEW r \in truncateQueue(p)
  PROVE  Whole(r, c) /\ Shrunk(r, p)
<1>1. CASE r = p
  BY Zenon, <1>1 DEF Shrunk
<1>2. CASE \E D : r = [a \in Accounts |-> removeQueued(p[a], p[a].queue \cap D)]
  <2>1. PICK D : r = [a \in Accounts |-> removeQueued(p[a], p[a].queue \cap D)]
    BY Zenon, <1>2
  <2>2. ASSUME NEW a \in Accounts
        PROVE  /\ Settled(r[a], a, c[a])
               /\ r[a].all \subseteq p[a].all /\ r[a].local = p[a].local
    <3>1. r[a] = removeQueued(p[a], p[a].queue \cap D) /\ p[a].queue \cap D \subseteq p[a].queue
      BY Zenon, <2>1
    <3>2. Settled(p[a], a, c[a]) /\ c[a] \in Account
      BY DEF Whole
    <3>3. QED
      BY <3>1, <3>2, RemoveSettles
  <2>3. \A a \in Accounts : r[a] \in Part
    BY Zenon, <2>2 DEF Settled, Listed
  <2>4. r = [a \in Accounts |-> r[a]]
    BY Zenon, <2>1
  <2>5. r \in [Accounts -> Part]
    BY Zenon, <2>3, <2>4
  <2>6. QED
    BY Zenon, <2>2, <2>5 DEF Whole, Shrunk
<1>3. r = p \/ \E D : r = [a \in Accounts |-> removeQueued(p[a], p[a].queue \cap D)]
  BY Zenon DEF truncateQueue
<1>4. QED
  BY Zenon, <1>1, <1>2, <1>3

\* promoteExecutables: it settles the accounts it is given, and what it cuts
\* afterwards leaves every account settled.
LEMMA PromoteWhole ==
  ASSUME NEW c \in [Accounts -> Account], NEW p, NEW accounts,
         \A a \in Accounts : /\ Listed(p[a], a, c[a])
                             /\ a \notin accounts => Settled(p[a], a, c[a]),
         NEW r \in promoteExecutables(p, c, accounts)
  PROVE  Whole(r, c) /\ Shrunk(r, p)
<1> DEFINE q == [a \in Accounts |-> IF a \in accounts THEN promoteAccount(p[a], c[a]) ELSE p[a]]
<1>1. r \in truncateQueue(equalize(q))
  BY ZenonT(30) DEF promoteExecutables
<1>2. ASSUME NEW a \in Accounts
      PROVE  /\ Settled(q[a], a, c[a])
             /\ q[a].all \subseteq p[a].all /\ q[a].local = p[a].local
  <2>1. c[a] \in Account
    OBVIOUS
  <2>2. CASE a \in accounts
    <3>1. q[a] = promoteAccount(p[a], c[a])
      BY Zenon, <2>2
    <3> HIDE DEF q
    <3>2. QED
      BY <2>1, <3>1, PromoteSettles
  <2>3. CASE a \notin accounts
    <3>1. q[a] = p[a]
      BY Zenon, <2>3
    <3> HIDE DEF q
    <3>2. QED
      BY Zenon, <2>3, <3>1
  <2>4. QED
    BY <2>2, <2>3
<1>3. q = [a \in Accounts |-> q[a]]
  BY Zenon
<1> HIDE DEF q
<1>4. Whole(q, c) /\ Shrunk(q, p)
  <2>1. \A a \in Accounts : q[a] \in Part
    BY Zenon, <1>2 DEF Settled, Listed
  <2>2. q \in [Accounts -> Part]
    BY Zenon, <2>1, <1>3
  <2>3. QED
    BY Zenon, <2>2, <1>2 DEF Whole, Shrunk
<1>5. Whole(equalize(q), c) /\ Shrunk(equalize(q), q)
  BY Zenon, <1>4, EqualizeWhole
<1>6. Whole(r, c) /\ Shrunk(r, equalize(q))
  BY Zenon, <1>1, <1>5, TruncateWhole
<1>7. Shrunk(r, p)
  <2>1. SUFFICES ASSUME NEW a \in Accounts
                 PROVE  r[a].all \subseteq p[a].all /\ r[a].local = p[a].local
    BY Zenon DEF Shrunk
  <2>2. /\ r[a].all \subseteq equalize(q)[a].all /\ equalize(q)[a].all \subseteq q[a].all
        /\ q[a].all \subseteq p[a].all
    BY Zenon, <1>4, <1>5, <1>6 DEF Shrunk
  <2>3. r[a].local = p[a].local
    BY Zenon, <1>4, <1>5, <1>6 DEF Shrunk
  <2>4. QED
    BY Zenon, <2>2, <2>3
<1>8. QED
  BY <1>6, <1>7

\* A pool without transactions fits any head state.
LEMMA EmptyWhole ==
  ASSUME NEW c \in [Accounts -> Account]
  PROVE  /\ Whole(emptyPool(c), c)
         /\ \A a \in Accounts : emptyPool(c)[a].all = {} /\ ~emptyPool(c)[a].local
<1> DEFINE e == emptyPool(c)
<1>1. e = [a \in Accounts |-> e[a]]
  BY Zenon DEF emptyPool
<1>2. ASSUME NEW a \in Accounts
      PROVE  Settled(e[a], a, c[a]) /\ e[a].all = {} /\ ~e[a].local
  <2> DEFINE l == [pending |-> {}, queue |-> {}, all |-> {},
                   nonce |-> c[a].nonce, balance |-> c[a].balance, local |-> FALSE]
  <2>1. e[a] = l
    BY Zenon DEF emptyPool
  <2>2. c[a].nonce \in Nat /\ c[a].balance \in Int
    BY TxPoolAssumption DEF Account
  <2>3. /\ l.pending = {} /\ l.queue = {} /\ l.all = {} /\ l.nonce = c[a].nonce
        /\ l.balance = c[a].balance /\ l.local = FALSE
    BY Zenon
  <2>4. l \in Part
    BY <2>2 DEF Part
  <2> HIDE DEF l
  <2>5. Sum({}) = 0
    BY SumRecursive
  <2>6. Fills({}, c[a].nonce, c[a].nonce)
    BY <2>2 DEF Fills
  <2>7. c[a].nonce <= c[a].nonce /\ c[a].balance <= c[a].balance - Sum({})
    BY <2>2, <2>5
  <2>8. Settled(l, a, c[a])
    BY Zenon, <2>3, <2>4, <2>6, <2>7 DEF Settled, Listed, Distinct
  <2>9. QED
    BY Zenon, <2>1, <2>3, <2>8
<1> HIDE DEF e
<1>3. e \in [Accounts -> Part]
  <2>1. \A a \in Accounts : e[a] \in Part
    BY Zenon, <1>2 DEF Settled, Listed
  <2>2. QED
    BY Zenon, <2>1, <1>1
<1>4. QED
  BY Zenon, <1>2, <1>3 DEF Whole, e

\* addTx: the pool stays whole and takes up no other transaction.
LEMMA AddWhole ==
  ASSUME NEW c \in [Accounts -> Account], NEW p, Whole(p, c),
         NEW tx \in Txs, Valid(p, tx), NEW local \in BOOLEAN,
         NEW r \in addTx(p, c, tx, local)
  PROVE  /\ Whole(r, c)
         /\ \A a \in Accounts :
              /\ r[a].all \subseteq p[a].all \cup {tx}
              /\ r[a].local = (p[a].local \/ (a = tx.from /\ local))
              /\ a # tx.from => r[a].all \subseteq p[a].all
<1> DEFINE from == tx.from
           e == Enqueued(p[from], tx, local)
           q == [p EXCEPT ![from] = e]
<1>1. r \in promoteExecutables(q, c, {from})
  BY Zenon DEF addTx, Enqueued
<1>2. from \in Accounts /\ c[from] \in Account
  BY TxPoolAssumption
<1>3. /\ p \in [Accounts -> Part] /\ \A a \in Accounts : Settled(p[a], a, c[a])
  BY DEF Whole
<1>4. tx.nonce = p[from].nonce /\ At(p[from].queue, tx.nonce) = {}
  BY ZenonT(30) DEF Valid
<1>5. /\ Listed(e, from, c[from]) /\ e.all = p[from].all \cup {tx}
      /\ e.local = (p[from].local \/ local)
  <2>1. Settled(p[from], from, c[from])
    BY Zenon, <1>2, <1>3
  <2>2. QED
    BY SMTT(30), <1>2, <1>4, <2>1, EnqueueLists
<1> HIDE DEF e
<1>6. q[from] = e /\ \A a \in Accounts : a # from => q[a] = p[a]
  BY Zenon, <1>2, <1>3
<1> HIDE DEF q
<1>7. \A a \in Accounts : /\ Listed(q[a], a, c[a])
                          /\ a \notin {from} => Settled(q[a], a, c[a])
  BY Zenon, <1>3, <1>5, <1>6 DEF Settled
<1>8. Whole(r, c) /\ Shrunk(r, q)
  BY Zenon, <1>1, <1>7, PromoteWhole
<1>9. ASSUME NEW a \in Accounts
      PROVE  /\ r[a].all \subseteq p[a].all \cup {tx}
             /\ r[a].local = (p[a].local \/ (a = from /\ local))
             /\ a # from => r[a].all \subseteq p[a].all
  <2>1. r[a].all \subseteq q[a].all /\ r[a].local = q[a].local
    BY Zenon, <1>8 DEF Shrunk
  <2>2. CASE a = from
    BY Zenon, <2>1, <2>2, <1>5, <1>6
  <2>3. CASE a # from
    <3>1. p[a].local \in BOOLEAN
      BY <1>3, PartFields
    <3>2. QED
      BY ZenonT(30), <2>1, <2>3, <3>1, <1>6
  <2>4. QED
    BY Zenon, <2>2, <2>3
<1>10. QED
  BY Zenon, <1>8, <1>9

\* reset: the pool fits the new head state, with nothing added.
LEMMA ResetWhole ==
  ASSUME NEW c \in [Accounts -> Account], NEW h \in [Accounts -> Account],
         \A a \in Accounts : h[a].nonce >= c[a].nonce,
         NEW p, Whole(p, c), NEW r \in reset(p, h)
  PROVE  Whole(r, h) /\ Shrunk(r, p)
<1> DEFINE q == [a \in Accounts |-> manageState(demoteAccount(p[a], h[a]), h[a])]
           accounts == {a \in Accounts : q[a].queue # {}}
<1>1. r \in promoteExecutables(q, h, accounts)
  BY Zenon DEF reset
<1>2. ASSUME NEW a \in Accounts
      PROVE  Listed(q[a], a, h[a]) /\ q[a].all \subseteq p[a].all /\ q[a].local = p[a].local
  <2>1. /\ c[a] \in Account /\ h[a] \in Account /\ c[a].nonce <= h[a].nonce
        /\ Settled(p[a], a, c[a])
    <3>1. c[a].nonce \in Nat /\ h[a].nonce \in Nat
      BY TxPoolAssumption DEF Account
    <3>2. QED
      BY <3>1 DEF Whole
  <2>2. q[a] = manageState(demoteAccount(p[a], h[a]), h[a])
    BY Zenon
  <2> HIDE DEF q
  <2>3. QED
    BY SMTT(30), <2>1, <2>2, DemoteLists
<1> HIDE DEF q
<1>3. \A a \in Accounts : a \notin accounts => Settled(q[a], a, h[a])
  BY Zenon, <1>2 DEF Settled
<1> HIDE DEF accounts
<1>4. Whole(r, h) /\ Shrunk(r, q)
  BY Zenon, <1>1, <1>2, <1>3, PromoteWhole
<1>5. Shrunk(r, p)
  <2>1. SUFFICES ASSUME NEW a \in Accounts
                 PROVE  r[a].all \subseteq p[a].all /\ r[a].local = p[a].local
    BY Zenon DEF Shrunk
  <2>2. r[a].all \subseteq q[a].all /\ r[a].local = q[a].local
    BY Zenon, <1>4 DEF Shrunk
  <2>3. QED
    BY Zenon, <2>2, <1>2
<1>6. QED
  BY <1>4, <1>5

\* The rewritten journal holds the transactions of the local accounts.
LEMMA RotatedRange ==
  ASSUME NEW c \in [Accounts -> Account], NEW p, Whole(p, c), NEW f \in Rotated(p)
  PROVE  /\ f \in Seq(Txs)
         /\ Range(f) = UNION {p[a].all : a \in {a \in Accounts : p[a].local}}
<1> DEFINE kept == UNION {p[a].pending \cup p[a].queue : a \in {a \in Accounts : p[a].local}}
           n == Cardinality(kept)
<1>1. f \in Bijection(1..n, kept)
  BY Zenon DEF Rotated
<1>2. \A a \in Accounts : p[a] \in Part /\ p[a].all = p[a].pending \cup p[a].queue
  BY Zenon DEF Whole, Settled, Listed
<1>3. kept = UNION {p[a].all : a \in {a \in Accounts : p[a].local}}
  BY Zenon, <1>2
<1>4. kept \in SUBSET Txs
  BY <1>2, PartFields
<1>5. n \in Nat
  BY <1>4, FS_Subset, FS_CardinalityType, TxPoolAssumption
<1> HIDE DEF kept, n
<1>6. f \in [1..n -> kept] /\ \A t \in kept : \E i \in 1..n : f[i] = t
  BY Zenon, <1>1 DEF Bijection, Injection, Surjection
<1>7. f \in Seq(Txs)
  BY <1>4, <1>5, <1>6
<1>8. Range(f) = kept
  BY Zenon, <1>6 DEF Range
<1>9. QED
  BY Zenon, <1>3, <1>7, <1>8

\* Appending to the journal, and reading it from the front.
LEMMA JournalAppend ==
  ASSUME NEW s \in Seq(Txs), NEW tx \in Txs
  PROVE  /\ Append(s, tx) \in Seq(Txs)
         /\ Range(Append(s, tx)) = Range(s) \cup {tx}
<1>1. /\ Append(s, tx) \in Seq(Txs) /\ DOMAIN s = 1..Len(s) /\ Len(s) \in Nat
      /\ DOMAIN Append(s, tx) = 1..(Len(s) + 1)
      /\ \A i \in 1..Len(s) : Append(s, tx)[i] = s[i]
      /\ Append(s, tx)[Len(s) + 1] = tx
  OBVIOUS
<1>2. \A i : i \in 1..(Len(s) + 1) <=> i \in 1..Len(s) \/ i = Len(s) + 1
  BY <1>1
<1> DEFINE f == Append(s, tx)
<1>3. \A t : t \in Range(f) <=> \E i \in 1..(Len(s) + 1) : f[i] = t
  BY Zenon, <1>1 DEF Range
<1>4. \A t : t \in Range(s) <=> \E i \in 1..Len(s) : s[i] = t
  BY Zenon, <1>1 DEF Range
<1>5. \A t : t \in Range(f) <=> t \in Range(s) \/ t = tx
  <2> HIDE DEF f
  <2> QED BY Zenon, <1>1, <1>2, <1>3, <1>4 DEF f
<1>6. QED
  BY Zenon, <1>1, <1>5

\* journal.load reads the file from the front.
LEMMA JournalHead ==
  ASSUME NEW s \in Seq(Txs), s # <<>>
  PROVE  /\ Head(s) \in Txs /\ Head(s) \in Range(s)
         /\ Tail(s) \in Seq(Txs) /\ Range(Tail(s)) \subseteq Range(s)
<1>1. /\ Tail(s) \in Seq(Txs) /\ DOMAIN s = 1..Len(s) /\ Len(s) \in Nat
      /\ DOMAIN Tail(s) = 1..(Len(s) - 1) /\ 1 \in 1..Len(s) /\ Head(s) = s[1]
      /\ \A i \in 1..(Len(s) - 1) : Tail(s)[i] = s[i + 1] /\ i + 1 \in 1..Len(s)
      /\ s[1] \in Txs
  OBVIOUS
<1>2. \A t : t \in Range(s) <=> \E i \in 1..Len(s) : s[i] = t
  BY Zenon, <1>1 DEF Range
<1>3. \A t \in Range(Tail(s)) : \E i \in 1..(Len(s) - 1) : Tail(s)[i] = t
  BY Zenon, <1>1 DEF Range
<1>4. QED
  BY Zenon, <1>1, <1>2, <1>3

-----------------------------------------------------------------------------
(***************************************************************************)
(* The inductive invariant and the theorems.                               *)
(***************************************************************************)

\* The journal: where senders are local, all that is in the pool is in it and
\* all senders are marked; and what is still to be loaded comes from it.
Journaled ==
  /\ ~noLocals => \A a \in Accounts : /\ pool[a].all \subseteq Range(journal)
                                      /\ pool[a].all = {} \/ pool[a].local
  /\ noLocals => \A a \in Accounts : ~pool[a].local
  /\ loading => ~noLocals /\ Range(unread) \subseteq Range(journal)
  /\ ~loading => unread = <<>>

PInv ==
  /\ TypeOK
  /\ Whole(pool, cur)
  /\ Journaled

\* The pool starts empty.
LEMMA PoolInit == Init => PInv
<1>1. SUFFICES ASSUME Init PROVE PInv
  OBVIOUS
<1>2. cur \in [Accounts -> Account]
  BY <1>1, TxPoolAssumption DEF Init, Account
<1>3. /\ Whole(pool, cur)
      /\ \A a \in Accounts : pool[a].all = {} /\ ~pool[a].local
  BY Zenon, <1>1, <1>2, EmptyWhole DEF Init
<1>4. TypeOK
  <2>1. <<>> \in Seq(Txs)
    OBVIOUS
  <2>2. QED
    BY Zenon, <2>1, <1>1, <1>2, <1>3 DEF Init, TypeOK, Whole
<1>5. Journaled
  BY Zenon, <1>1, <1>3 DEF Init, Journaled
<1>6. QED
  BY Zenon, <1>3, <1>4, <1>5 DEF PInv

\* A transaction that addTx takes up as local and that the journal has.
LEMMA JournaledAdd ==
  ASSUME NEW p, NEW r, NEW tx \in Txs, NEW J, NEW K,
         \A a \in Accounts : p[a].all \subseteq J /\ (p[a].all = {} \/ p[a].local),
         \A a \in Accounts :
           /\ r[a].all \subseteq p[a].all \cup {tx}
           /\ r[a].local = (p[a].local \/ (a = tx.from /\ TRUE))
           /\ a # tx.from => r[a].all \subseteq p[a].all,
         J \cup {tx} \subseteq K
  PROVE  \A a \in Accounts : r[a].all \subseteq K /\ (r[a].all = {} \/ r[a].local)
<1>1. TAKE a \in Accounts
<1>2. r[a].all \subseteq K
  BY Zenon
<1>3. CASE a = tx.from
  BY Zenon, <1>2, <1>3
<1>4. CASE a # tx.from
  <2>1. r[a].all \subseteq p[a].all /\ (p[a].all = {} \/ p[a].local)
    BY Zenon, <1>4
  <2>2. p[a].local => r[a].local
    BY Zenon
  <2>3. p[a].all = {} => r[a].all = {}
    BY Zenon, <2>1
  <2>4. QED
    BY Zenon, <1>2, <2>1, <2>2, <2>3
<1>5. QED
  BY <1>3, <1>4

\* A transaction from the RPC service, journaled if senders are local.
LEMMA AddLocalPreserves ==
  ASSUME PInv, NEW tx \in Txs, AddLocal(tx)
  PROVE  PInv'
<1>1. /\ cur \in [Accounts -> Account] /\ Whole(pool, cur) /\ noLocals \in BOOLEAN
      /\ journal \in Seq(Txs) /\ loading \in BOOLEAN /\ unread \in Seq(Txs)
  BY DEF PInv, TypeOK
<1>2. /\ ~loading /\ Valid(pool, tx) /\ pool' \in addTx(pool, cur, tx, ~noLocals)
      /\ IF noLocals THEN journal' = journal ELSE journal' = Append(journal, tx)
      /\ noLocals' = noLocals /\ cur' = cur /\ loading' = loading /\ unread' = unread
  BY Zenon DEF AddLocal
<1>3. Append(journal, tx) \in Seq(Txs) /\ Range(Append(journal, tx)) = Range(journal) \cup {tx}
  BY <1>1, JournalAppend
<1>4. CASE noLocals
  <2>1. pool' \in addTx(pool, cur, tx, FALSE)
    BY Zenon, <1>2, <1>4
  <2>2. /\ Whole(pool', cur)
        /\ \A a \in Accounts :
             /\ pool'[a].all \subseteq pool[a].all \cup {tx}
             /\ pool'[a].local = (pool[a].local \/ (a = tx.from /\ FALSE))
             /\ a # tx.from => pool'[a].all \subseteq pool[a].all
    BY Zenon, <2>1, <1>1, <1>2, AddWhole
  <2>3. Journaled'
    BY Zenon, <2>2, <1>2, <1>4 DEF PInv, Journaled
  <2>4. TypeOK'
    BY Zenon, <2>2, <1>1, <1>2, <1>4 DEF TypeOK, Whole
  <2>5. QED
    BY Zenon, <2>2, <2>3, <2>4, <1>2 DEF PInv
<1>5. CASE ~noLocals
  <2>1. pool' \in addTx(pool, cur, tx, TRUE)
    BY Zenon, <1>2, <1>5
  <2>2. /\ Whole(pool', cur)
        /\ \A a \in Accounts :
             /\ pool'[a].all \subseteq pool[a].all \cup {tx}
             /\ pool'[a].local = (pool[a].local \/ (a = tx.from /\ TRUE))
             /\ a # tx.from => pool'[a].all \subseteq pool[a].all
    BY Zenon, <2>1, <1>1, <1>2, AddWhole
  <2>3. /\ Range(journal') = Range(journal) \cup {tx} /\ journal' \in Seq(Txs)
    BY Zenon, <1>2, <1>3, <1>5
  <2>4. \A a \in Accounts : /\ pool'[a].all \subseteq Range(journal')
                            /\ pool'[a].all = {} \/ pool'[a].local
    <3>1. \A a \in Accounts : /\ pool[a].all \subseteq Range(journal)
                              /\ (pool[a].all = {} \/ pool[a].local)
      BY Zenon, <1>5 DEF PInv, Journaled
    <3>2. Range(journal) \cup {tx} \subseteq Range(journal')
      BY Zenon, <2>3
    <3> DEFINE J == Range(journal)
               K == Range(journal')
               r == pool'
    <3>3. \A a \in Accounts :
             /\ r[a].all \subseteq pool[a].all \cup {tx}
             /\ r[a].local = (pool[a].local \/ (a = tx.from /\ TRUE))
             /\ a # tx.from => r[a].all \subseteq pool[a].all
      BY Zenon, <2>2
    <3>4. /\ \A a \in Accounts : pool[a].all \subseteq J /\ (pool[a].all = {} \/ pool[a].local)
          /\ J \cup {tx} \subseteq K
      BY Zenon, <3>1, <3>2
    <3> HIDE DEF J, K, r
    <3>5. \A a \in Accounts : r[a].all \subseteq K /\ (r[a].all = {} \/ r[a].local)
      BY Zenon, <3>3, <3>4, JournaledAdd
    <3>6. QED
      BY Zenon, <3>5 DEF r, K
  <2>5. Journaled'
    BY Zenon, <2>4, <1>2, <1>5 DEF PInv, Journaled
  <2>6. TypeOK'
    BY Zenon, <2>2, <2>3, <1>1, <1>2 DEF TypeOK, Whole
  <2>7. QED
    BY Zenon, <2>2, <2>5, <2>6, <1>2 DEF PInv
<1>6. QED
  BY <1>4, <1>5

\* What only shrinks the pool leaves the journal ahead of it.
LEMMA ShrunkJournaled ==
  ASSUME PInv, Shrunk(pool', pool),
         noLocals' = noLocals, journal' = journal, loading' = loading, unread' = unread
  PROVE  Journaled'
<1>1. \A a \in Accounts : /\ pool'[a].all \subseteq pool[a].all
                          /\ pool'[a].local = pool[a].local
  BY Zenon DEF Shrunk
<1>2. \A a \in Accounts : pool[a].all = {} => pool'[a].all = {}
  BY Zenon, <1>1
<1>3. ~noLocals => \A a \in Accounts : /\ pool'[a].all \subseteq Range(journal)
                                       /\ pool'[a].all = {} \/ pool'[a].local
  BY Zenon, <1>1, <1>2 DEF PInv, Journaled
<1>4. QED
  BY Zenon, <1>1, <1>3 DEF PInv, Journaled

\* A new head state.
LEMMA ChainHeadPreserves ==
  ASSUME PInv, ChainHead
  PROVE  PInv'
<1>1. /\ cur \in [Accounts -> Account] /\ Whole(pool, cur) /\ noLocals \in BOOLEAN
      /\ journal \in Seq(Txs) /\ loading \in BOOLEAN /\ unread \in Seq(Txs)
  BY DEF PInv, TypeOK
<1>2. /\ noLocals' = noLocals /\ journal' = journal /\ loading' = loading /\ unread' = unread
  BY DEF ChainHead
<1>3. PICK c \in [Accounts -> Account] :
        /\ \A a \in Accounts : c[a].nonce >= cur[a].nonce
        /\ cur' = c
        /\ pool' \in reset(pool, c)
  BY Zenon DEF ChainHead
<1>4. Whole(pool', c) /\ Shrunk(pool', pool)
  BY Zenon, <1>1, <1>3, ResetWhole
<1>5. Journaled'
  BY Zenon, <1>2, <1>4, ShrunkJournaled
<1>6. TypeOK'
  BY Zenon, <1>1, <1>2, <1>3, <1>4 DEF TypeOK, Whole
<1>7. QED
  BY Zenon, <1>3, <1>4, <1>5, <1>6 DEF PInv

\* The eviction of queues that have not been touched for long.
LEMMA EvictPreserves ==
  ASSUME PInv, Evict
  PROVE  PInv'
<1>1. /\ cur \in [Accounts -> Account] /\ Whole(pool, cur) /\ noLocals \in BOOLEAN
      /\ journal \in Seq(Txs) /\ loading \in BOOLEAN /\ unread \in Seq(Txs)
  BY DEF PInv, TypeOK
<1>2. /\ noLocals' = noLocals /\ journal' = journal /\ loading' = loading
      /\ unread' = unread /\ cur' = cur
  BY DEF Evict
<1>3. PICK expired :
        pool' = [a \in Accounts |->
                   IF a \in expired THEN removeQueued(pool[a], pool[a].queue) ELSE pool[a]]
  BY Zenon DEF Evict
<1>4. ASSUME NEW a \in Accounts
      PROVE  /\ Settled(pool'[a], a, cur[a])
             /\ pool'[a].all \subseteq pool[a].all /\ pool'[a].local = pool[a].local
  <2>1. pool'[a] = removeQueued(pool[a], pool[a].queue) \/ pool'[a] = pool[a]
    BY Zenon, <1>3
  <2>2. Settled(pool[a], a, cur[a]) /\ cur[a] \in Account
    BY <1>1 DEF Whole
  <2> DEFINE l == pool[a]
             c == cur[a]
  <2>3. Settled(l, a, c) /\ c \in Account /\ l.queue \subseteq l.queue
    BY Zenon, <2>2
  <2> HIDE DEF l, c
  <2>4. /\ Settled(removeQueued(l, l.queue), a, c)
        /\ removeQueued(l, l.queue).all \subseteq l.all
        /\ removeQueued(l, l.queue).local = l.local
    BY <2>3, RemoveSettles
  <2>5. QED
    BY Zenon, <2>1, <2>2, <2>4 DEF l, c
<1>5. pool' \in [Accounts -> Part]
  <2>1. \A a \in Accounts : pool'[a] \in Part
    BY Zenon, <1>4 DEF Settled, Listed
  <2>2. pool' = [a \in Accounts |-> pool'[a]]
    BY Zenon, <1>3
  <2>3. QED
    BY Zenon, <2>1, <2>2
<1>6. Whole(pool', cur) /\ Shrunk(pool', pool)
  BY Zenon, <1>4, <1>5 DEF Whole, Shrunk
<1>7. Journaled'
  BY Zenon, <1>2, <1>6, ShrunkJournaled
<1>8. TypeOK'
  BY Zenon, <1>1, <1>2, <1>5 DEF TypeOK
<1>9. QED
  BY Zenon, <1>2, <1>6, <1>7, <1>8 DEF PInv

\* After a rotation the journal has exactly what the pool holds.
LEMMA RotatedJournaled ==
  ASSUME PInv, ~noLocals, NEW f \in Rotated(pool)
  PROVE  f \in Seq(Txs) /\ \A a \in Accounts : pool[a].all \subseteq Range(f)
<1>1. /\ f \in Seq(Txs)
      /\ Range(f) = UNION {pool[a].all : a \in {a \in Accounts : pool[a].local}}
  <2>1. cur \in [Accounts -> Account] /\ Whole(pool, cur)
    BY DEF PInv, TypeOK
  <2>2. QED
    BY Zenon, <2>1, RotatedRange
<1>2. ASSUME NEW a \in Accounts PROVE pool[a].all \subseteq Range(f)
  <2>1. pool[a].all = {} \/ pool[a].local
    BY Zenon DEF PInv, Journaled
  <2>2. QED
    BY Zenon, <2>1, <1>1
<1>3. QED
  BY <1>1, <1>2

\* The journal ticker.
LEMMA RotatePreserves ==
  ASSUME PInv, Rotate
  PROVE  PInv'
<1>1. /\ ~loading /\ ~noLocals /\ journal' \in Rotated(pool)
      /\ noLocals' = noLocals /\ cur' = cur /\ pool' = pool
      /\ loading' = loading /\ unread' = unread
  BY Zenon DEF Rotate
<1>2. journal' \in Seq(Txs) /\ \A a \in Accounts : pool[a].all \subseteq Range(journal')
  BY Zenon, <1>1, RotatedJournaled
<1>3. QED
  BY Zenon, <1>1, <1>2 DEF PInv, TypeOK, Journaled

\* A restart empties the pool and opens the journal, from whatever state.
LEMMA RestartPreserves ==
  ASSUME PInv, Restart
  PROVE  PInv'
<1>1. cur \in [Accounts -> Account] /\ journal \in Seq(Txs) /\ noLocals \in BOOLEAN
  BY DEF PInv, TypeOK
<1>2. /\ pool' = emptyPool(cur) /\ loading' = ~noLocals
      /\ unread' = IF noLocals THEN <<>> ELSE journal
      /\ noLocals' = noLocals /\ cur' = cur /\ journal' = journal
  BY Zenon DEF Restart
<1>3. /\ Whole(pool', cur) /\ \A a \in Accounts : pool'[a].all = {} /\ ~pool'[a].local
  BY Zenon, <1>1, <1>2, EmptyWhole
<1>4. unread' \in Seq(Txs) /\ loading' \in BOOLEAN
  <2>1. <<>> \in Seq(Txs)
    OBVIOUS
  <2>2. QED
    BY Zenon, <2>1, <1>1, <1>2
<1>5. Journaled'
  <2>1. CASE noLocals
    BY Zenon, <2>1, <1>2, <1>3 DEF Journaled
  <2>2. CASE ~noLocals
    BY Zenon, <2>2, <1>2, <1>3 DEF Journaled
  <2>3. QED
    BY <2>1, <2>2
<1>6. TypeOK'
  BY Zenon, <1>1, <1>2, <1>3, <1>4 DEF TypeOK, Whole
<1>7. QED
  BY Zenon, <1>2, <1>3, <1>5, <1>6 DEF PInv

\* A step of the loading takes up a transaction that the journal has.
LEMMA LoadPreserves ==
  ASSUME PInv, load
  PROVE  PInv'
<1> DEFINE tx == Head(unread)
<1>1. /\ cur \in [Accounts -> Account] /\ Whole(pool, cur) /\ noLocals \in BOOLEAN
      /\ journal \in Seq(Txs) /\ unread \in Seq(Txs) /\ pool \in [Accounts -> Part]
  BY DEF PInv, TypeOK
<1>2. /\ loading /\ unread # <<>> /\ unread' = Tail(unread)
      /\ pool' \in IF Valid(pool, tx) THEN addTx(pool, cur, tx, TRUE) ELSE {pool}
      /\ noLocals' = noLocals /\ cur' = cur /\ journal' = journal /\ loading' = loading
  BY Zenon DEF load
<1>3. /\ tx \in Txs /\ tx \in Range(unread) /\ Tail(unread) \in Seq(Txs)
      /\ Range(Tail(unread)) \subseteq Range(unread)
  BY <1>1, <1>2, JournalHead
<1>4. ~noLocals /\ Range(unread) \subseteq Range(journal)
  BY Zenon, <1>2 DEF PInv, Journaled
<1> HIDE DEF tx
<1>5. \A a \in Accounts : pool[a].all \subseteq Range(journal) /\ (pool[a].all = {} \/ pool[a].local)
  BY Zenon, <1>4 DEF PInv, Journaled
<1>6. /\ Whole(pool', cur)
      /\ \A a \in Accounts : pool'[a].all \subseteq Range(journal)
                             /\ (pool'[a].all = {} \/ pool'[a].local)
  <2>1. CASE Valid(pool, tx)
    <3>1. pool' \in addTx(pool, cur, tx, TRUE)
      BY Zenon, <2>1, <1>2
    <3> DEFINE r == pool'
               J == Range(journal)
    <3>2. /\ Whole(r, cur)
          /\ \A a \in Accounts :
               /\ r[a].all \subseteq pool[a].all \cup {tx}
               /\ r[a].local = (pool[a].local \/ (a = tx.from /\ TRUE))
               /\ a # tx.from => r[a].all \subseteq pool[a].all
      BY Zenon, <2>1, <3>1, <1>1, <1>3, AddWhole
    <3>3. /\ \A a \in Accounts : pool[a].all \subseteq J /\ (pool[a].all = {} \/ pool[a].local)
          /\ J \cup {tx} \subseteq J
      BY Zenon, <1>3, <1>4, <1>5
    <3> HIDE DEF r, J
    <3>4. \A a \in Accounts : r[a].all \subseteq J /\ (r[a].all = {} \/ r[a].local)
      BY Zenon, <3>2, <3>3, <1>3, JournaledAdd
    <3>5. QED
      BY Zenon, <3>2, <3>4 DEF r, J
  <2>2. CASE ~Valid(pool, tx)
    <3>1. pool' = pool
      BY Zenon, <2>2, <1>2
    <3>2. QED
      BY Zenon, <3>1, <1>1, <1>5
  <2>3. QED
    BY <2>1, <2>2
<1>7. Journaled'
  <2>1. Range(unread') \subseteq Range(journal)
    BY Zenon, <1>2, <1>3, <1>4
  <2>2. QED
    BY Zenon, <2>1, <1>2, <1>4, <1>6 DEF Journaled
<1>8. TypeOK'
  BY Zenon, <1>1, <1>2, <1>3, <1>6 DEF PInv, TypeOK, Whole
<1>9. QED
  BY Zenon, <1>2, <1>6, <1>7, <1>8 DEF PInv

\* The rotation after the loading.
LEMMA LoadedPreserves ==
  ASSUME PInv, Loaded
  PROVE  PInv'
<1>1. /\ loading /\ unread = <<>> /\ journal' \in Rotated(pool) /\ loading' = FALSE
      /\ noLocals' = noLocals /\ cur' = cur /\ pool' = pool /\ unread' = unread
  BY Zenon DEF Loaded
<1>2. ~noLocals
  BY Zenon, <1>1 DEF PInv, Journaled
<1>3. journal' \in Seq(Txs) /\ \A a \in Accounts : pool[a].all \subseteq Range(journal')
  BY Zenon, <1>1, <1>2, RotatedJournaled
<1>4. QED
  BY Zenon, <1>1, <1>2, <1>3 DEF PInv, TypeOK, Journaled

\* Every step preserves the invariant.
LEMMA PoolStep == PInv /\ [Next]_vars => PInv'
<1>1. SUFFICES ASSUME PInv, [Next]_vars PROVE PInv'
  OBVIOUS
<1>2. CASE UNCHANGED vars
  BY Zenon, <1>1, <1>2 DEF vars, PInv, TypeOK, Journaled
<1>3. CASE \E tx \in Txs : AddLocal(tx)
  BY Zenon, <1>1, <1>3, AddLocalPreserves
<1>4. CASE ChainHead
  BY <1>1, <1>4, ChainHeadPreserves
<1>5. CASE Evict
  BY SMTT(30), <1>1, <1>5, EvictPreserves
<1>6. CASE Rotate
  BY <1>1, <1>6, RotatePreserves
<1>7. CASE Restart
  BY <1>1, <1>7, RestartPreserves
<1>8. CASE load
  BY <1>1, <1>8, LoadPreserves
<1>9. CASE Loaded
  BY <1>1, <1>9, LoadedPreserves
<1>10. QED
  BY Zenon, <1>1, <1>2, <1>3, <1>4, <1>5, <1>6, <1>7, <1>8, <1>9 DEF Next

\* The invariant holds throughout.
LEMMA PoolInvariant == Spec => []PInv
BY PoolInit, PoolStep, PTL DEF Spec

\* How many transactions of an account are pending.
LEMMA SettledCount ==
  ASSUME NEW l, NEW a, NEW c \in Account, Settled(l, a, c)
  PROVE  l.nonce = c.nonce + Cardinality(l.pending)
<1>1. /\ l \in Part /\ Distinct(l.pending) /\ Fills(l.pending, c.nonce, l.nonce)
      /\ c.nonce <= l.nonce
  BY Zenon DEF Settled, Listed
<1>2. l.pending \in SUBSET Txs /\ l.nonce \in Nat
  BY <1>1, PartFields
<1>3. c.nonce \in Nat
  BY TxPoolAssumption DEF Account
<1>4. Cardinality(l.pending) = l.nonce - c.nonce
  BY <1>1, <1>2, <1>3, FillsCount
<1>5. QED
  BY <1>2, <1>3, <1>4

\* Type correctness of the pool: no pending nonce falls below zero, whatever
\* is dropped, demoted or cut.
THEOREM TxPoolTypes == Spec => []TypeOK
<1>1. PInv => TypeOK
  BY DEF PInv
<1>2. QED
  BY <1>1, PoolInvariant, PTL

\* The hash index holds exactly the transactions of the lists, which have none
\* in common (pool.all against pool.pending and pool.queue).
THEOREM IndexExactThm == Spec => []IndexExact
<1>1. PInv => IndexExact
  <2>1. SUFFICES ASSUME PInv, NEW a \in Accounts
                 PROVE  /\ pool[a].all = pool[a].pending \cup pool[a].queue
                        /\ pool[a].pending \cap pool[a].queue = {}
    BY Zenon DEF IndexExact
  <2>2. /\ pool[a] \in Part /\ pool[a].all = pool[a].pending \cup pool[a].queue
        /\ \A tx \in pool[a].pending : tx.nonce < pool[a].nonce
        /\ \A tx \in pool[a].queue : pool[a].nonce < tx.nonce
    BY Zenon, <2>1 DEF PInv, Whole, Settled, Listed, Fills
  <2>3. /\ pool[a].nonce \in Nat /\ \A tx \in pool[a].pending : tx.nonce \in Nat
    BY <2>2, PartFields
  <2>4. QED
    BY <2>2, <2>3
<1>2. QED
  BY <1>1, PoolInvariant, PTL

\* The pending nonce is the one after the last pending transaction, after any
\* sequence of additions, blocks, cuts, evictions and restarts.
THEOREM PendingNonceThm == Spec => []PendingNonceExact
<1>1. PInv => PendingNonceExact
  <2>1. SUFFICES ASSUME PInv, NEW a \in Accounts
                 PROVE  pool[a].nonce = cur[a].nonce + Cardinality(pool[a].pending)
    BY Zenon DEF PendingNonceExact
  <2>2. Settled(pool[a], a, cur[a]) /\ cur[a] \in Account
    BY <2>1 DEF PInv, Whole, TypeOK
  <2>3. QED
    BY <2>2, SettledCount
<1>2. QED
  BY <1>1, PoolInvariant, PTL

\* Nothing that promoteExecutables leaves in the queue is executable, and
\* nothing becomes so unnoticed.
THEOREM QueueWaitsThm == Spec => []QueueWaits
<1>1. PInv => QueueWaits
  <2>1. SUFFICES ASSUME PInv, NEW a \in Accounts, NEW tx \in pool[a].queue
                 PROVE  tx.nonce > pool[a].nonce
    BY Zenon DEF QueueWaits
  <2>2. pool[a] \in Part /\ pool[a].nonce < tx.nonce
    BY Zenon, <2>1 DEF PInv, Whole, Settled, Listed
  <2>3. pool[a].nonce \in Nat /\ tx.nonce \in Nat
    BY <2>1, <2>2, PartFields
  <2>4. QED
    BY <2>2, <2>3
<1>2. QED
  BY <1>1, PoolInvariant, PTL

\* The balance that validateTx compares a cost with never exceeds what the
\* pending transactions leave of the head state's balance.
THEOREM BalanceThm == Spec => []BalanceReserved
<1>1. PInv => BalanceReserved
  BY Zenon DEF PInv, Whole, Settled, Listed, BalanceReserved
<1>2. QED
  BY <1>1, PoolInvariant, PTL

\* A restart at any point, the loading of the journal included, finds every
\* transaction of a local account in the journal.
THEOREM JournalThm == Spec => []JournalCovers
<1>1. PInv => JournalCovers
  <2>1. SUFFICES ASSUME PInv, NEW a \in Accounts, pool[a].local
                 PROVE  (pool[a].pending \cup pool[a].queue) \subseteq Range(journal)
    BY Zenon DEF JournalCovers
  <2>2. ~noLocals
    BY Zenon, <2>1 DEF PInv, Journaled
  <2>3. pool[a].all \subseteq Range(journal)
    BY Zenon, <2>1, <2>2 DEF PInv, Journaled
  <2>4. pool[a].all = pool[a].pending \cup pool[a].queue
    BY Zenon, <2>1 DEF PInv, Whole, Settled, Listed
  <2>5. QED
    BY Zenon, <2>3, <2>4
<1>2. QED
  BY <1>1, PoolInvariant, PTL

-----------------------------------------------------------------------------
\* What the pool and its journal know, and which transactions a pool that
\* has taken up tx knows.
LEMMA KnownOf ==
  ASSUME NEW p, NEW r, NEW more,
         \A a \in Accounts : r[a].all \subseteq p[a].all \cup more
  PROVE  Known(r) \subseteq Known(p) \cup more
BY Zenon DEF Known

\* The pending transactions of an account fill the nonces up to the next one.
LEMMA SettledFill ==
  ASSUME NEW l, NEW a, NEW c \in Account, Settled(l, a, c)
  PROVE  Abstract!Fill(l.pending, c.nonce, l.nonce)
<1>1. /\ l \in Part /\ Distinct(l.pending) /\ Fills(l.pending, c.nonce, l.nonce)
      /\ c.nonce <= l.nonce
  BY Zenon DEF Settled, Listed
<1>2. l.pending \in SUBSET Txs /\ l.nonce \in Nat /\ c.nonce \in Nat
  BY <1>1, PartFields, TxPoolAssumption DEF Account
<1>3. Nonces(l.pending) = c.nonce..(l.nonce - 1)
  BY <1>1, <1>2, FillsCount
<1>4. QED
  BY Zenon, <1>1, <1>3 DEF Nonces, Abstract!Fill

\* The pending transactions of an account are executable in the sense of
\* PendingPool.
LEMMA SettledExecutable ==
  ASSUME NEW l, NEW a, NEW c \in Account, Settled(l, a, c), NEW K, l.all \subseteq K
  PROVE  Abstract!Executable(a, c.nonce, l.pending, K)
<1>1. /\ l.pending \subseteq l.all /\ \A tx \in l.pending : tx.from = a
      /\ \A s, t \in l.pending : s.nonce = t.nonce => s = t
      /\ l \in Part /\ c.nonce <= l.nonce /\ Fills(l.pending, c.nonce, l.nonce)
  BY Zenon DEF Settled, Listed, Distinct
<1>2. Abstract!Fill(l.pending, c.nonce, l.nonce)
  BY SettledFill
<1>3. l.nonce \in {c.nonce} \cup {tx.nonce + 1 : tx \in l.pending}
  <2>1. c.nonce \in Nat /\ l.nonce \in Nat /\ \A tx \in l.pending : tx.nonce \in Nat
    BY <1>1, PartFields, TxPoolAssumption DEF Account
  <2>2. CASE c.nonce < l.nonce
    <3>1. l.nonce - 1 \in Nat /\ c.nonce <= l.nonce - 1 /\ l.nonce - 1 < l.nonce
      BY <2>1, <2>2
    <3>2. PICK tx \in l.pending : tx.nonce = l.nonce - 1
      BY Zenon, <3>1, <1>1 DEF Fills
    <3>3. tx.nonce + 1 = l.nonce
      BY <3>2, <2>1
    <3>4. QED
      BY Zenon, <3>2, <3>3
  <2>3. CASE ~(c.nonce < l.nonce)
    BY <2>1, <2>3, <1>1
  <2>4. QED
    BY <2>2, <2>3
<1>4. QED
  BY Zenon, <1>1, <1>2, <1>3 DEF Abstract!Executable

\* After every step the pool keeps PendingPool's promise.
LEMMA SoundAfter ==
  ASSUME PInv'
  PROVE  Abstract!Sound
<1> DEFINE K == Known(pool') \cup Range(journal')
           h == [a \in Accounts |-> cur'[a].nonce]
           s == [a \in Accounts |-> pool'[a].pending]
<1>1. \A a \in Accounts : Settled(pool'[a], a, cur'[a]) /\ cur'[a] \in Account
  <2>1. Whole(pool', cur') /\ cur' \in [Accounts -> Account]
    BY DEF PInv, TypeOK
  <2>2. QED
    BY Zenon, <2>1 DEF Whole
<1>2. \A a \in Accounts : pool'[a].all \subseteq K
  BY Zenon DEF Known
<1>3. DOMAIN h = Accounts /\ DOMAIN s = Accounts
  BY Zenon
<1>4. \A a \in Accounts : h[a] = cur'[a].nonce /\ s[a] = pool'[a].pending
  BY Zenon
<1>5. ASSUME NEW a \in Accounts PROVE Abstract!Executable(a, h[a], s[a], K)
  <2>1. Settled(pool'[a], a, cur'[a]) /\ cur'[a] \in Account /\ pool'[a].all \subseteq K
    BY Zenon, <1>1, <1>2
  <2> HIDE DEF K
  <2>2. Abstract!Executable(a, cur'[a].nonce, pool'[a].pending, K)
    BY Zenon, <2>1, SettledExecutable
  <2>3. QED
    BY Zenon, <2>2, <1>4
<1>6. QED
  BY Zenon, <1>3, <1>5 DEF Abstract!Sound

\* A step that keeps the head and takes up nothing revises the pool.
LEMMA StepRevises ==
  ASSUME PInv', cur \in [Accounts -> Account], cur' \in [Accounts -> Account],
         \A a \in Accounts : cur'[a].nonce >= cur[a].nonce,
         Known(pool') \cup Range(journal') \subseteq Known(pool) \cup Range(journal)
  PROVE  Abstract!Revise
<1>1. Abstract!Sound
  BY SoundAfter
<1>2. \A a \in Accounts :
        [b \in Accounts |-> cur'[b].nonce][a] >= [b \in Accounts |-> cur[b].nonce][a]
  BY Zenon
<1>3. QED
  BY Zenon, <1>1, <1>2 DEF Abstract!Revise

\* Every step is a step of PendingPool or invisible to it.
LEMMA PoolRefines == PInv /\ PInv' /\ [Next]_vars => [Abstract!Next]_(Abstract!vars)
<1>1. SUFFICES ASSUME PInv, PInv', [Next]_vars, ~ UNCHANGED vars
               PROVE  Abstract!Next
  BY Zenon DEF vars, Abstract!vars
<1>2. /\ cur \in [Accounts -> Account] /\ cur' \in [Accounts -> Account]
      /\ Whole(pool, cur) /\ journal \in Seq(Txs) /\ unread \in Seq(Txs)
      /\ pool \in [Accounts -> Part] /\ noLocals \in BOOLEAN
  BY <1>1 DEF PInv, TypeOK
<1>3. cur' = cur => \A a \in Accounts : cur'[a].nonce >= cur[a].nonce
  <2>1. \A a \in Accounts : cur[a].nonce \in Nat
    BY <1>2, TxPoolAssumption DEF Account
  <2>2. QED
    BY <2>1
<1>4. ASSUME NEW tx \in Txs, AddLocal(tx) PROVE Abstract!Next
  <2>1. /\ Valid(pool, tx) /\ pool' \in addTx(pool, cur, tx, ~noLocals) /\ cur' = cur
        /\ journal' = journal \/ journal' = Append(journal, tx)
    BY Zenon, <1>4 DEF AddLocal
  <2> DEFINE local == ~noLocals
             r == pool'
  <2>2. local \in BOOLEAN /\ r \in addTx(pool, cur, tx, local)
    BY Zenon, <2>1, <1>2
  <2> HIDE DEF local, r
  <2>3. \A a \in Accounts : r[a].all \subseteq pool[a].all \cup {tx}
    BY <2>1, <2>2, <1>2, AddWhole
  <2>4. Known(r) \subseteq Known(pool) \cup {tx}
    BY Zenon, <2>3, KnownOf
  <2>5. Range(journal') \subseteq Range(journal) \cup {tx}
    <3>1. Range(Append(journal, tx)) = Range(journal) \cup {tx}
      BY <1>2, JournalAppend
    <3>2. QED
      BY Zenon, <2>1, <3>1
  <2>6. Known(pool') \cup Range(journal') \subseteq (Known(pool) \cup Range(journal)) \cup {tx}
    BY Zenon, <2>4, <2>5 DEF r
  <2>7. Abstract!Fill([a \in Accounts |-> pool[a].pending][tx.from],
                      [a \in Accounts |-> cur[a].nonce][tx.from], tx.nonce)
    <3>1. tx.from \in Accounts
      BY TxPoolAssumption
    <3>2. Settled(pool[tx.from], tx.from, cur[tx.from]) /\ cur[tx.from] \in Account
      BY Zenon, <3>1, <1>2 DEF Whole
    <3>3. Abstract!Fill(pool[tx.from].pending, cur[tx.from].nonce, pool[tx.from].nonce)
      BY Zenon, <3>2, SettledFill
    <3>4. tx.nonce = pool[tx.from].nonce
      BY Zenon, <2>1 DEF Valid
    <3>5. QED
      BY Zenon, <3>1, <3>3, <3>4
  <2>8. Abstract!Sound
    BY <1>1, SoundAfter
  <2>9. Abstract!Submit(tx)
    BY Zenon, <2>1, <2>6, <2>7, <2>8 DEF Abstract!Submit
  <2>10. QED
    BY Zenon, <2>9 DEF Abstract!Next
<1>5. ASSUME \A a \in Accounts : cur'[a].nonce >= cur[a].nonce,
             Known(pool') \cup Range(journal') \subseteq Known(pool) \cup Range(journal)
      PROVE  Abstract!Next
  BY Zenon, <1>1, <1>2, <1>5, StepRevises DEF Abstract!Next
<1>6. ASSUME Shrunk(pool', pool)
      PROVE  Known(pool') \subseteq Known(pool)
  BY Zenon, <1>6 DEF Known, Shrunk
<1>7. CASE ChainHead
  <2>1. PICK c \in [Accounts -> Account] :
          /\ \A a \in Accounts : c[a].nonce >= cur[a].nonce
          /\ cur' = c
          /\ pool' \in reset(pool, c)
    BY Zenon, <1>7 DEF ChainHead
  <2>2. Shrunk(pool', pool)
    BY Zenon, <2>1, <1>2, ResetWhole
  <2>3. journal' = journal
    BY <1>7 DEF ChainHead
  <2>4. QED
    BY Zenon, <2>1, <2>2, <2>3, <1>5, <1>6
<1>8. CASE Evict
  <2>1. journal' = journal /\ cur' = cur
    BY <1>8 DEF Evict
  <2>2. \A a \in Accounts : pool'[a].all \subseteq pool[a].all
    <3>1. PICK expired :
            pool' = [a \in Accounts |->
                       IF a \in expired THEN removeQueued(pool[a], pool[a].queue) ELSE pool[a]]
      BY Zenon, <1>8 DEF Evict
    <3>2. TAKE a \in Accounts
    <3>3. pool'[a] = removeQueued(pool[a], pool[a].queue) \/ pool'[a] = pool[a]
      BY Zenon, <3>1
    <3> DEFINE l == pool[a]
               c == cur[a]
    <3>4. Settled(l, a, c) /\ c \in Account /\ l.queue \subseteq l.queue
      BY Zenon, <1>2 DEF Whole
    <3> HIDE DEF l, c
    <3>5. removeQueued(l, l.queue).all \subseteq l.all
      BY <3>4, RemoveSettles
    <3>6. QED
      BY Zenon, <3>3, <3>5 DEF l
  <2>3. Known(pool') \subseteq Known(pool)
    BY Zenon, <2>2 DEF Known
  <2>4. QED
    BY Zenon, <2>1, <2>3, <1>3, <1>5
<1>9. ASSUME journal' \in Rotated(pool), pool' = pool, cur' = cur PROVE Abstract!Next
  <2>1. Range(journal') = UNION {pool[a].all : a \in {a \in Accounts : pool[a].local}}
    BY Zenon, <1>9, <1>2, RotatedRange
  <2>2. Range(journal') \subseteq Known(pool)
    BY Zenon, <2>1 DEF Known
  <2>3. QED
    BY Zenon, <2>2, <1>3, <1>5, <1>9
<1>10. CASE Restart
  <2>1. pool' = emptyPool(cur) /\ cur' = cur /\ journal' = journal
    BY Zenon, <1>10 DEF Restart
  <2>2. \A a \in Accounts : pool'[a].all = {}
    BY Zenon, <2>1, <1>2, EmptyWhole
  <2>3. Known(pool') \subseteq Known(pool)
    BY Zenon, <2>2 DEF Known
  <2>4. QED
    BY Zenon, <2>1, <2>3, <1>3, <1>5
<1>11. CASE load
  <2> DEFINE tx == Head(unread)
  <2>1. /\ loading /\ unread # <<>> /\ cur' = cur /\ journal' = journal
        /\ pool' \in IF Valid(pool, tx) THEN addTx(pool, cur, tx, TRUE) ELSE {pool}
    BY Zenon, <1>11 DEF load
  <2>2. tx \in Txs /\ tx \in Range(unread)
    BY <2>1, <1>2, JournalHead
  <2>3. tx \in Range(journal)
    BY Zenon, <2>1, <2>2, <1>1 DEF PInv, Journaled
  <2> HIDE DEF tx
  <2>4. \A a \in Accounts : pool'[a].all \subseteq pool[a].all \cup {tx}
    <3>1. CASE Valid(pool, tx)
      <4> DEFINE r == pool'
      <4>1. r \in addTx(pool, cur, tx, TRUE)
        BY Zenon, <2>1, <3>1
      <4> HIDE DEF r
      <4>2. \A a \in Accounts : r[a].all \subseteq pool[a].all \cup {tx}
        BY ZenonT(30), <3>1, <4>1, <2>2, <1>2, AddWhole
      <4>3. QED
        BY Zenon, <4>2 DEF r
    <3>2. CASE ~Valid(pool, tx)
      <4>1. pool' = pool
        BY Zenon, <2>1, <3>2
      <4>2. QED
        BY Zenon, <4>1
    <3>3. QED
      BY <3>1, <3>2
  <2>5. Known(pool') \subseteq Known(pool) \cup {tx}
    BY Zenon, <2>4 DEF Known
  <2>6. QED
    BY Zenon, <2>1, <2>3, <2>5, <1>3, <1>5
<1>12. CASE Rotate
  BY Zenon, <1>9, <1>12 DEF Rotate
<1>13. CASE Loaded
  BY Zenon, <1>9, <1>13 DEF Loaded
<1>14. QED
  BY Zenon, <1>1, <1>4, <1>7, <1>8, <1>10, <1>11, <1>12, <1>13 DEF Next

\* The pool implements PendingPool: executable transactions without a gap, none
\* made up, and a new one only with the next nonce of its account.
THEOREM PendingPoolThm == Spec => ImplementsPendingPool
<1>1. Init => Abstract!Init
  <2>1. SUFFICES ASSUME Init PROVE Abstract!Init
    OBVIOUS
  <2>2. [a \in Accounts |-> cur[a].nonce] \in [Accounts -> Nat]
    BY <2>1, TxPoolAssumption DEF Init
  <2>3. \A a \in Accounts : pool[a].pending = {} /\ pool[a].all = {}
    BY Zenon, <2>1 DEF Init, emptyPool
  <2>4. [a \in Accounts |-> pool[a].pending] = [a \in Accounts |-> {}]
    BY Zenon, <2>3
  <2>5. Known(pool) \cup Range(journal) = {}
    <3>1. Range(journal) = {}
      BY <2>1 DEF Init, Range
    <3>2. Known(pool) = {}
      BY Zenon, <2>3 DEF Known
    <3>3. QED
      BY Zenon, <3>1, <3>2
  <2>6. QED
    BY Zenon, <2>2, <2>4, <2>5 DEF Abstract!Init
<1>2. QED
  BY <1>1, PoolRefines, PoolInvariant, PTL DEF Spec, ImplementsPendingPool, Abstract!Spec
=============================================================================
