---------------------------- MODULE MempoolProofs ----------------------------
(***************************************************************************)
(* Proofs about Mempool, for every set of accounts, of transactions and of *)
(* peers, and every size of the cache and of a block.                      *)
(***************************************************************************)
EXTENDS Mempool, FiniteSetTheorems, WellFoundedInduction, TLAPS

\* The list: a removed element points forward, and no live element lies
\* between it and the element it points to.
SoundList(l) ==
  /\ l \in [log : Seq(Txs), live : SUBSET Nat, stale : Seq(Nat)]
  /\ Len(l.stale) = Len(l.log)
  /\ l.live \subseteq 1..Len(l.log)
  /\ \A i \in 1..Len(l.log) :
       /\ l.stale[i] # None => i < l.stale[i] /\ l.stale[i] <= Len(l.log)
       /\ i \notin l.live => \A j \in l.live : i < j => l.stale[i] <= j

\* A broadcast routine has sent every live element in front of the one it
\* stands on, and every live element in front of one that it has sent.
SoundRoutine(l, r) ==
  /\ r \in [at : Nat, sending : BOOLEAN, sent : SUBSET Nat]
  /\ r.at <= Len(l.log) /\ r.sent \subseteq 1..Len(l.log)
  /\ r.sending => r.at # None
  /\ \A i \in l.live :
       /\ i < r.at => i \in r.sent
       /\ i = r.at => i \in r.sent \/ r.sending
       /\ \A j \in r.sent : i < j => i \in r.sent

\* The transactions of the list, followed by those whose good answer is on
\* its way, have growing nonces, which the application has passed.
NonceOrder ==
  /\ AcceptedInNonceOrder
  /\ \A i \in DOMAIN list.log : list.log[i].nonce < app.nonceMap[list.log[i].from]
  /\ \A k \in DOMAIN ress : ress[k].code = OK =>
       /\ ress[k].tx.nonce < app.nonceMap[ress[k].tx.from]
       /\ \A i \in DOMAIN list.log :
            list.log[i].from = ress[k].tx.from => list.log[i].nonce < ress[k].tx.nonce
       /\ \A j \in DOMAIN ress :
            j < k /\ ress[j].code = OK /\ ress[j].tx.from = ress[k].tx.from
              => ress[j].tx.nonce < ress[k].tx.nonce

\* A transaction that the chain has is accepted only as long as Update, which
\* removes it, is still to come.
ToBeRemoved(tx) ==
  tx \in app.committed => block.phase \in {"writing", "committed"} /\ tx \in block.txs

Uncommitted ==
  /\ \A i \in list.live : ToBeRemoved(list.log[i])
  /\ \A k \in DOMAIN ress : ress[k].code = OK => ToBeRemoved(ress[k].tx)

IInv ==
  /\ TypeOK
  /\ SoundList(list)
  /\ \A p \in DOMAIN peers : SoundRoutine(list, peers[p])
  /\ NonceOrder
  /\ Uncommitted

-----------------------------------------------------------------------------
\* A position in a list of n elements, and what stays one when the list grows.
LEMMA WithinBounds ==
  /\ \A n \in Nat : \A m \in 1..n : m \in Nat /\ m <= n
  /\ \A m, n \in Nat : m <= n => m <= n + 1
  /\ \A n \in Nat : 1..n \subseteq 1..(n + 1)
OBVIOUS

\* What is below a nonce is below a larger one.
LEMMA LessThanLarger ==
  \A k, m, n \in Nat : k < m /\ m <= n => k < n
OBVIOUS

\* The length of a sound list is a natural number.
LEMMA LogLength ==
  ASSUME NEW l, SoundList(l)
  PROVE  Len(l.log) \in Nat
BY DEF SoundList

\* The sequences of requests and of answers lose their first element.
LEMMA SeqHeadTail ==
  ASSUME NEW S, NEW s \in Seq(S), s # <<>>
  PROVE  /\ Head(s) = s[1] /\ s[1] \in S
         /\ Tail(s) \in Seq(S) /\ Len(Tail(s)) = Len(s) - 1
         /\ Len(s) \in Nat /\ Len(s) > 0 /\ DOMAIN s = 1..Len(s)
         /\ DOMAIN Tail(s) = 1..(Len(s) - 1)
         /\ \A i \in 1..(Len(s) - 1) : Tail(s)[i] = s[i + 1]
OBVIOUS

\* And they get a new last one.
LEMMA SeqAppend ==
  ASSUME NEW S, NEW s \in Seq(S), NEW e \in S
  PROVE  /\ Append(s, e) \in Seq(S) /\ Len(s) \in Nat
         /\ DOMAIN s = 1..Len(s) /\ DOMAIN Append(s, e) = 1..(Len(s) + 1)
         /\ Append(s, e)[Len(s) + 1] = e
         /\ \A i \in 1..Len(s) : Append(s, e)[i] = s[i]
OBVIOUS

-----------------------------------------------------------------------------
(***************************************************************************)
(* The concurrent list and the routines that walk it.                      *)
(***************************************************************************)

\* A set of natural numbers that is not empty has its smallest element.
LEMMA MinOf ==
  ASSUME NEW S \in SUBSET Nat, S # {}
  PROVE  Min(S) \in S /\ \A y \in S : Min(S) <= y
<1> DEFINE R == OpToRel(<, Nat)
<1>1. PICK m \in S : \A y \in S : ~(<<y, m>> \in R)
  <2>1. IsWellFoundedOn(R, Nat)
    BY Zenon, NatLessThanWellFounded
  <2> HIDE DEF R
  <2> QED BY Zenon, <2>1, WFMin
<1>2. \A y \in S : y < m => <<y, m>> \in R
  BY DEF OpToRel
<1> HIDE DEF R
<1>3. \A y \in S : ~(y < m)
  BY Zenon, <1>1, <1>2
<1>4. \A y \in S : m <= y
  BY <1>3
<1>5. QED
  BY Zenon, <1>4 DEF Min

\* The greater of two numbers, as validateEthTx and getNonce take it.
LEMMA MaxOfTwo ==
  ASSUME NEW m \in Nat, NEW n \in Nat
  PROVE  Max({m, n}) = IF m < n THEN n ELSE m
<1>1. CASE m < n
  <2>1. n \in {m, n} /\ \A y \in {m, n} : n >= y
    BY <1>1
  <2>2. \A x \in {m, n} : (\A y \in {m, n} : x >= y) => x = n
    BY <1>1
  <2>3. QED
    BY <1>1, <2>1, <2>2 DEF Max
<1>2. CASE ~(m < n)
  <2>1. m \in {m, n} /\ \A y \in {m, n} : m >= y
    BY <1>2
  <2>2. \A x \in {m, n} : (\A y \in {m, n} : x >= y) => x = m
    BY <1>2
  <2>3. QED
    BY <1>2, <2>1, <2>2 DEF Max
<1>3. QED
  BY <1>1, <1>2

\* The successor of an element is the first live one behind it.
LEMMA SuccessorIsNext ==
  ASSUME NEW l, l.live \subseteq Nat, NEW i \in Nat
  PROVE  /\ Successor(l, i) \in Nat
         /\ Successor(l, i) = None => \A j \in l.live : j <= i
         /\ Successor(l, i) # None => Successor(l, i) \in l.live /\ i < Successor(l, i)
         /\ \A j \in l.live : i < j => Successor(l, i) <= j
<1> DEFINE later == {j \in l.live : j > i}
<1>1. later \in SUBSET Nat
  OBVIOUS
<1>2. CASE later = {}
  <2>1. Successor(l, i) = None
    BY <1>2 DEF Successor
  <2>2. \A j \in l.live : j <= i
    BY <1>2
  <2>3. QED
    BY <2>1, <2>2 DEF None
<1>3. CASE later # {}
  <2>1. Successor(l, i) = Min(later)
    BY Zenon, <1>3 DEF Successor
  <2>2. Min(later) \in later /\ \A y \in later : Min(later) <= y
    <3> HIDE DEF later
    <3> QED BY Zenon, <1>1, <1>3, MinOf
  <2>3. QED
    BY <2>1, <2>2 DEF None
<1>4. QED
  BY <1>2, <1>3

\* clist.PushBack keeps the list sound, and every routine that walks it.
LEMMA PushBackSound ==
  ASSUME NEW l, SoundList(l), NEW tx \in Txs
  PROVE  /\ SoundList(PushBack(l, tx))
         /\ \A r : SoundRoutine(l, r) => SoundRoutine(PushBack(l, tx), r)
<1> DEFINE k == PushBack(l, tx)
<1>1. /\ k.log = Append(l.log, tx) /\ k.live = l.live \cup {Len(l.log) + 1}
      /\ k.stale = Append(l.stale, None)
  BY DEF PushBack
<1>2. /\ k.log \in Seq(Txs) /\ k.live \in SUBSET Nat /\ k.stale \in Seq(Nat)
      /\ Len(k.log) = Len(l.log) + 1 /\ Len(k.stale) = Len(k.log)
      /\ k.live \subseteq 1..Len(k.log)
      /\ k \in [log : Seq(Txs), live : SUBSET Nat, stale : Seq(Nat)]
  <2>1. l.log \in Seq(Txs) /\ l.live \in SUBSET Nat /\ l.stale \in Seq(Nat)
    BY DEF SoundList
  <2>2. k.log \in Seq(Txs) /\ k.stale \in Seq(Nat) /\ Len(k.log) = Len(l.log) + 1
    BY <1>1, <2>1 DEF None
  <2>3. Len(k.stale) = Len(k.log)
    BY <1>1, <2>1 DEF SoundList
  <2>4. k.live \in SUBSET Nat /\ k.live \subseteq 1..Len(k.log)
    BY <1>1, <2>1, <2>2 DEF SoundList
  <2>5. QED
    BY <2>2, <2>3, <2>4 DEF PushBack
<1>3. \A i \in 1..Len(k.log) :
        k.stale[i] = IF i \in 1..Len(l.log) THEN l.stale[i] ELSE None
  BY <1>1, <1>2 DEF SoundList
<1>4. \A i \in 1..Len(k.log) :
        /\ k.stale[i] # None => i < k.stale[i] /\ k.stale[i] <= Len(k.log)
        /\ i \notin k.live => \A j \in k.live : i < j => k.stale[i] <= j
  <2> TAKE i \in 1..Len(k.log)
  <2>1. CASE i \in 1..Len(l.log)
    <3>1. /\ l.stale[i] \in Nat /\ Len(l.log) \in Nat
          /\ l.stale[i] # None => i < l.stale[i] /\ l.stale[i] <= Len(l.log)
          /\ i \notin l.live => \A j \in l.live : i < j => l.stale[i] <= j
      BY <2>1 DEF SoundList
    <3>2. k.stale[i] = l.stale[i]
      BY <1>3, <2>1
    <3>3. \A j \in k.live : j \in l.live \/ j = Len(l.log) + 1
      BY <1>1
    <3>4. i \notin k.live => i \notin l.live
      BY <1>1
    <3>5. QED
      BY SMTT(30), <1>2, <3>1, <3>2, <3>3, <3>4 DEF None
  <2>2. CASE i \notin 1..Len(l.log)
    BY SMTT(30), <1>1, <1>2, <1>3, <2>2 DEF None
  <2>3. QED
    BY <2>1, <2>2
<1>5. \A r : SoundRoutine(l, r) => SoundRoutine(k, r)
  <2> SUFFICES ASSUME NEW r, SoundRoutine(l, r) PROVE SoundRoutine(k, r)
    OBVIOUS
  <2>1. Len(l.log) \in Nat /\ r.at \in Nat /\ r.sent \subseteq 1..Len(l.log)
    BY DEF SoundList, SoundRoutine
  <2>2. r.at <= Len(k.log) /\ r.sent \subseteq 1..Len(k.log)
    <3>1. r.at <= Len(l.log)
      BY Zenon DEF SoundRoutine
    <3> HIDE DEF k
    <3>2. QED
      <4>1. Len(k.log) = Len(l.log) + 1
        BY Zenon, <1>2
      <4>2. r.at <= Len(l.log) + 1
        BY Zenon, <2>1, <3>1, WithinBounds
      <4>3. 1..Len(l.log) \subseteq 1..(Len(l.log) + 1)
        BY Zenon, <2>1, WithinBounds
      <4>4. QED
        BY Zenon, <2>1, <4>1, <4>2, <4>3
  <2>3. ASSUME NEW i \in k.live
        PROVE  /\ i < r.at => i \in r.sent
               /\ i = r.at => i \in r.sent \/ r.sending
               /\ \A j \in r.sent : i < j => i \in r.sent
    <3>1. CASE i \in l.live
      BY Zenon, <3>1 DEF SoundRoutine
    <3>2. CASE i = Len(l.log) + 1
      <4>1. r.at <= Len(l.log)
        BY Zenon DEF SoundRoutine
      <4>2. ~(i < r.at) /\ i # r.at
        BY <2>1, <3>2, <4>1
      <4>3. \A j \in r.sent : ~(i < j)
        BY <2>1, <3>2
      <4>4. QED
        BY Zenon, <4>2, <4>3
    <3>3. QED
      BY <1>1, <3>1, <3>2
  <2>4. QED
    BY Zenon, <2>2, <2>3 DEF SoundRoutine
<1>6. QED
  BY <1>2, <1>4, <1>5 DEF SoundList

\* So does the removal of any live elements by Update or Flush.
LEMMA RemoveAllSound ==
  ASSUME NEW l, SoundList(l), NEW gone, gone \subseteq l.live
  PROVE  /\ SoundList(RemoveAll(l, gone))
         /\ RemoveAll(l, gone).log = l.log
         /\ RemoveAll(l, gone).live = l.live \ gone
         /\ \A r : SoundRoutine(l, r) => SoundRoutine(RemoveAll(l, gone), r)
<1> DEFINE k == RemoveAll(l, gone)
<1>1. l.log \in Seq(Txs) /\ l.live \in SUBSET Nat /\ l.stale \in Seq(Nat)
  BY DEF SoundList
<1>2. /\ k.log = l.log /\ k.live = l.live \ gone
      /\ k.stale = [i \in DOMAIN l.stale |-> IF i \in gone THEN Successor(l, i) ELSE l.stale[i]]
      /\ k = [log |-> k.log, live |-> k.live, stale |-> k.stale]
  <2> DEFINE f == [i \in DOMAIN l.stale |-> IF i \in gone THEN Successor(l, i) ELSE l.stale[i]]
  <2>1. k = [l EXCEPT !.live = l.live \ gone, !.stale = f]
    BY Zenon DEF RemoveAll
  <2> HIDE DEF f, k
  <2>2. /\ k.log = l.log /\ k.live = l.live \ gone /\ k.stale = f
        /\ k = [log |-> k.log, live |-> k.live, stale |-> k.stale]
    BY Zenon, <2>1 DEF SoundList
  <2>3. QED
    BY Zenon, <2>2 DEF f
<1> HIDE DEF k
<1>3. \A i \in 1..Len(l.log) :
        /\ i \in Nat /\ Successor(l, i) \in Nat
        /\ Successor(l, i) # None => Successor(l, i) \in l.live /\ i < Successor(l, i)
        /\ \A j \in l.live : i < j => Successor(l, i) <= j
  <2>1. 1..Len(l.log) \subseteq Nat
    BY <1>1
  <2>2. QED
    BY Zenon, <1>1, <2>1, SuccessorIsNext
<1>4. k.stale \in Seq(Nat) /\ Len(k.stale) = Len(l.stale)
  <2> DEFINE n == Len(l.log)
  <2>1. n \in Nat /\ DOMAIN l.stale = 1..n /\ Len(l.stale) = n
    BY <1>1 DEF SoundList
  <2>2. \A i \in 1..n : l.stale[i] \in Nat
    BY SMTT(30), <1>1, <2>1
  <2>3. k.stale \in [1..n -> Nat]
    BY <1>2, <1>3, <2>1, <2>2
  <2> HIDE DEF n
  <2>4. QED
    BY <2>1, <2>3
<1>5. \A i \in 1..Len(l.log) :
        /\ k.stale[i] # None => i < k.stale[i] /\ k.stale[i] <= Len(l.log)
        /\ i \notin k.live => \A j \in k.live : i < j => k.stale[i] <= j
  <2> TAKE i \in 1..Len(l.log)
  <2>1. CASE i \in gone
    <3>1. k.stale[i] = Successor(l, i)
      BY <1>2, <2>1 DEF SoundList
    <3>2. QED
      BY <1>1, <1>2, <1>3, <3>1 DEF SoundList
  <2>2. CASE i \notin gone
    <3>1. k.stale[i] = l.stale[i]
      BY <1>2, <2>2 DEF SoundList
    <3>2. QED
      BY <1>2, <2>2, <3>1 DEF SoundList
  <2>3. QED
    BY <2>1, <2>2
<1>6. \A r : SoundRoutine(l, r) => SoundRoutine(k, r)
  BY <1>2 DEF SoundRoutine
<1>7. k.live \in SUBSET Nat /\ k.live \subseteq 1..Len(k.log)
  BY <1>1, <1>2 DEF SoundList
<1>8. SoundList(k)
  BY Zenon, <1>1, <1>2, <1>4, <1>5, <1>7 DEF SoundList
<1>9. QED
  BY <1>2, <1>6, <1>8 DEF k

\* Wherever the broadcast routine turns next, it has sent the live elements in
\* front of it: those between a removed element and its successor are removed,
\* and from a removed last element it goes back to the front.
LEMMA NextOfIsNext ==
  ASSUME SoundList(list), NEW p \in DOMAIN peers, SoundRoutine(list, peers[p]),
         ~peers[p].sending, NextOf(p) # None
  PROVE  /\ NextOf(p) \in 1..Len(list.log)
         /\ \A i \in list.live : i < NextOf(p) => i \in peers[p].sent
<1> DEFINE at == peers[p].at
           next == IF at = None THEN None ELSE Following(list, at)
<1>1. /\ at \in Nat /\ at <= Len(list.log) /\ Len(list.log) \in Nat
      /\ list.live \subseteq 1..Len(list.log) /\ list.live \subseteq Nat /\ 0 \in Nat
      /\ \A i \in list.live : (i < at => i \in peers[p].sent) /\ (i = at => i \in peers[p].sent)
  BY DEF SoundList, SoundRoutine
<1>2. NextOf(p) = IF next = None /\ at \notin list.live THEN Successor(list, 0) ELSE next
  BY Zenon DEF NextOf
<1>3. CASE next = None /\ at \notin list.live
  <2>1. NextOf(p) = Successor(list, 0)
    BY <1>2, <1>3
  <2>2. /\ Successor(list, 0) # None => Successor(list, 0) \in list.live
        /\ \A j \in list.live : 0 < j => Successor(list, 0) <= j
        /\ Successor(list, 0) \in Nat
    BY Zenon, <1>1, SuccessorIsNext
  <2>3. QED
    BY <1>1, <2>1, <2>2
<1>4. CASE ~(next = None /\ at \notin list.live) /\ at \in list.live
  <2>1. at # None
    BY <1>1, <1>4 DEF None
  <2>2. NextOf(p) = Successor(list, at)
    BY <1>2, <1>4, <2>1 DEF Following
  <2>3. /\ Successor(list, at) # None => Successor(list, at) \in list.live
        /\ \A j \in list.live : at < j => Successor(list, at) <= j
        /\ Successor(list, at) \in Nat
    BY Zenon, <1>1, SuccessorIsNext
  <2>4. QED
    BY <1>1, <2>2, <2>3
<1>5. CASE ~(next = None /\ at \notin list.live) /\ at \notin list.live
  <2>1. at # None /\ NextOf(p) = list.stale[at]
    BY <1>2, <1>5 DEF Following
  <2>2. at \in 1..Len(list.log)
    BY <1>1, <2>1 DEF None
  <2>3. /\ list.stale[at] \in Nat /\ list.stale[at] <= Len(list.log) /\ list.stale[at] > 0
        /\ \A j \in list.live : at < j => list.stale[at] <= j
    BY SMTT(30), <1>5, <2>1, <2>2 DEF SoundList, None
  <2>4. QED
    BY <1>1, <1>5, <2>1, <2>3
<1>6. QED
  BY <1>3, <1>4, <1>5

-----------------------------------------------------------------------------
(***************************************************************************)
(* The application's answer.                                               *)
(***************************************************************************)

\* What validateEthTx's code says of the transaction's nonce.
LEMMA CodeOfMeaning ==
  ASSUME TypeOK, NEW tx \in Txs
  PROVE  /\ codeOf(tx) \in {OK, Bad, futurenum}
         /\ codeOf(tx) = OK => tx \notin app.committed /\ tx.nonce = expectedNonce(tx.from)
         /\ codeOf(tx) = futurenum => tx.nonce > expectedNonce(tx.from)
         /\ codeOf(tx) = Bad =>
              tx \in app.committed \/ tx.nonce < expectedNonce(tx.from) \/ tx \in Unpayable
         /\ expectedNonce(tx.from) \in Nat
         /\ expectedNonce(tx.from) =
              IF app.checkNonce[tx.from] < app.nonceMap[tx.from]
              THEN app.nonceMap[tx.from] ELSE app.checkNonce[tx.from]
<1>1. /\ tx.from \in Accounts /\ tx.nonce \in Nat
      /\ app.checkNonce[tx.from] \in Nat /\ app.nonceMap[tx.from] \in Nat
  BY SMTT(30), MempoolAssumption DEF TypeOK
<1>2. expectedNonce(tx.from) = IF app.checkNonce[tx.from] < app.nonceMap[tx.from]
                               THEN app.nonceMap[tx.from] ELSE app.checkNonce[tx.from]
  BY Zenon, <1>1, MaxOfTwo DEF expectedNonce
<1>3. expectedNonce(tx.from) \in Nat
  BY <1>1, <1>2
<1>4. QED
  <2>1. OK # Bad /\ OK # futurenum /\ Bad # futurenum
    BY DEF OK, Bad, futurenum
  <2>2. ~(tx.nonce < expectedNonce(tx.from)) /\ ~(tx.nonce > expectedNonce(tx.from))
          => tx.nonce = expectedNonce(tx.from)
    BY <1>1, <1>3
  <2>3. QED
    BY Zenon, <1>2, <1>3, <2>1, <2>2 DEF codeOf

\* What EthermintApplication.CheckTx changes: the nonce maps of the account, if
\* the transaction is good, and never backwards in nonceMap.
LEMMA AppCheckTxEffect ==
  ASSUME TypeOK, AppCheckTx
  PROVE  \E tx \in Txs, sync \in BOOLEAN :
           /\ reqs \in Seq(Request) /\ reqs # <<>>
           /\ reqs' = Tail(reqs) /\ reqs[1] = [tx |-> tx, sync |-> sync]
           /\ ress' = Append(ress, [tx |-> tx, sync |-> sync, code |-> codeOf(tx)])
           /\ app' \in [nonce : [Accounts -> Nat], checkNonce : [Accounts -> Nat],
                       nonceMap : [Accounts -> Nat], committed : SUBSET Txs]
           /\ app'.nonce = app.nonce /\ app'.committed = app.committed
           /\ \A a \in Accounts :
                /\ app.nonceMap[a] <= app'.nonceMap[a]
                /\ a # tx.from \/ codeOf(tx) # OK =>
                     app'.nonceMap[a] = app.nonceMap[a] /\ app'.checkNonce[a] = app.checkNonce[a]
                /\ a = tx.from /\ codeOf(tx) = OK =>
                     /\ app.nonceMap[a] <= tx.nonce
                     /\ app'.nonceMap[a] = tx.nonce + 1 /\ app'.checkNonce[a] = tx.nonce + 1
<1> DEFINE tx == Head(reqs).tx
           sync == Head(reqs).sync
<1>1. /\ reqs # <<>> /\ reqs' = Tail(reqs)
      /\ ress' = Append(ress, [tx |-> tx, sync |-> sync, code |-> codeOf(tx)])
      /\ app' = IF codeOf(tx) = OK
                THEN [app EXCEPT !.checkNonce[tx.from] = tx.nonce + 1,
                                 !.nonceMap[tx.from] = tx.nonce + 1]
                ELSE app
  BY Zenon DEF AppCheckTx
<1>2. /\ reqs \in Seq(Request)
      /\ Head(reqs) = reqs[1] /\ reqs[1] \in Request
  BY <1>1, SeqHeadTail DEF TypeOK
<1>3. tx \in Txs /\ sync \in BOOLEAN /\ reqs[1] = [tx |-> tx, sync |-> sync]
  BY Zenon, <1>2 DEF Request
<1> HIDE DEF tx, sync
<1>4. PICK n \in Nat : n = tx.nonce + 1
  BY <1>3, MempoolAssumption
<1>5. tx.from \in Accounts /\ tx.nonce \in Nat
  BY <1>3, MempoolAssumption
<1>6. codeOf(tx) = OK => app.nonceMap[tx.from] <= tx.nonce
  <2>1. /\ codeOf(tx) = OK => tx.nonce = expectedNonce(tx.from)
        /\ expectedNonce(tx.from) = IF app.checkNonce[tx.from] < app.nonceMap[tx.from]
                                    THEN app.nonceMap[tx.from] ELSE app.checkNonce[tx.from]
    BY Zenon, <1>3, CodeOfMeaning
  <2>2. app.checkNonce[tx.from] \in Nat /\ app.nonceMap[tx.from] \in Nat
    BY SMTT(30), <1>5 DEF TypeOK
  <2>3. QED
    BY <2>1, <2>2
<1>7. app' = IF codeOf(tx) = OK
             THEN [app EXCEPT !.checkNonce[tx.from] = n, !.nonceMap[tx.from] = n] ELSE app
  BY <1>1, <1>4
<1>8. app \in [nonce : [Accounts -> Nat], checkNonce : [Accounts -> Nat],
               nonceMap : [Accounts -> Nat], committed : SUBSET Txs]
  BY DEF TypeOK
<1>9. /\ app' \in [nonce : [Accounts -> Nat], checkNonce : [Accounts -> Nat],
                   nonceMap : [Accounts -> Nat], committed : SUBSET Txs]
      /\ app'.nonce = app.nonce /\ app'.committed = app.committed
      /\ \A a \in Accounts :
           /\ a # tx.from \/ codeOf(tx) # OK =>
                app'.nonceMap[a] = app.nonceMap[a] /\ app'.checkNonce[a] = app.checkNonce[a]
           /\ a = tx.from /\ codeOf(tx) = OK =>
                app'.nonceMap[a] = n /\ app'.checkNonce[a] = n
  BY Zenon, <1>5, <1>7, <1>8
<1>10. \A a \in Accounts : app.nonceMap[a] <= app'.nonceMap[a]
  BY SMTT(30), <1>4, <1>5, <1>6, <1>8, <1>9
<1>11. QED
  <2> USE <1>3
  <2> WITNESS tx \in Txs, sync \in BOOLEAN
  <2> QED BY Zenon, <1>1, <1>2, <1>3, <1>4, <1>6, <1>9, <1>10

-----------------------------------------------------------------------------
(***************************************************************************)
(* The invariant of the mempool.                                           *)
(***************************************************************************)

\* An empty mempool satisfies it.
LEMMA InitIInv == Init => IInv
<1> SUFFICES ASSUME Init PROVE IInv
  OBVIOUS
<1>1. /\ app = [nonce |-> [a \in Accounts |-> 0], checkNonce |-> [a \in Accounts |-> 0],
                nonceMap |-> [a \in Accounts |-> 0], committed |-> {}]
      /\ reqs = <<>> /\ ress = <<>> /\ future = {}
      /\ list = [log |-> <<>>, live |-> {}, stale |-> <<>>]
      /\ cache = [map |-> {}, list |-> <<>>]
      /\ block = [phase |-> "none", txs |-> {}]
      /\ DOMAIN peers = {}
  BY DEF Init, emptyList, emptyCache
<1>2. TypeOK
  <2>1. reqs \in Seq(Request) /\ ress \in Seq(Answer)
    BY <1>1
  <2>2. QED
    BY <1>1, <2>1 DEF TypeOK
<1>3. SoundList(list)
  BY <1>1 DEF SoundList
<1>4. NonceOrder /\ Uncommitted
  BY <1>1 DEF NonceOrder, Uncommitted, AcceptedInNonceOrder
<1>5. QED
  BY <1>1, <1>2, <1>3, <1>4 DEF IInv

\* Mempool.CheckTx only fills the cache and the connection.
LEMMA CheckTxPreserves ==
  ASSUME IInv, NEW tx \in Txs, NEW sync \in BOOLEAN, CheckTx(tx, sync)
  PROVE  IInv'
<1>1. /\ cache' = Push(cache, tx) /\ reqs' = Append(reqs, [tx |-> tx, sync |-> sync])
      /\ UNCHANGED <<app, ress, list, future, block, peers>>
  BY DEF CheckTx
<1>2. cache' \in [map : SUBSET Txs, list : Seq(Txs)]
  <2>1. cache.map \in SUBSET Txs /\ cache.list \in Seq(Txs)
    BY SMTT(30) DEF IInv, TypeOK
  <2>2. CASE Len(cache.list) >= CacheSize
    <3>1. cache.list # <<>>
      BY SMTT(30), <2>1, <2>2, MempoolAssumption
    <3>2. Append(Tail(cache.list), tx) \in Seq(Txs)
      BY <2>1, <3>1
    <3>3. QED
      BY <1>1, <2>1, <2>2, <3>2 DEF Push
  <2>3. CASE ~(Len(cache.list) >= CacheSize)
    <3>1. Append(cache.list, tx) \in Seq(Txs)
      BY <2>1
    <3>2. QED
      BY <1>1, <2>1, <2>3, <3>1 DEF Push
  <2>4. QED
    BY SMTT(30), <2>2, <2>3
<1>3. reqs' \in Seq(Request)
  <2>1. [tx |-> tx, sync |-> sync] \in Request
    BY Zenon DEF Request
  <2>2. QED
    BY <1>1, <2>1, SeqAppend DEF IInv, TypeOK
<1>4. TypeOK'
  BY SMTT(30), <1>1, <1>2, <1>3 DEF IInv, TypeOK
<1>5. NonceOrder' /\ Uncommitted'
  BY Zenon, <1>1 DEF IInv, NonceOrder, AcceptedInNonceOrder, Uncommitted, ToBeRemoved
<1>6. QED
  BY <1>1, <1>4, <1>5 DEF IInv

\* The application's answer: a good transaction has a nonce that is above all
\* the ones accepted before, and the chain does not have it.
LEMMA AppCheckTxPreserves ==
  ASSUME IInv, AppCheckTx
  PROVE  IInv'
<1>1. TypeOK /\ NonceOrder /\ Uncommitted /\ UNCHANGED <<list, future, cache, block, peers>>
  BY DEF IInv, AppCheckTx, memVars
<1>2. PICK tx \in Txs, sync \in BOOLEAN :
        /\ reqs \in Seq(Request) /\ reqs # <<>> /\ reqs' = Tail(reqs)
        /\ ress' = Append(ress, [tx |-> tx, sync |-> sync, code |-> codeOf(tx)])
        /\ app' \in [nonce : [Accounts -> Nat], checkNonce : [Accounts -> Nat],
                    nonceMap : [Accounts -> Nat], committed : SUBSET Txs]
        /\ app'.nonce = app.nonce /\ app'.committed = app.committed
        /\ \A a \in Accounts : app.nonceMap[a] <= app'.nonceMap[a]
        /\ codeOf(tx) = OK => /\ app.nonceMap[tx.from] <= tx.nonce
                              /\ app'.nonceMap[tx.from] = tx.nonce + 1
  <2>1. \A tx \in Txs : tx.from \in Accounts
    BY MempoolAssumption
  <2>2. QED
    BY ZenonT(30), <1>1, <2>1, AppCheckTxEffect
<1>3. /\ codeOf(tx) \in {OK, Bad, futurenum}
      /\ codeOf(tx) = OK => tx \notin app.committed
  BY Zenon, <1>1, CodeOfMeaning
<1> DEFINE ans == [tx |-> tx, sync |-> sync, code |-> codeOf(tx)]
<1>4. ans \in Answer /\ ans.tx = tx /\ ans.code = codeOf(tx)
  BY Zenon, <1>3 DEF Answer
<1> HIDE DEF ans
<1>5. /\ ress \in Seq(Answer) /\ ress' \in Seq(Answer) /\ Len(ress) \in Nat
      /\ DOMAIN ress = 1..Len(ress) /\ DOMAIN ress' = 1..(Len(ress) + 1)
      /\ ress'[Len(ress) + 1] = ans
      /\ \A i \in 1..Len(ress) : ress'[i] = ress[i]
  <2>1. ress \in Seq(Answer) /\ ress' = Append(ress, ans)
    BY ZenonT(30), <1>1, <1>2 DEF TypeOK, ans
  <2>2. QED
    BY <1>4, <2>1, SeqAppend
<1>a. \A a \in Accounts : /\ app.nonceMap[a] \in Nat /\ app'.nonceMap[a] \in Nat
                          /\ app.nonceMap[a] <= app'.nonceMap[a]
  BY <1>1, <1>2 DEF TypeOK
<1>6. TypeOK'
  <2>1. reqs' \in Seq(Request)
    BY Zenon, <1>2, SeqHeadTail
  <2>2. QED
    BY Zenon, <1>1, <1>2, <1>5, <2>1 DEF TypeOK
<1>7. \A i \in DOMAIN list.log :
        /\ list.log[i] \in Txs /\ list.log[i].from \in Accounts /\ list.log[i].nonce \in Nat
        /\ list.log[i].nonce < app.nonceMap[list.log[i].from]
        /\ app.nonceMap[list.log[i].from] \in Nat /\ app'.nonceMap[list.log[i].from] \in Nat
  <2>1. list.log \in Seq(Txs)
    BY <1>1 DEF TypeOK
  <2>2. \A i \in DOMAIN list.log : list.log[i] \in Txs
    BY <2>1
  <2>3. QED
    BY Zenon, <1>1, <1>2, <2>2, MempoolAssumption DEF NonceOrder, TypeOK
<1>8. \A k \in DOMAIN ress :
        /\ ress[k].tx.from \in Accounts /\ ress[k].tx.nonce \in Nat
        /\ app.nonceMap[ress[k].tx.from] \in Nat /\ app'.nonceMap[ress[k].tx.from] \in Nat
  <2>1. \A k \in DOMAIN ress : ress[k] \in Answer
    BY <1>5
  <2>2. \A k \in DOMAIN ress : ress[k].tx \in Txs
    BY <2>1 DEF Answer
  <2>3. QED
    BY Zenon, <1>1, <1>2, <2>2, MempoolAssumption DEF TypeOK
<1>9. NonceOrder'
  <2>1. AcceptedInNonceOrder'
    BY SMTT(30), <1>1 DEF NonceOrder, AcceptedInNonceOrder
  <2>2. \A i \in DOMAIN list.log : list.log[i].nonce < app'.nonceMap[list.log[i].from]
    BY Zenon, <1>a, <1>7, LessThanLarger
  <2>3. ASSUME NEW k \in 1..Len(ress), ress[k].code = OK
        PROVE  /\ ress[k].tx.nonce < app'.nonceMap[ress[k].tx.from]
               /\ \A i \in DOMAIN list.log :
                    list.log[i].from = ress[k].tx.from => list.log[i].nonce < ress[k].tx.nonce
               /\ \A j \in 1..(Len(ress) + 1) :
                    j < k /\ ress'[j].code = OK /\ ress'[j].tx.from = ress[k].tx.from
                      => ress'[j].tx.nonce < ress[k].tx.nonce
    <3>1. /\ ress[k].tx.nonce < app.nonceMap[ress[k].tx.from]
          /\ \A i \in DOMAIN list.log :
               list.log[i].from = ress[k].tx.from => list.log[i].nonce < ress[k].tx.nonce
          /\ \A j \in 1..Len(ress) :
               j < k /\ ress[j].code = OK /\ ress[j].tx.from = ress[k].tx.from
                 => ress[j].tx.nonce < ress[k].tx.nonce
      BY SMTT(30), <1>1, <1>5, <2>3 DEF NonceOrder
    <3>2. ress[k].tx.nonce < app'.nonceMap[ress[k].tx.from]
      BY Zenon, <1>a, <1>5, <1>8, <2>3, <3>1, LessThanLarger
    <3>3. \A j \in 1..(Len(ress) + 1) : j < k => j \in 1..Len(ress) /\ ress'[j] = ress[j]
      BY <1>5
    <3>4. QED
      BY ZenonT(30), <3>1, <3>2, <3>3
  <2>4. ASSUME codeOf(tx) = OK
        PROVE  /\ tx.nonce < app'.nonceMap[tx.from]
               /\ \A i \in DOMAIN list.log :
                    list.log[i].from = tx.from => list.log[i].nonce < tx.nonce
               /\ \A j \in 1..Len(ress) :
                    ress[j].code = OK /\ ress[j].tx.from = tx.from
                      => ress[j].tx.nonce < tx.nonce
    <3>1. tx.nonce \in Nat /\ app.nonceMap[tx.from] \in Nat
      BY SMTT(30), <1>1, MempoolAssumption DEF TypeOK
    <3>2. \A j \in 1..Len(ress) : ress[j].code = OK =>
            ress[j].tx.nonce < app.nonceMap[ress[j].tx.from]
      BY <1>1, <1>5 DEF NonceOrder
    <3>3. app.nonceMap[tx.from] <= tx.nonce /\ app'.nonceMap[tx.from] = tx.nonce + 1
      BY Zenon, <1>2, <2>4
    <3>4. \A i \in DOMAIN list.log :
            list.log[i].from = tx.from => list.log[i].nonce < tx.nonce
      BY <1>7, <3>1, <3>3
    <3>5. \A j \in 1..Len(ress) :
            ress[j].code = OK /\ ress[j].tx.from = tx.from => ress[j].tx.nonce < tx.nonce
      <4> TAKE j \in 1..Len(ress)
      <4>1. /\ ress[j].tx.nonce \in Nat
            /\ ress[j].code = OK => ress[j].tx.nonce < app.nonceMap[ress[j].tx.from]
        BY Zenon, <1>5, <1>8, <3>2
      <4>2. QED
        BY <3>1, <3>3, <4>1
    <3>6. QED
      BY SMTT(30), <3>1, <3>3, <3>4, <3>5
  <2>5. \A k \in 1..(Len(ress) + 1) : k \in 1..Len(ress) \/ k = Len(ress) + 1
    BY <1>5
  <2>6. \A j \in 1..(Len(ress) + 1) : j < Len(ress) + 1 => j \in 1..Len(ress)
    BY <1>5
  <2>7. ASSUME NEW k \in DOMAIN ress', ress'[k].code = OK
        PROVE  /\ ress'[k].tx.nonce < app'.nonceMap[ress'[k].tx.from]
               /\ \A i \in DOMAIN list.log :
                    list.log[i].from = ress'[k].tx.from => list.log[i].nonce < ress'[k].tx.nonce
               /\ \A j \in DOMAIN ress' :
                    j < k /\ ress'[j].code = OK /\ ress'[j].tx.from = ress'[k].tx.from
                      => ress'[j].tx.nonce < ress'[k].tx.nonce
    <3>1. CASE k \in 1..Len(ress)
      BY Zenon, <1>5, <2>3, <2>7, <3>1
    <3>2. CASE k = Len(ress) + 1
      BY ZenonT(30), <1>4, <1>5, <2>4, <2>6, <2>7, <3>2
    <3>3. QED
      BY <1>5, <2>5, <3>1, <3>2
  <2>8. QED
    BY ZenonT(30), <1>1, <2>1, <2>2, <2>7 DEF NonceOrder
<1>10. Uncommitted'
  <2>1. \A k \in 1..Len(ress) : ress[k].code = OK => ToBeRemoved(ress[k].tx)
    BY <1>1, <1>5 DEF Uncommitted
  <2>2. \A k \in 1..(Len(ress) + 1) : k \in 1..Len(ress) \/ k = Len(ress) + 1
    BY <1>5
  <2>3. QED
    <3>1. \A k \in DOMAIN ress' : ress'[k].code = OK =>
            (ress'[k].tx \in app.committed =>
               block.phase \in {"writing", "committed"} /\ ress'[k].tx \in block.txs)
      BY Zenon, <1>3, <1>4, <1>5, <2>1, <2>2 DEF ToBeRemoved
    <3>2. app'.committed = app.committed /\ block' = block /\ list' = list
      BY Zenon, <1>1, <1>2
    <3>3. QED
      BY <1>1, <3>1, <3>2 DEF Uncommitted, ToBeRemoved
<1>11. QED
  BY <1>1, <1>6, <1>9, <1>10 DEF IInv

\* resCb: an accepted transaction becomes the last element of the list.
LEMMA ResCbPreserves ==
  ASSUME IInv, resCbNormal
  PROVE  IInv'
<1> DEFINE tx == ress[1].tx
           code == ress[1].code
<1>1. /\ TypeOK /\ SoundList(list) /\ NonceOrder /\ Uncommitted
      /\ \A p \in DOMAIN peers : SoundRoutine(list, peers[p])
  BY DEF IInv
<1>2. /\ ress \in Seq(Answer) /\ ress # <<>> /\ Head(ress) = ress[1] /\ ress[1] \in Answer
      /\ ress' \in Seq(Answer) /\ Len(ress) \in Nat /\ Len(ress) > 0
      /\ DOMAIN ress = 1..Len(ress) /\ DOMAIN ress' = 1..(Len(ress) - 1)
      /\ \A k \in 1..(Len(ress) - 1) : ress'[k] = ress[k + 1]
  <2>1. ress \in Seq(Answer) /\ ress # <<>> /\ ress' = Tail(ress)
    BY Zenon, <1>1 DEF TypeOK, resCbNormal
  <2>2. QED
    BY <2>1, SeqHeadTail
<1>3. /\ list' = IF code = OK THEN PushBack(list, tx) ELSE list
      /\ future' = IF code = futurenum THEN future \cup {tx} ELSE future
      /\ cache' = IF code = Bad THEN Forget(cache, {tx}) ELSE cache
      /\ app' = app /\ reqs' = reqs /\ block' = block /\ peers' = peers
  BY Zenon, <1>2 DEF resCbNormal
<1>4. tx \in Txs /\ tx.from \in Accounts /\ tx.nonce \in Nat
  <2>1. tx \in Txs
    BY Zenon, <1>2 DEF Answer
  <2> HIDE DEF tx
  <2>2. QED
    BY <2>1, MempoolAssumption
<1> HIDE DEF tx, code
<1>5. /\ SoundList(list')
      /\ \A p \in DOMAIN peers : SoundRoutine(list', peers[p])
  BY Zenon, <1>1, <1>3, <1>4, PushBackSound
<1>6. TypeOK'
  <2>1. list' \in [log : Seq(Txs), live : SUBSET Nat, stale : Seq(Nat)]
    BY SMTT(30), <1>5 DEF SoundList
  <2>2. future' \subseteq Txs
    BY <1>1, <1>3, <1>4 DEF TypeOK
  <2>3. cache' \in [map : SUBSET Txs, list : Seq(Txs)]
    BY Zenon, <1>1, <1>3 DEF TypeOK, Forget
  <2>4. QED
    BY Zenon, <1>1, <1>2, <1>3, <2>1, <2>2, <2>3 DEF TypeOK
<1>7. \A k \in DOMAIN ress' : k + 1 \in DOMAIN ress /\ 1 < k + 1 /\ ress'[k] = ress[k + 1]
  BY <1>2
<1>8. 1 \in DOMAIN ress
  BY <1>2
<1>9. CASE code = OK
  <2> DEFINE n == Len(list.log)
  <2>1. /\ list'.log = Append(list.log, tx) /\ list'.live = list.live \cup {n + 1}
        /\ list.log \in Seq(Txs) /\ list.live \subseteq 1..n
    BY <1>1, <1>3, <1>9 DEF PushBack, SoundList
  <2>2. /\ n \in Nat /\ DOMAIN list.log = 1..n /\ DOMAIN list'.log = 1..(n + 1)
        /\ list'.log[n + 1] = tx /\ \A i \in 1..n : list'.log[i] = list.log[i]
    BY <1>4, <2>1, SeqAppend
  <2> HIDE DEF n
  <2>3. \A i \in 1..(n + 1) : i \in 1..n \/ i = n + 1
    BY <2>2
  <2>4. /\ tx.nonce < app.nonceMap[tx.from]
        /\ \A i \in 1..n : list.log[i].from = tx.from => list.log[i].nonce < tx.nonce
        /\ \A i \in 1..n : list.log[i].nonce < app.nonceMap[list.log[i].from]
        /\ ToBeRemoved(tx)
    BY Zenon, <1>1, <1>8, <1>9, <2>2 DEF NonceOrder, Uncommitted, tx, code
  <2>5. AcceptedInNonceOrder'
    <3>1. \A i, j \in 1..n : i < j /\ list.log[i].from = list.log[j].from
            => list.log[i].nonce < list.log[j].nonce
      BY Zenon, <1>1, <2>2 DEF NonceOrder, AcceptedInNonceOrder
    <3>2. \A i \in 1..(n + 1) : ~(n + 1 < i)
      BY <2>2
    <3>3. QED
      BY Zenon, <2>2, <2>3, <2>4, <3>1, <3>2 DEF AcceptedInNonceOrder
  <2>6. \A i \in 1..(n + 1) : list'.log[i].nonce < app'.nonceMap[list'.log[i].from]
    BY Zenon, <1>3, <2>2, <2>3, <2>4
  <2>7. ASSUME NEW k \in DOMAIN ress', ress'[k].code = OK
        PROVE  /\ ress'[k].tx.nonce < app.nonceMap[ress'[k].tx.from]
               /\ \A i \in 1..(n + 1) :
                    list'.log[i].from = ress'[k].tx.from => list'.log[i].nonce < ress'[k].tx.nonce
               /\ \A j \in DOMAIN ress' :
                    j < k /\ ress'[j].code = OK /\ ress'[j].tx.from = ress'[k].tx.from
                      => ress'[j].tx.nonce < ress'[k].tx.nonce
    <3>1. \A j \in DOMAIN ress' : j < k => j + 1 < k + 1
      BY <1>2
    <3>2. /\ ress[k + 1].tx.nonce < app.nonceMap[ress[k + 1].tx.from]
          /\ \A i \in 1..n : list.log[i].from = ress[k + 1].tx.from
               => list.log[i].nonce < ress[k + 1].tx.nonce
          /\ \A j \in DOMAIN ress :
               j < k + 1 /\ ress[j].code = OK /\ ress[j].tx.from = ress[k + 1].tx.from
                 => ress[j].tx.nonce < ress[k + 1].tx.nonce
      BY Zenon, <1>1, <1>7, <2>2, <2>7 DEF NonceOrder
    <3>3. tx.from = ress[k + 1].tx.from => tx.nonce < ress[k + 1].tx.nonce
      BY Zenon, <1>7, <1>8, <1>9, <3>2 DEF tx, code
    <3>4. \A i \in 1..(n + 1) : list'.log[i].from = ress[k + 1].tx.from
            => list'.log[i].nonce < ress[k + 1].tx.nonce
      BY Zenon, <2>2, <2>3, <3>2, <3>3
    <3>5. \A j \in DOMAIN ress' :
            j < k /\ ress'[j].code = OK /\ ress'[j].tx.from = ress[k + 1].tx.from
              => ress'[j].tx.nonce < ress[k + 1].tx.nonce
      BY Zenon, <1>7, <3>1, <3>2
    <3>6. ress'[k] = ress[k + 1]
      BY Zenon, <1>7
    <3>7. QED
      BY Zenon, <3>2, <3>4, <3>5, <3>6
  <2>8. NonceOrder'
    BY Zenon, <1>3, <2>2, <2>5, <2>6, <2>7 DEF NonceOrder
  <2>9. Uncommitted'
    <3>1. \A i \in list'.live : ToBeRemoved(list'.log[i])
      BY Zenon, <1>1, <2>1, <2>2, <2>4 DEF Uncommitted
    <3>2. \A k \in DOMAIN ress' : ress'[k].code = OK => ToBeRemoved(ress'[k].tx)
      BY Zenon, <1>1, <1>7 DEF Uncommitted
    <3>3. QED
      BY Zenon, <1>3, <3>1, <3>2 DEF Uncommitted, ToBeRemoved
  <2>10. QED
    BY SMTT(30), <1>3, <1>5, <1>6, <2>8, <2>9 DEF IInv
<1>10. CASE code # OK
  <2>1. list' = list
    BY <1>3, <1>10
  <2>2. \A j, k \in DOMAIN ress' : j < k => j + 1 < k + 1
    BY <1>2
  <2>3. NonceOrder'
    <3>1. ASSUME NEW k \in DOMAIN ress', ress'[k].code = OK
          PROVE  /\ ress'[k].tx.nonce < app.nonceMap[ress'[k].tx.from]
                 /\ \A i \in DOMAIN list.log :
                      list.log[i].from = ress'[k].tx.from => list.log[i].nonce < ress'[k].tx.nonce
                 /\ \A j \in DOMAIN ress' :
                      j < k /\ ress'[j].code = OK /\ ress'[j].tx.from = ress'[k].tx.from
                        => ress'[j].tx.nonce < ress'[k].tx.nonce
      BY ZenonT(30), <1>1, <1>7, <2>2, <3>1 DEF NonceOrder
    <3>2. AcceptedInNonceOrder'
      BY <1>1, <2>1 DEF NonceOrder, AcceptedInNonceOrder
    <3>3. QED
      BY Zenon, <1>1, <1>3, <2>1, <3>1, <3>2 DEF NonceOrder
  <2>4. Uncommitted'
    BY Zenon, <1>1, <1>3, <1>7, <2>1 DEF Uncommitted, ToBeRemoved
  <2>5. QED
    BY <1>3, <1>5, <1>6, <2>3, <2>4 DEF IInv
<1>11. QED
  BY <1>9, <1>10

\* BlockExecutor.Commit takes the lock, for a block that goes on the chain.
LEMMA LockPreserves ==
  ASSUME IInv, Lock
  PROVE  IInv'
<1>1. /\ TypeOK /\ SoundList(list) /\ NonceOrder /\ Uncommitted
      /\ \A p \in DOMAIN peers : SoundRoutine(list, peers[p])
  BY DEF IInv
<1>2. /\ block' \in [phase : {"locked"}, txs : Blocks] /\ block.phase = "none"
      /\ app' = app /\ reqs' = reqs /\ ress' = ress /\ list' = list
      /\ future' = future /\ cache' = cache /\ peers' = peers
  BY DEF Lock, locked, appVars, memVars
<1>3. \A B \in Blocks : B \subseteq Txs
  BY DEF Blocks, kSubset
<1>4. block' \in [phase : {"none", "locked", "writing", "committed"}, txs : SUBSET Txs]
  BY <1>2, <1>3
<1>5. TypeOK'
  BY Zenon, <1>1, <1>2, <1>4 DEF TypeOK
<1>6. NonceOrder'
  BY Zenon, <1>1, <1>2 DEF NonceOrder, AcceptedInNonceOrder
<1>7. Uncommitted'
  BY <1>1, <1>2 DEF Uncommitted, ToBeRemoved
<1>8. QED
  BY <1>1, <1>2, <1>5, <1>6, <1>7 DEF IInv

\* Once the chain has the block, what the mempool shares with the chain is in it.
LEMMA AppWritePreserves ==
  ASSUME IInv, AppWrite
  PROVE  IInv'
<1> DEFINE own(a) == {tx \in block.txs : tx.from = a}
           added == [a \in Accounts |-> app.nonce[a] + Cardinality(own(a))]
<1>1. /\ TypeOK /\ SoundList(list) /\ NonceOrder /\ Uncommitted
      /\ \A p \in DOMAIN peers : SoundRoutine(list, peers[p])
  BY DEF IInv
<1>2. /\ block.phase = "locked" /\ block' = [block EXCEPT !.phase = "writing"]
      /\ app' = [app EXCEPT !.nonce = added, !.committed = app.committed \cup block.txs]
      /\ reqs' = reqs /\ ress' = ress /\ list' = list
      /\ future' = future /\ cache' = cache /\ peers' = peers
  BY DEF AppWrite, memVars
<1>3. added \in [Accounts -> Nat]
  <2>1. \A a \in Accounts : Cardinality(own(a)) \in Nat
    <3> TAKE a \in Accounts
    <3>1. own(a) \subseteq Txs /\ IsFiniteSet(Txs)
      BY <1>1, MempoolAssumption DEF TypeOK
    <3>2. QED
      BY Zenon, <3>1, FS_Subset, FS_CardinalityType
  <2> HIDE DEF own
  <2>2. QED
    BY <1>1, <2>1 DEF TypeOK
<1> HIDE DEF added
<1>4. /\ app' \in [nonce : [Accounts -> Nat], checkNonce : [Accounts -> Nat],
                  nonceMap : [Accounts -> Nat], committed : SUBSET Txs]
      /\ app'.nonceMap = app.nonceMap /\ app'.committed = app.committed \cup block.txs
  BY Zenon, <1>1, <1>2, <1>3 DEF TypeOK
<1>5. /\ block' \in [phase : {"none", "locked", "writing", "committed"}, txs : SUBSET Txs]
      /\ block'.phase = "writing" /\ block'.txs = block.txs
  BY Zenon, <1>1, <1>2 DEF TypeOK
<1>6. TypeOK'
  BY Zenon, <1>1, <1>2, <1>4, <1>5 DEF TypeOK
<1>7. NonceOrder'
  BY Zenon, <1>1, <1>2, <1>4 DEF NonceOrder, AcceptedInNonceOrder
<1>8. Uncommitted'
  <2>1. \A tx : ToBeRemoved(tx) => ToBeRemoved(tx)'
    BY <1>2, <1>4, <1>5 DEF ToBeRemoved
  <2>2. QED
    BY <1>1, <1>2, <2>1 DEF Uncommitted, ToBeRemoved
<1>9. QED
  BY <1>1, <1>2, <1>6, <1>7, <1>8 DEF IInv

\* The rest of the application's Commit leaves what it has accepted alone.
LEMMA AppCommitPreserves ==
  ASSUME IInv, AppCommit
  PROVE  IInv'
<1>1. /\ TypeOK /\ SoundList(list) /\ NonceOrder /\ Uncommitted
      /\ \A p \in DOMAIN peers : SoundRoutine(list, peers[p])
  BY DEF IInv
<1>2. /\ block.phase = "writing" /\ block' = [block EXCEPT !.phase = "committed"]
      /\ app' = [app EXCEPT !.checkNonce = app.nonce]
      /\ reqs' = reqs /\ ress' = ress /\ list' = list
      /\ future' = future /\ cache' = cache /\ peers' = peers
  BY DEF AppCommit, memVars
<1>3. /\ app' \in [nonce : [Accounts -> Nat], checkNonce : [Accounts -> Nat],
                  nonceMap : [Accounts -> Nat], committed : SUBSET Txs]
      /\ app'.nonceMap = app.nonceMap /\ app'.committed = app.committed
  BY Zenon, <1>1, <1>2 DEF TypeOK
<1>4. /\ block' \in [phase : {"none", "locked", "writing", "committed"}, txs : SUBSET Txs]
      /\ block'.phase = "committed" /\ block'.txs = block.txs
  BY Zenon, <1>1, <1>2 DEF TypeOK
<1>5. TypeOK'
  BY Zenon, <1>1, <1>2, <1>3, <1>4 DEF TypeOK
<1>6. NonceOrder'
  BY ZenonT(30), <1>1, <1>2, <1>3 DEF NonceOrder, AcceptedInNonceOrder
<1>7. Uncommitted'
  BY <1>1, <1>2, <1>3, <1>4 DEF Uncommitted, ToBeRemoved
<1>8. QED
  BY <1>1, <1>2, <1>5, <1>6, <1>7 DEF IInv

\* Mempool.Update: with no answer under way, all that the mempool shares with
\* the chain is removed.
LEMMA UpdatePreserves ==
  ASSUME IInv, Update
  PROVE  IInv'
<1>1. /\ TypeOK /\ SoundList(list) /\ NonceOrder /\ Uncommitted
      /\ \A p \in DOMAIN peers : SoundRoutine(list, peers[p])
  BY DEF IInv
<1>2. /\ ress = <<>> /\ list' = RemoveAll(list, InBlock)
      /\ cache' = Forget(cache, {list.log[i] : i \in InBlock})
      /\ block' = [phase |-> "none", txs |-> {}]
      /\ app' = app /\ reqs' = reqs /\ ress' = ress /\ future' = future /\ peers' = peers
  BY Zenon DEF Update, appVars
<1>3. InBlock \subseteq list.live
  BY DEF InBlock
<1>4. /\ SoundList(list') /\ list'.log = list.log /\ list'.live = list.live \ InBlock
      /\ \A p \in DOMAIN peers : SoundRoutine(list', peers[p])
  BY Zenon, <1>1, <1>2, <1>3, RemoveAllSound
<1>5. TypeOK'
  <2>1. list' \in [log : Seq(Txs), live : SUBSET Nat, stale : Seq(Nat)]
    BY <1>4 DEF SoundList
  <2>2. cache' \in [map : SUBSET Txs, list : Seq(Txs)]
    BY Zenon, <1>1, <1>2 DEF TypeOK, Forget
  <2>3. block' \in [phase : {"none", "locked", "writing", "committed"}, txs : SUBSET Txs]
    BY SMTT(30), <1>2
  <2>4. QED
    BY Zenon, <1>1, <1>2, <2>1, <2>2, <2>3 DEF TypeOK
<1>6. NonceOrder'
  <2>1. NonceOrder /\ list'.log = list.log /\ app' = app /\ ress' = ress
    BY Zenon, <1>1, <1>2, <1>4
  <2>2. QED
    BY <2>1 DEF NonceOrder, AcceptedInNonceOrder
<1>7. Uncommitted'
  <2>1. \A i \in list'.live : list'.log[i] \notin app.committed
    BY Zenon, <1>1, <1>4 DEF Uncommitted, ToBeRemoved, InBlock
  <2>2. DOMAIN ress' = {}
    BY <1>2
  <2>3. QED
    BY <1>2, <2>1, <2>2 DEF Uncommitted, ToBeRemoved
<1>8. QED
  BY <1>2, <1>4, <1>5, <1>6, <1>7 DEF IInv

\* Mempool.Flush: the list is emptied, and what was accepted stays accepted.
LEMMA FlushPreserves ==
  ASSUME IInv, Flush
  PROVE  IInv'
<1>1. /\ TypeOK /\ SoundList(list) /\ NonceOrder /\ Uncommitted
      /\ \A p \in DOMAIN peers : SoundRoutine(list, peers[p])
  BY DEF IInv
<1>2. /\ list' = RemoveAll(list, list.live) /\ cache' = emptyCache /\ future' = {}
      /\ app' = app /\ reqs' = reqs /\ ress' = ress /\ block' = block /\ peers' = peers
  BY Zenon DEF Flush, appVars
<1>3. /\ SoundList(list') /\ list'.log = list.log /\ list'.live = list.live \ list.live
      /\ \A p \in DOMAIN peers : SoundRoutine(list', peers[p])
  BY Zenon, <1>1, <1>2, RemoveAllSound
<1>4. TypeOK'
  <2>1. list' \in [log : Seq(Txs), live : SUBSET Nat, stale : Seq(Nat)]
    BY <1>3 DEF SoundList
  <2>2. cache' \in [map : SUBSET Txs, list : Seq(Txs)]
    BY SMTT(30), <1>2 DEF emptyCache
  <2>3. QED
    BY Zenon, <1>1, <1>2, <2>1, <2>2 DEF TypeOK
<1>5. NonceOrder'
  <2>1. NonceOrder /\ list'.log = list.log /\ app' = app /\ ress' = ress
    BY Zenon, <1>1, <1>2, <1>3
  <2>2. QED
    BY <2>1 DEF NonceOrder, AcceptedInNonceOrder
<1>6. Uncommitted'
  BY <1>1, <1>2, <1>3 DEF Uncommitted, ToBeRemoved
<1>7. QED
  BY <1>2, <1>3, <1>4, <1>5, <1>6 DEF IInv

\* The reactor's steps change one broadcast routine.
LEMMA RoutineStepPreserves ==
  ASSUME IInv, UNCHANGED <<app, reqs, ress, list, future, cache, block>>,
         DOMAIN peers' \subseteq Peers,
         \A p \in DOMAIN peers' : SoundRoutine(list, peers'[p])
  PROVE  IInv'
<1>1. \A p \in DOMAIN peers' : peers'[p] \in [at : Nat, sending : BOOLEAN, sent : SUBSET Nat]
  BY DEF SoundRoutine
<1>2. TypeOK'
  BY SMTT(30), <1>1 DEF IInv, TypeOK
<1>3. NonceOrder' /\ Uncommitted'
  BY Zenon DEF IInv, NonceOrder, AcceptedInNonceOrder, Uncommitted, ToBeRemoved
<1>4. QED
  BY <1>2, <1>3 DEF IInv

\* The broadcast routines: a peer that comes or goes, an element that is sent.
LEMMA PeersPreserve ==
  ASSUME IInv,
         \/ \E p \in Peers \ DOMAIN peers : AddPeer(p)
         \/ \E p \in DOMAIN peers : PeerQuit(p) \/ Turn(p) \/ Send(p)
  PROVE  IInv'
<1>1. /\ TypeOK /\ SoundList(list) /\ \A p \in DOMAIN peers : SoundRoutine(list, peers[p])
      /\ DOMAIN peers \subseteq Peers
  BY Zenon DEF IInv, TypeOK
<1>2. ASSUME NEW p \in Peers \ DOMAIN peers, AddPeer(p)
      PROVE  IInv'
  <2> DEFINE r == [at |-> None, sending |-> FALSE, sent |-> {}]
  <2>1. r \in [at : Nat, sending : BOOLEAN, sent : SUBSET Nat]
    BY Zenon, 0 \in Nat DEF None
  <2>2. SoundRoutine(list, r)
    <3>1. r.at = 0 /\ ~r.sending /\ r.sent = {}
      BY DEF None
    <3>2. Len(list.log) \in Nat /\ list.live \subseteq 1..Len(list.log)
      BY <1>1 DEF SoundList
    <3> HIDE DEF r
    <3>3. QED
      BY <2>1, <3>1, <3>2 DEF SoundRoutine
  <2> HIDE DEF r
  <2>3. /\ peers' = [q \in DOMAIN peers \cup {p} |-> IF q = p THEN r ELSE peers[q]]
        /\ UNCHANGED <<app, reqs, ress, list, future, cache, block>>
    BY <1>2 DEF AddPeer, appVars, memVars, r
  <2>4. DOMAIN peers' \subseteq Peers /\ \A q \in DOMAIN peers' : SoundRoutine(list, peers'[q])
    BY <1>1, <2>2, <2>3
  <2>5. QED
    BY <2>3, <2>4, RoutineStepPreserves
<1>3. ASSUME NEW p \in DOMAIN peers, PeerQuit(p)
      PROVE  IInv'
  <2>1. /\ peers' = [q \in DOMAIN peers \ {p} |-> peers[q]]
        /\ UNCHANGED <<app, reqs, ress, list, future, cache, block>>
    BY <1>3 DEF PeerQuit, appVars, memVars
  <2>2. DOMAIN peers' \subseteq Peers /\ \A q \in DOMAIN peers' : SoundRoutine(list, peers'[q])
    BY <1>1, <2>1
  <2>3. QED
    BY <2>1, <2>2, RoutineStepPreserves
<1>4. ASSUME NEW p \in DOMAIN peers, Turn(p)
      PROVE  IInv'
  <2>1. /\ ~peers[p].sending /\ NextOf(p) # None
        /\ peers' = [peers EXCEPT ![p].at = NextOf(p), ![p].sending = TRUE]
        /\ UNCHANGED <<app, reqs, ress, list, future, cache, block>>
    BY Zenon, <1>4 DEF Turn, appVars, memVars
  <2>2. /\ NextOf(p) \in 1..Len(list.log)
        /\ \A i \in list.live : i < NextOf(p) => i \in peers[p].sent
    BY Zenon, <1>1, <2>1, NextOfIsNext
  <2>3. SoundRoutine(list, peers'[p])
    <3>1. peers[p] \in [at : Nat, sending : BOOLEAN, sent : SUBSET Nat]
      BY SMTT(30), <1>1 DEF TypeOK
    <3>2. NextOf(p) \in Nat /\ NextOf(p) <= Len(list.log)
      <4>1. Len(list.log) \in Nat
        BY Zenon, <1>1, LogLength
      <4>2. \A n \in Nat : \A m \in 1..n : m \in Nat /\ m <= n
        BY Zenon, WithinBounds
      <4>3. QED
        BY Zenon, <2>2, <4>1, <4>2
    <3>3. PICK b \in BOOLEAN : b = TRUE
      BY Zenon
    <3>4. peers'[p] = [peers[p] EXCEPT !.at = NextOf(p), !.sending = b]
      BY Zenon, <2>1, <3>3
    <3>5. /\ peers'[p] \in [at : Nat, sending : BOOLEAN, sent : SUBSET Nat]
          /\ peers'[p].at = NextOf(p) /\ peers'[p].sending = b /\ peers'[p].sent = peers[p].sent
      BY Zenon, <3>1, <3>2, <3>4
    <3>6. QED
      BY Zenon, <1>1, <2>1, <2>2, <3>2, <3>3, <3>5 DEF SoundRoutine
  <2>4. DOMAIN peers' = DOMAIN peers /\ \A q \in DOMAIN peers : q # p => peers'[q] = peers[q]
    BY <2>1
  <2>5. QED
    BY SMTT(30), <1>1, <2>1, <2>3, <2>4, RoutineStepPreserves
<1>5. ASSUME NEW p \in DOMAIN peers, Send(p)
      PROVE  IInv'
  <2>1. /\ peers[p].sending
        /\ peers' = [peers EXCEPT ![p].sending = FALSE, ![p].sent = @ \cup {peers[p].at}]
        /\ UNCHANGED <<app, reqs, ress, list, future, cache, block>>
    BY Zenon, <1>5 DEF Send, appVars, memVars
  <2>2. SoundRoutine(list, peers'[p])
    <3>1. peers[p] \in [at : Nat, sending : BOOLEAN, sent : SUBSET Nat]
      BY <1>1 DEF TypeOK
    <3>2. PICK b \in BOOLEAN : b = FALSE
      BY Zenon
    <3>3. peers'[p] = [peers[p] EXCEPT !.sending = b, !.sent = peers[p].sent \cup {peers[p].at}]
      BY Zenon, <2>1, <3>2
    <3>4. /\ peers'[p] \in [at : Nat, sending : BOOLEAN, sent : SUBSET Nat]
          /\ peers'[p].at = peers[p].at /\ peers'[p].sending = b
          /\ peers'[p].sent = peers[p].sent \cup {peers[p].at}
      BY ZenonT(30), <3>1, <3>3
    <3>5. peers[p].at \in 1..Len(list.log)
      BY <1>1, <2>1, <3>1 DEF SoundRoutine, SoundList, None
    <3>6. QED
      BY <1>1, <3>1, <3>2, <3>4, <3>5 DEF SoundRoutine
  <2>3. DOMAIN peers' = DOMAIN peers /\ \A q \in DOMAIN peers : q # p => peers'[q] = peers[q]
    BY <2>1
  <2>4. QED
    BY SMTT(30), <1>1, <2>1, <2>2, <2>3, RoutineStepPreserves
<1>6. QED
  BY SMTT(30), <1>2, <1>3, <1>4, <1>5

\* Every step preserves the invariant.
LEMMA StepPreserves == IInv /\ [Next]_vars => IInv'
<1> SUFFICES ASSUME IInv, [Next]_vars PROVE IInv'
  OBVIOUS
<1>1. ASSUME NEW tx \in Txs, Receive(tx)
      PROVE  IInv'
  BY Zenon, <1>1, CheckTxPreserves DEF Receive
<1>2. CASE UNCHANGED vars
  BY Zenon, <1>2 DEF IInv, vars, TypeOK, NonceOrder, AcceptedInNonceOrder, Uncommitted, ToBeRemoved
<1>3. QED
  BY Zenon, <1>1, <1>2, AppCheckTxPreserves, ResCbPreserves, LockPreserves, AppWritePreserves,
     AppCommitPreserves, UpdatePreserves, FlushPreserves, PeersPreserve DEF Next

\* The invariant holds throughout.
LEMMA Invariance == Spec => []IInv
<1>1. QED
  BY InitIInv, StepPreserves, PTL DEF Spec

\* The mempool accepts one transaction for a nonce of an account, in nonce order:
\* EthermintApplication.nonceMap (app.go:352) outlives commits and flushes.
THEOREM AcceptedInNonceOrderThm == Spec => []AcceptedInNonceOrder
<1>1. IInv => AcceptedInNonceOrder
  BY Zenon DEF IInv, NonceOrder
<1>2. QED
  BY <1>1, Invariance, PTL

\* Between two commits the mempool has no transaction of the chain: Update runs
\* after FlushSync, under the lock (execution.go:Commit).
THEOREM NoCommittedTxThm == Spec => []NoCommittedTx
<1>1. IInv => NoCommittedTx
  BY Zenon DEF IInv, Uncommitted, ToBeRemoved, NoCommittedTx, locked
<1>2. QED
  BY <1>1, Invariance, PTL

\* A peer gets the mempool's transactions in the order of the list, whatever is
\* removed under its broadcastTxRoutine (reactor.go).
THEOREM SentInOrderThm == Spec => []SentInOrder
<1>1. IInv => SentInOrder
  BY DEF IInv, SoundRoutine, SentInOrder
<1>2. QED
  BY <1>1, Invariance, PTL
=============================================================================
