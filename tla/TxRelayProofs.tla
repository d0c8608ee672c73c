---------------------------- MODULE TxRelayProofs ----------------------------
(***************************************************************************)
(* Proofs about TxRelay, for every set of accounts and of transactions and *)
(* every size of the cache, of a block and of the channels: the forwarder  *)
(* never lets the application find a gap in the transactions of an account *)
(* whose transactions only this node hands out, whatever peers send of the *)
(* other accounts and whatever they send back of this one's.               *)
(***************************************************************************)
EXTENDS TxRelay, MempoolProofs

\* The application s has accepted, or the chain used, all nonces below n.
Passed(s, a, n) == n <= s.nonce[a] \/ n <= s.nonceMap[a]

\* A peer's transaction is among the first k of the requests q.
Coming(q, a, k) == \E j \in DOMAIN q : j <= k /\ q[j].tx \in Foreign /\ q[j].tx.from = a

\* The application will expect nonce n, or a later one, after k requests.
Reached(s, q, a, n, k) == Passed(s, a, n) \/ (n = 1 /\ Coming(q, a, k))

\* The application's copies of the nonces, and the block that is committed.
AppInv ==
  /\ \A a \in Accounts :
       /\ block.phase # "writing" =>
            app.nonce[a] <= app.checkNonce[a] \/ app.nonce[a] <= app.nonceMap[a]
       /\ app.checkNonce[a] <= app.nonce[a] \/ app.checkNonce[a] <= app.nonceMap[a]
  /\ \A tx \in app.committed : tx.nonce < app.nonce[tx.from]
  /\ block.phase = "locked" => \A tx \in block.txs :
       tx.nonce < app.nonce[tx.from] + Cardinality({t \in block.txs : t.from = tx.from})

\* The pool knows an old head of the chain at worst.
PoolInv ==
  /\ pool \in [head : [Accounts -> Nat], pending : [Accounts -> Seq(Txs)]]
  /\ \A a \in Accounts :
       /\ pool.head[a] <= app.nonce[a]
       /\ \A i \in DOMAIN pool.pending[a] : pool.pending[a][i].from = a
  /\ events \subseteq Txs /\ blockCh \in Seq(SUBSET Txs)

\* A list of the loop: transactions of one account.
OfOneAccount(l) == l # <<>> /\ \A j \in DOMAIN l : l[j].from = l[1].from

Loop == [pc : {"select", "account", "tx", "call", "wait"}, lists : Seq(Seq(Txs)),
         nonce : Nat, included : SUBSET Txs, nonceMap : [Accounts -> Nat],
         hashes : SUBSET Txs]

CurrentOf(f) == Head(Head(f.lists))

\* The loop f: what it takes for the next nonce is one that the application will
\* expect, or have passed, when the requests under way are answered.
SoundLoop(s, q, f) ==
  /\ f \in Loop
  /\ \A i \in DOMAIN f.lists : OfOneAccount(f.lists[i])
  /\ \A a \in Own : Reached(s, q, a, f.nonceMap[a], Len(q))
  /\ f.pc \in {"tx", "call", "wait"} =>
       /\ f.lists # <<>>
       /\ CurrentOf(f).from \in Own => Reached(s, q, CurrentOf(f).from, f.nonce, Len(q))
  /\ f.pc \in {"call", "wait"} => CurrentOf(f).nonce = f.nonce

\* The loop's own request is the current transaction, and there is one at most,
\* on its way to the application (q) or back (r).
SoundCalls(q, r, f) ==
  /\ \A k \in DOMAIN q : q[k].sync =>
       /\ f.pc = "wait" /\ q[k].tx = CurrentOf(f)
       /\ \A j \in DOMAIN q : q[j].sync => j = k
       /\ \A j \in DOMAIN r : ~r[j].sync
  /\ \A k \in DOMAIN r : r[k].sync =>
       /\ f.pc = "wait" /\ r[k].tx = CurrentOf(f)
       /\ \A j \in DOMAIN r : r[j].sync => j = k

\* In an account of Own no request has a gap in front of it, no answer says that
\* there is one, and a cached transaction (of c) is accepted, or about to be
\* answered.
Gapless(s, q, r) ==
  /\ \A k \in DOMAIN q :
       q[k].tx.from \in Own => Reached(s, q, q[k].tx.from, q[k].tx.nonce, k - 1)
  /\ \A k \in DOMAIN r :
       /\ r[k].tx.from \in Own => r[k].code # futurenum
       /\ r[k].code = OK => Passed(s, r[k].tx.from, r[k].tx.nonce + 1)

SoundCache(s, q, c, f) ==
  \A tx \in c : tx.from \in Own =>
    \/ Passed(s, tx.from, tx.nonce + 1)
    \/ tx \in Foreign /\ \E k \in DOMAIN q : q[k].tx = tx
    \/ f.pc = "wait" /\ tx = CurrentOf(f)

RInv ==
  /\ IInv /\ AppInv /\ PoolInv
  /\ SoundLoop(app, reqs, fwd) /\ SoundCalls(reqs, ress, fwd)
  /\ Gapless(app, reqs, ress) /\ SoundCache(app, reqs, cache.map, fwd)
  /\ NoneSetAside

\* What peers may send of an account of Own: its first transaction, payable.
LEMMA OwnFirst ==
  /\ Own \subseteq Accounts
  /\ \A tx \in Foreign : tx.from \in Own => tx.nonce = 0 /\ tx \notin Unpayable
  BY Zenon DEF Own

-----------------------------------------------------------------------------
(***************************************************************************)
(* What the steps of the loop change.                                      *)
(***************************************************************************)

\* The current transaction is one, and its list is all of its account.
LEMMA CurrentIsTx ==
  ASSUME NEW f \in Loop, f.lists # <<>>, \A i \in DOMAIN f.lists : OfOneAccount(f.lists[i])
  PROVE  /\ Head(f.lists) = f.lists[1] /\ f.lists[1] \in Seq(Txs) /\ f.lists[1] # <<>>
         /\ CurrentOf(f) = f.lists[1][1] /\ CurrentOf(f) \in Txs
         /\ CurrentOf(f).from \in Accounts /\ CurrentOf(f).nonce \in Nat
         /\ \A j \in DOMAIN f.lists[1] : f.lists[1][j].from = CurrentOf(f).from
<1>1. f.lists \in Seq(Seq(Txs))
  BY Zenon DEF Loop
<1>2. Head(f.lists) = f.lists[1] /\ f.lists[1] \in Seq(Txs) /\ 1 \in DOMAIN f.lists
  BY <1>1
<1>3. f.lists[1] # <<>> /\ \A j \in DOMAIN f.lists[1] : f.lists[1][j].from = f.lists[1][1].from
  BY Zenon, <1>2 DEF OfOneAccount
<1>4. CurrentOf(f) = f.lists[1][1] /\ f.lists[1][1] \in Txs
  BY <1>2, <1>3, SeqHeadTail DEF CurrentOf
<1>5. QED
  BY Zenon, <1>2, <1>3, <1>4, MempoolAssumption

\* The loop goes to the next account.
LEMMA LeaveAccountLists ==
  ASSUME fwd \in Loop, fwd.lists # <<>>, \A i \in DOMAIN fwd.lists : OfOneAccount(fwd.lists[i])
  PROVE  /\ LeaveAccount \in Loop /\ LeaveAccount.pc = "account"
         /\ LeaveAccount.nonceMap = fwd.nonceMap /\ LeaveAccount.hashes = fwd.hashes
         /\ \A i \in DOMAIN LeaveAccount.lists : OfOneAccount(LeaveAccount.lists[i])
<1>1. /\ fwd.lists \in Seq(Seq(Txs)) /\ Tail(fwd.lists) \in Seq(Seq(Txs))
      /\ DOMAIN fwd.lists = 1..Len(fwd.lists) /\ Len(fwd.lists) \in Nat
      /\ DOMAIN Tail(fwd.lists) = 1..(Len(fwd.lists) - 1)
      /\ \A i \in 1..(Len(fwd.lists) - 1) : Tail(fwd.lists)[i] = fwd.lists[i + 1]
  <2>1. fwd.lists \in Seq(Seq(Txs))
    BY Zenon DEF Loop
  <2>2. QED
    BY <2>1, SeqHeadTail
<1>2. /\ LeaveAccount \in Loop /\ LeaveAccount.pc = "account"
      /\ LeaveAccount.nonceMap = fwd.nonceMap /\ LeaveAccount.hashes = fwd.hashes
      /\ LeaveAccount.lists = Tail(fwd.lists)
  <2>1. PICK m \in Seq(Seq(Txs)) : m = Tail(fwd.lists)
    BY Zenon, <1>1
  <2>2. LeaveAccount = [fwd EXCEPT !.pc = "account", !.lists = m]
    BY Zenon, <2>1 DEF LeaveAccount
  <2>3. LeaveAccount \in Loop /\ LeaveAccount.pc = "account" /\ LeaveAccount.lists = m
    BY Zenon, <2>2 DEF Loop
  <2>4. LeaveAccount.nonceMap = fwd.nonceMap /\ LeaveAccount.hashes = fwd.hashes
    BY <2>2 DEF Loop
  <2>5. QED
    BY Zenon, <2>1, <2>3, <2>4
<1>3. \A i \in DOMAIN Tail(fwd.lists) : OfOneAccount(Tail(fwd.lists)[i])
  <2>1. \A i \in 1..(Len(fwd.lists) - 1) : i + 1 \in 1..Len(fwd.lists)
    BY <1>1
  <2>2. QED
    BY Zenon, <1>1, <2>1
<1>4. QED
  BY Zenon, <1>2, <1>3

\* The loop goes to the next transaction of the account, or to the next account.
LEMMA SkipTxLists ==
  ASSUME fwd \in Loop, fwd.lists # <<>>, \A i \in DOMAIN fwd.lists : OfOneAccount(fwd.lists[i])
  PROVE  /\ SkipTx \in Loop /\ SkipTx.pc \in {"account", "tx"}
         /\ SkipTx.nonce = fwd.nonce /\ SkipTx.nonceMap = fwd.nonceMap
         /\ \A i \in DOMAIN SkipTx.lists : OfOneAccount(SkipTx.lists[i])
         /\ SkipTx.pc = "tx" =>
              SkipTx.lists # <<>> /\ CurrentOf(SkipTx).from = CurrentOf(fwd).from
<1> DEFINE l == fwd.lists[1]
<1>1. /\ Head(fwd.lists) = l /\ l \in Seq(Txs) /\ l # <<>>
      /\ \A j \in DOMAIN l : l[j].from = CurrentOf(fwd).from
  BY Zenon, CurrentIsTx
<1> HIDE DEF l
<1>2. CASE Len(Head(fwd.lists)) = 1
  <2>1. SkipTx = LeaveAccount
    BY Zenon, <1>2 DEF SkipTx
  <2>2. LeaveAccount.nonce = fwd.nonce
    BY DEF LeaveAccount, Loop
  <2>3. QED
    BY Zenon, <2>1, <2>2, LeaveAccountLists
<1>3. CASE Len(Head(fwd.lists)) # 1
  <2> DEFINE t == Tail(l)
             m == [fwd.lists EXCEPT ![1] = t]
  <2>1. /\ t \in Seq(Txs) /\ t # <<>> /\ \A j \in DOMAIN t : t[j].from = CurrentOf(fwd).from
        /\ Head(t) = t[1] /\ 1 \in DOMAIN t
    <3>1. /\ t \in Seq(Txs) /\ Len(l) \in Nat /\ Len(l) > 0 /\ DOMAIN l = 1..Len(l)
          /\ Len(t) = Len(l) - 1
          /\ DOMAIN t = 1..(Len(l) - 1) /\ \A j \in 1..(Len(l) - 1) : t[j] = l[j + 1]
      BY Zenon, <1>1, SeqHeadTail
    <3> HIDE DEF t
    <3>2. Len(l) # 1
      BY Zenon, <1>1, <1>3
    <3>3. 1 \in 1..(Len(l) - 1) /\ \A j \in 1..(Len(l) - 1) : j + 1 \in 1..Len(l)
      BY <3>1, <3>2
    <3>4. t # <<>>
      BY <3>1, <3>3
    <3>5. Head(t) = t[1]
      BY Zenon, <3>1, <3>4, SeqHeadTail
    <3>6. ASSUME NEW j \in DOMAIN t PROVE t[j].from = CurrentOf(fwd).from
      <4>1. j \in 1..(Len(l) - 1) /\ j + 1 \in DOMAIN l
        BY Zenon, <3>1, <3>3
      <4>2. QED
        BY Zenon, <1>1, <3>1, <4>1
    <3>7. 1 \in DOMAIN t
      BY Zenon, <3>1, <3>3
    <3>8. QED
      BY SMTT(30), <3>1, <3>4, <3>5, <3>6, <3>7
  <2>2. SkipTx = [fwd EXCEPT !.pc = "tx", !.lists = m]
    <3>1. SkipTx = [fwd EXCEPT !.pc = "tx", !.lists = [fwd.lists EXCEPT ![1] = Tail(fwd.lists[1])]]
      BY Zenon, <1>3 DEF SkipTx
    <3>2. QED
      BY Zenon, <3>1 DEF l
  <2> HIDE DEF t
  <2>3. fwd.lists \in Seq(Seq(Txs))
    BY Zenon DEF Loop
  <2>4. /\ m \in Seq(Seq(Txs)) /\ m # <<>> /\ DOMAIN m = DOMAIN fwd.lists /\ m[1] = t
        /\ Head(m) = t
        /\ \A i \in DOMAIN m : i # 1 => m[i] = fwd.lists[i]
    BY <2>1, <2>3
  <2> HIDE DEF m
  <2>5. /\ SkipTx \in Loop /\ SkipTx.pc = "tx" /\ SkipTx.lists = m
        /\ SkipTx.nonce = fwd.nonce /\ SkipTx.nonceMap = fwd.nonceMap
    BY Zenon, <2>2, <2>4 DEF Loop
  <2>6. OfOneAccount(t)
    BY Zenon, <2>1 DEF OfOneAccount
  <2>7. CurrentOf(SkipTx).from = CurrentOf(fwd).from
    BY Zenon, <2>1, <2>4, <2>5 DEF CurrentOf
  <2>8. QED
    BY Zenon, <2>4, <2>5, <2>6, <2>7
<1>4. QED
  BY <1>2, <1>3

\* Leaving an account, or a transaction, keeps the loop sound.
LEMMA LeaveSound ==
  ASSUME NEW s, NEW q, SoundLoop(s, q, fwd), fwd.pc \in {"tx", "call", "wait"}
  PROVE  SoundLoop(s, q, LeaveAccount) /\ SoundLoop(s, q, SkipTx)
<1>1. /\ fwd \in Loop /\ fwd.lists # <<>> /\ \A i \in DOMAIN fwd.lists : OfOneAccount(fwd.lists[i])
      /\ \A a \in Own : Reached(s, q, a, fwd.nonceMap[a], Len(q))
      /\ CurrentOf(fwd).from \in Own => Reached(s, q, CurrentOf(fwd).from, fwd.nonce, Len(q))
  BY Zenon DEF SoundLoop
<1>2. SoundLoop(s, q, LeaveAccount)
  <2>1. LeaveAccount.pc \notin {"tx", "call", "wait"}
    BY <1>1, LeaveAccountLists
  <2>2. QED
    BY Zenon, <1>1, <2>1, LeaveAccountLists DEF SoundLoop
<1>3. SoundLoop(s, q, SkipTx)
  <2>1. SkipTx.pc \notin {"call", "wait"}
    BY <1>1, SkipTxLists
  <2>2. SkipTx.pc \in {"tx", "call", "wait"} => SkipTx.pc = "tx"
    BY Zenon, <2>1
  <2>3. QED
    BY ZenonT(30), <1>1, <2>1, <2>2, SkipTxLists DEF SoundLoop
<1>4. QED
  BY <1>2, <1>3

\* So does the end of a call, once the application is past the transaction, or
\* will be when it has answered the requests under way.
LEMMA ForwardedSound ==
  ASSUME NEW s, NEW q, SoundLoop(s, q, fwd), fwd.pc \in {"call", "wait"},
         current.from \in Own => Reached(s, q, current.from, current.nonce + 1, Len(q))
  PROVE  SoundLoop(s, q, Forwarded)
<1> DEFINE n == CurrentOf(fwd).nonce + 1
           a == CurrentOf(fwd).from
           h == fwd.hashes \cup {CurrentOf(fwd)}
<1>1. /\ fwd \in Loop /\ fwd.lists # <<>> /\ \A i \in DOMAIN fwd.lists : OfOneAccount(fwd.lists[i])
      /\ \A b \in Own : Reached(s, q, b, fwd.nonceMap[b], Len(q))
  <2>1. fwd.pc \in {"tx", "call", "wait"}
    OBVIOUS
  <2>2. QED
    BY Zenon, <2>1 DEF SoundLoop
<1>2. current = CurrentOf(fwd)
  BY DEF current, CurrentOf
<1>3. CurrentOf(fwd) \in Txs /\ a \in Accounts /\ CurrentOf(fwd).nonce \in Nat
  BY Zenon, <1>1, CurrentIsTx
<1>4. n \in Nat
  BY <1>3
<1>5. /\ SkipTx \in Loop /\ SkipTx.pc \in {"account", "tx"} /\ SkipTx.nonceMap = fwd.nonceMap
      /\ \A i \in DOMAIN SkipTx.lists : OfOneAccount(SkipTx.lists[i])
      /\ SkipTx.pc = "tx" => SkipTx.lists # <<>> /\ CurrentOf(SkipTx).from = a
  BY Zenon, <1>1, SkipTxLists
<1>6. a \in Own => Reached(s, q, a, n, Len(q))
  BY Zenon, <1>2
<1>7. Forwarded = [SkipTx EXCEPT !.nonce = n, !.nonceMap[a] = n,
                                 !.hashes = @ \cup {CurrentOf(fwd)}]
  BY Zenon, <1>2 DEF Forwarded
<1> HIDE DEF n, a
<1>8. PICK m \in [Accounts -> Nat] : m = [SkipTx.nonceMap EXCEPT ![a] = n]
  <2>1. SkipTx.nonceMap \in [Accounts -> Nat]
    BY Zenon, <1>5 DEF Loop
  <2>2. QED
    BY Zenon, <1>3, <1>4, <2>1
<1>9. PICK g \in SUBSET Txs : g = SkipTx.hashes \cup {CurrentOf(fwd)}
  <2>1. SkipTx.hashes \in SUBSET Txs
    BY Zenon, <1>5 DEF Loop
  <2>2. QED
    BY Zenon, <1>3, <2>1
<1>10. Forwarded = [SkipTx EXCEPT !.nonce = n, !.nonceMap = m, !.hashes = g]
  BY Zenon, <1>7, <1>8, <1>9
<1>11. /\ Forwarded \in Loop /\ Forwarded.nonce = n /\ Forwarded.nonceMap = m
       /\ Forwarded.pc = SkipTx.pc /\ Forwarded.lists = SkipTx.lists
  BY Zenon, <1>4, <1>5, <1>10 DEF Loop
<1>12. \A b \in Own : Reached(s, q, b, m[b], Len(q))
  <2>1. SkipTx.nonceMap \in [Accounts -> Nat]
    BY Zenon, <1>5 DEF Loop
  <2>2. \A b \in Accounts : m[b] = IF b = a THEN n ELSE fwd.nonceMap[b]
    BY Zenon, <1>5, <1>8, <2>1
  <2>3. QED
    BY Zenon, <1>1, <1>6, <2>2, OwnFirst
<1>13. CurrentOf(Forwarded) = CurrentOf(SkipTx)
  BY Zenon, <1>11 DEF CurrentOf
<1>14. Forwarded.pc \notin {"call", "wait"} /\ (Forwarded.pc \in {"tx", "call", "wait"} => SkipTx.pc = "tx")
  BY <1>5, <1>11
<1>15. QED
  BY Zenon, <1>5, <1>6, <1>11, <1>12, <1>13, <1>14 DEF SoundLoop

\* A step of the loop that is not the end of a call leaves the rest alone.
LEMMA LoopMoves ==
  ASSUME RInv, UNCHANGED vars, fwd.pc # "wait", PoolInv', SoundLoop(app, reqs, fwd')
  PROVE  RInv'
<1>1. IInv'
  BY StepPreserves DEF RInv
<1>2. /\ app' = app /\ reqs' = reqs /\ ress' = ress /\ cache' = cache /\ future' = future
      /\ block' = block
  BY DEF vars
<1>3. AppInv'
  BY Zenon, <1>2 DEF RInv, AppInv
<1>4. SoundCalls(reqs, ress, fwd')
  BY Zenon DEF RInv, SoundCalls
<1>5. SoundCache(app, reqs, cache.map, fwd')
  BY Zenon DEF RInv, SoundCache
<1>6. QED
  BY Zenon, <1>1, <1>2, <1>3, <1>4, <1>5 DEF RInv, NoneSetAside

-----------------------------------------------------------------------------
(***************************************************************************)
(* The steps of the loop and of the pool.                                  *)
(***************************************************************************)

\* The loop begins with new lists.
LEMMA BeginSound ==
  ASSUME NEW s, NEW q, SoundLoop(s, q, fwd), NEW m \in Seq(Seq(Txs)),
         \A i \in DOMAIN m : OfOneAccount(m[i]), NEW B \in SUBSET Txs
  PROVE  SoundLoop(s, q, [fwd EXCEPT !.pc = "account", !.lists = m, !.included = B])
<1> DEFINE f == [fwd EXCEPT !.pc = "account", !.lists = m, !.included = B]
<1>1. fwd \in Loop
  BY Zenon DEF SoundLoop
<1>2. f \in Loop /\ f.pc = "account" /\ f.lists = m
  BY Zenon, <1>1 DEF Loop
<1>3. f.nonceMap = fwd.nonceMap
  BY <1>1 DEF Loop
<1> HIDE DEF f
<1>4. f.pc \notin {"tx", "call", "wait"}
  BY <1>2
<1>5. SoundLoop(s, q, f)
  BY Zenon, <1>2, <1>3, <1>4 DEF SoundLoop
<1>6. QED
  BY <1>5 DEF f

\* The loop receives a TxPreEvent or a ChainHeadEvent.
LEMMA TakePreserves ==
  ASSUME RInv, (\E tx \in Txs : TakeTx(tx)) \/ TakeBlock
  PROVE  RInv'
<1>1. /\ SoundLoop(app, reqs, fwd) /\ PoolInv
      /\ events \subseteq Txs /\ blockCh \in Seq(SUBSET Txs)
  BY DEF RInv, PoolInv
<1>2. ASSUME NEW tx \in Txs, TakeTx(tx)
      PROVE  RInv'
  <2>1. /\ fwd.pc = "select" /\ events' = events \ {tx} /\ pool' = pool /\ blockCh' = blockCh
        /\ UNCHANGED vars
        /\ fwd' = [fwd EXCEPT !.pc = "account", !.lists = <<<<tx>>>>, !.included = {}]
    BY Zenon, <1>2 DEF TakeTx
  <2>2. /\ <<<<tx>>>> \in Seq(Seq(Txs)) /\ \A i \in DOMAIN <<<<tx>>>> : OfOneAccount(<<<<tx>>>>[i])
        /\ {} \in SUBSET Txs
    BY DEF OfOneAccount
  <2>3. SoundLoop(app, reqs, fwd')
    BY Zenon, <1>1, <2>1, <2>2, BeginSound
  <2>4. app' = app
    BY <2>1 DEF vars
  <2>5. PoolInv'
    BY <1>1, <2>1, <2>4 DEF PoolInv
  <2>6. fwd.pc # "wait"
    BY <2>1
  <2>7. QED
    BY Zenon, <2>1, <2>3, <2>5, <2>6, LoopMoves
<1>3. ASSUME TakeBlock
      PROVE  RInv'
  <2> DEFINE busy == {a \in Accounts : pool.pending[a] # <<>>}
  <2>1. PICK order \in Bijection(1..Cardinality(busy), busy) :
          /\ fwd.pc = "select" /\ blockCh # <<>> /\ blockCh' = Tail(blockCh)
          /\ events' = events /\ pool' = pool /\ UNCHANGED vars
          /\ fwd' = [fwd EXCEPT !.pc = "account", !.included = Head(blockCh),
                                !.lists = [i \in DOMAIN order |-> pool.pending[order[i]]]]
    BY Zenon, <1>3 DEF TakeBlock
  <2>2. Cardinality(busy) \in Nat
    <3>1. busy \subseteq Accounts /\ IsFiniteSet(Accounts)
      BY MempoolAssumption
    <3> HIDE DEF busy
    <3>2. QED
      BY Zenon, <3>1, FS_Subset, FS_CardinalityType
  <2>3. order \in [1..Cardinality(busy) -> busy]
    BY Zenon, <2>1 DEF Bijection, Injection, Surjection
  <2>4. /\ \A a \in busy : pool.pending[a] \in Seq(Txs) /\ OfOneAccount(pool.pending[a])
    <3>1. ASSUME NEW a \in busy PROVE pool.pending[a] \in Seq(Txs) /\ OfOneAccount(pool.pending[a])
      <4>1. /\ pool.pending[a] \in Seq(Txs) /\ pool.pending[a] # <<>>
            /\ \A i \in DOMAIN pool.pending[a] : pool.pending[a][i].from = a
        BY <1>1 DEF PoolInv
      <4>2. 1 \in DOMAIN pool.pending[a]
        BY <4>1
      <4>3. QED
        BY ZenonT(30), <4>1, <4>2 DEF OfOneAccount
    <3>2. QED
      BY <3>1
  <2> DEFINE m == [i \in DOMAIN order |-> pool.pending[order[i]]]
  <2> HIDE DEF busy
  <2>5. /\ m \in [1..Cardinality(busy) -> Seq(Txs)]
        /\ \A i \in DOMAIN m : OfOneAccount(m[i])
    <3>1. DOMAIN order = 1..Cardinality(busy) /\ \A i \in DOMAIN order : order[i] \in busy
      BY Zenon, <2>3
    <3>2. \A i \in DOMAIN order : m[i] \in Seq(Txs) /\ OfOneAccount(m[i])
      BY Zenon, <2>4, <3>1
    <3>3. QED
      BY <3>1, <3>2
  <2>6. m \in Seq(Seq(Txs))
    <3> HIDE DEF m
    <3> QED BY <2>2, <2>5
  <2>7. fwd' = [fwd EXCEPT !.pc = "account", !.lists = m, !.included = Head(blockCh)]
    <3>1. fwd' = [fwd EXCEPT !.pc = "account", !.included = Head(blockCh), !.lists = m]
      BY Zenon, <2>1
    <3>2. fwd \in Loop
      BY Zenon, <1>1 DEF SoundLoop
    <3> HIDE DEF m
    <3>3. QED
      BY Zenon, <3>1, <3>2 DEF Loop
  <2> HIDE DEF m
  <2>8. Head(blockCh) \in SUBSET Txs /\ Tail(blockCh) \in Seq(SUBSET Txs)
    <3>1. blockCh \in Seq(SUBSET Txs) /\ blockCh # <<>>
      BY Zenon, <1>1, <2>1
    <3>2. QED
      BY <3>1
  <2>9. SoundLoop(app, reqs, fwd')
    BY Zenon, <1>1, <2>5, <2>6, <2>7, <2>8, BeginSound
  <2>10. app' = app
    BY <2>1 DEF vars
  <2>11. PoolInv'
    BY SMTT(30), <1>1, <2>1, <2>8, <2>10 DEF PoolInv
  <2>12. fwd.pc # "wait"
    BY <2>1
  <2>13. QED
    BY Zenon, <2>1, <2>9, <2>11, <2>12, LoopMoves
<1>4. QED
  BY <1>2, <1>3

\* The outer loop of transformTx: the nonce it begins with is the chain's, or
\* the one after the last that it forwarded.
LEMMA NextAccountPreserves ==
  ASSUME RInv, NextAccount
  PROVE  RInv'
<1>1. /\ SoundLoop(app, reqs, fwd) /\ PoolInv /\ TypeOK /\ fwd \in Loop
      /\ \A i \in DOMAIN fwd.lists : OfOneAccount(fwd.lists[i])
      /\ \A a \in Own : Reached(app, reqs, a, fwd.nonceMap[a], Len(reqs))
  BY Zenon DEF RInv, IInv, SoundLoop
<1>2. /\ fwd.pc = "account" /\ UNCHANGED vars
      /\ pool' = pool /\ events' = events /\ blockCh' = blockCh
      /\ fwd' = IF fwd.lists = <<>>
                THEN [fwd EXCEPT !.pc = "select", !.hashes = @ \ fwd.included]
                ELSE [fwd EXCEPT !.pc = "tx", !.nonce = getNonce(Head(Head(fwd.lists)).from)]
  BY Zenon DEF NextAccount
<1>3. app' = app
  BY <1>2 DEF vars
<1>4. PoolInv'
  BY Zenon, <1>1, <1>2, <1>3 DEF PoolInv
<1>5. SoundLoop(app, reqs, fwd')
  <2>1. CASE fwd.lists = <<>>
    <3>1. PICK h \in SUBSET Txs : h = fwd.hashes \ fwd.included
      BY Zenon, <1>1 DEF Loop
    <3>2. fwd' = [fwd EXCEPT !.pc = "select", !.hashes = h]
      BY Zenon, <1>2, <2>1, <3>1
    <3>3. /\ fwd' \in Loop /\ fwd'.pc = "select" /\ fwd'.lists = fwd.lists
      BY Zenon, <1>1, <3>2 DEF Loop
    <3>4. fwd'.nonceMap = fwd.nonceMap
      BY <1>1, <3>2 DEF Loop
    <3>5. fwd'.pc \notin {"tx", "call", "wait"}
      BY <3>3
    <3>6. QED
      BY Zenon, <1>1, <3>3, <3>4, <3>5 DEF SoundLoop
  <2>2. CASE fwd.lists # <<>>
    <3> DEFINE a == CurrentOf(fwd).from
    <3>1. a \in Accounts
      BY ZenonT(30), <1>1, <2>2, CurrentIsTx
    <3>2. app.nonce[a] \in Nat /\ fwd.nonceMap[a] \in Nat
      BY SMTT(30), <1>1, <3>1 DEF Loop, TypeOK
    <3> HIDE DEF a
    <3>3. PICK n \in Nat : n = getNonce(a) /\ (n = app.nonce[a] \/ n = fwd.nonceMap[a])
      <4>1. getNonce(a) = IF app.nonce[a] < fwd.nonceMap[a] THEN fwd.nonceMap[a] ELSE app.nonce[a]
        BY Zenon, <3>2, MaxOfTwo DEF getNonce
      <4>2. QED
        BY <3>2, <4>1
    <3>4. a \in Own => Reached(app, reqs, a, n, Len(reqs))
      <4>1. CASE n = fwd.nonceMap[a]
        BY Zenon, <1>1, <4>1
      <4>2. CASE n = app.nonce[a]
        BY <3>2, <4>2 DEF Reached, Passed
      <4>3. QED
        BY <3>3, <4>1, <4>2
    <3>5. fwd' = [fwd EXCEPT !.pc = "tx", !.nonce = n]
      BY Zenon, <1>2, <2>2, <3>3 DEF a, CurrentOf
    <3>6. fwd' \in Loop /\ fwd'.pc = "tx" /\ fwd'.lists = fwd.lists /\ fwd'.nonce = n
      BY Zenon, <1>1, <3>5 DEF Loop
    <3>7. fwd'.nonceMap = fwd.nonceMap
      BY <1>1, <3>5 DEF Loop
    <3>8. fwd'.pc \notin {"call", "wait"} /\ CurrentOf(fwd').from = a
      BY <3>6 DEF CurrentOf, a
    <3>9. QED
      BY Zenon, <1>1, <2>2, <3>4, <3>6, <3>7, <3>8 DEF SoundLoop
  <2>3. QED
    BY <2>1, <2>2
<1>6. fwd.pc # "wait"
  BY <1>2
<1>7. QED
  BY Zenon, <1>2, <1>4, <1>5, <1>6, LoopMoves

\* The inner loop: only a transaction that has the loop's nonce is forwarded.
LEMMA TransformTxPreserves ==
  ASSUME RInv, TransformTx
  PROVE  RInv'
<1>1. /\ SoundLoop(app, reqs, fwd) /\ PoolInv /\ fwd \in Loop
  BY Zenon DEF RInv, SoundLoop
<1>2. /\ fwd.pc = "tx" /\ UNCHANGED vars /\ fwd' = Dispatch(current)
      /\ pool' = pool /\ events' = events /\ blockCh' = blockCh
  BY Zenon DEF TransformTx
<1>3. PoolInv'
  <2>1. app' = app
    BY <1>2 DEF vars
  <2>2. QED
    BY Zenon, <1>1, <1>2, <2>1 DEF PoolInv
<1>4. /\ fwd.lists # <<>> /\ \A i \in DOMAIN fwd.lists : OfOneAccount(fwd.lists[i])
      /\ \A a \in Own : Reached(app, reqs, a, fwd.nonceMap[a], Len(reqs))
      /\ CurrentOf(fwd).from \in Own =>
           Reached(app, reqs, CurrentOf(fwd).from, fwd.nonce, Len(reqs))
  <2>1. fwd.pc \in {"tx", "call", "wait"}
    BY <1>2
  <2>2. QED
    BY Zenon, <1>1, <2>1 DEF SoundLoop
<1>5. current = CurrentOf(fwd) /\ current.nonce \in Nat /\ fwd.nonce \in Nat
  <2>1. current = CurrentOf(fwd)
    BY DEF current, CurrentOf
  <2>2. QED
    BY Zenon, <1>1, <1>4, <2>1, CurrentIsTx DEF Loop
<1>6. \/ fwd' = SkipTx \/ fwd' = LeaveAccount
      \/ current.nonce = fwd.nonce /\ fwd' = [fwd EXCEPT !.pc = "call"]
  <2>1. \/ current \in fwd.hashes \/ current.nonce < fwd.nonce
        \/ current.nonce > fwd.nonce \/ current.nonce = fwd.nonce
    BY <1>5
  <2>2. QED
    BY <1>2, <2>1 DEF Dispatch
<1>7. SoundLoop(app, reqs, fwd')
  <2>1. SoundLoop(app, reqs, SkipTx) /\ SoundLoop(app, reqs, LeaveAccount)
    <3>1. fwd.pc \in {"tx", "call", "wait"}
      BY <1>2
    <3>2. QED
      BY Zenon, <1>1, <3>1, LeaveSound
  <2>2. ASSUME current.nonce = fwd.nonce, fwd' = [fwd EXCEPT !.pc = "call"]
        PROVE  SoundLoop(app, reqs, fwd')
    <3>1. fwd' \in Loop /\ fwd'.pc = "call"
      BY Zenon, <1>1, <2>2 DEF Loop
    <3>2. fwd'.lists = fwd.lists /\ fwd'.nonceMap = fwd.nonceMap /\ fwd'.nonce = fwd.nonce
      BY <1>1, <2>2 DEF Loop
    <3>3. CurrentOf(fwd') = CurrentOf(fwd)
      BY Zenon, <3>2 DEF CurrentOf
    <3>4. QED
      BY Zenon, <1>4, <1>5, <2>2, <3>1, <3>2, <3>3 DEF SoundLoop
  <2>3. QED
    BY Zenon, <1>6, <2>1, <2>2
<1>8. fwd.pc # "wait"
  BY <1>2
<1>9. QED
  BY Zenon, <1>2, <1>3, <1>7, <1>8, LoopMoves

\* A call that finds the transaction in the cache: the application has accepted
\* it, or it is a peer's, under way in front of whatever the loop sends next.
LEMMA BroadcastCachedPreserves ==
  ASSUME RInv, BroadcastCached
  PROVE  RInv'
<1>1. /\ SoundLoop(app, reqs, fwd) /\ PoolInv /\ SoundCache(app, reqs, cache.map, fwd) /\ TypeOK
  BY Zenon DEF RInv, IInv
<1>2. /\ fwd.pc = "call" /\ UNCHANGED vars /\ current \in cache.map /\ fwd' = Forwarded
      /\ pool' = pool /\ events' = events /\ blockCh' = blockCh
  BY Zenon DEF BroadcastCached
<1>3. PoolInv'
  <2>1. app' = app
    BY <1>2 DEF vars
  <2>2. QED
    BY Zenon, <1>1, <1>2, <2>1 DEF PoolInv
<1>4. fwd.pc # "wait" /\ fwd.pc \in {"call", "wait"}
  BY <1>2
<1>5. ASSUME current.from \in Own
      PROVE  Reached(app, reqs, current.from, current.nonce + 1, Len(reqs))
  <2>1. CASE Passed(app, current.from, current.nonce + 1)
    BY Zenon, <2>1 DEF Reached
  <2>2. CASE current \in Foreign /\ \E k \in DOMAIN reqs : reqs[k].tx = current
    <3>1. PICK k \in DOMAIN reqs : reqs[k].tx = current
      BY <2>2
    <3>2. k <= Len(reqs)
      BY <1>1 DEF TypeOK
    <3>3. current.nonce + 1 = 1
      <4>1. current.nonce = 0
        BY Zenon, <1>5, <2>2, OwnFirst
      <4>2. QED
        BY <4>1
    <3>4. QED
      BY Zenon, <2>2, <3>1, <3>2, <3>3 DEF Reached, Coming
  <2>3. QED
    BY Zenon, <1>1, <1>2, <1>4, <1>5, <2>1, <2>2 DEF SoundCache
<1>6. SoundLoop(app, reqs, fwd')
  BY Zenon, <1>1, <1>2, <1>4, <1>5, ForwardedSound
<1>7. QED
  BY Zenon, <1>2, <1>3, <1>4, <1>6, LoopMoves

\* What is left of an account's list in the pool is the account's.
LEMMA RestOfList ==
  ASSUME NEW l \in Seq(Txs), NEW m \in Nat \ {0}, NEW a, \A i \in DOMAIN l : l[i].from = a
  PROVE  /\ SubSeq(l, m, Len(l)) \in Seq(Txs)
         /\ \A i \in DOMAIN SubSeq(l, m, Len(l)) : SubSeq(l, m, Len(l))[i].from = a
<1>1. /\ SubSeq(l, m, Len(l)) \in Seq(Txs)
      /\ \A i \in DOMAIN SubSeq(l, m, Len(l)) :
           \E j \in DOMAIN l : SubSeq(l, m, Len(l))[i] = l[j]
  BY SMTT(30)
<1>2. QED
  BY <1>1

\* The pool takes a transaction, or sees the chain's new head.
LEMMA PoolPreserves ==
  ASSUME RInv, (\E tx \in Txs : SubmitTx(tx)) \/ PoolReset
  PROVE  RInv'
<1>1. /\ PoolInv /\ TypeOK /\ events \subseteq Txs /\ blockCh \in Seq(SUBSET Txs)
      /\ pool \in [head : [Accounts -> Nat], pending : [Accounts -> Seq(Txs)]]
      /\ \A a \in Accounts : app.nonce[a] \in Nat /\ pool.head[a] \in Nat
      /\ app.nonce \in [Accounts -> Nat]
  BY Zenon DEF RInv, IInv, PoolInv, TypeOK
<1>2. ASSUME NEW tx \in Txs, SubmitTx(tx)
      PROVE  PoolInv' /\ UNCHANGED <<vars, fwd>>
  <2> DEFINE a == tx.from
  <2>1. a \in Accounts
    BY MempoolAssumption
  <2>2. PICK l \in Seq(Txs) : l = Append(pool.pending[a], tx)
    <3>1. pool.pending[a] \in Seq(Txs)
      BY <1>1, <2>1
    <3>2. QED
      BY Zenon, <3>1, SeqAppend
  <2>3. /\ pool' = [pool EXCEPT !.pending[a] = l] /\ events' = events \cup {tx}
        /\ blockCh' = blockCh /\ UNCHANGED <<vars, fwd>>
    BY Zenon, <1>2, <2>2 DEF SubmitTx
  <2>4. app' = app
    BY <2>3 DEF vars
  <2>5. \A i \in DOMAIN l : l[i].from = a
    BY SMTT(30), <1>1, <2>1, <2>2 DEF PoolInv
  <2> HIDE DEF a
  <2>6. /\ pool' \in [head : [Accounts -> Nat], pending : [Accounts -> Seq(Txs)]]
        /\ pool'.head = pool.head /\ pool'.pending = [pool.pending EXCEPT ![a] = l]
    BY Zenon, <1>1, <2>1, <2>3
  <2>7. QED
    BY Zenon, <1>1, <2>1, <2>3, <2>4, <2>5, <2>6 DEF PoolInv
<1>3. ASSUME PoolReset
      PROVE  PoolInv' /\ UNCHANGED <<vars, fwd>>
  <2> DEFINE rest(a) == SubSeq(pool.pending[a], app.nonce[a] - pool.head[a] + 1,
                               Len(pool.pending[a]))
             p == [a \in Accounts |-> rest(a)]
  <2>1. /\ pool' = [head |-> app.nonce, pending |-> p]
        /\ events' = events /\ blockCh' = blockCh /\ UNCHANGED <<vars, fwd>>
    BY Zenon, <1>3 DEF PoolReset
  <2>2. ASSUME NEW a \in Accounts
        PROVE  rest(a) \in Seq(Txs) /\ \A i \in DOMAIN rest(a) : rest(a)[i].from = a
    <3>1. pool.pending[a] \in Seq(Txs) /\ \A i \in DOMAIN pool.pending[a] : pool.pending[a][i].from = a
      BY <1>1 DEF PoolInv
    <3>2. app.nonce[a] - pool.head[a] + 1 \in Nat \ {0}
      BY <1>1 DEF PoolInv
    <3>3. PICK l \in Seq(Txs), m \in Nat \ {0} :
            l = pool.pending[a] /\ m = app.nonce[a] - pool.head[a] + 1
      BY Zenon, <3>1, <3>2
    <3>4. rest(a) = SubSeq(l, m, Len(l)) /\ \A i \in DOMAIN l : l[i].from = a
      BY Zenon, <3>1, <3>3
    <3> HIDE DEF rest
    <3>5. /\ SubSeq(l, m, Len(l)) \in Seq(Txs)
          /\ \A i \in DOMAIN SubSeq(l, m, Len(l)) : SubSeq(l, m, Len(l))[i].from = a
      BY Zenon, <3>4, RestOfList
    <3>6. QED
      BY Zenon, <3>4, <3>5
  <2> HIDE DEF rest
  <2>3. p \in [Accounts -> Seq(Txs)] /\ \A a \in Accounts : \A i \in DOMAIN p[a] : p[a][i].from = a
    BY Zenon, <2>2
  <2> HIDE DEF p
  <2>4. app' = app
    BY <2>1 DEF vars
  <2>5. QED
    BY <1>1, <2>1, <2>3, <2>4 DEF PoolInv
<1>4. PoolInv' /\ UNCHANGED <<vars, fwd>>
  BY <1>2, <1>3
<1>5. /\ app' = app /\ reqs' = reqs /\ ress' = ress /\ cache' = cache /\ future' = future
      /\ block' = block /\ fwd' = fwd
  BY <1>4 DEF vars
<1>6. IInv'
  BY <1>4, StepPreserves DEF RInv
<1>7. AppInv'
  BY Zenon, <1>5 DEF RInv, AppInv
<1>8. QED
  BY Zenon, <1>4, <1>5, <1>6, <1>7 DEF RInv, NoneSetAside

-----------------------------------------------------------------------------
(***************************************************************************)
(* CheckTx, called by the loop or for a peer's transaction.                *)
(***************************************************************************)

\* The loop's nonces stay sound as long as the application gets as far as before.
LEMMA LoopKept ==
  ASSUME NEW s, NEW q, NEW f, SoundLoop(s, q, f), NEW s2, NEW q2,
         \A a \in Own : \A n \in Nat :
           Reached(s, q, a, n, Len(q)) => Reached(s2, q2, a, n, Len(q2))
  PROVE  SoundLoop(s2, q2, f)
<1>1. f \in Loop /\ f.nonce \in Nat /\ \A a \in Own : f.nonceMap[a] \in Nat
  BY Zenon, OwnFirst DEF SoundLoop, Loop
<1>2. QED
  BY Zenon, <1>1 DEF SoundLoop

\* A new request does not keep the application from getting as far.
LEMMA ReachedAppend ==
  ASSUME NEW s, NEW q \in Seq(Request), NEW e \in Request, NEW a, NEW n, NEW k \in Nat,
         k <= Len(q), Reached(s, q, a, n, k)
  PROVE  /\ Reached(s, Append(q, e), a, n, k)
         /\ Reached(s, Append(q, e), a, n, Len(Append(q, e)))
<1> DEFINE r == Append(q, e)
<1>1. /\ DOMAIN q = 1..Len(q) /\ DOMAIN r = 1..(Len(q) + 1) /\ Len(q) \in Nat
      /\ Len(r) = Len(q) + 1 /\ \A i \in 1..Len(q) : r[i] = q[i]
  <2>1. Len(r) = Len(q) + 1
    OBVIOUS
  <2>2. QED
    BY <2>1, SeqAppend
<1> HIDE DEF r
<1>2. ASSUME Coming(q, a, k)
      PROVE  Coming(r, a, k) /\ Coming(r, a, Len(r))
  <2>1. PICK j \in DOMAIN q : j <= k /\ q[j].tx \in Foreign /\ q[j].tx.from = a
    BY Zenon, <1>2 DEF Coming
  <2>2. j \in DOMAIN r /\ j <= Len(r) /\ r[j] = q[j]
    BY <1>1, <2>1
  <2>3. QED
    BY Zenon, <2>1, <2>2 DEF Coming
<1>3. Reached(s, r, a, n, k) /\ Reached(s, r, a, n, Len(r))
  BY Zenon, <1>2 DEF Reached
<1>4. QED
  BY <1>3 DEF r

\* CheckTx of a transaction that has no gap in front of it.
LEMMA CheckTxSound ==
  ASSUME RInv, NEW tx \in Txs, NEW sync \in BOOLEAN, CheckTx(tx, sync),
         tx.from \in Own => Reached(app, reqs, tx.from, tx.nonce, Len(reqs))
  PROVE  /\ IInv' /\ AppInv' /\ Gapless(app, reqs', ress) /\ SoundLoop(app, reqs', fwd)
         /\ app' = app /\ ress' = ress /\ NoneSetAside' /\ cache'.map \subseteq cache.map \cup {tx}
         /\ Len(reqs) \in Nat /\ DOMAIN reqs = 1..Len(reqs)
         /\ DOMAIN reqs' = 1..(Len(reqs) + 1)
         /\ reqs'[Len(reqs) + 1].tx = tx /\ reqs'[Len(reqs) + 1].sync = sync
         /\ \A i \in 1..Len(reqs) : reqs'[i] = reqs[i]
<1>1. /\ IInv /\ AppInv /\ TypeOK /\ Gapless(app, reqs, ress) /\ SoundLoop(app, reqs, fwd)
      /\ NoneSetAside /\ reqs \in Seq(Request) /\ cache.map \in SUBSET Txs
  <2>1. IInv /\ AppInv /\ TypeOK /\ Gapless(app, reqs, ress) /\ SoundLoop(app, reqs, fwd)
        /\ NoneSetAside
    BY Zenon DEF RInv, IInv
  <2>2. QED
    BY SMTT(30), <2>1 DEF TypeOK
<1>2. PICK e \in Request : e = [tx |-> tx, sync |-> sync]
  BY Zenon DEF Request
<1>3. /\ reqs' = Append(reqs, e) /\ cache' = Push(cache, tx)
      /\ app' = app /\ ress' = ress /\ future' = future /\ block' = block
  BY Zenon, <1>2 DEF CheckTx
<1>4. e.tx = tx /\ e.sync = sync
  BY Zenon, <1>2
<1>5. /\ Len(reqs) \in Nat /\ DOMAIN reqs = 1..Len(reqs)
      /\ DOMAIN reqs' = 1..(Len(reqs) + 1) /\ reqs'[Len(reqs) + 1] = e
      /\ \A i \in 1..Len(reqs) : reqs'[i] = reqs[i]
  BY <1>1, <1>3, SeqAppend
<1>6. IInv'
  BY Zenon, <1>1, CheckTxPreserves
<1>7. AppInv'
  BY Zenon, <1>1, <1>3 DEF AppInv
<1>8. cache'.map \subseteq cache.map \cup {tx}
  BY Zenon, <1>3 DEF Push
<1>9. ASSUME NEW a, NEW n, NEW k \in Nat, k <= Len(reqs), Reached(app, reqs, a, n, k)
      PROVE  Reached(app, reqs', a, n, k) /\ Reached(app, reqs', a, n, Len(reqs'))
  BY Zenon, <1>1, <1>3, <1>9, ReachedAppend
<1>10. Gapless(app, reqs', ress)
  <2>1. ASSUME NEW k \in DOMAIN reqs', reqs'[k].tx.from \in Own
        PROVE  Reached(app, reqs', reqs'[k].tx.from, reqs'[k].tx.nonce, k - 1)
    <3>1. k - 1 \in Nat /\ k - 1 <= Len(reqs) /\ (k \in DOMAIN reqs \/ k = Len(reqs) + 1)
      BY <1>5
    <3>2. Reached(app, reqs, reqs'[k].tx.from, reqs'[k].tx.nonce, k - 1)
      <4>1. CASE k \in DOMAIN reqs
        BY Zenon, <1>1, <1>5, <2>1, <4>1 DEF Gapless
      <4>2. CASE k = Len(reqs) + 1
        <5>1. k - 1 = Len(reqs)
          BY <1>5, <4>2
        <5>2. QED
          BY Zenon, <1>4, <1>5, <2>1, <4>2, <5>1
      <4>3. QED
        BY <3>1, <4>1, <4>2
    <3>3. QED
      BY Zenon, <1>9, <3>1, <3>2
  <2>2. QED
    BY Zenon, <1>1, <2>1 DEF Gapless
<1>11. SoundLoop(app, reqs', fwd)
  <2>1. Len(reqs) <= Len(reqs)
    BY <1>5
  <2>2. \A a \in Own : \A n \in Nat :
          Reached(app, reqs, a, n, Len(reqs)) => Reached(app, reqs', a, n, Len(reqs'))
    BY Zenon, <1>5, <1>9, <2>1
  <2>3. QED
    BY Zenon, <1>1, <2>2, LoopKept
<1>12. NoneSetAside'
  BY Zenon, <1>1, <1>3 DEF NoneSetAside
<1>13. QED
  BY Zenon, <1>3, <1>4, <1>5, <1>6, <1>7, <1>8, <1>10, <1>11, <1>12

\* The loop sends the transaction it has chosen.
LEMMA BroadcastTxPreserves ==
  ASSUME RInv, BroadcastTx
  PROVE  RInv'
<1>1. /\ PoolInv /\ SoundLoop(app, reqs, fwd) /\ fwd \in Loop
      /\ SoundCalls(reqs, ress, fwd) /\ SoundCache(app, reqs, cache.map, fwd)
  BY Zenon DEF RInv, SoundLoop
<1>2. /\ fwd.pc = "call" /\ CheckTx(current, TRUE) /\ fwd' = [fwd EXCEPT !.pc = "wait"]
      /\ pool' = pool /\ events' = events /\ blockCh' = blockCh
  BY Zenon DEF BroadcastTx
<1>3. /\ current = CurrentOf(fwd) /\ current \in Txs /\ current.nonce = fwd.nonce
      /\ current.from \in Own => Reached(app, reqs, current.from, current.nonce, Len(reqs))
  <2>1. current = CurrentOf(fwd)
    BY DEF current, CurrentOf
  <2>2. fwd.pc \in {"tx", "call", "wait"} /\ fwd.pc \in {"call", "wait"}
    BY <1>2
  <2>3. /\ fwd.lists # <<>> /\ \A i \in DOMAIN fwd.lists : OfOneAccount(fwd.lists[i])
        /\ CurrentOf(fwd).nonce = fwd.nonce
        /\ CurrentOf(fwd).from \in Own =>
             Reached(app, reqs, CurrentOf(fwd).from, fwd.nonce, Len(reqs))
    BY Zenon, <1>1, <2>2 DEF SoundLoop
  <2>4. QED
    BY Zenon, <1>1, <2>1, <2>3, CurrentIsTx
<1>4. /\ IInv' /\ AppInv' /\ Gapless(app, reqs', ress) /\ SoundLoop(app, reqs', fwd)
      /\ app' = app /\ ress' = ress /\ NoneSetAside'
      /\ cache'.map \subseteq cache.map \cup {current}
  BY Zenon, <1>2, <1>3, CheckTxSound
<1>5. /\ Len(reqs) \in Nat /\ DOMAIN reqs = 1..Len(reqs)
      /\ DOMAIN reqs' = 1..(Len(reqs) + 1)
      /\ reqs'[Len(reqs) + 1].tx = current
      /\ \A i \in 1..Len(reqs) : reqs'[i] = reqs[i]
  BY Zenon, <1>2, <1>3, CheckTxSound
<1>6. /\ fwd' \in Loop /\ fwd'.pc = "wait" /\ fwd'.lists = fwd.lists
      /\ fwd'.nonceMap = fwd.nonceMap /\ fwd'.nonce = fwd.nonce
      /\ CurrentOf(fwd') = current
  <2>1. fwd' \in Loop /\ fwd'.pc = "wait"
    BY Zenon, <1>1, <1>2 DEF Loop
  <2>2. fwd'.lists = fwd.lists /\ fwd'.nonceMap = fwd.nonceMap /\ fwd'.nonce = fwd.nonce
    BY <1>1, <1>2 DEF Loop
  <2>3. QED
    BY Zenon, <1>3, <2>1, <2>2 DEF CurrentOf
<1>7. SoundLoop(app, reqs', fwd')
  <2>1. fwd.pc \in {"tx", "call", "wait"}
    BY <1>2
  <2>2. QED
    BY Zenon, <1>3, <1>4, <1>6, <2>1 DEF SoundLoop
<1>8. fwd.pc # "wait"
  BY <1>2
<1>9. SoundCalls(reqs', ress, fwd')
  <2>1. /\ \A k \in DOMAIN reqs : ~reqs[k].sync
        /\ \A k \in DOMAIN ress : ~ress[k].sync
    BY Zenon, <1>1, <1>8 DEF SoundCalls
  <2>2. ASSUME NEW k \in DOMAIN reqs', reqs'[k].sync
        PROVE  k = Len(reqs) + 1
    <3>1. k \in DOMAIN reqs \/ k = Len(reqs) + 1
      BY <1>5
    <3>2. QED
      BY Zenon, <1>5, <2>1, <2>2, <3>1
  <2>3. QED
    BY Zenon, <1>5, <1>6, <2>1, <2>2 DEF SoundCalls
<1>10. SoundCache(app, reqs', cache'.map, fwd')
  <2>1. \A tx : (\E k \in DOMAIN reqs : reqs[k].tx = tx) => \E k \in DOMAIN reqs' : reqs'[k].tx = tx
    <3>1. DOMAIN reqs \subseteq DOMAIN reqs'
      BY <1>5
    <3>2. QED
      BY Zenon, <1>5, <3>1
  <2>2. QED
    BY Zenon, <1>1, <1>4, <1>6, <1>8, <2>1 DEF SoundCache
<1>11. PoolInv'
  BY Zenon, <1>1, <1>2, <1>4 DEF PoolInv
<1>12. QED
  BY Zenon, <1>4, <1>7, <1>9, <1>10, <1>11 DEF RInv

\* A peer's transaction has no predecessor, or is one that the application has
\* accepted before: the mempool's log only has those.
LEMMA RelayReceivePreserves ==
  ASSUME RInv, NEW tx \in Txs, RelayReceive(tx)
  PROVE  RInv'
<1>1. /\ PoolInv /\ TypeOK /\ SoundCalls(reqs, ress, fwd) /\ SoundCache(app, reqs, cache.map, fwd)
  BY Zenon DEF RInv, IInv
<1>2. /\ tx \in Relayed /\ CheckTx(tx, FALSE) /\ fwd' = fwd
      /\ pool' = pool /\ events' = events /\ blockCh' = blockCh
  BY Zenon DEF RelayReceive, Receive, relayVars
<1> DEFINE a == tx.from
           n == tx.nonce
<1>a. a \in Accounts /\ n \in Nat
  BY MempoolAssumption
<1>b. app.nonce[a] \in Nat /\ app.nonceMap[a] \in Nat
  BY <1>1, <1>a DEF TypeOK
<1>c. tx \in Foreign \/ n < app.nonceMap[a]
  <2>1. tx \in Foreign \/ \E i \in DOMAIN list.log : list.log[i] = tx
    BY Zenon, <1>2 DEF Relayed, Range
  <2>2. \A i \in DOMAIN list.log : list.log[i].nonce < app.nonceMap[list.log[i].from]
    BY Zenon DEF RInv, IInv, NonceOrder
  <2>3. QED
    BY Zenon, <2>1, <2>2
<1> HIDE DEF a, n
<1>d. tx \notin Foreign => n <= app.nonceMap[a] /\ n + 1 <= app.nonceMap[a]
  BY <1>a, <1>b, <1>c
<1>3. ASSUME tx.from \in Own
      PROVE  Reached(app, reqs, tx.from, tx.nonce, Len(reqs))
  <2>1. tx \in Foreign => n = 0
    BY Zenon, <1>3, OwnFirst DEF n
  <2>2. n <= app.nonce[a] \/ n <= app.nonceMap[a]
    BY <1>b, <1>d, <2>1
  <2>3. QED
    BY Zenon, <2>2 DEF Reached, Passed, a, n
<1>e. tx \in Foreign \/ Passed(app, tx.from, tx.nonce + 1)
  BY Zenon, <1>d DEF Passed, a, n
<1>4. FALSE \in BOOLEAN
  OBVIOUS
<1>5. /\ IInv' /\ AppInv' /\ Gapless(app, reqs', ress) /\ SoundLoop(app, reqs', fwd)
      /\ app' = app /\ ress' = ress /\ NoneSetAside'
      /\ cache'.map \subseteq cache.map \cup {tx}
  BY Zenon, <1>2, <1>3, <1>4, CheckTxSound
<1>6. /\ Len(reqs) \in Nat /\ DOMAIN reqs = 1..Len(reqs)
      /\ DOMAIN reqs' = 1..(Len(reqs) + 1)
      /\ reqs'[Len(reqs) + 1].tx = tx /\ reqs'[Len(reqs) + 1].sync = FALSE
      /\ \A i \in 1..Len(reqs) : reqs'[i] = reqs[i]
  BY Zenon, <1>2, <1>3, <1>4, CheckTxSound
<1>7. SoundCalls(reqs', ress, fwd)
  <2>1. ASSUME NEW k \in DOMAIN reqs', reqs'[k].sync
        PROVE  k \in DOMAIN reqs /\ reqs'[k] = reqs[k] /\ reqs[k].sync
    <3>1. k \in DOMAIN reqs \/ k = Len(reqs) + 1
      BY <1>6
    <3>2. k \in DOMAIN reqs /\ reqs'[k] = reqs[k]
      BY Zenon, <1>6, <2>1, <3>1
    <3>3. QED
      BY Zenon, <2>1, <3>2
  <2>2. QED
    BY Zenon, <1>1, <2>1 DEF SoundCalls
<1>8. SoundCache(app, reqs', cache'.map, fwd)
  <2>1. \A t : (\E k \in DOMAIN reqs : reqs[k].tx = t) => \E k \in DOMAIN reqs' : reqs'[k].tx = t
    <3>1. DOMAIN reqs \subseteq DOMAIN reqs'
      BY <1>6
    <3>2. QED
      BY Zenon, <1>6, <3>1
  <2>2. \E k \in DOMAIN reqs' : reqs'[k].tx = tx
    <3>1. Len(reqs) + 1 \in DOMAIN reqs'
      BY <1>6
    <3>2. QED
      BY Zenon, <1>6, <3>1
  <2>3. QED
    BY Zenon, <1>1, <1>e, <1>5, <2>1, <2>2 DEF SoundCache
<1>9. PoolInv'
  BY Zenon, <1>1, <1>2, <1>5 DEF PoolInv
<1>10. QED
  BY Zenon, <1>2, <1>5, <1>7, <1>8, <1>9 DEF RInv


-----------------------------------------------------------------------------
(***************************************************************************)
(* The application's answer, and the callback.                             *)
(***************************************************************************)

\* The callback: after a good answer the loop goes to the next nonce, which the
\* application expects; after a bad one it leaves the account.
LEMMA CallbackPreserves ==
  ASSUME RInv, Callback
  PROVE  RInv'
<1> DEFINE h == ress[1]
<1>1. /\ IInv /\ AppInv /\ PoolInv /\ TypeOK /\ Gapless(app, reqs, ress)
      /\ SoundLoop(app, reqs, fwd) /\ SoundCalls(reqs, ress, fwd)
      /\ SoundCache(app, reqs, cache.map, fwd) /\ NoneSetAside
  BY Zenon DEF RInv, IInv
<1>2. /\ resCbNormal /\ ress # <<>> /\ ress' = Tail(ress)
      /\ future' = (IF Head(ress).code = futurenum THEN future \cup {Head(ress).tx} ELSE future)
      /\ cache' = (IF Head(ress).code = Bad THEN Forget(cache, {Head(ress).tx}) ELSE cache)
      /\ app' = app /\ reqs' = reqs /\ block' = block
      /\ pool' = pool /\ events' = events /\ blockCh' = blockCh
  BY Zenon DEF Callback, resCbNormal
<1>3. /\ Head(ress) = h /\ h \in Answer /\ 1 \in DOMAIN ress
      /\ \A k \in DOMAIN ress' : k + 1 \in DOMAIN ress /\ ress'[k] = ress[k + 1] /\ k + 1 # 1
  <2>1. ress \in Seq(Answer)
    BY <1>1 DEF TypeOK
  <2>2. /\ Head(ress) = ress[1] /\ ress[1] \in Answer /\ Len(ress) \in Nat /\ Len(ress) > 0
        /\ DOMAIN ress = 1..Len(ress) /\ DOMAIN ress' = 1..(Len(ress) - 1)
        /\ \A i \in 1..(Len(ress) - 1) : ress'[i] = ress[i + 1]
    BY <1>2, <2>1, SeqHeadTail
  <2>3. QED
    BY <2>2
<1> HIDE DEF h
<1>4. h.tx \in Txs /\ h.sync \in BOOLEAN /\ h.code \in {OK, Bad, futurenum}
  BY Zenon, <1>3 DEF Answer
<1>5. /\ h.tx.from \in Own => h.code # futurenum
      /\ h.code = OK => Passed(app, h.tx.from, h.tx.nonce + 1)
  BY Zenon, <1>1, <1>3 DEF Gapless, h
<1>6. /\ NoneSetAside' /\ cache'.map \subseteq cache.map
      /\ h.code = Bad => h.tx \notin cache'.map
  <2>1. cache \in [map : SUBSET Txs, list : Seq(Txs)]
    BY <1>1 DEF TypeOK
  <2>2. QED
    BY Zenon, <1>1, <1>2, <1>3, <1>5, <2>1 DEF Forget, NoneSetAside
<1>7. Gapless(app, reqs, ress')
  BY Zenon, <1>1, <1>3 DEF Gapless
<1>8. SoundLoop(app, reqs, fwd') /\ SoundCalls(reqs, ress', fwd')
      /\ SoundCache(app, reqs, cache'.map, fwd')
  <2>1. CASE ~h.sync
    <3>1. fwd' = fwd
      BY <1>3, <1>4, <2>1 DEF Callback
    <3>2. SoundCalls(reqs, ress', fwd)
      <4>1. ASSUME NEW k \in DOMAIN ress', NEW j \in DOMAIN ress', ress'[k].sync, ress'[j].sync
            PROVE  j = k
        <5>1. j + 1 = k + 1
          BY Zenon, <1>1, <1>3, <4>1 DEF SoundCalls
        <5>2. j \in Int /\ k \in Int
          BY <1>1, <1>2, SeqHeadTail DEF TypeOK
        <5>3. QED
          BY <5>1, <5>2
      <4>2. QED
        BY Zenon, <1>1, <1>3, <4>1 DEF SoundCalls
    <3>3. QED
      BY Zenon, <1>1, <1>6, <3>1, <3>2 DEF SoundCache
  <2>2. CASE h.sync
    <3>1. /\ fwd.pc = "wait" /\ h.tx = CurrentOf(fwd)
          /\ \A k \in DOMAIN ress' : ~ress'[k].sync
          /\ \A k \in DOMAIN reqs : ~reqs[k].sync
      <4>1. /\ fwd.pc = "wait" /\ h.tx = CurrentOf(fwd)
            /\ \A j \in DOMAIN ress : ress[j].sync => j = 1
        BY Zenon, <1>1, <1>3, <2>2 DEF SoundCalls, h
      <4>2. \A k \in DOMAIN reqs : ~reqs[k].sync
        BY Zenon, <1>1, <1>3, <2>2 DEF SoundCalls, h
      <4>3. QED
        BY Zenon, <1>3, <4>1, <4>2
    <3>2. fwd' = (IF h.code = OK THEN Forwarded ELSE LeaveAccount)
      BY <1>3, <1>4, <2>2 DEF Callback
    <3>3. SoundCalls(reqs, ress', fwd')
      BY Zenon, <3>1 DEF SoundCalls
    <3>4. SoundCache(app, reqs, cache'.map, fwd')
      <4>1. ASSUME NEW tx \in cache'.map, tx.from \in Own
            PROVE  \/ Passed(app, tx.from, tx.nonce + 1)
                   \/ tx \in Foreign /\ \E k \in DOMAIN reqs : reqs[k].tx = tx
        <5>1. h.tx = tx => h.code = OK \/ h.code = Bad
          BY Zenon, <1>4, <1>5, <4>1
        <5>2. QED
          BY Zenon, <1>1, <1>5, <1>6, <3>1, <4>1, <5>1 DEF SoundCache
      <4>2. QED
        BY Zenon, <4>1 DEF SoundCache
    <3>5. SoundLoop(app, reqs, fwd')
      <4>1. fwd.pc \in {"tx", "call", "wait"} /\ fwd.pc \in {"call", "wait"}
        BY <3>1
      <4>2. CASE h.code = OK
        <5>1. h.tx = current
          BY <3>1 DEF current, CurrentOf
        <5>2. Reached(app, reqs, current.from, current.nonce + 1, Len(reqs))
          BY Zenon, <1>5, <4>2, <5>1 DEF Reached
        <5>3. QED
          BY Zenon, <1>1, <3>2, <4>1, <4>2, <5>2, ForwardedSound
      <4>3. CASE h.code # OK
        BY Zenon, <1>1, <3>2, <4>1, <4>3, LeaveSound
      <4>4. QED
        BY <4>2, <4>3
    <3>6. QED
      BY <3>3, <3>4, <3>5
  <2>3. QED
    BY <2>1, <2>2
<1>9. IInv'
  BY Zenon, <1>1, <1>2, ResCbPreserves
<1>10. AppInv' /\ PoolInv'
  BY Zenon, <1>1, <1>2 DEF AppInv, PoolInv
<1>11. QED
  BY Zenon, <1>2, <1>6, <1>7, <1>8, <1>9, <1>10 DEF RInv


\* The application finds no gap in front of the first request, and it is past a
\* peer's transaction once it has answered it.
LEMMA HeadAnswered ==
  ASSUME TypeOK, AppInv, Gapless(app, reqs, ress), reqs # <<>>,
         block.phase # "writing", NEW tx \in Txs, reqs[1].tx = tx, tx.from \in Own
  PROVE  /\ codeOf(tx) # futurenum
         /\ tx \in Foreign /\ codeOf(tx) # OK => Passed(app, tx.from, 1)
<1> DEFINE a == tx.from
<1>1. /\ a \in Accounts /\ tx.nonce \in Nat /\ app.nonce[a] \in Nat
      /\ app.checkNonce[a] \in Nat /\ app.nonceMap[a] \in Nat
      /\ reqs \in Seq(Request)
  BY MempoolAssumption DEF TypeOK
<1>2. expectedNonce(a) = IF app.checkNonce[a] < app.nonceMap[a]
                         THEN app.nonceMap[a] ELSE app.checkNonce[a]
  BY Zenon, CodeOfMeaning
<1>3. /\ codeOf(tx) = futurenum => tx.nonce > expectedNonce(a)
      /\ codeOf(tx) \in {OK, Bad, futurenum}
      /\ codeOf(tx) = Bad => tx \in app.committed \/ tx.nonce < expectedNonce(a) \/ tx \in Unpayable
  BY Zenon, CodeOfMeaning
<1>4. /\ app.nonce[a] <= app.checkNonce[a] \/ app.nonce[a] <= app.nonceMap[a]
      /\ app.checkNonce[a] <= app.nonce[a] \/ app.checkNonce[a] <= app.nonceMap[a]
  BY <1>1 DEF AppInv
<1>5. tx.nonce <= app.nonce[a] \/ tx.nonce <= app.nonceMap[a]
  <2>1. 1 \in DOMAIN reqs /\ \A j \in DOMAIN reqs : ~(j <= 0) /\ 1 - 1 = 0
    BY <1>1
  <2>2. Reached(app, reqs, tx.from, tx.nonce, 1 - 1)
    BY Zenon, <2>1 DEF Gapless
  <2>3. ~Coming(reqs, tx.from, 1 - 1)
    BY <2>1 DEF Coming
  <2>4. QED
    BY Zenon, <2>2, <2>3 DEF Reached, Passed
<1> HIDE DEF a
<1>6. codeOf(tx) # futurenum
  BY <1>1, <1>2, <1>3, <1>4, <1>5
<1>7. ASSUME tx \in Foreign, codeOf(tx) # OK
      PROVE  Passed(app, tx.from, 1)
  <2>1. tx.nonce = 0 /\ tx \notin Unpayable
    BY Zenon, <1>7, OwnFirst
  <2>2. codeOf(tx) = Bad
    BY <1>3, <1>6, <1>7
  <2>3. tx \in app.committed => tx.nonce < app.nonce[a]
    BY DEF AppInv, a
  <2>4. 1 <= app.nonce[a] \/ 1 <= app.nonceMap[a]
    BY SMTT(30), <1>1, <1>2, <1>3, <1>4, <2>1, <2>2, <2>3
  <2>5. QED
    BY Zenon, <2>4 DEF Passed, a
<1>8. QED
  BY <1>6, <1>7

\* When the first request q[1] is answered, the application s has become s2.
LEMMA ReachedTail ==
  ASSUME NEW s, NEW s2, NEW q \in Seq(Request), q # <<>>,
         \A a \in Accounts : \A n \in Nat : Passed(s, a, n) => Passed(s2, a, n),
         q[1].tx \in Foreign /\ q[1].tx.from \in Own => Passed(s2, q[1].tx.from, 1),
         NEW a \in Own, NEW n \in Nat, NEW k \in Nat, Reached(s, q, a, n, k)
  PROVE  Reached(s2, Tail(q), a, n, k - 1)
<1>1. /\ DOMAIN q = 1..Len(q) /\ DOMAIN Tail(q) = 1..(Len(q) - 1) /\ Len(q) \in Nat
      /\ \A i \in 1..(Len(q) - 1) : Tail(q)[i] = q[i + 1]
  BY SeqHeadTail
<1>2. ASSUME Coming(q, a, k)
      PROVE  Coming(Tail(q), a, k - 1) \/ Passed(s2, a, 1)
  <2>1. PICK j \in DOMAIN q : j <= k /\ q[j].tx \in Foreign /\ q[j].tx.from = a
    BY Zenon, <1>2 DEF Coming
  <2>2. CASE j = 1
    BY Zenon, <2>1, <2>2
  <2>3. CASE j # 1
    <3>1. PICK i \in DOMAIN Tail(q) : i = j - 1
      BY <1>1, <2>1, <2>3
    <3>2. i <= k - 1 /\ Tail(q)[i] = q[j]
      BY <1>1, <2>1, <3>1
    <3>3. QED
      BY Zenon, <2>1, <3>2 DEF Coming
  <2>4. QED
    BY <2>2, <2>3
<1>3. QED
  BY Zenon, <1>2, OwnFirst DEF Reached

\* EthermintApplication.CheckTx.
LEMMA RelayCheckTxPreserves ==
  ASSUME RInv, RelayCheckTx
  PROVE  RInv'
<1>1. /\ IInv /\ AppInv /\ PoolInv /\ TypeOK /\ Gapless(app, reqs, ress)
      /\ SoundLoop(app, reqs, fwd) /\ SoundCalls(reqs, ress, fwd)
      /\ SoundCache(app, reqs, cache.map, fwd) /\ NoneSetAside
  BY Zenon DEF RInv, IInv
<1>2. /\ AppCheckTx /\ block.phase # "writing" /\ future' = future /\ cache' = cache
      /\ block' = block /\ fwd' = fwd /\ pool' = pool /\ events' = events /\ blockCh' = blockCh
  BY DEF RelayCheckTx, AppCheckTx, memVars, relayVars
<1>3. PICK tx \in Txs, sync \in BOOLEAN :
        /\ reqs \in Seq(Request) /\ reqs # <<>>
        /\ reqs' = Tail(reqs) /\ reqs[1] = [tx |-> tx, sync |-> sync]
        /\ ress' = Append(ress, [tx |-> tx, sync |-> sync, code |-> codeOf(tx)])
        /\ app' \in [nonce : [Accounts -> Nat], checkNonce : [Accounts -> Nat],
                    nonceMap : [Accounts -> Nat], committed : SUBSET Txs]
        /\ app'.nonce = app.nonce /\ app'.committed = app.committed
        /\ \A a \in Accounts :
             /\ app.nonceMap[a] <= app'.nonceMap[a]
             /\ a # tx.from \/ codeOf(tx) # OK =>
                  app'.nonceMap[a] = app.nonceMap[a] /\ app'.checkNonce[a] = app.checkNonce[a]
             /\ a = tx.from /\ codeOf(tx) = OK =>
                  /\ app.nonceMap[a] <= tx.nonce
                  /\ app'.nonceMap[a] = tx.nonce + 1 /\ app'.checkNonce[a] = tx.nonce + 1
  BY Zenon, <1>1, <1>2, AppCheckTxEffect
<1>4. reqs[1].tx = tx /\ reqs[1].sync = sync /\ tx.from \in Accounts /\ tx.nonce \in Nat
  <2>1. reqs[1] = [tx |-> tx, sync |-> sync]
    BY <1>3
  <2>2. reqs[1].tx = tx /\ reqs[1].sync = sync
    <3>1. [tx |-> tx, sync |-> sync].tx = tx /\ [tx |-> tx, sync |-> sync].sync = sync
      BY Zenon
    <3>2. QED
      BY <2>1, <3>1
  <2>3. QED
    BY Zenon, <2>2, MempoolAssumption
<1>5. /\ tx.from \in Own => codeOf(tx) # futurenum
      /\ codeOf(tx) \in {OK, Bad, futurenum}
      /\ tx.from \in Own /\ tx \in Foreign /\ codeOf(tx) # OK => Passed(app, tx.from, 1)
      /\ codeOf(tx) = OK => tx.nonce = expectedNonce(tx.from)
      /\ expectedNonce(tx.from) = IF app.checkNonce[tx.from] < app.nonceMap[tx.from]
                                  THEN app.nonceMap[tx.from] ELSE app.checkNonce[tx.from]
  BY Zenon, <1>1, <1>2, <1>3, <1>4, HeadAnswered, CodeOfMeaning
<1>6. \A a \in Accounts : /\ app.nonce[a] \in Nat /\ app.checkNonce[a] \in Nat
                          /\ app.nonceMap[a] \in Nat /\ app'.nonceMap[a] \in Nat
  BY Zenon, <1>1, <1>3 DEF TypeOK
<1>7. \A a \in Accounts : \A n \in Nat : Passed(app, a, n) => Passed(app', a, n)
  BY <1>3, <1>6 DEF Passed
<1>8. /\ codeOf(tx) = OK => Passed(app', tx.from, tx.nonce + 1)
      /\ tx \in Foreign /\ tx.from \in Own => Passed(app', tx.from, 1) /\ tx.nonce + 1 = 1
  <2>1. codeOf(tx) = OK => Passed(app', tx.from, tx.nonce + 1)
    BY <1>3, <1>4, <1>6 DEF Passed
  <2>2. ASSUME tx \in Foreign, tx.from \in Own
        PROVE  tx.nonce + 1 = 1
    <3>1. tx.nonce = 0
      BY Zenon, <2>2, OwnFirst
    <3>2. QED
      BY <3>1
  <2>3. 1 \in Nat
    OBVIOUS
  <2>4. QED
    BY Zenon, <1>4, <1>5, <1>7, <2>1, <2>2, <2>3
<1>9. \A a \in Own : \A n \in Nat : \A k \in Nat :
        Reached(app, reqs, a, n, k) => Reached(app', reqs', a, n, k - 1)
  BY Zenon, <1>3, <1>4, <1>7, <1>8, ReachedTail
<1>10. /\ Len(reqs) \in Nat /\ Len(reqs') = Len(reqs) - 1 /\ DOMAIN reqs = 1..Len(reqs)
       /\ DOMAIN reqs' = 1..(Len(reqs) - 1) /\ 1 \in DOMAIN reqs
       /\ \A k \in DOMAIN reqs' : k + 1 \in DOMAIN reqs /\ reqs'[k] = reqs[k + 1] /\ k + 1 # 1
  <2>1. /\ Len(reqs) \in Nat /\ Len(reqs') = Len(reqs) - 1 /\ DOMAIN reqs = 1..Len(reqs)
        /\ DOMAIN reqs' = 1..(Len(reqs) - 1) /\ Len(reqs) > 0
        /\ \A i \in 1..(Len(reqs) - 1) : reqs'[i] = reqs[i + 1]
    BY <1>3, SeqHeadTail
  <2>2. QED
    BY SMTT(30), <2>1
<1>11. /\ Len(ress) \in Nat /\ DOMAIN ress = 1..Len(ress) /\ DOMAIN ress' = 1..(Len(ress) + 1)
       /\ \A k \in 1..Len(ress) : ress'[k] = ress[k]
       /\ ress'[Len(ress) + 1].tx = tx /\ ress'[Len(ress) + 1].sync = sync
       /\ ress'[Len(ress) + 1].code = codeOf(tx)
  <2>1. PICK ans \in Answer : ans = [tx |-> tx, sync |-> sync, code |-> codeOf(tx)]
    BY Zenon, <1>5 DEF Answer
  <2>2. ress \in Seq(Answer)
    BY <1>1 DEF TypeOK
  <2>3. ress' = Append(ress, ans)
    BY Zenon, <1>3, <2>1
  <2>4. /\ Len(ress) \in Nat /\ DOMAIN ress = 1..Len(ress) /\ DOMAIN ress' = 1..(Len(ress) + 1)
        /\ ress'[Len(ress) + 1] = ans /\ \A i \in 1..Len(ress) : ress'[i] = ress[i]
    BY <2>2, <2>3, SeqAppend
  <2>5. ans.tx = tx /\ ans.sync = sync /\ ans.code = codeOf(tx)
    BY Zenon, <2>1
  <2>6. QED
    BY Zenon, <2>4, <2>5
<1>12. SoundLoop(app', reqs', fwd)
  <2>1. \A a \in Own : \A n \in Nat :
          Reached(app, reqs, a, n, Len(reqs)) => Reached(app', reqs', a, n, Len(reqs'))
    BY Zenon, <1>9, <1>10
  <2>2. QED
    BY Zenon, <1>1, <2>1, LoopKept
<1>13. Gapless(app', reqs', ress')
  <2>1. ASSUME NEW k \in DOMAIN reqs', reqs'[k].tx.from \in Own
        PROVE  Reached(app', reqs', reqs'[k].tx.from, reqs'[k].tx.nonce, k - 1)
    <3>1. reqs[k + 1].tx.from \in Accounts /\ reqs[k + 1].tx.nonce \in Nat /\ k \in Nat /\ k + 1 - 1 = k
      <4>1. reqs[k + 1] \in Request /\ k \in Nat /\ k + 1 - 1 = k
        BY <1>3, <1>10
      <4>2. reqs[k + 1].tx \in Txs
        BY Zenon, <4>1 DEF Request
      <4>3. QED
        BY ZenonT(30), <4>1, <4>2, MempoolAssumption
    <3>2. Reached(app, reqs, reqs[k + 1].tx.from, reqs[k + 1].tx.nonce, k)
      <4>1. Reached(app, reqs, reqs[k + 1].tx.from, reqs[k + 1].tx.nonce, (k + 1) - 1)
        BY Zenon, <1>1, <1>10, <2>1 DEF Gapless
      <4>2. QED
        BY <3>1, <4>1
    <3>3. QED
      BY Zenon, <1>9, <1>10, <2>1, <3>1, <3>2
  <2>2. ASSUME NEW k \in DOMAIN ress'
        PROVE  /\ ress'[k].tx.from \in Own => ress'[k].code # futurenum
               /\ ress'[k].code = OK => Passed(app', ress'[k].tx.from, ress'[k].tx.nonce + 1)
    <3>1. k \in DOMAIN ress \/ k = Len(ress) + 1
      BY <1>11
    <3>2. CASE k \in DOMAIN ress
      <4>1. ress[k].tx.from \in Accounts /\ ress[k].tx.nonce + 1 \in Nat
        <5>1. ress[k] \in Answer
          BY <1>1, <3>2 DEF TypeOK
        <5>2. ress[k].tx \in Txs
          BY Zenon, <5>1 DEF Answer
        <5>3. QED
          BY <5>2, MempoolAssumption
      <4>2. QED
        BY ZenonT(30), <1>1, <1>7, <1>11, <3>2, <4>1 DEF Gapless
    <3>3. CASE k = Len(ress) + 1
      BY Zenon, <1>5, <1>8, <1>11, <3>3
    <3>4. QED
      BY <3>1, <3>2, <3>3
  <2>3. QED
    BY Zenon, <2>1, <2>2 DEF Gapless
<1>14. SoundCalls(reqs', ress', fwd)
  <2>1. \A k \in DOMAIN ress' : k \in DOMAIN ress \/ k = Len(ress) + 1
    BY <1>11
  <2>2. \A j, k \in DOMAIN reqs' : j + 1 = k + 1 => j = k
    BY <1>10
  <2>3. ASSUME NEW k \in DOMAIN reqs', reqs'[k].sync
        PROVE  /\ fwd.pc = "wait" /\ reqs'[k].tx = CurrentOf(fwd)
               /\ \A j \in DOMAIN reqs' : reqs'[j].sync => j = k
               /\ \A j \in DOMAIN ress' : ~ress'[j].sync
    <3>1. k + 1 \in DOMAIN reqs /\ reqs'[k] = reqs[k + 1] /\ reqs[k + 1].sync /\ k + 1 # 1
      BY Zenon, <1>10, <2>3
    <3>2. /\ fwd.pc = "wait" /\ reqs[k + 1].tx = CurrentOf(fwd)
          /\ \A j \in DOMAIN reqs : reqs[j].sync => j = k + 1
          /\ \A j \in DOMAIN ress : ~ress[j].sync
      BY Zenon, <1>1, <3>1 DEF SoundCalls
    <3>3. ~sync
      BY Zenon, <1>4, <1>10, <3>1, <3>2
    <3>4. \A j \in DOMAIN reqs' : reqs'[j].sync => j = k
      BY Zenon, <1>10, <2>2, <3>2
    <3>5. \A j \in DOMAIN ress' : ~ress'[j].sync
      BY Zenon, <1>11, <2>1, <3>2, <3>3
    <3>6. QED
      BY Zenon, <3>1, <3>2, <3>4, <3>5
  <2>4. ASSUME NEW k \in DOMAIN ress', ress'[k].sync
        PROVE  /\ fwd.pc = "wait" /\ ress'[k].tx = CurrentOf(fwd)
               /\ \A j \in DOMAIN ress' : ress'[j].sync => j = k
    <3>1. CASE k \in DOMAIN ress
      <4>1. ress'[k] = ress[k] /\ ress[k].sync
        BY Zenon, <1>11, <2>4, <3>1
      <4>2. ~sync
        BY Zenon, <1>1, <1>4, <1>10, <3>1, <4>1 DEF SoundCalls
      <4>3. QED
        BY Zenon, <1>1, <1>11, <2>1, <3>1, <4>1, <4>2 DEF SoundCalls
    <3>2. CASE k = Len(ress) + 1
      <4>1. sync
        BY Zenon, <1>11, <2>4, <3>2
      <4>2. /\ fwd.pc = "wait" /\ tx = CurrentOf(fwd) /\ \A j \in DOMAIN ress : ~ress[j].sync
        BY Zenon, <1>1, <1>4, <1>10, <4>1 DEF SoundCalls
      <4>3. QED
        BY Zenon, <1>11, <2>1, <3>2, <4>2
    <3>3. QED
      BY <2>1, <3>1, <3>2
  <2>5. QED
    BY Zenon, <2>3, <2>4 DEF SoundCalls
<1>15. SoundCache(app', reqs', cache.map, fwd)
  <2>1. ASSUME NEW t \in cache.map, t.from \in Own
        PROVE  \/ Passed(app', t.from, t.nonce + 1)
               \/ t \in Foreign /\ \E k \in DOMAIN reqs' : reqs'[k].tx = t
               \/ fwd.pc = "wait" /\ t = CurrentOf(fwd)
    <3>1. t.from \in Accounts /\ t.nonce + 1 \in Nat
      BY <1>1, MempoolAssumption DEF TypeOK
    <3>2. ASSUME NEW k \in DOMAIN reqs, reqs[k].tx = t, t \in Foreign
          PROVE  Passed(app', t.from, t.nonce + 1) \/ \E j \in DOMAIN reqs' : reqs'[j].tx = t
      <4>1. CASE k = 1
        BY Zenon, <1>4, <1>8, <2>1, <3>2, <4>1
      <4>2. CASE k # 1
        <5>1. PICK j \in DOMAIN reqs' : j + 1 = k
          <6>1. k - 1 \in DOMAIN reqs' /\ (k - 1) + 1 = k
            BY <1>10, <4>2
          <6>2. QED
            BY <6>1
        <5>2. QED
          BY Zenon, <1>10, <3>2, <5>1
      <4>3. QED
        BY <4>1, <4>2
    <3>3. QED
      BY Zenon, <1>1, <1>7, <2>1, <3>1, <3>2 DEF SoundCache
  <2>2. QED
    BY Zenon, <2>1 DEF SoundCache
<1>16. AppInv'
  <2>1. ASSUME NEW a \in Accounts
        PROVE  /\ app.nonce[a] <= app'.checkNonce[a] \/ app.nonce[a] <= app'.nonceMap[a]
               /\ app'.checkNonce[a] <= app.nonce[a] \/ app'.checkNonce[a] <= app'.nonceMap[a]
    <3>1. /\ app.nonce[a] <= app.checkNonce[a] \/ app.nonce[a] <= app.nonceMap[a]
          /\ app.checkNonce[a] <= app.nonce[a] \/ app.checkNonce[a] <= app.nonceMap[a]
      BY <1>1, <1>2 DEF AppInv
    <3>2. CASE a # tx.from \/ codeOf(tx) # OK
      BY ZenonT(30), <1>3, <3>1, <3>2
    <3>3. CASE a = tx.from /\ codeOf(tx) = OK
      <4>1. app'.nonceMap[a] = tx.nonce + 1 /\ app'.checkNonce[a] = tx.nonce + 1
        BY Zenon, <1>3, <3>3
      <4>2. QED
        BY SMTT(30), <1>4, <1>5, <1>6, <3>1, <3>3, <4>1
    <3>4. QED
      BY Zenon, <3>2, <3>3
  <2>2. QED
    BY ZenonT(30), <1>1, <1>2, <1>3, <2>1 DEF AppInv
<1>17. IInv' /\ PoolInv'
  BY Zenon, <1>1, <1>2, <1>3, AppCheckTxPreserves DEF PoolInv
<1>18. QED
  BY Zenon, <1>1, <1>2, <1>12, <1>13, <1>14, <1>15, <1>16, <1>17 DEF RInv, NoneSetAside


-----------------------------------------------------------------------------
(***************************************************************************)
(* The block that is committed.                                            *)
(***************************************************************************)

\* A step of BlockExecutor.Commit: requests and answers wait, and the application
\* gets no less far.
LEMMA CommitMoves ==
  ASSUME RInv, UNCHANGED <<reqs, ress, future, fwd>>, cache'.map \subseteq cache.map,
         \A a \in Accounts : \A n \in Nat : Passed(app, a, n) => Passed(app', a, n),
         IInv', AppInv', PoolInv'
  PROVE  RInv'
<1>1. /\ TypeOK /\ Gapless(app, reqs, ress) /\ SoundLoop(app, reqs, fwd)
      /\ SoundCalls(reqs, ress, fwd) /\ SoundCache(app, reqs, cache.map, fwd) /\ NoneSetAside
  BY Zenon DEF RInv, IInv
<1>2. reqs' = reqs /\ ress' = ress /\ future' = future /\ fwd' = fwd
  OBVIOUS
<1>3. \A a \in Accounts : \A n \in Nat : \A k :
        Reached(app, reqs, a, n, k) => Reached(app', reqs, a, n, k)
  BY Zenon DEF Reached
<1>4. SoundLoop(app', reqs, fwd)
  BY Zenon, <1>1, <1>3, OwnFirst, LoopKept
<1>5. Gapless(app', reqs, ress)
  <2>1. \A k \in DOMAIN reqs : reqs[k].tx.from \in Accounts /\ reqs[k].tx.nonce \in Nat
    <3>1. reqs \in Seq(Request)
      BY <1>1 DEF TypeOK
    <3>2. \A k \in DOMAIN reqs : reqs[k] \in Request
      BY <3>1
    <3>3. \A k \in DOMAIN reqs : reqs[k].tx \in Txs
      BY Zenon, <3>2 DEF Request
    <3>4. QED
      BY Zenon, <3>3, MempoolAssumption
  <2>2. \A k \in DOMAIN ress : ress[k].tx.from \in Accounts /\ ress[k].tx.nonce + 1 \in Nat
    <3>1. ress \in Seq(Answer)
      BY <1>1 DEF TypeOK
    <3>2. \A k \in DOMAIN ress : ress[k] \in Answer
      BY <3>1
    <3>3. \A k \in DOMAIN ress : ress[k].tx \in Txs
      BY Zenon, <3>2 DEF Answer
    <3>4. QED
      BY <3>3, MempoolAssumption
  <2>3. QED
    BY Zenon, <1>1, <1>3, <2>1, <2>2 DEF Gapless
<1>6. SoundCache(app', reqs, cache'.map, fwd)
  <2>1. \A tx \in cache.map : tx.from \in Accounts /\ tx.nonce + 1 \in Nat
    BY SMTT(30), <1>1, MempoolAssumption DEF TypeOK
  <2>2. QED
    BY Zenon, <1>1, <2>1 DEF SoundCache
<1>7. QED
  BY Zenon, <1>1, <1>2, <1>4, <1>5, <1>6 DEF RInv, NoneSetAside

\* The nonces of the next block follow those that the chain has used.
LEMMA RelayLockPreserves ==
  ASSUME RInv, RelayLock
  PROVE  RInv'
<1>1. IInv /\ AppInv /\ PoolInv /\ TypeOK
  BY Zenon DEF RInv, IInv
<1>2. /\ Lock /\ block' \in [phase : {"locked"}, txs : Blocks] /\ block.phase = "none"
      /\ app' = app /\ reqs' = reqs /\ ress' = ress /\ future' = future /\ cache' = cache
      /\ fwd' = fwd /\ pool' = pool /\ events' = events /\ blockCh' = blockCh
  BY DEF RelayLock, Lock, locked, appVars, memVars, relayVars
<1>3. block'.txs \in Blocks /\ block.phase # "writing"
  BY Zenon, <1>2
<1>4. ASSUME NEW B \in Blocks, NEW tx \in B
      PROVE  tx.nonce < app.nonce[tx.from] + Cardinality({t \in B : t.from = tx.from})
  <2> DEFINE own == {t \in B : t.from = tx.from}
  <2>1. B \subseteq Txs
    BY Zenon DEF Blocks, kSubset
  <2>2. tx.from \in Accounts /\ tx \in own /\ app.nonce[tx.from] \in Nat
    BY SMTT(30), <1>1, <2>1, MempoolAssumption DEF TypeOK
  <2>3. Cardinality(own) \in Nat
    <3>1. own \subseteq Txs /\ IsFiniteSet(Txs)
      BY <2>1, MempoolAssumption
    <3> HIDE DEF own
    <3>2. QED
      BY Zenon, <3>1, FS_Subset, FS_CardinalityType
  <2>4. {t.nonce : t \in own} = {app.nonce[tx.from] + i : i \in 0..(Cardinality(own) - 1)}
    BY Zenon, <2>2 DEF Blocks
  <2> HIDE DEF own
  <2>5. PICK i \in 0..(Cardinality(own) - 1) : tx.nonce = app.nonce[tx.from] + i
    BY Zenon, <2>2, <2>4
  <2>6. tx.nonce < app.nonce[tx.from] + Cardinality(own)
    BY <2>2, <2>3, <2>5
  <2>7. QED
    BY <2>6 DEF own
<1>5. AppInv'
  BY Zenon, <1>1, <1>2, <1>3, <1>4 DEF AppInv
<1>6. IInv' /\ PoolInv'
  BY Zenon, <1>1, <1>2, LockPreserves DEF PoolInv
<1>7. /\ \A a \in Accounts : \A n \in Nat : Passed(app, a, n) => Passed(app', a, n)
      /\ UNCHANGED <<reqs, ress, future, fwd>> /\ cache'.map \subseteq cache.map
  BY <1>2
<1>8. QED
  BY Zenon, <1>5, <1>6, <1>7, CommitMoves

\* The chain takes the block: the nonces of its transactions are used.
LEMMA RelayWritePreserves ==
  ASSUME RInv, AppWrite, UNCHANGED relayVars
  PROVE  RInv'
<1> DEFINE own(a) == {tx \in block.txs : tx.from = a}
           added == [a \in Accounts |-> app.nonce[a] + Cardinality(own(a))]
<1>1. IInv /\ AppInv /\ PoolInv /\ TypeOK
  BY Zenon DEF RInv, IInv
<1>2. /\ block.phase = "locked" /\ block' = [block EXCEPT !.phase = "writing"]
      /\ app' = [app EXCEPT !.nonce = added, !.committed = @ \cup block.txs]
      /\ reqs' = reqs /\ ress' = ress /\ future' = future /\ cache' = cache
      /\ fwd' = fwd /\ pool' = pool /\ events' = events /\ blockCh' = blockCh
  <2>1. app.nonce \in [Accounts -> Nat] /\ app \in [nonce : [Accounts -> Nat],
          checkNonce : [Accounts -> Nat], nonceMap : [Accounts -> Nat], committed : SUBSET Txs]
    BY <1>1 DEF TypeOK
  <2>2. QED
    BY <2>1 DEF AppWrite, memVars, relayVars
<1>3. /\ block.txs \in SUBSET Txs /\ \A a \in Accounts : app.nonce[a] \in Nat
                                /\ app.checkNonce[a] \in Nat /\ app.nonceMap[a] \in Nat
  BY <1>1 DEF TypeOK
<1>4. \A a \in Accounts : Cardinality(own(a)) \in Nat
  <2>1. ASSUME NEW a \in Accounts PROVE Cardinality(own(a)) \in Nat
    <3>1. own(a) \subseteq Txs /\ IsFiniteSet(Txs)
      BY <1>3, MempoolAssumption
    <3> HIDE DEF own
    <3>2. QED
      BY Zenon, <3>1, FS_Subset, FS_CardinalityType
  <2>2. QED
    BY <2>1
<1>5. \A tx \in block.txs : tx.nonce < app.nonce[tx.from] + Cardinality(own(tx.from))
  BY Zenon, <1>1, <1>2 DEF AppInv
<1> HIDE DEF own
<1>6. \A a \in Accounts : /\ app.nonce[a] <= added[a] /\ added[a] \in Nat
                          /\ added[a] = app.nonce[a] + Cardinality(own(a))
  BY <1>3, <1>4
<1> HIDE DEF added
<1>7. /\ app'.nonce = added /\ app'.committed = app.committed \cup block.txs
      /\ app'.checkNonce = app.checkNonce /\ app'.nonceMap = app.nonceMap
      /\ block'.phase = "writing"
  BY <1>1, <1>2 DEF TypeOK
<1>8. AppInv'
  <2>1. \A a \in Accounts : app.checkNonce[a] <= added[a] \/ app.checkNonce[a] <= app.nonceMap[a]
    BY <1>1, <1>3, <1>6 DEF AppInv
  <2>2. ASSUME NEW tx \in app.committed \cup block.txs
        PROVE  tx.nonce < added[tx.from]
    <3>1. tx.from \in Accounts /\ tx.nonce \in Nat
      BY <1>1, <1>3, MempoolAssumption DEF TypeOK
    <3>2. CASE tx \in app.committed
      <4>1. tx.nonce < app.nonce[tx.from]
        BY Zenon, <1>1, <3>2 DEF AppInv
      <4>2. QED
        BY <1>3, <1>6, <3>1, <4>1
    <3>3. CASE tx \in block.txs
      BY Zenon, <1>5, <1>6, <3>1, <3>3
    <3>4. QED
      BY <3>2, <3>3
  <2>3. block'.phase # "locked" /\ ~(block'.phase # "writing")
    BY <1>7
  <2>4. \A tx \in app'.committed : tx.nonce < app'.nonce[tx.from]
    BY <1>7, <2>2
  <2>5. \A a \in Accounts :
          app'.checkNonce[a] <= app'.nonce[a] \/ app'.checkNonce[a] <= app'.nonceMap[a]
    BY <1>7, <2>1
  <2>6. QED
    BY Zenon, <2>3, <2>4, <2>5 DEF AppInv
<1>9. PoolInv'
  <2>1. \A a \in Accounts : pool.head[a] <= added[a]
    <3>1. \A a \in Accounts : pool.head[a] \in Nat /\ pool.head[a] <= app.nonce[a]
      BY Zenon, <1>1 DEF PoolInv
    <3>2. QED
      BY <1>3, <1>6, <3>1
  <2>2. QED
    BY Zenon, <1>1, <1>2, <1>7, <2>1 DEF PoolInv
<1>10. \A a \in Accounts : \A n \in Nat : Passed(app, a, n) => Passed(app', a, n)
  BY <1>3, <1>6, <1>7 DEF Passed
<1>11. IInv'
  BY Zenon, <1>1, AppWritePreserves
<1>12. UNCHANGED <<reqs, ress, future, fwd>> /\ cache'.map \subseteq cache.map
  BY <1>2
<1>13. QED
  BY Zenon, <1>8, <1>9, <1>10, <1>11, <1>12, CommitMoves

\* The end of EthermintApplication.Commit.
LEMMA RelayCommitPreserves ==
  ASSUME RInv, RelayCommit
  PROVE  RInv'
<1>1. IInv /\ AppInv /\ PoolInv /\ TypeOK
  BY Zenon DEF RInv, IInv
<1>2. /\ AppCommit /\ block' = [block EXCEPT !.phase = "committed"]
      /\ app' = [app EXCEPT !.checkNonce = app.nonce]
      /\ reqs' = reqs /\ ress' = ress /\ future' = future /\ cache' = cache
      /\ fwd' = fwd /\ pool' = pool /\ events' = events /\ blockCh' = Append(blockCh, block.txs)
  BY DEF RelayCommit, AppCommit, memVars
<1>3. /\ app'.nonce = app.nonce /\ app'.checkNonce = app.nonce /\ app'.committed = app.committed
      /\ app'.nonceMap = app.nonceMap /\ block'.phase # "locked" /\ block.txs \in SUBSET Txs
  BY <1>1, <1>2 DEF TypeOK
<1>4. \A a \in Accounts : app.nonce[a] \in Nat /\ app.nonce[a] <= app.nonce[a]
  BY <1>1 DEF TypeOK
<1>5. AppInv'
  BY Zenon, <1>1, <1>3, <1>4 DEF AppInv
<1>6. PoolInv'
  <2>1. blockCh' \in Seq(SUBSET Txs)
    <3>1. blockCh \in Seq(SUBSET Txs)
      BY Zenon, <1>1 DEF PoolInv
    <3>2. PICK B \in SUBSET Txs : B = block.txs
      BY Zenon, <1>3
    <3>3. QED
      BY <1>2, <3>1, <3>2, SeqAppend
  <2>2. QED
    BY Zenon, <1>1, <1>2, <1>3, <2>1 DEF PoolInv
<1>7. \A a \in Accounts : \A n \in Nat : Passed(app, a, n) => Passed(app', a, n)
  BY Zenon, <1>3 DEF Passed
<1>8. IInv'
  BY Zenon, <1>1, <1>2, AppCommitPreserves
<1>9. UNCHANGED <<reqs, ress, future, fwd>> /\ cache'.map \subseteq cache.map
  BY <1>2
<1>10. QED
  BY Zenon, <1>5, <1>6, <1>7, <1>8, <1>9, CommitMoves

\* Mempool.Update.
LEMMA RelayUpdatePreserves ==
  ASSUME RInv, Update, UNCHANGED relayVars
  PROVE  RInv'
<1>1. IInv /\ AppInv /\ PoolInv /\ TypeOK
  BY Zenon DEF RInv, IInv
<1>2. /\ block.phase = "committed" /\ block' = [phase |-> "none", txs |-> {}]
      /\ cache' = Forget(cache, {list.log[i] : i \in InBlock})
      /\ app' = app /\ reqs' = reqs /\ ress' = ress /\ future' = future
      /\ fwd' = fwd /\ pool' = pool /\ events' = events /\ blockCh' = blockCh
  BY DEF Update, appVars, relayVars
<1>3. cache'.map \subseteq cache.map
  <2>1. cache \in [map : SUBSET Txs, list : Seq(Txs)]
    BY <1>1 DEF TypeOK
  <2>2. QED
    BY Zenon, <1>2, <2>1 DEF Forget
<1>4. block'.phase # "locked" /\ block.phase # "writing"
  BY <1>2
<1>5. AppInv' /\ PoolInv'
  BY Zenon, <1>1, <1>2, <1>4 DEF AppInv, PoolInv
<1>6. IInv'
  BY Zenon, <1>1, UpdatePreserves
<1>7. /\ \A a \in Accounts : \A n \in Nat : Passed(app, a, n) => Passed(app', a, n)
      /\ UNCHANGED <<reqs, ress, future, fwd>>
  BY <1>2
<1>8. QED
  BY Zenon, <1>3, <1>5, <1>6, <1>7, CommitMoves

-----------------------------------------------------------------------------
(***************************************************************************)
(* The invariant and the theorem.                                          *)
(***************************************************************************)

\* Initially nothing is under way.
LEMMA RelayInitRInv == RelayInit => RInv
<1> SUFFICES ASSUME RelayInit PROVE RInv
  OBVIOUS
<1>1. /\ Init
      /\ pool = [head |-> app.nonce, pending |-> [a \in Accounts |-> <<>>]]
      /\ events = {} /\ blockCh = <<>>
      /\ fwd = [pc |-> "select", lists |-> <<>>, nonce |-> 0, included |-> {},
                nonceMap |-> [a \in Accounts |-> 0], hashes |-> {}]
  BY ZenonT(30) DEF RelayInit
<1>2. /\ IInv /\ reqs = <<>> /\ ress = <<>> /\ future = {} /\ cache.map = {}
      /\ app.nonce = [a \in Accounts |-> 0] /\ app.checkNonce = [a \in Accounts |-> 0]
      /\ app.committed = {} /\ block.phase = "none"
  BY <1>1, InitIInv DEF Init, emptyCache
<1>3. AppInv
  BY <1>2 DEF AppInv
<1>4. PoolInv
  BY <1>1, <1>2 DEF PoolInv
<1>5. /\ fwd \in Loop /\ fwd.pc = "select" /\ fwd.lists = <<>>
      /\ fwd.nonceMap = [a \in Accounts |-> 0]
  <2>1. /\ <<>> \in Seq(Seq(Txs)) /\ 0 \in Nat /\ {} \in SUBSET Txs
        /\ [a \in Accounts |-> 0] \in [Accounts -> Nat]
    OBVIOUS
  <2>2. QED
    BY Zenon, <1>1, <2>1 DEF Loop
<1>6. SoundLoop(app, reqs, fwd)
  <2>1. /\ fwd.pc \notin {"tx", "call", "wait"} /\ DOMAIN fwd.lists = {}
        /\ \A a \in Accounts : fwd.nonceMap[a] <= app.nonce[a]
    BY <1>2, <1>5
  <2>2. \A a \in Own : Reached(app, reqs, a, fwd.nonceMap[a], Len(reqs))
    BY Zenon, <2>1, OwnFirst DEF Reached, Passed
  <2>3. fwd.pc \notin {"call", "wait"} /\ \A i \in DOMAIN fwd.lists : OfOneAccount(fwd.lists[i])
    BY SMTT(30), <2>1
  <2>4. QED
    BY Zenon, <1>5, <2>1, <2>2, <2>3 DEF SoundLoop
<1>7. SoundCalls(reqs, ress, fwd) /\ Gapless(app, reqs, ress) /\ SoundCache(app, reqs, cache.map, fwd)
  BY <1>2 DEF SoundCalls, Gapless, SoundCache
<1>8. QED
  BY Zenon, <1>2, <1>3, <1>4, <1>6, <1>7 DEF RInv, NoneSetAside

\* Every step of the node, of the application and of the pool keeps it.
LEMMA RelayStepPreserves == RInv /\ [RelayNext]_allVars => RInv'
<1> SUFFICES ASSUME RInv, [RelayNext]_allVars PROVE RInv'
  OBVIOUS
<1>1. CASE UNCHANGED allVars
  <2>1. UNCHANGED vars /\ UNCHANGED <<pool, events, blockCh, fwd>>
    BY <1>1 DEF allVars, relayVars
  <2>2. IInv'
    BY <2>1, StepPreserves DEF RInv
  <2>3. /\ app' = app /\ reqs' = reqs /\ ress' = ress /\ cache' = cache /\ future' = future
        /\ block' = block /\ fwd' = fwd /\ pool' = pool /\ events' = events /\ blockCh' = blockCh
    BY <2>1 DEF vars
  <2>4. AppInv' /\ PoolInv'
    BY Zenon, <2>3 DEF RInv, AppInv, PoolInv
  <2>5. QED
    BY Zenon, <2>2, <2>3, <2>4 DEF RInv, NoneSetAside
<1>2. CASE RelayNext
  <2>1. ASSUME NEW tx \in Txs, SubmitTx(tx) \/ TakeTx(tx) \/ RelayReceive(tx)
        PROVE  RInv'
    BY Zenon, <2>1, PoolPreserves, TakePreserves, RelayReceivePreserves
  <2>2. CASE PoolReset \/ TakeBlock \/ NextAccount \/ TransformTx
    BY Zenon, <2>2, PoolPreserves, TakePreserves, NextAccountPreserves, TransformTxPreserves
  <2>3. CASE BroadcastCached \/ BroadcastTx \/ Callback
    BY Zenon, <2>3, BroadcastCachedPreserves, BroadcastTxPreserves, CallbackPreserves
  <2>4. CASE RelayCheckTx \/ RelayLock \/ RelayCommit
    BY Zenon, <2>4, RelayCheckTxPreserves, RelayLockPreserves, RelayCommitPreserves
  <2>5. CASE (AppWrite \/ Update) /\ UNCHANGED relayVars
    BY Zenon, <2>5, RelayWritePreserves, RelayUpdatePreserves
  <2>6. QED
    BY Zenon, <1>2, <2>1, <2>2, <2>3, <2>4, <2>5 DEF RelayNext
<1>3. QED
  BY <1>1, <1>2

\* No transaction of an account whose transactions only this node hands out is
\* set aside in futuretxs (mempool.go:resCbNormal): txBroadcastLoop (txs.go)
\* forwards in nonce order, whatever the order of the events that wake it, and
\* although peers send back the transactions that the mempool has sent them, and
\* may send the first of the account themselves.
THEOREM NoneSetAsideThm == RelaySpec => []NoneSetAside
<1>1. RInv => NoneSetAside
  BY DEF RInv
<1>2. RInv /\ [RelayNext]_allVars => RInv'
  BY RelayStepPreserves
<1>3. QED
  BY <1>1, <1>2, RelayInitRInv, PTL DEF RelaySpec
=============================================================================
