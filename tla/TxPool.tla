-------------------------------- MODULE TxPool --------------------------------
(***************************************************************************)
(* The transaction pool of go-ethereum as this repository has changed it   *)
(* (core/tx_pool.go, core/tx_list.go, core/tx_journal.go): a transaction   *)
(* is taken only with the account's next pending nonce, and the pool       *)
(* tracks a pending balance as well as a pending nonce.                    *)
(*                                                                         *)
(* Every transaction carries the one gas price that validateTx accepts     *)
(* (types.IllegalGasLimitOrGasPrice), so no transaction ever replaces      *)
(* another and the price heap holds equal prices only: a full pool finds   *)
(* every transaction of a non-local account underpriced, and it discards   *)
(* nothing for one of a local account, since RPC is the only source and    *)
(* makes either every sender local or (NoLocals) none.                     *)
(*                                                                         *)
(* The maps of the pool are all keyed by the sender, the hash index        *)
(* excepted, which is split by sender here: what the pool holds of one     *)
(* account is a record, and the code that works on one account maps these  *)
(* records.  What depends on several accounts maps pools to pools, or to   *)
(* the set of pools a Go map's iteration order can lead to.                *)
(***************************************************************************)
EXTENDS Integers, FiniteSets, FiniteSetsExt, Functions, Sequences

CONSTANTS
  Accounts,
  Txs,            \* records [from, nonce, cost]
  Balances,       \* the balances an account may have
  AccountSlots, GlobalSlots, AccountQueue, GlobalQueue,
  MaxNonce,       \* bound on the account nonces of the chain
  MaxJournal      \* bound on the journal between two rotations

ASSUME TxPoolAssumption ==
  /\ IsFiniteSet(Accounts) /\ IsFiniteSet(Txs)
  /\ \A tx \in Txs : tx.from \in Accounts /\ tx.nonce \in Nat /\ tx.cost \in Nat \ {0}
  /\ Balances \subseteq Nat
  /\ {AccountSlots, GlobalSlots, AccountQueue, GlobalQueue, MaxNonce, MaxJournal} \subseteq Nat

VARIABLES
  noLocals,   \* config.NoLocals
  cur,        \* pool.currentState: [nonce, balance] of every account
  pool,       \* for every account its pending and queue lists, its part of all,
              \* pendingState's nonce and balance, and whether it is in locals
  journal,    \* the journal file of local transactions
  loading,    \* NewTxPool is loading the journal: the pool's loop is not running
  unread      \* the transactions of the journal that are still to be loaded

vars == <<noLocals, cur, pool, journal, loading, unread>>

\* An account in the head state, and what the pool holds of it.
Account == [nonce : 0..MaxNonce, balance : Balances]
Part == [pending : SUBSET Txs, queue : SUBSET Txs, all : SUBSET Txs,
         nonce : Nat, balance : Int, local : BOOLEAN]

Sum(txs) == MapThenSumSet(LAMBDA tx : tx.cost, txs)
Nonces(txs) == {tx.nonce : tx \in txs}
At(txs, n) == {tx \in txs : tx.nonce = n}
Above(txs, n) == {tx \in txs : tx.nonce > n}

\* The highest-nonced transactions that a list of at most n has to give up.
Cap(txs, n) == {tx \in txs : Cardinality(Above(txs, tx.nonce)) < Cardinality(txs) - n}

\* The run of successive nonces at the front of a list, if it has begun.
Ready(txs, start) ==
  {tx \in txs : /\ Min(Nonces(txs)) <= start
                /\ (Min(Nonces(txs))..tx.nonce) \subseteq Nonces(txs)}

emptyPool(c) ==
  [a \in Accounts |-> [pending |-> {}, queue |-> {}, all |-> {},
                       nonce |-> c[a].nonce, balance |-> c[a].balance, local |-> FALSE]]

\* enqueueTx, for transactions of different nonces: where one of the same
\* nonce and price is queued, it stays.
enqueueTxs(l, txs) ==
  LET new == {tx \in txs : At(l.queue, tx.nonce) = {}}
  IN [l EXCEPT !.queue = @ \cup new, !.all = @ \cup new]

\* promoteTx for the successive transactions of one account.
promoteTxs(l, txs) ==
  LET inserted == {tx \in txs : At(l.pending, tx.nonce) = {}}
  IN [l EXCEPT !.queue = @ \ txs,
               !.all = @ \ (txs \ inserted),
               !.pending = @ \cup inserted,
               !.nonce = IF inserted = {} THEN @ ELSE Max(Nonces(inserted)) + 1,
               !.balance = @ - Sum(inserted)]

removeTx(l, tx) ==
  LET found == At(l.pending, tx.nonce)
      invalids == Above(l.pending, tx.nonce)
      rest == l.pending \ (found \cup invalids)
  IN IF tx \notin l.all THEN l
     ELSE IF found # {}
     THEN LET q == [l EXCEPT !.all = @ \ {tx}, !.pending = rest,
                             !.nonce = IF @ > tx.nonce THEN tx.nonce ELSE @]
          IN IF rest = {} THEN q ELSE enqueueTxs(q, invalids)
     ELSE [l EXCEPT !.all = @ \ {tx}, !.queue = @ \ At(@, tx.nonce)]

removeEach(l, txs) == FoldSet(LAMBDA tx, q : removeTx(q, tx), l, txs)

\* removeTx for each of some queued transactions.  When none of their nonces
\* is pending as well, each is found in the queue and the order is immaterial.
removeQueued(l, txs) ==
  IF txs \subseteq l.all /\ Nonces(txs) \cap Nonces(l.pending) = {}
  THEN [l EXCEPT !.all = @ \ txs, !.queue = @ \ txs]
  ELSE removeEach(l, txs)

\* The loop over the accounts in promoteExecutables, for one account.
promoteAccount(l, c) ==
  LET old == {tx \in l.queue : tx.nonce < c.nonce}
      drops == {tx \in l.queue \ old : tx.cost > c.balance}
      kept == l.queue \ (old \cup drops)
      q == promoteTxs([l EXCEPT !.queue = kept, !.all = @ \ (old \cup drops)],
                      Ready(kept, l.nonce))
      over == IF l.local THEN {} ELSE Cap(q.queue, AccountQueue)
  IN [q EXCEPT !.queue = @ \ over, !.all = @ \ over]

\* Faulty variant: a cut list leaves the pending nonce where it was.
CapPendingKeepsNonce(l, n) ==
  LET drops == Cap(l.pending, n)
  IN [l EXCEPT !.pending = @ \ drops, !.all = @ \ drops]

\* Cutting an account's executable list to n transactions.
CapPending(l, n) ==
  LET drops == Cap(l.pending, n)
  IN [l EXCEPT !.pending = @ \ drops, !.all = @ \ drops,
               !.nonce = Min(Nonces(drops) \cup {@})]

\* The transactions in the pool, pending and queued, as the code counts them.
Known(p) == UNION {p[a].all : a \in Accounts}
PendingCount(p) == MapThenSumSet(LAMBDA a : Cardinality(p[a].pending), Accounts)
QueueCount(p) == MapThenSumSet(LAMBDA a : Cardinality(p[a].queue), Accounts)

\* The lists of the non-local accounts above AccountSlots, cut to one level.
CutTo(p, level) ==
  [a \in Accounts |->
     IF ~p[a].local /\ Cardinality(p[a].pending) > AccountSlots
     THEN CapPending(p[a], level) ELSE p[a]]

\* The equalization of allowances: the accounts above AccountSlots are cut,
\* longest first and then all alike, down to the highest level at which the
\* total fits, or to AccountSlots.
equalize(p) ==
  LET fitting == {level \in AccountSlots..Cardinality(Known(p)) :
                    PendingCount(CutTo(p, level)) <= GlobalSlots}
  IN CutTo(p, Max(fitting \cup {AccountSlots}))

\* The cut of the future queue: the accounts are emptied one after the other,
\* the last of them only from its highest nonces down.
truncateQueue(p) ==
  LET remote == UNION {p[a].queue : a \in {a \in Accounts : ~p[a].local}}
      excess == QueueCount(p) - GlobalQueue
      size == Min({excess, Cardinality(remote)})
      Highest(D) == \A tx \in D : Above(p[tx.from].queue, tx.nonce) \subseteq D
      Partly(D) == {a \in Accounts : p[a].queue \cap D # {} /\ p[a].queue \ D # {}}
  IN IF excess <= 0 THEN {p}
     ELSE {[a \in Accounts |-> removeQueued(p[a], p[a].queue \cap D)] :
             D \in {D \in kSubset(size, remote) : Highest(D) /\ Cardinality(Partly(D)) <= 1}}

\* promoteExecutables: the pools it may leave.
promoteExecutables(p, c, accounts) ==
  truncateQueue(equalize(
    [a \in Accounts |-> IF a \in accounts THEN promoteAccount(p[a], c[a]) ELSE p[a]]))

\* Faulty variant: included transactions stay in the hash index.
demoteAccountIndex(l, c) ==
  [l EXCEPT !.pending = {tx \in @ : tx.nonce >= c.nonce /\ tx.cost <= c.balance}]

\* demoteUnexecutables, for one account.
demoteAccount(l, c) ==
  LET old == {tx \in l.pending : tx.nonce < c.nonce}
      drops == {tx \in l.pending \ old : tx.cost > c.balance}
      left == l.pending \ (old \cup drops)
      invalids == IF drops = {} THEN {} ELSE Above(left, Min(Nonces(drops)))
      gapped == IF At(left \ invalids, c.nonce) = {} THEN left \ invalids ELSE {}
      q == [l EXCEPT !.all = @ \ (old \cup drops),
                     !.pending = left \ (invalids \cup gapped)]
  IN enqueueTxs(q, invalids \cup gapped)

\* Faulty variant: the pending balance is the one of the head state, as it is upstream.
manageStateHeadBalance(l, c) ==
  LET last == IF l.pending = {} THEN c.nonce - 1 ELSE Max(Nonces(l.pending))
  IN [l EXCEPT !.nonce = last + 1, !.balance = c.balance]

\* The account in pendingState, which starts afresh from the head and is then
\* moved past the transactions still pending.
manageState(l, c) ==
  LET last == IF l.pending = {} THEN c.nonce - 1 ELSE Max(Nonces(l.pending))
  IN [l EXCEPT !.nonce = last + 1, !.balance = c.balance - Sum(l.pending)]

\* Faulty variant: only the accounts that have pending transactions are promoted.
resetPendingOnly(p, c) ==
  LET r == [a \in Accounts |-> manageState(demoteAccount(p[a], c[a]), c[a])]
  IN promoteExecutables(r, c, {a \in Accounts : r[a].pending # {}})

\* reset: the pools that fit the new head state.
reset(p, c) ==
  LET r == [a \in Accounts |-> manageState(demoteAccount(p[a], c[a]), c[a])]
  IN promoteExecutables(r, c, {a \in Accounts : r[a].queue # {}})

\* Faulty variant: a nonce above the pending one is taken and queued, as it is upstream.
ValidQueued(p, tx) ==
  /\ tx \notin p[tx.from].all
  /\ tx.nonce >= p[tx.from].nonce
  /\ tx.cost <= p[tx.from].balance
  /\ Cardinality(Known(p)) < GlobalSlots + GlobalQueue \/ p[tx.from].local
  /\ At(p[tx.from].queue, tx.nonce) = {}

\* validateTx, the capacity check of add and the one of enqueueTx.
Valid(p, tx) ==
  /\ tx \notin p[tx.from].all
  /\ tx.nonce = p[tx.from].nonce
  /\ tx.cost <= p[tx.from].balance
  /\ Cardinality(Known(p)) < GlobalSlots + GlobalQueue \/ p[tx.from].local
  /\ At(p[tx.from].queue, tx.nonce) = {}

\* addTx: the pools after an accepted transaction.  The nonce is not pending,
\* so that it always goes through the queue.
addTx(p, c, tx, local) ==
  LET l == enqueueTxs(p[tx.from], {tx})
  IN promoteExecutables([p EXCEPT ![tx.from] = [l EXCEPT !.local = @ \/ local]], c, {tx.from})

\* Faulty variant: the journal is rewritten from the executable transactions only.
RotatedPending(p) ==
  LET kept == UNION {p[a].pending : a \in {a \in Accounts : p[a].local}}
  IN Bijection(1..Cardinality(kept), kept)

\* local: the transactions of the local accounts, account by account, the
\* pending before the queued ones and each of these in nonce order.
Rotated(p) ==
  LET kept == UNION {p[a].pending \cup p[a].queue : a \in {a \in Accounts : p[a].local}}
      Before(s, t) == \/ s \in p[s.from].pending /\ t \in p[t.from].queue
                      \/ /\ s \in p[s.from].pending <=> t \in p[t.from].pending
                         /\ s.nonce < t.nonce
      Ordered(f) == \A i, j \in DOMAIN f :
        i < j /\ f[i].from = f[j].from =>
          Before(f[i], f[j]) /\ \A k \in i..j : f[k].from = f[i].from
  IN {f \in Bijection(1..Cardinality(kept), kept) : Ordered(f)}

Init ==
  /\ noLocals \in BOOLEAN
  /\ cur \in [Accounts -> [nonce : {0}, balance : Balances]]
  /\ pool = emptyPool(cur)
  /\ journal = <<>>
  /\ loading = FALSE
  /\ unread = <<>>

\* AddLocal, called by the RPC service.
AddLocal(tx) ==
  /\ ~loading
  /\ Valid(pool, tx)
  /\ pool' \in addTx(pool, cur, tx, ~noLocals)
  /\ IF noLocals THEN UNCHANGED journal
     ELSE Len(journal) < MaxJournal /\ journal' = Append(journal, tx)
  /\ UNCHANGED <<noLocals, cur, loading, unread>>

\* The loop on a ChainHeadEvent: blocks move nonces forward and change balances.
ChainHead ==
  /\ ~loading
  /\ \E c \in [Accounts -> Account] :
       /\ \A a \in Accounts : c[a].nonce >= cur[a].nonce
       /\ cur' = c
       /\ pool' \in reset(pool, c)
  /\ UNCHANGED <<noLocals, journal, loading, unread>>

\* The loop on its eviction ticker: non-local accounts whose heartbeat is old.
Evict ==
  /\ ~loading
  /\ \E expired \in SUBSET {a \in Accounts : ~pool[a].local /\ pool[a].queue # {}} :
       pool' = [a \in Accounts |->
                  IF a \in expired THEN removeQueued(pool[a], pool[a].queue) ELSE pool[a]]
  /\ UNCHANGED <<noLocals, cur, journal, loading, unread>>

\* The loop on its journal ticker.
Rotate ==
  /\ ~loading
  /\ ~noLocals
  /\ journal' \in Rotated(pool)
  /\ UNCHANGED <<noLocals, cur, pool, loading, unread>>

\* NewTxPool after the process has stopped at any point, loading included.
Restart ==
  /\ pool' = emptyPool(cur)
  /\ loading' = ~noLocals
  /\ unread' = IF noLocals THEN <<>> ELSE journal
  /\ UNCHANGED <<noLocals, cur, journal>>

\* journal.load(pool.AddLocal): nothing is written to the journal, and a
\* transaction the pool refuses is skipped.
load ==
  /\ loading /\ unread # <<>>
  /\ LET tx == Head(unread)
     IN pool' \in IF Valid(pool, tx) THEN addTx(pool, cur, tx, TRUE) ELSE {pool}
  /\ unread' = Tail(unread)
  /\ UNCHANGED <<noLocals, cur, journal, loading>>

\* The rotation that ends the loading, before the pool's loop is started.
Loaded ==
  /\ loading /\ unread = <<>>
  /\ journal' \in Rotated(pool)
  /\ loading' = FALSE
  /\ UNCHANGED <<noLocals, cur, pool, unread>>

Next ==
  \/ \E tx \in Txs : AddLocal(tx)
  \/ ChainHead \/ Evict \/ Rotate \/ Restart \/ load \/ Loaded

Spec == Init /\ [][Next]_vars

-------------------------------------------------------------------------------
\* The lists and the index hold transactions, and nonces and journal have their
\* types: a pending nonce never falls below zero.
TypeOK ==
  /\ noLocals \in BOOLEAN
  /\ cur \in [Accounts -> Account]
  /\ pool \in [Accounts -> Part]
  /\ journal \in Seq(Txs)
  /\ loading \in BOOLEAN
  /\ unread \in Seq(Txs)

\* The hash index of the pool (pool.all) holds exactly the transactions of the
\* lists: no transaction is listed twice, none is known but in no list, so that
\* it would be refused as "known transaction" for good (tx_pool.go:751).
IndexExact ==
  \A a \in Accounts :
    /\ pool[a].all = pool[a].pending \cup pool[a].queue
    /\ pool[a].pending \cap pool[a].queue = {}

\* The pending nonce, which validateTx demands of the next transaction and the
\* RPC service hands out, is the nonce after the last pending transaction.
PendingNonceExact ==
  \A a \in Accounts : pool[a].nonce = cur[a].nonce + Cardinality(pool[a].pending)

\* No queued transaction is executable: each one is separated from the pending
\* ones by a gap, whatever was dropped, demoted or evicted in between.
QueueWaits ==
  \A a \in Accounts : \A tx \in pool[a].queue : tx.nonce > pool[a].nonce

\* The pending balance, with which validateTx compares the cost of the next
\* transaction, is at most what the pending transactions leave of the account's
\* balance.  It may be less: removing a transaction does not give its cost back.
BalanceReserved ==
  \A a \in Accounts : pool[a].balance <= cur[a].balance - Sum(pool[a].pending)

\* Every transaction of a local account in the pool is in the journal, so that
\* a restart finds it there, even one that interrupts the loading of it.
JournalCovers ==
  \A a \in Accounts :
    pool[a].local => (pool[a].pending \cup pool[a].queue) \subseteq Range(journal)

Abstract ==
  INSTANCE PendingPool WITH
    head <- [a \in Accounts |-> cur[a].nonce],
    known <- Known(pool) \cup Range(journal),
    pending <- [a \in Accounts |-> pool[a].pending]

\* The pool is the pool of PendingPool: executable transactions without a gap.
ImplementsPendingPool == Abstract!Spec
===============================================================================
