------------------------------- MODULE Mempool -------------------------------
(***************************************************************************)
(* The mempool of the follower node (mempool/mempool.go), its reactor      *)
(* (mempool/reactor.go) and the part of the Ethermint application that     *)
(* answers CheckTx (app/app.go), which keeps the next expected nonce of    *)
(* every account in a copy of the committed state and in nonceMap.         *)
(*                                                                         *)
(* CheckTx requests travel to the application and back over an ABCI        *)
(* connection that keeps their order; the answers are handled by resCb,    *)
(* which does not take the mempool's lock.  BlockExecutor.Commit holds     *)
(* the lock while the application commits and Update removes what the      *)
(* block contains.  A follower never calls NotifyTx, so that neither       *)
(* recheckFutureTxs nor notifyTxsAvailable ever acts.                      *)
(*                                                                         *)
(* mem.txs is a concurrent list that the broadcast routines walk while     *)
(* elements are removed under them: a removed element keeps the successor  *)
(* it had, and the successor of a removed last element is none.            *)
(***************************************************************************)
EXTENDS Integers, FiniteSets, FiniteSetsExt, Sequences

CONSTANTS
  Accounts,
  Txs,          \* records [from, nonce, id]
  Unpayable,    \* the transactions that their account cannot pay
  Peers,
  CacheSize,    \* cacheSize
  MaxInFlight,  \* bound on the CheckTx requests on the connection
  MaxBlock      \* bound on the transactions of a block

ASSUME MempoolAssumption ==
  /\ IsFiniteSet(Accounts) /\ IsFiniteSet(Txs)
  /\ \A tx \in Txs : tx.from \in Accounts /\ tx.nonce \in Nat
  /\ Unpayable \subseteq Txs
  /\ {CacheSize, MaxInFlight, MaxBlock} \subseteq Nat \ {0}

VARIABLES
  app,      \* the application: nonce (committed), checkNonce, nonceMap, committed
  reqs,     \* CheckTx requests on the way to the application
  ress,     \* answers on the way back
  list,     \* mem.txs: every element ever pushed, the live ones, and the
            \* successors of the removed ones
  future,   \* mem.futuretxs
  cache,    \* mem.cache: map_ and list
  block,    \* BlockExecutor.Commit: its phase and the block's transactions
  peers     \* the broadcast routine of every connected peer

appVars == <<app, reqs, ress>>
memVars == <<list, future, cache>>
vars == <<app, reqs, ress, list, future, cache, block, peers>>

OK == 0
Bad == 1
futurenum == 9999
None == 0

locked == block.phase # "none"

-------------------------------------------------------------------------------
\* The concurrent list.

emptyList == [log |-> <<>>, live |-> {}, stale |-> <<>>]

Successor(l, i) ==
  LET later == {j \in l.live : j > i} IN IF later = {} THEN None ELSE Min(later)

PushBack(l, tx) ==
  [log |-> Append(l.log, tx), live |-> l.live \cup {Len(l.log) + 1},
   stale |-> Append(l.stale, None)]

\* Removal from the front to the back.
RemoveAll(l, gone) ==
  [l EXCEPT !.live = @ \ gone,
            !.stale = [i \in DOMAIN @ |-> IF i \in gone THEN Successor(l, i) ELSE @[i]]]

Following(l, i) == IF i \in l.live THEN Successor(l, i) ELSE l.stale[i]

-------------------------------------------------------------------------------
\* The transaction cache.  Remove leaves the list alone, so that the list may
\* name a transaction that the map has lost, or name it twice.

emptyCache == [map |-> {}, list |-> <<>>]

Push(c, tx) ==
  LET full == Len(c.list) >= CacheSize
  IN [map |-> (IF full THEN c.map \ {Head(c.list)} ELSE c.map) \cup {tx},
      list |-> Append(IF full THEN Tail(c.list) ELSE c.list, tx)]

Forget(c, txs) == [c EXCEPT !.map = @ \ txs]

-------------------------------------------------------------------------------
\* validateEthTx.

\* Faulty variant: only the copy of the committed state is consulted.
expectedNonceState(a) == app.checkNonce[a]

expectedNonce(a) == Max({app.checkNonce[a], app.nonceMap[a]})

codeOf(tx) ==
  IF tx \in app.committed \/ tx.nonce < expectedNonce(tx.from) THEN Bad
  ELSE IF tx.nonce > expectedNonce(tx.from) THEN futurenum
  ELSE IF tx \in Unpayable THEN Bad
  ELSE OK

Init ==
  /\ app = [nonce |-> [a \in Accounts |-> 0], checkNonce |-> [a \in Accounts |-> 0],
            nonceMap |-> [a \in Accounts |-> 0], committed |-> {}]
  /\ reqs = <<>> /\ ress = <<>>
  /\ list = emptyList /\ future = {} /\ cache = emptyCache
  /\ block = [phase |-> "none", txs |-> {}]
  /\ peers = [p \in {} |-> [at |-> None, sending |-> FALSE, sent |-> {}]]

\* Mempool.CheckTx for a transaction that the cache does not hold.
CheckTx(tx, sync) ==
  /\ ~locked
  /\ tx \notin cache.map
  /\ cache' = Push(cache, tx)
  /\ reqs' = Append(reqs, [tx |-> tx, sync |-> sync])
  /\ UNCHANGED <<app, ress, list, future, block, peers>>

\* MempoolReactor.Receive: a peer's transaction.  A cached one changes nothing.
Receive(tx) == Len(reqs) + Len(ress) < MaxInFlight /\ CheckTx(tx, FALSE)

\* EthermintApplication.CheckTx, on the application's side of the connection.
\* The server takes one request at a time, and none inside Commit.
AppCheckTx ==
  /\ reqs # <<>>
  /\ block.phase # "writing"
  /\ LET tx == Head(reqs).tx
         ok == codeOf(tx) = OK
     IN /\ app' = IF ok THEN [app EXCEPT !.checkNonce[tx.from] = tx.nonce + 1,
                                         !.nonceMap[tx.from] = tx.nonce + 1]
                  ELSE app
        /\ ress' = Append(ress, [tx |-> tx, sync |-> Head(reqs).sync, code |-> codeOf(tx)])
  /\ reqs' = Tail(reqs)
  /\ UNCHANGED <<memVars, block, peers>>

resCbNormal ==
  /\ ress # <<>>
  /\ LET tx == Head(ress).tx
         code == Head(ress).code
     IN /\ list' = IF code = OK THEN PushBack(list, tx) ELSE list
        /\ future' = IF code = futurenum THEN future \cup {tx} ELSE future
        /\ cache' = IF code = Bad THEN Forget(cache, {tx}) ELSE cache
  /\ ress' = Tail(ress)
  /\ UNCHANGED <<app, reqs, block, peers>>

\* The sets of transactions that the chain's next block may contain.
Blocks ==
  {B \in UNION {kSubset(n, Txs \ Unpayable) : n \in 0..MaxBlock} :
     \A a \in Accounts :
       LET own == {tx \in B : tx.from = a}
       IN {tx.nonce : tx \in own} =
            {app.nonce[a] + i : i \in 0..(Cardinality(own) - 1)}}

\* BlockExecutor.Commit takes the lock of the mempool.
Lock ==
  /\ ~locked
  /\ block' \in [phase : {"locked"}, txs : Blocks]
  /\ UNCHANGED <<appVars, memVars, peers>>

\* work.commit, up to WriteBlockAndState: the chain has the block.
AppWrite ==
  /\ block.phase = "locked"
  /\ app' = [app EXCEPT
       !.nonce = [a \in Accounts |-> @[a] + Cardinality({tx \in block.txs : tx.from = a})],
       !.committed = @ \cup block.txs]
  /\ block' = [block EXCEPT !.phase = "writing"]
  /\ UNCHANGED <<reqs, ress, memVars, peers>>

\* The rest of EthermintApplication.Commit: checkTxState starts afresh.
AppCommit ==
  /\ block.phase = "writing"
  /\ app' = [app EXCEPT !.checkNonce = app.nonce]
  /\ block' = [block EXCEPT !.phase = "committed"]
  /\ UNCHANGED <<reqs, ress, memVars, peers>>

InBlock == {i \in list.live : list.log[i] \in block.txs}

\* Faulty variant: Update does not wait for the answers that are under way.
UpdateNoFlush ==
  /\ block.phase = "committed"
  /\ list' = RemoveAll(list, InBlock)
  /\ cache' = Forget(cache, {list.log[i] : i \in InBlock})
  /\ block' = [phase |-> "none", txs |-> {}]
  /\ UNCHANGED <<appVars, future, peers>>

\* Mempool.Update, and the end of Commit: FlushSync has seen every answer.
Update ==
  /\ block.phase = "committed"
  /\ reqs = <<>> /\ ress = <<>>
  /\ list' = RemoveAll(list, InBlock)
  /\ cache' = Forget(cache, {list.log[i] : i \in InBlock})
  /\ block' = [phase |-> "none", txs |-> {}]
  /\ UNCHANGED <<appVars, future, peers>>

\* Mempool.Flush, called by the RPC unsafe_flush_mempool.
Flush ==
  /\ ~locked
  /\ cache' = emptyCache
  /\ list' = RemoveAll(list, list.live)
  /\ future' = {}
  /\ UNCHANGED <<appVars, block, peers>>

-------------------------------------------------------------------------------
\* MempoolReactor: broadcastTxRoutine(peer).

AddPeer(p) ==
  /\ p \notin DOMAIN peers
  /\ peers' = [q \in DOMAIN peers \cup {p} |->
                 IF q = p THEN [at |-> None, sending |-> FALSE, sent |-> {}] ELSE peers[q]]
  /\ UNCHANGED <<appVars, memVars, block>>

\* The peer quits: the routine returns.
PeerQuit(p) ==
  /\ peers' = [q \in DOMAIN peers \ {p} |-> peers[q]]
  /\ UNCHANGED <<appVars, memVars, block>>

\* Faulty variant: after a removed last element the routine waits for its successor.
NextOfSuccessor(p) ==
  IF peers[p].at = None THEN Successor(list, 0) ELSE Following(list, peers[p].at)

\* Faulty variant: the routine begins again at the back of the list.
NextOfBack(p) ==
  LET at == peers[p].at
      next == IF at = None THEN None ELSE Following(list, at)
  IN IF next = None /\ at \notin list.live /\ list.live # {} THEN Max(list.live) ELSE next

\* The element that the routine turns to.  Where there is none it waits for a
\* successor or, if the element it stands on was the last one and is removed,
\* begins at the front again.
NextOf(p) ==
  LET at == peers[p].at
      next == IF at = None THEN None ELSE Following(list, at)
  IN IF next = None /\ at \notin list.live THEN Successor(list, 0) ELSE next

Turn(p) ==
  /\ ~peers[p].sending
  /\ NextOf(p) # None
  /\ peers' = [peers EXCEPT ![p].at = NextOf(p), ![p].sending = TRUE]
  /\ UNCHANGED <<appVars, memVars, block>>

\* A Send that succeeds; one that fails is repeated.
Send(p) ==
  /\ peers[p].sending
  /\ peers' = [peers EXCEPT ![p].sending = FALSE, ![p].sent = @ \cup {peers[p].at}]
  /\ UNCHANGED <<appVars, memVars, block>>

Next ==
  \/ \E tx \in Txs : Receive(tx)
  \/ AppCheckTx \/ resCbNormal
  \/ Lock \/ AppWrite \/ AppCommit \/ Update
  \/ Flush
  \/ \E p \in Peers \ DOMAIN peers : AddPeer(p)
  \/ \E p \in DOMAIN peers : PeerQuit(p) \/ Turn(p) \/ Send(p)

Spec == Init /\ [][Next]_vars

\* The goroutines of the node and of the application run; the network, the
\* chain, the users and the operator need not.
Fairness ==
  /\ WF_vars(AppCheckTx) /\ WF_vars(resCbNormal)
  /\ WF_vars(AppWrite) /\ WF_vars(AppCommit) /\ WF_vars(Update)
  /\ \A p \in Peers : WF_vars(p \in DOMAIN peers /\ (Turn(p) \/ Send(p)))

FairSpec == Spec /\ Fairness

-------------------------------------------------------------------------------
Request == [tx : Txs, sync : BOOLEAN]
Answer == [tx : Txs, sync : BOOLEAN, code : {OK, Bad, futurenum}]

\* The variables have their types.
TypeOK ==
  /\ app \in [nonce : [Accounts -> Nat], checkNonce : [Accounts -> Nat],
             nonceMap : [Accounts -> Nat], committed : SUBSET Txs]
  /\ reqs \in Seq(Request) /\ ress \in Seq(Answer)
  /\ list \in [log : Seq(Txs), live : SUBSET Nat, stale : Seq(Nat)]
  /\ future \subseteq Txs
  /\ cache \in [map : SUBSET Txs, list : Seq(Txs)]
  /\ block \in [phase : {"none", "locked", "writing", "committed"}, txs : SUBSET Txs]
  /\ DOMAIN peers \subseteq Peers
  /\ \A p \in DOMAIN peers : peers[p] \in [at : Nat, sending : BOOLEAN, sent : SUBSET Nat]

\* Over the life of the application the mempool accepts at most one
\* transaction for each nonce of an account, and in nonce order, whatever is
\* committed, flushed or forgotten by the cache in between.
AcceptedInNonceOrder ==
  \A i, j \in DOMAIN list.log :
    i < j /\ list.log[i].from = list.log[j].from => list.log[i].nonce < list.log[j].nonce

\* Between two commits the mempool holds no transaction that the chain has,
\* although answers come back while a block is committed (mempool.go:456).
NoCommittedTx ==
  ~locked => \A i \in list.live : list.log[i] \notin app.committed

\* A peer gets the transactions in the order of the list, which is the nonce
\* order its own application demands: none overtakes a live one, whatever is
\* removed under the broadcast routine.
SentInOrder ==
  \A p \in DOMAIN peers : \A j \in peers[p].sent : \A i \in list.live :
    i < j => i \in peers[p].sent

\* "It starts a broadcast routine ensuring all txs are forwarded to the given
\* peer" (reactor.go:61): unless it is removed or the peer leaves, every
\* transaction of the mempool is sent to every connected peer.
TxsReachPeers ==
  \A p \in Peers : \A n \in 1..Cardinality({<<tx.from, tx.nonce>> : tx \in Txs}) :
    (p \in DOMAIN peers /\ n \in list.live) ~>
      (p \notin DOMAIN peers \/ n \notin list.live \/ n \in peers[p].sent)

\* "old txs must be replayed against committed state before new txs are run in
\* the mempool, lest they be invalid" (state/execution.go:138): between two
\* commits no transaction of the mempool has a nonce that the chain has used.
NoStaleTx ==
  ~locked => \A i \in list.live : list.log[i].nonce >= app.nonce[list.log[i].from]
===============================================================================
