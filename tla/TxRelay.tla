------------------------------- MODULE TxRelay -------------------------------
(***************************************************************************)
(* The way of a transaction from the RPC service of the Ethermint process  *)
(* to the mempool of the node: the transaction pool announces it with a    *)
(* TxPreEvent, and txBroadcastLoop (ethermint/ethereum/txs.go) forwards    *)
(* it with broadcast_tx_sync, in nonce order, on the event itself or on a  *)
(* later ChainHeadEvent.                                                   *)
(*                                                                         *)
(* Every TxPreEvent is sent by a goroutine of its own, so that they arrive *)
(* in any order.  A ChainHeadEvent is sent by the application inside       *)
(* Commit, which waits while the loop's channel is full; the node holds    *)
(* the lock of its mempool meanwhile.                                      *)
(*                                                                         *)
(* The pool is a restriction of PendingPool: it drops a transaction only   *)
(* when the chain has used its nonce.                                      *)
(***************************************************************************)
EXTENDS Mempool

CONSTANTS
  Foreign,     \* the transactions that peers may have from elsewhere
  BlockCap,    \* capacity of the channel of ChainHeadEvents
  Paced        \* whether blocks only come while that channel has room

ASSUME TxRelayAssumption ==
  Foreign \subseteq Txs /\ BlockCap \in Nat \ {0} /\ Paced \in BOOLEAN

VARIABLES
  pool,      \* the pool: the head nonces it has seen, the pending transactions
  events,    \* TxPreEvents that the loop has not received
  blockCh,   \* ChainHeadEvents: the transactions of the blocks
  fwd        \* txBroadcastLoop: pc, lists (mtxs), nonce, included (the block's
             \* transactions), nonceMap (_nonceMap) and hashes (_txhashMap)

relayVars == <<pool, events, blockCh, fwd>>
allVars == <<vars, relayVars>>

getNonce(a) == Max({app.nonce[a], fwd.nonceMap[a]})

RelayInit ==
  /\ Init
  /\ pool = [head |-> app.nonce, pending |-> [a \in Accounts |-> <<>>]]
  /\ events = {} /\ blockCh = <<>>
  /\ fwd = [pc |-> "select", lists |-> <<>>, nonce |-> 0, included |-> {},
            nonceMap |-> [a \in Accounts |-> 0], hashes |-> {}]

\* TxPool.AddLocal: only the next pending nonce is taken.
SubmitTx(tx) ==
  /\ tx.nonce = pool.head[tx.from] + Len(pool.pending[tx.from])
  /\ pool' = [pool EXCEPT !.pending[tx.from] = Append(@, tx)]
  /\ events' = events \cup {tx}
  /\ UNCHANGED <<vars, blockCh, fwd>>

\* TxPool.reset on a ChainHeadEvent of its own subscription: the transactions
\* whose nonces are used are the first ones of their account.
PoolReset ==
  /\ pool.head # app.nonce /\ block.phase # "writing"
  /\ pool' = [head |-> app.nonce,
              pending |-> [a \in Accounts |->
                 SubSeq(pool.pending[a], app.nonce[a] - pool.head[a] + 1,
                        Len(pool.pending[a]))]]
  /\ UNCHANGED <<vars, events, blockCh, fwd>>

-------------------------------------------------------------------------------
\* txBroadcastLoop.  The current account is the first of the lists.

TakeTx(tx) ==
  /\ fwd.pc = "select" /\ tx \in events
  /\ events' = events \ {tx}
  /\ fwd' = [fwd EXCEPT !.pc = "account", !.lists = <<<<tx>>>>, !.included = {}]
  /\ UNCHANGED <<vars, pool, blockCh>>

TakeBlock ==
  /\ fwd.pc = "select" /\ blockCh # <<>>
  /\ LET busy == {a \in Accounts : pool.pending[a] # <<>>}
     IN \E order \in Bijection(1..Cardinality(busy), busy) :
          fwd' = [fwd EXCEPT !.pc = "account", !.included = Head(blockCh),
                             !.lists = [i \in DOMAIN order |-> pool.pending[order[i]]]]
  /\ blockCh' = Tail(blockCh)
  /\ UNCHANGED <<vars, pool, events>>

\* The outer loop of transformTx, and the end of the event's handling.
NextAccount ==
  /\ fwd.pc = "account"
  /\ fwd' = IF fwd.lists = <<>>
            THEN [fwd EXCEPT !.pc = "select", !.hashes = @ \ fwd.included]
            ELSE [fwd EXCEPT !.pc = "tx", !.nonce = getNonce(Head(Head(fwd.lists)).from)]
  /\ UNCHANGED <<vars, pool, events, blockCh>>

\* What the loop is once it has left the account, or gone to its next transaction.
LeaveAccount == [fwd EXCEPT !.pc = "account", !.lists = Tail(@)]

SkipTx ==
  IF Len(Head(fwd.lists)) = 1 THEN LeaveAccount
  ELSE [fwd EXCEPT !.pc = "tx", !.lists[1] = Tail(@)]

\* Faulty variant: a transaction is forwarded although its nonce is too high.
DispatchHigh(tx) ==
  IF tx \in fwd.hashes \/ tx.nonce < fwd.nonce THEN SkipTx ELSE [fwd EXCEPT !.pc = "call"]

\* The inner loop: what becomes of one transaction.
Dispatch(tx) ==
  IF tx \in fwd.hashes \/ tx.nonce < fwd.nonce THEN SkipTx
  ELSE IF tx.nonce > fwd.nonce THEN LeaveAccount
  ELSE [fwd EXCEPT !.pc = "call"]

current == Head(Head(fwd.lists))

TransformTx ==
  /\ fwd.pc = "tx"
  /\ fwd' = Dispatch(current)
  /\ UNCHANGED <<vars, pool, events, blockCh>>

\* The end of a call that succeeded or that found the transaction in the cache.
Forwarded ==
  [SkipTx EXCEPT !.nonce = current.nonce + 1,
                 !.nonceMap[current.from] = current.nonce + 1,
                 !.hashes = @ \cup {current}]

\* broadcast_tx_sync: CheckTx answers at once for a cached transaction.
BroadcastCached ==
  /\ fwd.pc = "call" /\ ~locked /\ current \in cache.map
  /\ fwd' = Forwarded
  /\ UNCHANGED <<vars, pool, events, blockCh>>

BroadcastTx ==
  /\ fwd.pc = "call" /\ CheckTx(current, TRUE)
  /\ fwd' = [fwd EXCEPT !.pc = "wait"]
  /\ UNCHANGED <<pool, events, blockCh>>

\* Faulty variant: the caller is not told of an answer other than OK.
CallbackOnlyOK ==
  /\ resCbNormal
  /\ fwd' = IF Head(ress).sync /\ Head(ress).code = OK THEN Forwarded ELSE fwd
  /\ UNCHANGED <<pool, events, blockCh>>

\* The callback, and what the loop makes of the code.
Callback ==
  /\ resCbNormal
  /\ fwd' = IF ~Head(ress).sync THEN fwd
            ELSE IF Head(ress).code = OK THEN Forwarded
            ELSE LeaveAccount
  /\ UNCHANGED <<pool, events, blockCh>>

-------------------------------------------------------------------------------
\* The steps of the mempool and of the application.

\* What peers may have: transactions from elsewhere, and those that the broadcast
\* routines have sent them from this node's mempool.
Relayed == Foreign \cup Range(list.log)

RelayReceive(tx) == tx \in Relayed /\ Receive(tx) /\ UNCHANGED relayVars

RelayCheckTx == AppCheckTx /\ UNCHANGED relayVars

\* A block has a transaction that no peer had elsewhere only if the mempool had it.
RelayLock ==
  /\ Paced => Len(blockCh) < BlockCap
  /\ Lock
  /\ block'.txs \subseteq Relayed
  /\ UNCHANGED relayVars

\* Faulty variant: the event of the block is lost.
RelayCommitLosesEvent ==
  /\ AppCommit
  /\ UNCHANGED relayVars

\* PostChainEvents, inside Commit, waits for room in the channel.
RelayCommit ==
  /\ Len(blockCh) < BlockCap
  /\ AppCommit
  /\ blockCh' = Append(blockCh, block.txs)
  /\ UNCHANGED <<pool, events, fwd>>

RelayNext ==
  \/ \E tx \in Txs : SubmitTx(tx) \/ TakeTx(tx) \/ RelayReceive(tx)
  \/ PoolReset \/ TakeBlock \/ NextAccount \/ TransformTx
  \/ BroadcastCached \/ BroadcastTx \/ Callback
  \/ RelayCheckTx \/ RelayLock \/ RelayCommit
  \/ (AppWrite \/ Update) /\ UNCHANGED relayVars

\* The loop, the pool, the two ends of the connection and the node run, and the
\* chain keeps growing, by empty blocks if need be.  The loop's select and the
\* mempool's lock are fair.
RelayFairness ==
  /\ SF_allVars(PoolReset) /\ WF_allVars(RelayCheckTx) /\ WF_allVars(Callback)
  /\ \A tx \in Txs : SF_allVars(TakeTx(tx))
  /\ SF_allVars(TakeBlock)
  /\ SF_allVars(NextAccount \/ TransformTx \/ BroadcastTx \/ BroadcastCached)
  /\ WF_allVars(RelayLock \/ RelayCommit \/ ((AppWrite \/ Update) /\ UNCHANGED relayVars))

RelaySpec == RelayInit /\ [][RelayNext]_allVars /\ RelayFairness

-------------------------------------------------------------------------------
\* The variables have their types: transformTx looks at a transaction only where
\* there is one.
RelayTypeOK ==
  /\ TypeOK
  /\ fwd.pc \in {"select", "account", "tx", "call", "wait"}
  /\ fwd.hashes \subseteq Txs /\ events \subseteq Txs
  /\ Len(blockCh) <= BlockCap
  /\ fwd.pc \in {"tx", "call", "wait"} => fwd.lists # <<>> /\ Head(fwd.lists) # <<>>

\* The accounts of which peers have nothing from elsewhere but a first transaction
\* that can be paid.  A later one may be set aside or refused after the loop has
\* found it in the cache, and the loop then goes on as if it had been accepted.
Own == {a \in Accounts :
          \A tx \in Foreign : tx.from = a => tx.nonce = 0 /\ tx \notin Unpayable}

\* The loop forwards in nonce order, although the events that wake it come in any
\* order and peers send back what the mempool has sent them: for an account in Own,
\* whatever peers send of the others, the application never finds a gap in front of
\* a transaction.  Such a transaction would be set aside in futuretxs, which a
\* follower never looks at again.
NoneSetAside == \A tx \in future : tx.from \notin Own

\* A pending transaction gets to the mempool, or is pending no more.
Routed(tx) ==
  tx \in Range(pool.pending[tx.from]) ~>
    (tx \in Range(list.log) \/ tx \notin Range(pool.pending[tx.from]))

\* "Transactions sent via the go-ethereum rpc need to be routed to tendermint"
\* (txs.go:23): a pending transaction of an account in Own reaches the mempool,
\* unless the chain uses its nonce first.
RoutedToTendermint == \A tx \in Txs : tx.from \in Own => Routed(tx)

\* "CONTRACT: Either cb will get called, or err returned." (mempool.go:254): the
\* loop's call of CheckTx comes to an end.
CheckTxAnswered == fwd.pc \in {"call", "wait"} ~> fwd.pc \notin {"call", "wait"}

\* What txs.go:23 says of every transaction.  It fails when peers have a later one
\* from elsewhere: set aside as a future transaction, it stays in the cache, and the
\* loop takes "already exists in cache" for success.
EveryTxRouted == \A tx \in Txs : Routed(tx)
===============================================================================
