# A TLA+ development for LK-Chain

This directory holds TLA+ specifications of LK-Chain, the TLC models that check
them on small instances, and TLAPS proofs of the results that matter most. It is
written from the Go sources under `src/`; `PROJECT.json` maps every definition
to the lines it models.

## 1. The system

LK-Chain in this repository is a *peer* (follower) node. It does not take part
in consensus: it copies a chain that validators elsewhere have already agreed
on, executes it, and serves it. Two processes run side by side, started and
stopped by `tools/start.sh`:

* `tendermint` fetches blocks from peers, checks the commit signatures, keeps
  the block store and the state, runs the mempool and the evidence pool;
* `ethermint` is the ABCI application: an Ethereum state machine that executes
  the transactions of each block and keeps its own chain database.

For every block the node writes three databases, one after the other: the block
store (`blockchain/store.go`), the state database (`state/store.go`) and, in the
other process, the Ethereum chain (`ethermint/ethereum/pending.go`).

| part | code | role |
|---|---|---|
| fast sync loop | `blockchain/reactor.go` | asks the pool for two blocks, verifies the first with the second's commit, saves and applies it |
| block pool | `blockchain/pool.go` | one requester goroutine per height, peers, timeouts, redo of bad blocks |
| block store | `blockchain/store.go` | blocks, commits and a height descriptor on disk |
| block executor | `state/execution.go`, `state/validation.go` | validates, executes, commits a block and saves the new state |
| state store | `state/store.go` | state, ABCI responses, validator sets and parameters by height |
| handshake | `consensus/replay.go` | after a restart, brings application, state and store back in step |
| node | `node/node.go` | order in which all this is built and started |
| rollback commands | `cmd/tendermint/commands/rollback.go`, `ethermint/cmd/ethermint/rollback.go` | move both processes back to an earlier block |
| mempool | `mempool/` | transactions waiting for a block, future transactions, cache, gossip |
| evidence pool | `evidence/` | double-signing evidence, pending and committed |
| votes and validators | `types/` | vote sets, validator sets, part sets, signing |
| application | `ethermint/app`, `ethermint/ethereum` | ABCI methods over the Ethereum backend |
| validator strategy | `ethermint/strategies/validators` | validator changes decided by transactions |
| p2p | `p2p/` | switch, peers, connections, address book, PEX |
| light client | `lite/` | certifying headers across validator changes |
| RPC, indexer | `rpc/`, `state/txindex/` | queries and subscriptions |
| transaction pool | `go-ethereum/core/tx_pool.go`, `tx_list.go`, `tx_journal.go` | transactions submitted by RPC, executable or queued; a journal of the local ones |
| transaction forwarder | `ethermint/ethereum/txs.go` | sends pending Ethereum transactions to tendermint in nonce order |
| transaction records | `third_part/txmgr` | database of gas and internal transfers per transaction, block subscription |
| validator transactions | `third_part/txEncrypt` | parsing, limits and signatures of validator changes |
| go-ethereum, crypto, ABI, logs | `ethereum/`, `third_part/` | libraries |

Blocks and transactions take opposite ways through these parts. A block comes
from a peer into the pool, from there to the sync loop, and is written to the
three databases by two processes, either of which may die between two writes;
the handshake repairs the result at the next start, and the rollback commands
rewrite the databases offline. A transaction comes in by RPC at the Ethereum
side, waits in the transaction pool, and is sent by the forwarder to tendermint's
mempool, which asks the application about it and passes it on to peers. The two
ways meet in `Commit`, during which the node holds the mempool's lock while the
application posts the event that wakes pool and forwarder. Validator transactions
and evidence ride on blocks: the first change who signs the next ones, the second
must be kept until a block has it.

## 2. Modules

| module | models | extends |
|---|---|---|
| `Handshake` | the decision of `ReplayBlocks`: what to replay, from the three heights | |
| `Ledger` | abstract: a block is stored, executed, recorded, in this order, one block in flight; the executed height may be rewound | |
| `FollowerNode` | handshake, reactor start, sync loop, `SaveBlock`, `ApplyBlock`, the application's execution and commit; crashes | `Handshake` |
| `BlockPool` | block pool, requesters, `poolRoutine`, `Receive`, timers, loss and return of peers | |
| `Rollback` | both rollback commands, the validator history in the state database, and sync over it | `Handshake` |
| `PendingPool` | abstract: executable transactions without a gap from the head's nonce on | |
| `TxPool` | the transaction pool: add, promote, demote, limits, eviction, new heads, journal, restart | |
| `Mempool` | the mempool, its cache and broadcast routines, the ABCI connection, `CheckTx` in the application, the locks of `Commit` | |
| `TxRelay` | the forwarder between pool and mempool, its events and its calls | `Mempool` |
| `Validators` | validator transactions, the application's strategy, the node's set, proposer rotation, restarts | |
| `Evidence` | receivers, broadcast routine and block execution over the evidence store, crashes | |
| `MC...` | constants for TLC | the module they are named after |
| `FollowerNodeProofs`, `EvidenceProofs`, `RollbackProofs`, `BlockPoolProofs`, `MempoolProofs`, `TxPoolProofs`, `ValidatorsProofs` | the theorems about the module they are named after (section 4) | that module, TLAPS |
| `TxRelayProofs` | the theorem about `TxRelay` | `TxRelay`, `MempoolProofs` |

Operators whose comment begins with "Faulty variant" are not part of a
specification: each is an operation with one plausible mistake in it, and the
property it is paired with in `PROJECT.json` fails when it takes the operation's
place.

### FollowerNode

Durable state: `storeHeight` and `blocks` (block store), `st` and `responses`
(state database), `appHeight` and `appHash` (the Ethereum chain). Everything
else, such as `pc`, the state `mem` that the sync loop carries and the
application's uncommitted `work`, is lost in a crash. A hash is the number of
the block it is right for, or `Wrong`; so "the hash agrees with the chain" is
`appHash = appHeight`. `ValidBlock` compares these as `validateBlock` compares the
real ones: a node whose application diverged stops at the next block, not before.

There is one action per durable write, because a crash can fall only between
writes as far as recovery can tell. `Crash` kills both processes, as `start.sh
stop` and a power failure do. `CrashNode` kills tendermint only: the application,
and with it `work`, lives on. `RewindApp` is the application started on an older
copy of its chain, by its own rollback command. `Handshake` follows `ReplayPlan`; replaying with the
application is `ReplayExec` and `ReplayCommit`, block by block, and the last
block goes through the same actions as a synced block, with `mock` set when the
responses on disk take the application's place.

### BlockPool

`requesters` maps each height to the state of its goroutine: `pick` (wants
`pool.mtx` to pick a peer), `assign` (picked, id not stored), `wait` (in the outer
select), `got` (in the inner one), `reset` (redo taken, not yet reset). `redos`
counts goroutines blocked on each `redoCh`. `adding` is the `AddBlock` that keeps
`pool.mtx` while it waits for the requester; `MutexFree` guards every action that
takes `pool.mtx`. A block is known by its sender and verifies unless the sender is
in `BadPeers`. Every peer reports the same height. `received` holds one last
message of a lost peer that `Receive` is still handling. A panic in `Receive` is
recovered by the connection (`recovered`, `stopForError`); one in `poolRoutine`
ends the process (`panicked`).

### Rollback

A validator set is named by the first height it is in force at. `valInfo` is the
history as stored: a set at the heights where it changed, a reference elsewhere.
Both programs are one action per write: `ethermint rollback` moves head header, head
block and head fast block to their parents and deletes a block, for one number after
the other; `tendermint rollback` writes validators entry, state and descriptor, then
deletes one block at a time. The script starts the second program whatever has become
of the first (`start.sh:122-126`): when the first gives up, fails or is killed
(`CrashInAppRollback`), the next step is the second one's. `CrashInRollback` kills the
second; `Crash` is the node stopped or dead, or script and machine going down.
`heads`, `canonical` and `appBlocks` are what `Insert` (go-ethereum's
`WriteBlockAndState` and `insert`) and the command leave in the application's
database: `insert` moves the two other heads only when the block's canonical hash is
new, and the command deletes blocks without their canonical hashes. `faulted` is a
history variable: whether a run of `ethermint rollback` was cut short or began with
heads apart. An application whose head block is gone starts over from genesis
(`loadLastState`); this is the state `genesis`, which is not followed. Applying a
block is coarser than in `FollowerNode`, which has its intermediate states.

### TxPool and PendingPool

`pool` gives for every account a record: its lists `pending` and `queue`, its part of
the index `all`, nonce and balance of `pendingState`, and whether it is local. What
the code does for one account maps such records; what depends on several accounts,
as the global limits do, maps pools to pools, or to the set of pools that the order
in which Go walks a map can lead to. The repository has changed the upstream pool:
only the next pending nonce is accepted, one gas price is valid, and a pending
balance is tracked. `ChainHead` is any block that uses nonces and moves balances.
After a restart the journal is loaded one transaction per step (`loading`, `unread`),
before the pool's loop runs, so that another restart may interrupt it. `PendingPool`
is what the readers of the pool rely on: the executable transactions fill the nonces
from the head's on. `ImplementsPendingPool` shows the refinement; `TxRelay` uses the
pool in that abstract form, restricted to drop only used nonces.

### Mempool

`reqs` and `ress` are the two directions of the ABCI connection. `list` is the
concurrent list of the code: every element ever pushed, which are live, and the
successor a removed element remembers, since the broadcast routines may stand on
one. `block` is the commit in progress: `locked`, `writing` (the application is
inside `Commit` and answers nothing), `committed`; then `Update`, which begins by
waiting for the connection to drain. The cache keeps map and list apart, as
`Remove` updates only the map. The recheck is commented out in the code, so the
model has none.

### TxRelay

Extends `Mempool` by the loop of `txs.go`: `pc` is `select`, `account`, `tx`
(outer and inner loop of `transformTx`), `call` (wants the mempool's lock), `wait`
(for the callback). `events` is a set because every `TxPreEvent` has a goroutine of
its own. `RelayCommit` waits for room in the channel of head events, inside the
application's `Commit`. `Paced` restricts the environment to blocks that come while
that channel has room. `Foreign` are the transactions that peers have from elsewhere,
and `Relayed` all that they may send: those, and whatever the mempool has ever sent
them. `Own` are the accounts of which `Foreign` has nothing but a first transaction
that can be paid; the forwarder's promises are about these.

### Validators

Keys are numbers in the order of the addresses. The strategy is a record of its
current set and its updates; `updateStrategy` keeps track of the objects which the
two lists share, since a second item for an added key changes both. The loops over
items, updates and transactions are functions of how many of them are done
(`StrategyAfter`, `SetAfter`, `DeliveredAfter`) over the body of the loop
(`ApplyItem`, `ApplyUpdate`, `CollectTx`). Powers are integers without a width, so
that an overflow of the code's 64-bit sums is not modelled. A genesis file gives positive powers; it is refused
with a zero one (`genesis.go:76`), and a negative one, which it is not refused for,
is not considered. A block goes
through `stored`, `executed`, `committed` and is done when the State is saved.
`Restart` is a joint restart: `InitChain` hands the saved State's validators to the
strategy, and what follows is the handshake's case for that phase. `chain` is a
node of the network that never restarts; it decides which updates a valid next
block reflects, so that a node which has parted from it gets no further.
`regular` and `missed` are history variables: whether every block had at most one
validator transaction naming each key once, and whether the last restart fell in
the one moment at which the strategy misses a change.

### Evidence

Each entry a piece of evidence has in the store is a write of its own. `saved` is
the set of contents that a failure of the machine may leave: an unsynced write adds
to it, a synced one makes it a singleton. A kill of the process keeps `db` itself,
which is always in `saved`. A receiver verifies under the pool's lock, which
`Update` keeps to its end, and looks into the store and writes to it without one;
`MarkEvidenceAsCommitted` reads the lookup entry in one step and rewrites it in the
next, so that the steps of both may interleave at every read and write.

## 3. Runs

| run | shows |
|---|---|
| `crash_recovery` | with up to three joint crashes or rewinds: always recovers, heights in step, agrees with the chain, evidence pool told at most once, catches up, implements `Ledger` with its liveness |
| `pool_faults` | contiguous requesters, each block held under its sender's name, and none left with a requester that moved on, with one loss or timeout anywhere |
| `pool_sync` | without faults a peer's counter is exact, there is no deadlock, all but the last block are synced |
| `rollback` | two rollbacks, crashes and kills of either program anywhere: no missing block, history intact unless a change was undone, application not ahead unless its half was cut short or found its heads apart; validators right after one rollback, and the node back at the end if neither half was cut short |
| `txpool` | index, pending nonce, pending balance and journal exact through blocks, limits, eviction, rotation and restart; implements `PendingPool` |
| `mempool` | one transaction per nonce and in order, nothing committed stays, peers get everything in order |
| `relay` | pending transactions get to the mempool, in order, and every call ends, while the event channel has room; peers send the first transaction, and back what they were sent |
| `validators` | consecutive commits share a signer, strategy and node agree, updates are never refused, proposers take turns by power |
| `evidence` | known evidence is pending and announced evidence durable in every store a failure can leave; it is broadcast again and again; receivers do not hang |

Every module also states the types of its variables as `TypeOK`. `crash_recovery`
checks it for `FollowerNode`; elsewhere it is a part of the inductive invariant that
is proved, but for `TxRelay`, whose types its invariant states in parts.

`ProposersProportional` is not "nobody is ever a turn off": `IncrementAccum` keeps a
validator from being a whole turn ahead, but one of n may be up to (n - 1) / 2 turns
behind; with powers 1, 1, 1, 11 and 11, in the order of the addresses, one gets to be
1.04 turns behind.

The other three runs each refute one sentence of the repository; the trace TLC
prints is the argument, and `PROJECT.json` quotes the sentence.

| run | what happens |
|---|---|
| `app_survives_node` | transactions of a block are applied twice after the node alone died |
| `validators_restart` | after a crash between the application's commit and `SaveState`, the strategy keeps the validators from before the block |
| `relay_deadlock` | application's `Commit`, forwarder and mempool lock wait for each other once the event channel is full |

More sentences of the code do not hold of the model. They are stated as properties
of the modules and are refuted within two minutes, most within seconds, when put in
the place of a run's properties, with that run's constants unless said otherwise:

* `SyncedAfterHandshake` from an empty chain (`crash_recovery` with `StartHeight = 0`;
  `replay.go:102`): a crash in block 1 is not repaired, because an application height
  of 0 skips the replay and the reactor then refuses to start.
* `EventsPublished` (`execution.go:75`, "fires the relevant events"; `crash_recovery`
  without faults, as a temporal property): the executor keeps the no-op event bus it
  is made with, since nothing outside tests calls `SetEventBus`.
* `RedoFindsBlock` (`pool_faults` with two requests per peer and two drops): a peer is
  lost after its blocks were peeked at; its redo clears the block, and `RedoRequest`
  panics on it.
* `LockHolderProceeds` (`pool_faults`): `AddBlock` holds `pool.mtx` and waits for the
  requester, which has taken a redo and wants `pool.mtx`.
* `RemovedPeerRedone` (`pool.go:209`, "RemovePeer will redo all requesters associated
  with this peer"; `pool_faults`): a peer is picked, removed, and only then stored in
  the requester.
* `NumPendingExact` (`pool.go:57`, "number of requests pending
  assignment or block response"; `pool_faults`): `removePeer` sees no block and does
  not count; a late block is taken and counted off; the redo drops it.
* `AppBehindStore` (`replay.go:112`, "the app should never be ahead of the store (but
  this is under app's control)"; `rollback`): `ethermint rollback` is cut short and
  `tendermint rollback` is not. No kill is needed for a second rollback (start and end
  at heights 3 and 4, no kill but one stop of the node): roll back from 3 to 2, sync
  block 3 again, stop, roll back to 2. The first rollback has kept the canonical hash
  of block 3, so syncing it moves the head block and leaves the head fast block at 2;
  the second counts down from the head fast block, does nothing, and tendermint goes
  back to 2 below the application's 3. The node then refuses to start.
* `HistoricalValidators` (`state.go:37`, "so we can query for historical validator
  sets"; `rollback`): after a rollback over a change a height loads a set that was
  never in force there.
* `StoreAtMostOneAhead` (`replay.go:120`; `rollback`): a kill after the rollback saved
  the state and before it saved the descriptor. The rollback cannot be repeated, as
  the state is at its target.
* `NoStaleTx` (`execution.go:138`, "old txs must be replayed against committed state";
  `mempool` with `Txs <- MCRivals`): a transaction whose nonce another one has used
  stays in the mempool, as nothing is rechecked.
* `EveryTxRouted` (`txs.go:23`, "Transactions sent via the go-ethereum rpc need to be
  routed to tendermint"; `relay` with `Foreign <- MCSecond` and `CacheSize = 2`): a peer
  sends the second transaction of an account first. It is set aside as a future one,
  the forwarder takes "already exists in cache" for success, and it never gets in.
* `CommittedNotPending` (`evidence/store.go:20`, "atomically remove from pending and
  update lookup"; `evidence`): a receiver that has passed the check adds the evidence
  while a block commits it.

### Bounds

* `FollowerNode`: blocks 2 to 4 after a start at 1, one of them without
  transactions, three faults. A recovery involves the last block and the one before;
  three faults give a crash, a crash during the recovery from it, and one during
  that recovery. The theorems cover every length and every number of faults.
* `BlockPool`: two heights that peers have, two requesters (the sync loop looks at
  two), two peers, one request per peer, one drop. `pool_sync` has four heights, three
  requesters and two requests per peer.
* `Rollback`: six heights, validator changes in blocks 2 and 4, so that a rollback
  may land before, between, on and after them; two rollbacks and three crashes or kills
  of either program.
  `StateMatchesChain` and `Resyncs` are claimed for one rollback only: after a
  rollback over a change, a second one reads the wrong reference that
  `HistoricalValidators` is about, and can leave a state whose validators refuse the
  chain.
* `TxPool`: two accounts, three nonces, two costs for one of them, balances 0, 1 and
  3. One slot and one queued transaction per account against two and one in total make
  every limit bite; three journal entries give a journal with duplicates.
* `Mempool`: one account with three nonces, one peer, a cache of one, so that it is
  always full, one request in flight, blocks of up to two transactions. Accounts do
  not interact in the code modelled here. The run has one transaction for each nonce;
  that no two rivals for a nonce are accepted, and that nothing depends on how many
  requests are in flight, is shown by the theorems only.
* `TxRelay`: one account with two nonces, a cache of one, a channel of one event. Two
  transactions are enough for a gap, and the capacity (5000 in the code) only says how
  long it takes to fill. Several accounts, of which peers may send anything, are
  covered by the theorem.
* `Validators`: three keys, four genesis sets, nine blocks without changes (a whole
  rotation) or three blocks with two changes; 101 validator transactions,
  among them negative and zero powers, repeated keys and too few signers, and nine
  pairs of them in a block; one restart.
* `Evidence`: one genuine piece and one that does not verify, two receivers, three
  heights with a maximum age of one, two crashes.

Deadlock checking is off where the system may stop: at the end of a finite chain,
after a panic, where nobody sends anything more. `pool_sync`, `relay` and `evidence`
check it.

### Fairness

`FollowerNode!FairSpec` and `Rollback!FairSpec`: weak fairness of the process's own
steps, which one sequential loop takes; restarting is among them, as an operator
or supervisor does it. Crashes and rollbacks are never fair. `BlockPool!FairSpec`:
weak fairness per goroutine, which the Go scheduler gives, with `pool.mtx` fair
enough that a goroutine waiting for it gets it, and a connected peer that answers;
the run that uses it has no losses. `Mempool!FairSpec`: weak fairness of the
application, of the connection's callback, of a commit that has begun, and of each
broadcast routine; nothing is assumed of peers, users and the chain.
`TxRelay!RelaySpec`: the same, per process, strong fairness where a goroutine waits for a lock
that is taken again and again or in a `select` with several ready cases (Go starves
neither), and the chain goes on, if only by empty blocks: the forwarder is woken by
them. `Evidence!FairSpec`: weak fairness of the writes, strong fairness of ticker and
channel in the routine's `select`.

## 4. Proofs

Every safety invariant that a run checks has a theorem, but for `PeerPendingExact`, and
so has each refinement.
The theorems hold for every value of the constants that the named `ASSUME`s of the
modules allow: heights, limits and budgets are natural numbers, and `Peers`,
`Accounts`, `Txs` and `Keys` are finite sets. Those of
`FollowerNodeProofs` assume `StartHeight > 0` besides, as said below. Each proof module follows one argument: an inductive invariant,
one lemma per action that it is kept, and the properties as its consequences.

| module | proves | inductive invariant |
|---|---|---|
| `FollowerNodeProofs` | `TypeOK`, `NeverStuck`, `SyncedAfterHandshake`, `HeightsInStep`, `AgreesWithChain`, `EvidenceUpdatedOnce`, refinement of `Ledger` (safety) | `TypeOK`, `Durable`, `StepInv`, `EvidenceInv` |
| `EvidenceProofs` | `KnownIsPending`, `AnnouncedIsDurable` | both, `Types`, `Steps` |
| `RollbackProofs` | `TypeOK`, `StateMatchesChain`, `HistoryIntact`, `StoreComplete`, `AppNeverAhead` | these but the last, `StepHeights`, `FirstRollback`, `History`, `AppTypes`, `AppHeights` |
| `BlockPoolProofs` | `TypeOK`, `RequestersContiguous`, `BlockFromAssignedPeer`, `HandedOver` | `TypeOK`, `Room`, `Requesters`, `InUse`, the first and third |
| `MempoolProofs` | `AcceptedInNonceOrder`, `NoCommittedTx`, `SentInOrder` | `TypeOK`, `SoundList`, `SoundRoutine`, `NonceOrder`, `Uncommitted` |
| `TxRelayProofs` | `NoneSetAside` | `RInv`: that of `Mempool`, `AppInv`, `PoolInv`, `SoundLoop`, `SoundCalls`, `Gapless`, `SoundCache`, `NoneSetAside` |
| `TxPoolProofs` | `TypeOK`, `IndexExact`, `PendingNonceExact`, `QueueWaits`, `BalanceReserved`, `JournalCovers`, refinement of `PendingPool` | `TypeOK`, `Whole`, `Journaled` |
| `ValidatorsProofs` | `TypeOK`, `CommitsShareSigner`, `UpdatesAccepted`, `StrategyMatchesState`, `ProposersProportional` | `TypeOK`, `Accepted`, `Close`, `InStep`, `Proportions` |

**FollowerNode**, under joint crashes and rewinds, for every `StartHeight > 0`. The
assumption on `StartHeight` is needed: for 0 `SyncedAfterHandshake` fails, as said
above. So is the joint crash: `app_survives_node` is the counterexample. `Durable` is
what holds of the databases at any instant, so also after a crash: heights in step,
all blocks present up to the descriptor, hashes right, and the responses saved when
the application is one block ahead. `StepInv` is what the volatile state adds at each
`pc`, for example that outside the execution of a block the application has no work.
None of the properties is inductive alone: `NeverStuck` needs `PlanRecovers`, the
lemma that the handshake's decision, in a state that satisfies `Durable`, is one of
three plans that succeed; that needs the heights in step; and `AgreesWithChain` needs
that `work` is empty whenever a block is begun.

**Evidence.** `Steps` says what a goroutine in the middle of its writes relies on: a
receiver about to write the lookup entry has its evidence among the pending or in a
block, and one about to announce it has a lookup entry in every store that a failure
may leave. Without it neither property survives the next write.

**Rollback.** `History` is the form in which `HistoryIntact` is inductive: not that a
height loads its set, but that its entry refers to the height where the set came into
force, and that this entry holds it. `FirstRollback` keeps what the command has read
before it writes; `StepHeights` orders the heights of the node's databases at each of
its steps. `AppNeverAhead` has an invariant of its own about the application,
`AppHeights`: while nothing has gone wrong, the heads are where the steps of
`rollbackBlock` have them, so that its loop ends with the head block at the target,
and tendermint's half begins with the application at the target or below.

**BlockPool.** `Requesters` ties the fields of a requester to the step its goroutine is
at; `InUse` says that the heights which `AddBlock` and `poolRoutine` have looked at
keep their requesters while the lock is released; `Room` bounds their number.

**Mempool.** `SoundList` says that a removed element points forward and past no live
element; `SoundRoutine` that a broadcast routine, which may stand on a removed element,
has sent every live element before it. `NonceOrder` extends the order of the list to
the good answers still on the connection; `Uncommitted` says that a committed
transaction is accepted only while the `Update` that removes it is still to come.

**TxRelay.** The theorem is about the accounts in `Own`; peers may send anything of
the others, and of these what the mempool has sent them before. Beyond `Own` it is false:
the mempool sets aside, or refuses, a transaction that the forwarder has found in the
cache and counted as accepted (section 3). `Reached` says that the application has
passed a nonce, or will have when it has answered the requests before; `SoundLoop` says
so of the nonce that the loop goes by, `Gapless` of every request, `SoundCache` of every
cached transaction. A transaction that comes back from a peer is one the application
has accepted, by `NonceOrder` of `MempoolProofs`.

**TxPool.** `Settled` describes one account: the index is the union of the lists, the
pending nonces run without a gap from the head's nonce to the pending nonce, what is
queued lies beyond, and the pending balance is at most what the pending transactions
leave of the head's. `Listed` is the same in the middle of an operation, where a
transaction that has become executable may still be queued. What the pool's operations
do to the sums of costs rests on lemmas about sums over finite sets, proved by
induction over subsets. `Journaled` covers the loading of the journal, interrupted or
not. The refinement maps `pool` to its pending lists: every step is a step of
`PendingPool` or leaves it unchanged.

**Validators.** `Close` says that the set and the one before it differ, summed over all
keys, by at most a third of the earlier total; `QuorumsMeet` derives from it that two
thirds of one and two thirds of the other have a member in common. That an accepted
list of updates moves no more than `Change` counts for it (`UpdatesMove`) is not
obvious: `Change` measures every item against the set before the first item, and a
list may name a key repeatedly, so the lemma is that the repeated ones only add to the
count. It also shows that no list empties the set. `InStep` follows the strategy's copy
through the phases of a block, executed once or again after a restart; it rests on
`RegularStrategy`, that on a list without repeated keys the strategy's loop and the
node's, which handle shared objects differently, come to the same powers.
`Proportions` is about the priorities that `IncrementAccum` rotates. The bound on a
single validator is not inductive. `Balanced` is: the priorities sum to zero, none is
a whole total below zero, and those of any m of n validators sum to at most
m (n - m) / (m + 1) totals; a turn that goes elsewhere is covered by the bound for
m + 1 of them, as the proposer had the highest priority. `Accounts` relates priorities
to turns.

Induction. The recursive functions of the models are unfolded by lemmas that the
function exists and satisfies its equation at every argument; induction is used for
sets (`SubsetInduction`, `NatSetInduction`), as a theorem over an operator cannot be
instantiated by the provers.

Only model-checked: all liveness (`CatchesUp`, `BlocksSynced`, `Resyncs`,
`TxsReachPeers`, `RoutedToTendermint`, `CheckTxAnswered`, `ContinuouslyBroadcast`,
`AddEvidenceReturns`, the liveness part of `Ledger`), which needs fairness and
`ENABLED`. Outside the theorems' hypotheses the models say nothing either way but for
the counterexamples of section 3: `FollowerNode` with independent crashes, the pool's
counters once peers are lost, accounts outside `Own`, the application after a rollback
that was cut short.

## 5. Not modelled, and why

* The genesis document may start a chain at a later block; the handshake then
  treats an empty `LastValidators` apart (`replay.go:64`). Not modelled.
* Consensus parameters never change on this chain's application and are left out.
* Signatures, Merkle roots and encodings are abstract: a block verifies or not.
* A connection is removed in one step; that the switch forgets a peer a moment
  before the reactor does is not visible. Every peer reports the last height from the
  start; the update of a known peer's height (`pool.go:250`) is left out.
* In `Rollback` an application that starts over from genesis is not followed, and the
  four deletions of `DeleteBlock` (`database_util.go:518`) are one step.
* Serving blocks, RPC queries, indexing, PEX and the address book are I/O around the
  parts above.
* Consensus itself, vote sets and the signer (`types/priv_validator.go`) are in the
  repository, but a follower does not run them.
* `Validators` restarts both processes together and does not roll the application
  back: replaying several old blocks on top of `InitChain`'s latest validators
  (`replay.go:193`) would need the product with `FollowerNode`'s rewinds.
* `Mempool` leaves out `Reap` and the write-ahead log; `NotifyTx` is never called by a
  follower, so that rechecking future transactions never happens. It knows Ethereum
  transactions only: validator transactions, which `CheckTx` accepts without a nonce
  (`app.go:221`), are left out. A transaction is its bytes and its hash at once, although
  `Update` compares the one (`mempool.go:534`) and the application the other
  (`app.go:410`). A failed connection to the application, after which a transaction
  stays in the cache (`mempool.go:267`), is left out. A broadcast
  routine ends when its peer has quit; that it may first retry a failed `Send`
  (`mempool/reactor.go:139`) is not shown. The concurrent list and the key-value store
  belong to tmlibs, which tendermint compiles against and `src/` does not have but as a
  vendored copy of another library; they are modelled from their use.
* `TxRelay` has no cap of 2000 on the transactions taken per head event (`txs.go:101`),
  and no failing call of the RPC server, after which the loop leaves the account
  (`txs.go:191`).
* `TxPool` has one gas price, as the code accepts one; the price heap then decides
  nothing. Transactions come by RPC only, since the Ethereum protocol is not run. The
  follower's chain does not reorganise, so that `reset` puts nothing back, and its head
  state is always there (`tx_pool.go:402-457`).
* In `Validators` the signers of a validator transaction are a set; the code counts the
  entries of a map whose keys it compares in lower case (`validator_tx.go:154-169`).
* In `Evidence` `MarkEvidenceAsBroadcasted` reads the lookup entry and deletes from the
  queue in one step (`store.go:157-159`); no property reads the queue. `KnownIsPending`
  is about evidence that no block has; what the store keeps of evidence in blocks is
  the subject of `CommittedNotPending` (section 3).
* The record database (`third_part/txmgr`) is written during execution and read by
  queries only.
* The light client is a separate command.
* The EVM, the trie, cryptography and ABI encoding are libraries; an execution is one
  step with a hash that is right or wrong.

## 6. Plan

1. `NoneSetAside` for all accounts, once the code tells "in the cache" from "accepted".
2. The counters of the block pool with lost peers, once `removePeer` and a late block
   agree on who counts.
3. `AppNeverAhead` without its premise, once the script heeds the first program's exit
   code and `ethermint rollback` counts down from its head block.
4. `Validators` with rewinds of the application.
5. The light client's certifier over validator changes; the switch's peer set with
   its connection attempts.
