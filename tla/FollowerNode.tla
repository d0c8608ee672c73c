----------------------------- MODULE FollowerNode -----------------------------
(***************************************************************************)
(* A follower node that copies the chain from its peers: the block store,  *)
(* the saved state and the application's own chain are three databases     *)
(* written one after the other for every block, by two processes           *)
(* (tendermint and ethermint) that may die between any two writes.  The    *)
(* handshake that starts the node brings them back into step.              *)
(*                                                                         *)
(* Blocks are known by their height: the peers' chain is final.  A hash    *)
(* (app hash, results hash) that agrees with the chain after block h is    *)
(* the number h; any other hash is Wrong.                                  *)
(***************************************************************************)
EXTENDS Handshake, FiniteSets

CONSTANTS
  MaxHeight,    \* the last block the peers can hand over
  StartHeight,  \* the height the node was left at by a clean shutdown
  TxHeights,    \* the blocks that carry at least one Ethereum transaction
  MaxFaults     \* how many crashes and application rewinds are considered

Heights == 1..MaxHeight

ASSUME HeightAssumption ==
  /\ MaxHeight \in Nat \ {0}
  /\ StartHeight \in 0..MaxHeight
  /\ TxHeights \subseteq Heights
  /\ MaxFaults \in Nat

Wrong == -1   \* a hash that disagrees with the chain
None  == -2   \* nothing saved, or nothing executed

Hash == 0..MaxHeight \cup {Wrong}

VARIABLES
  storeHeight,  \* block store: the height in its JSON descriptor
  blocks,       \* block store: the heights whose meta, parts and commits are written
  st,           \* state DB: the saved State
  responses,    \* state DB: the saved ABCIResponses of each height
  appHeight,    \* application: number of its head block
  appHash,      \* application: hash of its head block
  work,         \* application, in memory: what the delivered transactions lead to
  pc,           \* the step the node is at
  mem,          \* node, in memory: the State it works with
  blk,          \* the block being saved, applied or replayed
  final,        \* the last block of replayBlocks' loop
  mock,         \* whether the block is applied with the mock application
  syncing,      \* whether the caller of ApplyBlock is the fast sync loop
  result,       \* the ABCIResponses of the block being applied
  poolHeight,   \* BlockPool.height: the next block to sync
  updated,      \* how often EvidencePool.Update has been called for each block
  published,    \* the blocks whose events have reached the node's event bus
  faults        \* crashes and rewinds so far

durable == <<storeHeight, blocks, st, responses, appHeight, appHash>>
volatile == <<work, pc, mem, blk, final, mock, syncing, result, poolHeight>>
vars == <<durable, volatile, updated, published, faults>>

State == [height : 0..MaxHeight, appHash : Hash, results : Hash]
At(h) == [height |-> h, appHash |-> h, results |-> h]

Steps == {"off", "panicked", "replay", "replayCommit", "reactor", "idle",
          "saveDescriptor", "validate", "exec", "saveResponses", "commit",
          "saveState", "publish"}

Init ==
  /\ storeHeight = StartHeight
  /\ blocks = 1..StartHeight
  /\ st = At(StartHeight)
  /\ responses = [h \in Heights |-> IF h <= StartHeight THEN h ELSE None]
  /\ appHeight = StartHeight
  /\ appHash = StartHeight
  /\ work = None
  /\ pc = "off"
  /\ mem = At(StartHeight)
  /\ blk = 0
  /\ final = 0
  /\ mock = FALSE
  /\ syncing = FALSE
  /\ result = None
  /\ poolHeight = 0
  /\ updated = [h \in Heights |-> 0]
  /\ published = {}
  /\ faults = 0

-----------------------------------------------------------------------------
(***************************************************************************)
(* The application.  DeliverTx runs a transaction on the work in progress, *)
(* which only Commit and a restart of the process reset: BeginBlock        *)
(* empties its lists of transactions and receipts but keeps its state.     *)
(***************************************************************************)
Executes(b) == work = None /\ appHash = b - 1

\* The results of block b's transactions.
TxResults(b) == IF b \notin TxHeights \/ Executes(b) THEN b ELSE Wrong

\* The work in progress once block b has been delivered.
WorkAfter(b) == IF b \notin TxHeights THEN work
                ELSE IF Executes(b) THEN b ELSE Wrong

\* The hash of the block the application writes when it commits b.
CommitHash(b) == IF work = b \/ Executes(b) THEN b ELSE Wrong

AppCommit(b) ==
  /\ appHeight' = appHeight + 1
  /\ appHash' = CommitHash(b)
  /\ work' = None

-----------------------------------------------------------------------------
(***************************************************************************)
(* Starting the node: Handshake, ReplayBlocks and NewBlockchainReactor.    *)
(***************************************************************************)

\* Faulty variant: the replay starts at the head, not after it.
HandshakeReplaysHead ==
  /\ pc \in {"off", "panicked"}
  /\ mem' = st
  /\ syncing' = FALSE
  /\ LET plan == ReplayPlan(storeHeight, st.height, appHeight) IN
       \/ /\ plan \in {"skip", "checkAppHash", "error", "panic"}
          /\ pc' = IF plan = "skip" \/ (plan = "checkAppHash" /\ st.appHash = appHash)
                   THEN "reactor" ELSE "panicked"
          /\ UNCHANGED <<blk, final, mock>>
       \/ /\ plan \in {"replayApp", "replayAppState"}
          /\ pc' = "replay"
          /\ blk' = appHeight
          /\ final' = st.height
          /\ mock' = FALSE
       \/ /\ plan \in {"replayReal", "replayMock"}
          /\ pc' = IF /\ storeHeight \in blocks
                      /\ plan = "replayMock" => responses[storeHeight] # None
                   THEN "validate" ELSE "panicked"
          /\ blk' = storeHeight
          /\ mock' = (plan = "replayMock")
          /\ UNCHANGED final
  /\ UNCHANGED <<durable, work, result, poolHeight, updated, published, faults>>

\* Handshake asks the application for its height and ReplayBlocks chooses.
Handshake ==
  /\ pc \in {"off", "panicked"}
  /\ mem' = st
  /\ syncing' = FALSE
  /\ LET plan == ReplayPlan(storeHeight, st.height, appHeight) IN
       \/ /\ plan \in {"skip", "checkAppHash", "error", "panic"}
          /\ pc' = IF plan = "skip" \/ (plan = "checkAppHash" /\ st.appHash = appHash)
                   THEN "reactor" ELSE "panicked"
          /\ UNCHANGED <<blk, final, mock>>
       \/ /\ plan \in {"replayApp", "replayAppState"}
          /\ pc' = "replay"
          /\ blk' = appHeight + 1
          /\ final' = st.height
          /\ mock' = FALSE
       \/ /\ plan \in {"replayReal", "replayMock"}
          /\ pc' = IF /\ storeHeight \in blocks
                      /\ plan = "replayMock" => responses[storeHeight] # None
                   THEN "validate" ELSE "panicked"
          /\ blk' = storeHeight
          /\ mock' = (plan = "replayMock")
          /\ UNCHANGED final
  /\ UNCHANGED <<durable, work, result, poolHeight, updated, published, faults>>

\* replayBlocks loads the next block and runs it on the application ...
ReplayExec ==
  /\ pc = "replay"
  /\ blk <= final
  /\ IF blk \in blocks
     THEN pc' = "replayCommit" /\ work' = WorkAfter(blk)
     ELSE pc' = "panicked" /\ UNCHANGED work
  /\ UNCHANGED <<durable, mem, blk, final, mock, syncing, result, poolHeight,
                 updated, published, faults>>

\* ... and commits it, touching neither the state nor the responses.
ReplayCommit ==
  /\ pc = "replayCommit"
  /\ AppCommit(blk)
  /\ blk' = blk + 1
  /\ pc' = "replay"
  /\ UNCHANGED <<storeHeight, blocks, st, responses, mem, final, mock, syncing,
                 result, poolHeight, updated, published, faults>>

\* Faulty variant: the state is not given the last block.
ReplayDoneForgetsLast ==
  /\ pc = "replay"
  /\ blk > final
  /\ pc' = IF mem.appHash = appHash THEN "reactor" ELSE "panicked"
  /\ UNCHANGED blk
  /\ UNCHANGED <<durable, work, mem, final, mock, syncing, result, poolHeight,
                 updated, published, faults>>

\* The loop is over: apply the last block as well if the state lacks it, or
\* compare the application's hash with the state's.
ReplayDone ==
  /\ pc = "replay"
  /\ blk > final
  /\ IF storeHeight = mem.height + 1
     THEN /\ pc' = IF storeHeight \in blocks THEN "validate" ELSE "panicked"
          /\ blk' = storeHeight
     ELSE /\ pc' = IF mem.appHash = appHash THEN "reactor" ELSE "panicked"
          /\ UNCHANGED blk
  /\ UNCHANGED <<durable, work, mem, final, mock, syncing, result, poolHeight,
                 updated, published, faults>>

\* Faulty variant: the pool starts at the last stored block.
NewBlockchainReactorOffByOne ==
  /\ pc = "reactor"
  /\ mem' = st
  /\ IF st.height = storeHeight
     THEN pc' = "idle" /\ poolHeight' = storeHeight
     ELSE pc' = "panicked" /\ UNCHANGED poolHeight
  /\ UNCHANGED <<durable, work, blk, final, mock, syncing, result, updated,
                 published, faults>>

\* NewNode reloads the state; NewBlockchainReactor insists that it is level
\* with the store and makes a pool that starts at the next height.
NewBlockchainReactor ==
  /\ pc = "reactor"
  /\ mem' = st
  /\ IF st.height = storeHeight
     THEN pc' = "idle" /\ poolHeight' = storeHeight + 1
     ELSE pc' = "panicked" /\ UNCHANGED poolHeight
  /\ UNCHANGED <<durable, work, blk, final, mock, syncing, result, updated,
                 published, faults>>

-----------------------------------------------------------------------------
(***************************************************************************)
(* Fast sync: poolRoutine pops a block whose commit it has verified, saves *)
(* it and applies it.                                                      *)
(***************************************************************************)

\* PopRequest, and the part of SaveBlock that writes the block's data.
SaveBlockData ==
  /\ pc = "idle"
  /\ poolHeight <= MaxHeight
  /\ poolHeight' = poolHeight + 1
  /\ blk' = poolHeight
  /\ IF poolHeight = storeHeight + 1
     THEN pc' = "saveDescriptor" /\ blocks' = blocks \cup {poolHeight}
     ELSE pc' = "panicked" /\ UNCHANGED blocks
  /\ UNCHANGED <<storeHeight, st, responses, appHeight, appHash, work, mem, final,
                 mock, syncing, result, updated, published, faults>>

\* Faulty variant: the descriptor is not on disk when SaveBlock returns.
SaveBlockDescriptorLost ==
  /\ pc = "saveDescriptor"
  /\ pc' = "validate"
  /\ syncing' = TRUE
  /\ mock' = FALSE
  /\ UNCHANGED <<storeHeight, blocks, st, responses, appHeight, appHash, work, mem,
                 blk, final, result, poolHeight, updated, published, faults>>

\* The write of SaveBlock that makes the block visible after a restart.
SaveBlockDescriptor ==
  /\ pc = "saveDescriptor"
  /\ storeHeight' = blk
  /\ pc' = "validate"
  /\ syncing' = TRUE
  /\ mock' = FALSE
  /\ UNCHANGED <<blocks, st, responses, appHeight, appHash, work, mem, blk, final,
                 result, poolHeight, updated, published, faults>>

-----------------------------------------------------------------------------
(***************************************************************************)
(* ApplyBlock, for the fast sync loop and for the handshake's replayBlock. *)
(***************************************************************************)

\* The header of block b carries the app hash and results hash of block b - 1.
ValidBlock(b, s) ==
  /\ b = s.height + 1
  /\ s.appHash = b - 1
  /\ s.results = b - 1

ValidateBlock ==
  /\ pc = "validate"
  /\ pc' = IF ValidBlock(blk, mem) THEN "exec" ELSE "panicked"
  /\ UNCHANGED <<durable, work, mem, blk, final, mock, syncing, result, poolHeight,
                 updated, published, faults>>

\* BeginBlock, the DeliverTxs and EndBlock, on the application or the mock.
ExecBlockOnProxyApp ==
  /\ pc = "exec"
  /\ IF mock
     THEN result' = responses[blk] /\ UNCHANGED work
     ELSE result' = TxResults(blk) /\ work' = WorkAfter(blk)
  /\ pc' = "saveResponses"
  /\ UNCHANGED <<durable, mem, blk, final, mock, syncing, poolHeight, updated,
                 published, faults>>

SaveABCIResponses ==
  /\ pc = "saveResponses"
  /\ responses' = [responses EXCEPT ![blk] = result]
  /\ pc' = "commit"
  /\ UNCHANGED <<storeHeight, blocks, st, appHeight, appHash, work, mem, blk,
                 final, mock, syncing, result, poolHeight, updated, published,
                 faults>>

\* Faulty variant: the real application commits whatever the mock stands for.
CommitTwice ==
  /\ pc = "commit"
  /\ AppCommit(blk)
  /\ mem' = [height |-> blk, appHash |-> appHash', results |-> result]
  /\ pc' = "saveState"
  /\ UNCHANGED <<storeHeight, blocks, st, responses, blk, final, mock, syncing,
                 result, poolHeight, updated, published, faults>>

\* Faulty variant: the evidence pool is updated at the commit, before the state is
\* saved.
CommitUpdatesEvidence ==
  /\ pc = "commit"
  /\ IF mock
     THEN UNCHANGED <<appHeight, appHash, work>>
     ELSE AppCommit(blk)
  /\ mem' = [height |-> blk, appHash |-> appHash', results |-> result]
  /\ pc' = "saveState"
  /\ UNCHANGED <<storeHeight, blocks, st, responses, blk, final, mock, syncing,
                 result, poolHeight, published, faults>>
  /\ updated' = IF syncing THEN [updated EXCEPT ![blk] = @ + 1] ELSE updated

\* updateState and Commit: the mock returns the hash the application reported.
Commit ==
  /\ pc = "commit"
  /\ IF mock
     THEN UNCHANGED <<appHeight, appHash, work>>
     ELSE AppCommit(blk)
  /\ mem' = [height |-> blk, appHash |-> appHash', results |-> result]
  /\ pc' = "saveState"
  /\ UNCHANGED <<storeHeight, blocks, st, responses, blk, final, mock, syncing,
                 result, poolHeight, updated, published, faults>>

SaveState ==
  /\ pc = "saveState"
  /\ st' = mem
  /\ pc' = "publish"
  /\ UNCHANGED <<storeHeight, blocks, responses, appHeight, appHash, work, mem,
                 blk, final, mock, syncing, result, poolHeight, updated, published,
                 faults>>

\* What fireEvents publishes for block b: NewBlockExecutor installs NopEventBus
\* and no caller of the node replaces it.
fireEvents(b) == {}

\* EvidencePool.Update and fireEvents.  The executor of the handshake has a mock
\* evidence pool.
Publish ==
  /\ pc = "publish"
  /\ \/ /\ ~syncing
        /\ pc' = "reactor"
        /\ UNCHANGED <<updated, published>>
     \/ /\ syncing
        /\ IF st.height = blk
           THEN /\ pc' = "idle"
                /\ updated' = [updated EXCEPT ![blk] = @ + 1]
                /\ published' = published \cup fireEvents(blk)
           ELSE pc' = "panicked" /\ UNCHANGED <<updated, published>>
  /\ UNCHANGED <<durable, work, mem, blk, final, mock, syncing, result, poolHeight,
                 faults>>

-----------------------------------------------------------------------------
(***************************************************************************)
(* The environment.                                                        *)
(***************************************************************************)
Running == pc \notin {"off", "panicked"}

\* Both processes die.  An application that dies alone takes the node with it:
\* its next ABCI call fails.
Crash ==
  /\ Running
  /\ faults < MaxFaults
  /\ faults' = faults + 1
  /\ pc' = "off"
  /\ work' = None
  /\ UNCHANGED <<durable, mem, blk, final, mock, syncing, result, poolHeight,
                 updated, published>>

\* The node dies and the application does not notice.
CrashNode ==
  /\ Running
  /\ faults < MaxFaults
  /\ faults' = faults + 1
  /\ pc' = "off"
  /\ UNCHANGED <<durable, work, mem, blk, final, mock, syncing, result, poolHeight,
                 updated, published>>

\* The operator runs `ethermint rollback` alone, on an application whose chain
\* is right: its head moves to an earlier block.
RewindApp ==
  /\ ~Running
  /\ faults < MaxFaults
  /\ appHash = appHeight
  /\ faults' = faults + 1
  /\ \E h \in 1..(appHeight - 1) : appHeight' = h /\ appHash' = h
  /\ work' = None
  /\ pc' = "off"
  /\ UNCHANGED <<storeHeight, blocks, st, responses, mem, blk, final, mock,
                 syncing, result, poolHeight, updated, published>>

NodeStep ==
  \/ Handshake \/ ReplayExec \/ ReplayCommit \/ ReplayDone \/ NewBlockchainReactor
  \/ SaveBlockData \/ SaveBlockDescriptor
  \/ ValidateBlock \/ ExecBlockOnProxyApp \/ SaveABCIResponses \/ Commit
  \/ SaveState \/ Publish

Next == NodeStep \/ Crash \/ RewindApp

Spec == Init /\ [][Next]_vars

\* The process runs when it can, and is started again when it is down.
FairSpec == Spec /\ WF_vars(NodeStep)

\* The two processes fail independently.
NextIndependent == NodeStep \/ Crash \/ CrashNode
SpecIndependent == Init /\ [][NextIndependent]_vars

-----------------------------------------------------------------------------
(***************************************************************************)
(* Properties.                                                             *)
(***************************************************************************)

\* The values each variable may hold.
TypeOK ==
  /\ storeHeight \in 0..MaxHeight
  /\ blocks \subseteq Heights
  /\ st \in State
  /\ responses \in [Heights -> Hash \cup {None}]
  /\ appHeight \in 0..MaxHeight
  /\ appHash \in Hash
  /\ work \in Hash \cup {None}
  /\ pc \in Steps
  /\ mem \in State
  /\ blk \in 0..(MaxHeight + 1)
  /\ final \in 0..MaxHeight
  /\ mock \in BOOLEAN
  /\ syncing \in BOOLEAN
  /\ result \in Hash \cup {None}
  /\ poolHeight \in 0..(MaxHeight + 1)
  /\ updated \in [Heights -> Nat]
  /\ published \subseteq Heights
  /\ faults \in 0..MaxFaults

\* No sequence of crashes, restarts and application rewinds takes the node to a
\* state in which the handshake, NewBlockchainReactor, SaveBlock, ApplyBlock or
\* EvidencePool.Update gives up: whatever write the crash fell between, the next
\* handshake recovers (replay.go:21, "Recover from failure during block
\* processing by handshaking with the app to figure out where we were last").
NeverStuck == pc # "panicked"

\* When ReplayBlocks returns without an error, the application and the state
\* are both at the last stored block (app-development.rst:552, "to ensure both
\* Tendermint and the app are synced to the latest block height").
SyncedAfterHandshake ==
  pc = "reactor" => appHeight = storeHeight /\ st.height = storeHeight

\* The block store is level with the saved state or one block ahead, and the
\* application is never ahead of the block store: what ReplayBlocks takes for
\* granted (replay.go:120) holds at every instant a crash may strike.
HeightsInStep ==
  /\ st.height <= storeHeight
  /\ storeHeight <= st.height + 1
  /\ appHeight <= storeHeight

\* A block that the application has committed and the state lacks can be
\* applied without the application: it is stored whole and the results saved
\* with it are the ones of its one execution (replay.go:156-166).
MockReplayable ==
  appHeight = st.height + 1 =>
    /\ appHeight \in blocks
    /\ responses[appHeight] = appHeight

\* The application, the saved state and the saved responses hold what the
\* chain's other nodes computed: no block is executed twice, skipped, or
\* executed on the leftovers of an interrupted execution.
AgreesWithChain ==
  /\ appHash = appHeight
  /\ st.appHash = st.height
  /\ st.results = st.height
  /\ \A h \in Heights : responses[h] \in {None, h}

\* The evidence pool is told of a block at most once over all restarts, and only
\* once the state that contains the block is saved (execution.go:124-127).
EvidenceUpdatedOnce ==
  \A h \in Heights : updated[h] <= (IF h <= st.height THEN 1 ELSE 0)

\* "ApplyBlock validates the block against the state, executes it against the app,
\* fires the relevant events" (execution.go:75-76): without any fault, the events
\* of every block that is synced reach the node's event bus.
EventsPublished == <>((StartHeight + 1)..MaxHeight \subseteq published)

\* Once crashes stop, the store, the state and the application all reach the
\* end of the peers' chain and stay there.
CatchesUp ==
  <>[](storeHeight = MaxHeight /\ st = At(MaxHeight) /\ appHeight = MaxHeight)

L == INSTANCE Ledger WITH First <- StartHeight, Last <- MaxHeight,
       stored <- storeHeight, executed <- appHeight, recorded <- st.height

\* The node is a ledger: every write to one of the three databases is a stage
\* of the one block in flight or leaves the ledger as it was, and a block in
\* flight always moves on.
ImplementsLedger == L!LedgerSpec

\* The safety part of the same.
ImplementsLedgerSafety == L!LedgerSafety

=============================================================================
