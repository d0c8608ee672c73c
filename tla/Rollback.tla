------------------------------- MODULE Rollback -------------------------------
(***************************************************************************)
(* The `rollback` command of tools/start.sh, which takes the application   *)
(* and then tendermint back to an earlier height, and the history of       *)
(* validator sets in the state DB that it reads and rewrites.              *)
(*                                                                         *)
(* A validator set is known by the first height it is in force at, and 0   *)
(* stands for nil.  Stored blocks are the chain's own, so the hashes,      *)
(* times and totals that the command copies from their headers are right   *)
(* by construction and left out.  The single steps of applying a block     *)
(* and of the handshake's replay are those of FollowerNode.                *)
(*                                                                         *)
(* The application's database holds three heads: of the blocks, which is   *)
(* the height it reports, of the headers and of the fast blocks.  A new    *)
(* block moves all three, but one whose canonical hash is there already    *)
(* moves the first alone, and `ethermint rollback` deletes blocks without  *)
(* their canonical hashes.                                                 *)
(***************************************************************************)
EXTENDS Handshake, FiniteSetsExt

CONSTANTS
  MaxHeight,     \* the last block the peers can hand over
  StartHeight,   \* the height the node was left at by a clean shutdown
  ValChanges,    \* the blocks whose EndBlock changes the validator set
  MaxRollbacks,  \* how often the operator rolls back
  MaxCrashes     \* how many crashes are considered

Heights == 1..MaxHeight

ASSUME RollbackAssumption ==
  /\ MaxHeight \in Nat \ {0}
  /\ StartHeight \in Heights
  /\ ValChanges \subseteq Heights
  /\ MaxRollbacks \in Nat
  /\ MaxCrashes \in Nat

Nil == 0

VARIABLES
  storeHeight,  \* block store: the height in its JSON descriptor
  blocks,       \* block store: the heights whose block is written
  st,           \* state DB: the saved State
  valInfo,      \* state DB: the ValidatorsInfo of each height
  responses,    \* state DB: the heights whose ABCIResponses are saved
  appHeight,    \* application: number of its head block
  heads,        \* application: numbers of its head header and head fast block
  canonical,    \* application: the last number with a canonical hash
  appBlocks,    \* application: the blocks in its database, genesis aside
  pc,           \* the step the node or the rollback command is at
  target,       \* rollback: the height to go back to
  mem,          \* rollback: the State about to be saved
  cursor,       \* rollback: ethermint's currentHeader, then the next block to delete
  crossed,      \* whether a rollback went back over a validator change
  killed,       \* whether `tendermint rollback` was killed
  faulted,      \* whether `ethermint rollback` was cut short or found the heads apart
  rollbacks, crashes

appDB == <<appHeight, heads, canonical, appBlocks>>
vars == <<storeHeight, blocks, st, valInfo, responses, appDB, pc, target,
          mem, cursor, crossed, killed, faulted, rollbacks, crashes>>

\* The chain's validator set at height h: a change by block c is in force at c + 1.
ValidatorsAt(h) == Max({1} \cup {c + 1 : c \in {b \in ValChanges : b < h}})

State == [height : Heights, vals : 0..(MaxHeight + 1),
          lastVals : 0..(MaxHeight + 1), changed : 1..(MaxHeight + 1)]
ValidatorsInfo == [changed : 0..(MaxHeight + 1), set : 0..(MaxHeight + 1)]

StateAt(h) == [height |-> h, vals |-> ValidatorsAt(h + 1),
               lastVals |-> ValidatorsAt(h), changed |-> ValidatorsAt(h + 1)]

Stopped == pc \in {"off", "panicked"}
InAppRollback == pc \in {"rollbackApp", "raHeader", "raBlock", "raFast", "raDelete"}
InRollback == pc \in {"rollback", "rbState", "rbDescriptor", "rbDelete"}
InCommand == InAppRollback \/ InRollback

\* saveValidatorsInfo keeps the set itself only at the height it changed.
InfoFor(height, changed, vals) ==
  [changed |-> changed, set |-> IF changed = height THEN vals ELSE Nil]

Init ==
  /\ storeHeight = StartHeight
  /\ blocks = 1..StartHeight
  /\ st = StateAt(StartHeight)
  /\ valInfo = [h \in 1..(MaxHeight + 1) |->
                  IF h <= StartHeight + 1
                  THEN InfoFor(h, ValidatorsAt(h), ValidatorsAt(h))
                  ELSE [changed |-> Nil, set |-> Nil]]
  /\ responses = 1..StartHeight
  /\ appHeight = StartHeight
  /\ heads = [header |-> StartHeight, fast |-> StartHeight]
  /\ canonical = StartHeight
  /\ appBlocks = 1..StartHeight
  /\ pc = "off"
  /\ target = 0
  /\ mem = st
  /\ cursor = 0
  /\ crossed = FALSE
  /\ killed = FALSE
  /\ faulted = FALSE
  /\ rollbacks = 0
  /\ crashes = 0

\* LoadValidators follows one reference when the entry holds no set.
HasValidators(h) ==
  /\ valInfo[h].changed # Nil
  /\ valInfo[h].set = Nil => valInfo[valInfo[h].changed].changed # Nil
LoadValidators(h) ==
  IF valInfo[h].set # Nil THEN valInfo[h].set ELSE valInfo[valInfo[h].changed].set

-----------------------------------------------------------------------------
(***************************************************************************)
(* The node: handshake, fast sync and ApplyBlock.                          *)
(***************************************************************************)

\* WriteBlockAndState for the block after the head, or several in turn up to b.
Insert(b) ==
  /\ appHeight' = b
  /\ appBlocks' = appBlocks \cup (appHeight + 1)..b
  /\ canonical' = IF b > canonical THEN b ELSE canonical
  /\ heads' = IF b > canonical THEN [header |-> b, fast |-> b] ELSE heads

\* loadLastState, the handshake and NewBlockchainReactor.  A plan that ends in
\* ApplyBlock goes through the same steps as fast sync.  An application whose head
\* is the genesis block, or is gone from the database, starts over from genesis;
\* what the chain's next blocks do to it then is not followed.
StartNode ==
  /\ Stopped
  /\ LET plan == ReplayPlan(storeHeight, st.height, appHeight)
         stored(lo) == lo..storeHeight \subseteq blocks
     IN \/ /\ appHeight \notin appBlocks
           /\ pc' = "genesis"
           /\ UNCHANGED appDB
        \/ /\ appHeight \in appBlocks
           /\ plan \in {"error", "panic"}
           /\ pc' = "panicked"
           /\ UNCHANGED appDB
        \/ /\ appHeight \in appBlocks
           /\ plan \in {"skip", "checkAppHash"}
           /\ pc' = IF st.height = storeHeight THEN "sync" ELSE "panicked"
           /\ UNCHANGED appDB
        \/ /\ appHeight \in appBlocks
           /\ plan \in {"replayApp", "replayAppState"}
           /\ IF stored(appHeight + 1)
              THEN /\ pc' = IF plan = "replayApp" THEN "sync" ELSE "apply"
                   /\ Insert(st.height)
              ELSE pc' = "panicked" /\ UNCHANGED appDB
        \/ /\ appHeight \in appBlocks
           /\ plan \in {"replayReal", "replayMock"}
           /\ pc' = IF /\ stored(storeHeight)
                       /\ plan = "replayMock" => storeHeight \in responses
                    THEN "apply" ELSE "panicked"
           /\ UNCHANGED appDB
  /\ UNCHANGED <<storeHeight, blocks, st, valInfo, responses, target, mem, cursor,
                 crossed, killed, faulted, rollbacks, crashes>>

\* poolRoutine saves the next block once the saved validators have signed it; it
\* asks for a block that fails VerifyCommit again.
StoreBlock ==
  /\ pc = "sync"
  /\ storeHeight < MaxHeight
  /\ st.vals = ValidatorsAt(storeHeight + 1)
  /\ storeHeight' = storeHeight + 1
  /\ blocks' = blocks \cup {storeHeight'}
  /\ pc' = "apply"
  /\ UNCHANGED <<st, valInfo, responses, appDB, target, mem, cursor, crossed,
                 killed, faulted, rollbacks, crashes>>

\* validateBlock compares the validators with the header's hash and the last
\* commit with the last validators.
ValidBlock(b) ==
  /\ b = st.height + 1
  /\ st.vals = ValidatorsAt(b)
  /\ st.lastVals = ValidatorsAt(b - 1)

\* ApplyBlock up to the application's commit.
Execute ==
  /\ pc = "apply"
  /\ IF ValidBlock(storeHeight)
     THEN /\ pc' = "saveState"
          /\ responses' = responses \cup {storeHeight}
          /\ Insert(storeHeight)
     ELSE pc' = "panicked" /\ UNCHANGED <<responses, appDB>>
  /\ UNCHANGED <<storeHeight, blocks, st, valInfo, target, mem, cursor, crossed,
                 killed, faulted, rollbacks, crashes>>

\* Faulty variant: the height of the change is that of the block making it.
NextStateChangedNow(b) ==
  LET changes == b \in ValChanges IN
  [height |-> b,
   vals |-> IF changes THEN b + 1 ELSE st.vals,
   lastVals |-> st.vals,
   changed |-> IF changes THEN b ELSE st.changed]

\* updateState: a change made by block b is in force from b + 1.
NextState(b) ==
  LET changes == b \in ValChanges IN
  [height |-> b,
   vals |-> IF changes THEN b + 1 ELSE st.vals,
   lastVals |-> st.vals,
   changed |-> IF changes THEN b + 1 ELSE st.changed]

\* SaveState: the validators of the next height, then the state.
SaveState ==
  /\ pc = "saveState"
  /\ st' = NextState(storeHeight)
  /\ valInfo' = [valInfo EXCEPT ![storeHeight + 1] =
                   InfoFor(storeHeight + 1, st'.changed, st'.vals)]
  /\ pc' = "sync"
  /\ UNCHANGED <<storeHeight, blocks, responses, appDB, target, mem, cursor,
                 crossed, killed, faulted, rollbacks, crashes>>

-----------------------------------------------------------------------------
(***************************************************************************)
(* The command: `ethermint rollback`, then `tendermint rollback`.          *)
(***************************************************************************)
RollbackBegin ==
  /\ Stopped
  /\ rollbacks < MaxRollbacks
  /\ rollbacks' = rollbacks + 1
  /\ target' \in 1..(MaxHeight - 1)
  /\ faulted' = (faulted \/ {heads.header, heads.fast} # {appHeight})
  /\ pc' = "rollbackApp"
  /\ UNCHANGED <<storeHeight, blocks, st, valInfo, responses, appDB, mem, cursor,
                 crossed, killed, crashes>>

\* rollbackCmd up to its loop: it gives up when the head block is not above the
\* target or not in the database, and the script goes on with tendermint.  The head
\* block's header stands in for a head header that is gone.
RollbackApp ==
  /\ pc = "rollbackApp"
  /\ pc' = IF appHeight > target /\ appHeight \in appBlocks THEN "raHeader" ELSE "rollback"
  /\ cursor' = IF heads.header \in appBlocks \cup {0} THEN heads.header ELSE appHeight
  /\ UNCHANGED <<storeHeight, blocks, st, valInfo, responses, appDB, target, mem,
                 crossed, killed, faulted, rollbacks, crashes>>

\* Faulty variant: the loop stops one block early.
RollbackHeaderShort ==
  /\ pc = "raHeader"
  /\ IF heads.fast > target + 1 /\ cursor - 1 \in appBlocks \cup {0}
     THEN /\ cursor' = cursor - 1
          /\ heads' = [heads EXCEPT !.header = cursor']
          /\ pc' = "raBlock"
     ELSE pc' = "rollback" /\ UNCHANGED <<cursor, heads>>
  /\ UNCHANGED <<storeHeight, blocks, st, valInfo, responses, appHeight, canonical,
                 appBlocks, target, mem, crossed, killed, faulted, rollbacks, crashes>>

\* rollbackBlock moves the three heads to their parents, one write each, for every
\* number from the head fast block's down to the target.  A parent that is missing
\* ends the command.
RollbackHeader ==
  /\ pc = "raHeader"
  /\ IF heads.fast > target /\ cursor - 1 \in appBlocks \cup {0}
     THEN /\ cursor' = cursor - 1
          /\ heads' = [heads EXCEPT !.header = cursor']
          /\ pc' = "raBlock"
     ELSE pc' = "rollback" /\ UNCHANGED <<cursor, heads>>
  /\ UNCHANGED <<storeHeight, blocks, st, valInfo, responses, appHeight, canonical,
                 appBlocks, target, mem, crossed, killed, faulted, rollbacks, crashes>>

RollbackBlock ==
  /\ pc = "raBlock"
  /\ IF appHeight - 1 \in appBlocks \cup {0}
     THEN appHeight' = appHeight - 1 /\ pc' = "raFast"
     ELSE pc' = "rollback" /\ UNCHANGED appHeight
  /\ UNCHANGED <<storeHeight, blocks, st, valInfo, responses, heads, canonical,
                 appBlocks, target, mem, cursor, crossed, killed, faulted, rollbacks,
                 crashes>>

\* The parent of the head fast block is never missing: only blocks above are deleted.
RollbackFast ==
  /\ pc = "raFast"
  /\ heads' = [heads EXCEPT !.fast = @ - 1]
  /\ pc' = "raDelete"
  /\ UNCHANGED <<storeHeight, blocks, st, valInfo, responses, appHeight, canonical,
                 appBlocks, target, mem, cursor, crossed, killed, faulted, rollbacks,
                 crashes>>

\* DeleteBlock, which keeps the canonical hash.
RollbackDeleteBlock ==
  /\ pc = "raDelete"
  /\ appBlocks' = appBlocks \ {heads.fast + 1}
  /\ pc' = "raHeader"
  /\ UNCHANGED <<storeHeight, blocks, st, valInfo, responses, appHeight, heads,
                 canonical, target, mem, cursor, crossed, killed, faulted, rollbacks,
                 crashes>>

\* Faulty variant: the validators of the target height are taken for the next.
RolledBackStateOldVals ==
  [height |-> target, vals |-> LoadValidators(target),
   lastVals |-> LoadValidators(target), changed |-> st.changed]

\* The state that rollbackBlocks puts together; LastHeightValidatorsChanged stays
\* that of the state it started from.
RolledBackState ==
  [height |-> target, vals |-> LoadValidators(target + 1),
   lastVals |-> LoadValidators(target), changed |-> st.changed]

\* rollbackBlocks up to the first write of SaveState, the validators of the next
\* height.  It gives up before any write when the target is not below the state
\* or when a block or a validator set is missing.
RollbackSaveValidators ==
  /\ pc = "rollback"
  /\ IF /\ target < st.height
        /\ {target, target + 1} \subseteq blocks
        /\ HasValidators(target)
        /\ HasValidators(target + 1)
     THEN /\ mem' = RolledBackState
          /\ cursor' = st.height
          /\ valInfo' = [valInfo EXCEPT ![target + 1] =
                           InfoFor(target + 1, mem'.changed, mem'.vals)]
          /\ crossed' = (crossed \/ target + 1 < st.changed)
          /\ pc' = "rbState"
     ELSE pc' = "off" /\ UNCHANGED <<mem, cursor, valInfo, crossed>>
  /\ UNCHANGED <<storeHeight, blocks, st, responses, appDB, target, killed,
                 faulted, rollbacks, crashes>>

\* The last write of SaveState.
RollbackSaveState ==
  /\ pc = "rbState"
  /\ st' = mem
  /\ pc' = "rbDescriptor"
  /\ UNCHANGED <<storeHeight, blocks, valInfo, responses, appDB, target, mem,
                 cursor, crossed, killed, faulted, rollbacks, crashes>>

\* Faulty variant: the descriptor is not saved.
RollbackSaveDescriptorLost ==
  /\ pc = "rbDescriptor"
  /\ pc' = "rbDelete"
  /\ UNCHANGED <<storeHeight, blocks, st, valInfo, responses, appDB, target, mem,
                 cursor, crossed, killed, faulted, rollbacks, crashes>>

RollbackSaveDescriptor ==
  /\ pc = "rbDescriptor"
  /\ storeHeight' = target
  /\ pc' = "rbDelete"
  /\ UNCHANGED <<blocks, st, valInfo, responses, appDB, target, mem, cursor,
                 crossed, killed, faulted, rollbacks, crashes>>

\* Faulty variant: the loop takes the target itself along.
RollbackDeleteTarget ==
  /\ pc = "rbDelete"
  /\ IF cursor >= target
     THEN /\ blocks' = blocks \ {cursor}
          /\ responses' = responses \ {cursor}
          /\ cursor' = cursor - 1
          /\ UNCHANGED pc
     ELSE pc' = "off" /\ UNCHANGED <<blocks, responses, cursor>>
  /\ UNCHANGED <<storeHeight, st, valInfo, appDB, target, mem, crossed, killed,
                 faulted, rollbacks, crashes>>

\* DeleteABCIResponses and DeleteBlock, from the state's old height down.
RollbackDelete ==
  /\ pc = "rbDelete"
  /\ IF cursor > target
     THEN /\ blocks' = blocks \ {cursor}
          /\ responses' = responses \ {cursor}
          /\ cursor' = cursor - 1
          /\ UNCHANGED pc
     ELSE pc' = "off" /\ UNCHANGED <<blocks, responses, cursor>>
  /\ UNCHANGED <<storeHeight, st, valInfo, appDB, target, mem, crossed, killed,
                 faulted, rollbacks, crashes>>

-----------------------------------------------------------------------------
(***************************************************************************)
(* Crashes.  The script runs `tendermint rollback` whatever has become of  *)
(* `ethermint rollback`; it only stops when it is killed itself.           *)
(***************************************************************************)
Die ==
  /\ crashes < MaxCrashes
  /\ crashes' = crashes + 1
  /\ pc' = "off"
  /\ UNCHANGED <<storeHeight, blocks, st, valInfo, target, mem, cursor, crossed,
                 rollbacks>>

\* The node dies, by `start.sh stop` or otherwise, or the machine or the script in
\* the middle of `ethermint rollback`.
Crash ==
  /\ InAppRollback \/ pc \in {"sync", "apply", "saveState"}
  /\ Die
  /\ UNCHANGED <<responses, appDB, killed, faulted>>

\* The application dies inside insert, after the block and its canonical hash are
\* written: before the head block, the head header or the head fast block.
CrashInInsert ==
  /\ pc = "apply"
  /\ ValidBlock(storeHeight)
  /\ appHeight < storeHeight
  /\ Die
  /\ responses' = responses \cup {storeHeight}
  /\ appBlocks' = appBlocks \cup (appHeight + 1)..storeHeight
  /\ canonical' = IF storeHeight > canonical THEN storeHeight ELSE canonical
  /\ \/ UNCHANGED <<appHeight, heads>>
     \/ appHeight' = storeHeight /\ UNCHANGED heads
     \/ /\ storeHeight > canonical
        /\ appHeight' = storeHeight
        /\ heads' = [heads EXCEPT !.header = storeHeight]
  /\ UNCHANGED <<killed, faulted>>

\* `ethermint rollback` is killed or a database call of its fails (the database is
\* locked by an application that still runs, say).
CrashInAppRollback ==
  /\ InAppRollback
  /\ crashes < MaxCrashes
  /\ crashes' = crashes + 1
  /\ pc' = "rollback"
  /\ faulted' = TRUE
  /\ UNCHANGED <<storeHeight, blocks, st, valInfo, responses, appDB, target, mem,
                 cursor, crossed, killed, rollbacks>>

\* `tendermint rollback` is killed.
CrashInRollback ==
  /\ InRollback
  /\ Die
  /\ killed' = TRUE
  /\ UNCHANGED <<responses, appDB, faulted>>

ProcessStep ==
  \/ StartNode \/ StoreBlock \/ Execute \/ SaveState
  \/ RollbackApp \/ RollbackHeader \/ RollbackBlock \/ RollbackFast
  \/ RollbackDeleteBlock \/ RollbackSaveValidators \/ RollbackSaveState
  \/ RollbackSaveDescriptor \/ RollbackDelete
Kill == Crash \/ CrashInInsert \/ CrashInAppRollback \/ CrashInRollback

Next == ProcessStep \/ RollbackBegin \/ Kill
Spec == Init /\ [][Next]_vars

\* The node and the command run when they can, and a stopped node is restarted.
FairSpec == Spec /\ WF_vars(ProcessStep)

-----------------------------------------------------------------------------
(***************************************************************************)
(* Properties.                                                             *)
(***************************************************************************)

\* The values each variable may hold.
TypeOK ==
  /\ storeHeight \in Heights
  /\ blocks \subseteq Heights
  /\ st \in State
  /\ valInfo \in [1..(MaxHeight + 1) -> ValidatorsInfo]
  /\ responses \subseteq Heights
  /\ appHeight \in 0..MaxHeight
  /\ heads \in [header : 0..MaxHeight, fast : Heights]
  /\ canonical \in Heights
  /\ appBlocks \subseteq Heights
  /\ Stopped \/ InCommand \/ pc \in {"sync", "apply", "saveState", "genesis"}
  /\ target \in 0..(MaxHeight - 1)
  /\ mem \in State
  /\ cursor \in 0..MaxHeight
  /\ crossed \in BOOLEAN
  /\ killed \in BOOLEAN
  /\ faulted \in BOOLEAN
  /\ rollbacks \in 0..MaxRollbacks
  /\ crashes \in 0..MaxCrashes

\* After a rollback, wherever it lands, the validators and last validators of the
\* saved state are the ones the chain had, although the state DB holds most of
\* them only as references to another height (rollback.go:72-81).  It holds for
\* a node that is rolled back once, killed in between or not.
StateMatchesChain ==
  rollbacks <= 1 => /\ st.vals = ValidatorsAt(st.height + 1)
                    /\ st.lastVals = ValidatorsAt(st.height)

\* As long as no rollback has gone back over a validator change, every height up
\* to the next one still loads its own validator set, through repeated rollbacks
\* and kills between any two writes of the command.
HistoryIntact ==
  ~crossed => \A h \in 1..(st.height + 1) :
                HasValidators(h) /\ LoadValidators(h) = ValidatorsAt(h)

\* Every block up to the descriptor's height is in the block store: the command
\* lowers the descriptor before it deletes anything, so that a kill leaves blocks
\* too many and never one too few.
StoreComplete == 1..storeHeight \subseteq blocks

\* The application's head is never above the block store, where ReplayBlocks
\* would refuse to start for good (ErrAppBlockHeightTooHigh), as long as every
\* `ethermint rollback` found its three heads together and ran to its end: then
\* it has reached the target before tendermint goes back, and neither a kill of
\* the script or of tendermint's half nor of the node at any write changes that.
AppNeverAhead == ~faulted => appHeight <= storeHeight

\* Once crashes and rollbacks stop, the node is back at the end of the chain, if
\* it was rolled back at most once, ethermint's half was as above and tendermint's
\* half was not killed.
Resyncs ==
  \/ <>(killed \/ faulted \/ rollbacks > 1)
  \/ <>[](storeHeight = MaxHeight /\ st.height = MaxHeight /\ appHeight = MaxHeight)

\* "Validators are persisted to the database separately every time they change, so
\* we can query for historical validator sets" (state.go:38-39): a height of the
\* chain the node holds loads the set it had.
HistoricalValidators ==
  pc = "sync" => \A h \in 1..(st.height + 1) : LoadValidators(h) = ValidatorsAt(h)

\* "store should be at most one ahead of the state (this is under tendermint's
\* control)" (replay.go:120), whenever the node may be started.
StoreAtMostOneAhead == ~InCommand => storeHeight <= st.height + 1

\* "the app should never be ahead of the store (but this is under app's control)"
\* (replay.go:112).  It is ahead once `ethermint rollback` has been cut short and
\* `tendermint rollback` has not; or when the command runs a second time over blocks
\* that were synced again: the first has kept their canonical hashes, so that syncing
\* them moves the head block alone, and the second counts down from the head fast block.
AppBehindStore == ~InCommand => appHeight <= storeHeight

=============================================================================
