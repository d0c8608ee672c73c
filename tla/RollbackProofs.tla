---------------------------- MODULE RollbackProofs ----------------------------
(***************************************************************************)
(* Proofs about Rollback, for every chain length, every set of validator   *)
(* changes and every number of rollbacks and crashes.                      *)
(***************************************************************************)
EXTENDS Rollback, WellFoundedInduction, TLAPS

\* The types of what the node and `tendermint rollback` keep, and of what the
\* application and `ethermint rollback` keep.
NodeTypes ==
  /\ storeHeight \in Heights
  /\ blocks \subseteq Heights
  /\ st \in State
  /\ valInfo \in [1..(MaxHeight + 1) -> ValidatorsInfo]
  /\ responses \subseteq Heights
  /\ Stopped \/ InCommand \/ pc \in {"sync", "apply", "saveState", "genesis"}
  /\ target \in 0..(MaxHeight - 1)
  /\ mem \in State
  /\ cursor \in 0..MaxHeight
  /\ crossed \in BOOLEAN
  /\ killed \in BOOLEAN
  /\ rollbacks \in 0..MaxRollbacks
  /\ crashes \in 0..MaxCrashes
AppTypes ==
  /\ appHeight \in 0..MaxHeight
  /\ heads \in [header : 0..MaxHeight, fast : Heights]
  /\ canonical \in Heights
  /\ appBlocks \subseteq Heights
  /\ faulted \in BOOLEAN

\* The state is never above the block store, and what the step that the node or
\* the command is at tells about the heights.
StepHeights ==
  /\ st.height <= storeHeight
  /\ InCommand => target >= 1
  /\ pc = "rbState" => mem.height = target /\ target < st.height
  /\ pc = "rbDescriptor" => st.height = target
  /\ pc = "rbDelete" => storeHeight = target
  /\ pc = "saveState" => ValidBlock(storeHeight)

\* The first rollback reads the history before anything has been rewritten.
FirstRollback ==
  /\ rollbacks = 0 => ~InCommand /\ ~crossed
  /\ rollbacks <= 1 /\ (InAppRollback \/ pc = "rollback") => ~crossed
  /\ rollbacks <= 1 /\ pc = "rbState" =>
       /\ mem.vals = ValidatorsAt(target + 1)
       /\ mem.lastVals = ValidatorsAt(target)

\* Until a rollback goes back over a change, every height refers to the height its
\* own set came into force at, which holds the set, and so does the saved state.
History ==
  ~crossed =>
    /\ st.changed = ValidatorsAt(st.height + 1)
    /\ pc = "rbState" => mem.changed = ValidatorsAt(target + 1)
    /\ \A h \in 1..(st.height + 1) :
         valInfo[h] = InfoFor(h, ValidatorsAt(h), ValidatorsAt(h))

\* `ethermint rollback` moves blocks only while the head fast block is above the
\* target.  When it found the heads together, they stay so from one round of its
\* loop to the next, no block below them is missing, and it ends at the target.
AppHeights ==
  /\ pc \in {"raBlock", "raFast"} => target < heads.fast
  /\ ~faulted =>
       /\ appHeight <= storeHeight
       /\ 1..appHeight \subseteq appBlocks
       /\ pc = "rollbackApp" => heads.header = appHeight /\ heads.fast = appHeight
       /\ pc = "raHeader" => cursor = appHeight /\ heads.fast = appHeight
       /\ pc = "raBlock" => cursor = appHeight - 1 /\ heads.fast = appHeight
       /\ pc = "raFast" => cursor = appHeight /\ heads.fast = appHeight + 1
       /\ pc = "raDelete" => cursor = appHeight /\ heads.fast = appHeight
       /\ InRollback => appHeight <= target

NodeInv ==
  /\ NodeTypes /\ StepHeights /\ FirstRollback /\ History
  /\ StateMatchesChain /\ StoreComplete
IInv == NodeInv /\ AppTypes /\ AppHeights

-----------------------------------------------------------------------------
(***************************************************************************)
(* The chain's validator sets.                                             *)
(***************************************************************************)

\* A bounded set of natural numbers that is not empty has its largest element.
LEMMA MaxOfBounded ==
  ASSUME NEW n \in Nat, NEW S \in SUBSET (0..n), S # {}
  PROVE  Max(S) \in S /\ \A y \in S : y <= Max(S)
<1> DEFINE T == {n - x : x \in S}
           R == OpToRel(<, Nat)
<1>1. \A x \in S : x \in Nat /\ n - x \in Nat
  OBVIOUS
<1>2. T \subseteq Nat /\ T # {}
  BY Zenon, <1>1
<1>3. PICK m \in T : \A y \in T : ~(<<y, m>> \in R)
  <2>1. IsWellFoundedOn(R, Nat)
    BY Zenon, NatLessThanWellFounded
  <2> HIDE DEF T, R
  <2> QED BY Zenon, <1>2, <2>1, WFMin
<1>4. \A y \in T : m <= y
  <2>1. \A y \in T : y < m => <<y, m>> \in R
    BY <1>2 DEF OpToRel
  <2> HIDE DEF T, R
  <2>2. \A y \in T : ~(y < m)
    BY Zenon, <1>3, <2>1
  <2>3. QED
    BY <1>2, <2>2
<1>5. PICK x \in S : m = n - x
  BY Zenon, <1>3
<1>6. \A y \in S : x >= y
  <2> TAKE y \in S
  <2>1. m <= n - y
    BY <1>4
  <2> QED BY <1>1, <1>5, <2>1
<1>7. QED
  BY Zenon, <1>6 DEF Max

\* The first height of the set in force at h is at most h.
LEMMA ValidatorsAtMax ==
  ASSUME NEW h \in 1..(MaxHeight + 1)
  PROVE  /\ ValidatorsAt(h) \in 1..h
         /\ \A c \in ValChanges : c < h => c + 1 <= ValidatorsAt(h)
         /\ ValidatorsAt(h) # 1 => ValidatorsAt(h) - 1 \in ValChanges
<1> DEFINE S == {1} \cup {c + 1 : c \in {b \in ValChanges : b < h}}
<1>1. S \in SUBSET (0..h) /\ S # {} /\ h \in Nat /\ S \subseteq 1..h
  BY RollbackAssumption DEF Heights
<1>2. Max(S) \in S /\ \A y \in S : y <= Max(S)
  <2> HIDE DEF S
  <2> QED BY Zenon, <1>1, MaxOfBounded
<1>3. ValidatorsAt(h) = Max(S)
  BY DEF ValidatorsAt
<1>4. Max(S) \in 1..h
  BY <1>1, <1>2
<1>5. \A c \in ValChanges : c < h => c + 1 <= Max(S)
  BY Zenon, <1>2
<1>6. Max(S) # 1 => Max(S) - 1 \in ValChanges
  BY <1>2, RollbackAssumption DEF Heights
<1>7. QED
  BY <1>3, <1>4, <1>5, <1>6

\* updateState: the set of the next height is the one the block brought, if any.
LEMMA ValidatorsAtNext ==
  ASSUME NEW h \in Heights
  PROVE  ValidatorsAt(h + 1) = IF h \in ValChanges THEN h + 1 ELSE ValidatorsAt(h)
<1> DEFINE V == ValidatorsAt(h)
           W == ValidatorsAt(h + 1)
<1>1. h \in Nat /\ h \in 1..(MaxHeight + 1) /\ h + 1 \in 1..(MaxHeight + 1)
  BY RollbackAssumption DEF Heights
<1>2. /\ V \in 1..h
      /\ \A c \in ValChanges : c < h => c + 1 <= V
      /\ V # 1 => V - 1 \in ValChanges
  BY <1>1, ValidatorsAtMax
<1>3. /\ W \in 1..(h + 1)
      /\ \A c \in ValChanges : c < h + 1 => c + 1 <= W
      /\ W # 1 => W - 1 \in ValChanges
  BY <1>1, ValidatorsAtMax
<1>4. ValChanges \subseteq Nat
  BY RollbackAssumption DEF Heights
<1> HIDE DEF V, W
<1>5. CASE h \in ValChanges
  <2>1. h + 1 <= W
    BY <1>1, <1>3, <1>5
  <2>2. QED
    BY <1>1, <1>3, <1>5, <2>1 DEF V, W
<1>6. CASE h \notin ValChanges
  <2>1. W <= h
    BY <1>1, <1>3, <1>6
  <2>2. W <= V
    BY <1>1, <1>2, <1>3, <1>4, <2>1
  <2>3. V <= W
    BY <1>1, <1>2, <1>3, <1>4
  <2>4. QED
    BY <1>1, <1>2, <1>3, <1>6, <2>2, <2>3 DEF V, W
<1>7. QED
  BY <1>5, <1>6

\* A set stays in force from its first height up to any height it is in force at.
LEMMA ValidatorsAtBetween ==
  ASSUME NEW h \in 1..(MaxHeight + 1), NEW k \in 1..h, ValidatorsAt(h) <= k
  PROVE  ValidatorsAt(k) = ValidatorsAt(h)
<1> DEFINE V == ValidatorsAt(h)
           W == ValidatorsAt(k)
<1>1. MaxHeight \in Nat /\ h \in Nat /\ k \in Nat /\ k \in 1..(MaxHeight + 1)
  BY RollbackAssumption
<1>2. /\ V \in 1..h
      /\ \A c \in ValChanges : c < h => c + 1 <= V
      /\ V # 1 => V - 1 \in ValChanges
  BY ValidatorsAtMax
<1>3. /\ W \in 1..k
      /\ \A c \in ValChanges : c < k => c + 1 <= W
      /\ W # 1 => W - 1 \in ValChanges
  BY <1>1, ValidatorsAtMax
<1>4. ValChanges \subseteq Nat
  BY RollbackAssumption DEF Heights
<1> HIDE DEF V, W
<1>5. W <= V
  BY <1>1, <1>2, <1>3, <1>4
<1>6. V <= k
  BY DEF V
<1>7. V <= W
  BY <1>1, <1>2, <1>3, <1>4, <1>6
<1>8. QED
  BY <1>1, <1>2, <1>3, <1>5, <1>7 DEF V, W

\* With the history as saveValidatorsInfo writes it, LoadValidators finds at every
\* height the set that was in force there, through at most one reference.
LEMMA HistoryLoads ==
  ASSUME NEW n \in Heights,
         \A h \in 1..(n + 1) : valInfo[h] = InfoFor(h, ValidatorsAt(h), ValidatorsAt(h)),
         NEW h \in 1..(n + 1)
  PROVE  HasValidators(h) /\ LoadValidators(h) = ValidatorsAt(h)
<1> DEFINE V == ValidatorsAt(h)
<1>1. MaxHeight \in Nat /\ n \in Nat /\ h \in Nat /\ h \in 1..(MaxHeight + 1)
  BY RollbackAssumption DEF Heights
<1>2. V \in 1..h /\ V \in 1..(n + 1) /\ V \in 1..(MaxHeight + 1)
  BY <1>1, ValidatorsAtMax
<1>3. ValidatorsAt(V) = V
  BY <1>1, <1>2, ValidatorsAtBetween
<1>4. valInfo[h] = InfoFor(h, V, V) /\ valInfo[V] = InfoFor(V, V, V)
  BY <1>2, <1>3
<1> HIDE DEF V
<1>5. HasValidators(h) /\ LoadValidators(h) = V
  BY <1>2, <1>4 DEF HasValidators, LoadValidators, InfoFor, Nil
<1>6. QED
  BY <1>5 DEF V

-----------------------------------------------------------------------------
(***************************************************************************)
(* The inductive invariant.                                                *)
(***************************************************************************)

\* The saved state of the chain at a height has its type.
LEMMA StateAtType == ASSUME NEW h \in Heights PROVE StateAt(h) \in State
<1>1. MaxHeight \in Nat /\ h \in Nat /\ h \in 1..(MaxHeight + 1) /\ h + 1 \in 1..(MaxHeight + 1)
  BY RollbackAssumption DEF Heights
<1>2. ValidatorsAt(h) \in 1..h /\ ValidatorsAt(h + 1) \in 1..(h + 1)
  BY <1>1, ValidatorsAtMax
<1>3. ValidatorsAt(h) \in 0..(MaxHeight + 1) /\ ValidatorsAt(h + 1) \in 1..(MaxHeight + 1)
  BY <1>1, <1>2
<1>4. QED
  BY <1>1, <1>3 DEF StateAt, State

\* A node left by a clean shutdown satisfies the invariant.
LEMMA InitIInv == Init => IInv
<1> SUFFICES ASSUME Init PROVE IInv
  OBVIOUS
<1>1. MaxHeight \in Nat /\ StartHeight \in Nat /\ StartHeight \in Heights
  BY RollbackAssumption DEF Heights
<1>2. st = StateAt(StartHeight) /\ st \in State /\ mem = st
  BY <1>1, StateAtType DEF Init
<1>3. ASSUME NEW h \in 1..(MaxHeight + 1)
      PROVE  InfoFor(h, ValidatorsAt(h), ValidatorsAt(h)) \in ValidatorsInfo
  <2>1. ValidatorsAt(h) \in 1..h
    BY ValidatorsAtMax
  <2>2. ValidatorsAt(h) \in 0..(MaxHeight + 1)
    BY <1>1, <2>1
  <2>3. QED
    BY <1>1, <2>2 DEF InfoFor, ValidatorsInfo, Nil
<1>4. [changed |-> Nil, set |-> Nil] \in ValidatorsInfo
  BY <1>1 DEF ValidatorsInfo, Nil
<1>5. valInfo \in [1..(MaxHeight + 1) -> ValidatorsInfo]
  BY <1>3, <1>4 DEF Init
<1>6. NodeTypes
  <2>1. storeHeight \in Heights
    BY <1>1 DEF Init
  <2>2. blocks \subseteq Heights /\ responses \subseteq Heights
    BY <1>1 DEF Init, Heights
  <2>3. /\ target \in 0..(MaxHeight - 1) /\ cursor \in 0..MaxHeight
        /\ rollbacks \in 0..MaxRollbacks /\ crashes \in 0..MaxCrashes
    BY RollbackAssumption DEF Init
  <2>4. Stopped /\ crossed \in BOOLEAN /\ killed \in BOOLEAN
    BY Zenon DEF Init, Stopped
  <2>5. QED
    BY <1>2, <1>5, <2>1, <2>2, <2>3, <2>4 DEF NodeTypes
<1>7. StepHeights /\ FirstRollback /\ StoreComplete
  BY <1>1, <1>2
  DEF Init, StepHeights, FirstRollback, StoreComplete, InCommand, InAppRollback, InRollback,
      StateAt
<1>8. StateMatchesChain
  BY <1>1, <1>2 DEF StateMatchesChain, StateAt
<1>9. History
  BY SMTT(30), <1>1, <1>2 DEF Init, History, StateAt, Heights
<1>10. AppTypes /\ AppHeights
  <2>1. /\ storeHeight = StartHeight /\ appHeight = StartHeight /\ appBlocks = 1..StartHeight
        /\ heads = [header |-> StartHeight, fast |-> StartHeight] /\ canonical = StartHeight
        /\ pc = "off" /\ faulted = FALSE
    BY Zenon DEF Init
  <2>2. heads \in [header : 0..MaxHeight, fast : Heights]
    BY <1>1, <2>1 DEF Heights
  <2>3. appHeight \in 0..MaxHeight /\ appBlocks \subseteq Heights /\ appHeight <= storeHeight
    BY <1>1, <2>1 DEF Heights
  <2>4. AppTypes
    BY Zenon, <1>1, <2>1, <2>2, <2>3 DEF AppTypes
  <2>5. AppHeights
    BY Zenon, <2>1, <2>3 DEF AppHeights, InRollback
  <2>6. QED
    BY Zenon, <2>4, <2>5
<1>11. QED
  BY Zenon, <1>6, <1>7, <1>8, <1>9, <1>10 DEF IInv, NodeInv

\* Every step of the node, of the command and of the operator preserves what the
\* node's own databases satisfy.
LEMMA NodePreserves == IInv /\ [Next]_vars => NodeInv'
<1> SUFFICES ASSUME IInv, [Next]_vars PROVE NodeInv'
  OBVIOUS
<1> USE DEF IInv, NodeInv
<1>a. /\ MaxHeight \in Nat \ {0} /\ MaxRollbacks \in Nat /\ MaxCrashes \in Nat
      /\ storeHeight \in Nat /\ storeHeight \in Heights
      /\ st.height \in Nat /\ st.height \in Heights
      /\ target \in Nat /\ rollbacks \in Nat
      /\ Heights = 1..MaxHeight
  BY SMTT(30), RollbackAssumption DEF NodeTypes, State, Heights
<1>b. Heights \subseteq Nat /\ MaxHeight + 1 \in Nat
  BY <1>a
<1>1. CASE StartNode
  <2>1. /\ pc' \in {"genesis", "panicked", "sync", "apply"}
        /\ UNCHANGED <<storeHeight, blocks, st, valInfo, responses, target, mem, cursor,
                       crossed, killed, rollbacks, crashes>>
    BY <1>1 DEF StartNode
  <2>2. ~InCommand' /\ pc' \notin {"rbState", "saveState"}
    BY <2>1 DEF InCommand, InAppRollback, InRollback
  <2>3. NodeTypes'
    BY <1>a, <2>1, <2>2 DEF NodeTypes, Stopped, InCommand, InAppRollback, InRollback
  <2>4. StepHeights' /\ StoreComplete'
    BY <1>a, <2>1, <2>2 DEF StepHeights, StoreComplete, InCommand, InAppRollback, InRollback
  <2>5. FirstRollback' /\ History' /\ StateMatchesChain'
    BY <2>1, <2>2
    DEF FirstRollback, History, StateMatchesChain, InCommand, InAppRollback, InRollback, InfoFor
  <2>6. QED
    BY <2>3, <2>4, <2>5
<1>2. CASE StoreBlock
  <2>1. /\ pc' = "apply"
        /\ storeHeight < MaxHeight /\ storeHeight' = storeHeight + 1
        /\ blocks' = blocks \cup {storeHeight + 1}
        /\ UNCHANGED <<st, valInfo, responses, target, mem, cursor, crossed,
                       killed, rollbacks, crashes>>
    BY <1>2 DEF StoreBlock
  <2>2. NodeTypes'
    BY <1>a, <2>1 DEF NodeTypes, Stopped, InCommand, InAppRollback, InRollback
  <2>3. StepHeights' /\ StoreComplete'
    BY <1>a, <2>1 DEF StepHeights, StoreComplete, InCommand, InAppRollback, InRollback
  <2>4. FirstRollback' /\ History' /\ StateMatchesChain'
    BY <2>1 DEF FirstRollback, History, StateMatchesChain, InCommand, InAppRollback, InRollback, InfoFor
  <2>5. QED
    BY <2>2, <2>3, <2>4
<1>3. CASE Execute
  <2>1. /\ \/ /\ ValidBlock(storeHeight) /\ pc' = "saveState"
              /\ responses' = responses \cup {storeHeight}
           \/ pc' = "panicked" /\ UNCHANGED responses
        /\ UNCHANGED <<storeHeight, blocks, st, valInfo, target, mem, cursor, crossed,
                       killed, rollbacks, crashes>>
    BY <1>3 DEF Execute
  <2>2. NodeTypes'
    BY Zenon, <1>a, <2>1 DEF NodeTypes, Stopped, InCommand, InAppRollback, InRollback
  <2>3. StepHeights' /\ StoreComplete'
    BY SMTT(30), <1>a, <2>1 DEF StepHeights, StoreComplete, InCommand, InAppRollback, InRollback, ValidBlock
  <2>4. FirstRollback' /\ History' /\ StateMatchesChain'
    BY <2>1 DEF FirstRollback, History, StateMatchesChain, InCommand, InAppRollback, InRollback, InfoFor
  <2>5. QED
    BY <2>2, <2>3, <2>4
<1>4. CASE SaveState
  <2> DEFINE b == storeHeight
  <2>1. /\ pc = "saveState" /\ pc' = "sync"
        /\ st' = NextState(b)
        /\ valInfo' = [valInfo EXCEPT ![b + 1] = InfoFor(b + 1, st'.changed, st'.vals)]
        /\ UNCHANGED <<storeHeight, blocks, responses, target, mem, cursor,
                       crossed, killed, rollbacks, crashes>>
    BY <1>4 DEF SaveState
  <2>2. ValidBlock(b)
    BY <2>1 DEF StepHeights
  <2>3. ValidatorsAt(b + 1) = IF b \in ValChanges THEN b + 1 ELSE ValidatorsAt(b)
    BY <1>a, ValidatorsAtNext
  <2>4. /\ st'.height = b /\ st'.vals = ValidatorsAt(b + 1) /\ st'.lastVals = ValidatorsAt(b)
        /\ st'.changed = IF b \in ValChanges THEN b + 1 ELSE st.changed
    BY <2>1, <2>2, <2>3 DEF NextState, ValidBlock
  <2>5. b \in 1..(MaxHeight + 1) /\ b + 1 \in 1..(MaxHeight + 1)
    BY <1>a
  <2>6. ValidatorsAt(b) \in 0..(MaxHeight + 1) /\ ValidatorsAt(b + 1) \in 0..(MaxHeight + 1)
    <3>1. ValidatorsAt(b) \in 1..b /\ ValidatorsAt(b + 1) \in 1..(b + 1)
      BY <2>5, ValidatorsAtMax
    <3>2. QED
      BY <1>a, <3>1
  <2>7. st' \in State
    <3>1. st'.changed \in 1..(MaxHeight + 1)
      BY Zenon, <2>4, <2>5 DEF NodeTypes, State
    <3>2. st' = [height |-> st'.height, vals |-> st'.vals, lastVals |-> st'.lastVals,
                 changed |-> st'.changed]
      BY <2>1 DEF NextState
    <3>3. QED
      BY SMTT(30), <1>a, <2>4, <2>6, <3>1, <3>2 DEF State
  <2>8. valInfo' \in [1..(MaxHeight + 1) -> ValidatorsInfo]
    <3>1. InfoFor(b + 1, st'.changed, st'.vals) \in ValidatorsInfo
      BY <1>a, <2>7 DEF InfoFor, ValidatorsInfo, State, Nil
    <3>2. QED
      BY Zenon, <2>1, <3>1 DEF NodeTypes
  <2>9. NodeTypes'
    BY <2>1, <2>7, <2>8 DEF NodeTypes, Stopped, InCommand, InAppRollback, InRollback
  <2>10. StepHeights' /\ StoreComplete'
    BY <1>a, <2>1, <2>4 DEF StepHeights, StoreComplete, InCommand, InAppRollback, InRollback
  <2>11. FirstRollback' /\ StateMatchesChain'
    BY <2>1, <2>4 DEF FirstRollback, StateMatchesChain, InCommand, InAppRollback, InRollback
  <2>12. History'
    <3> SUFFICES ASSUME ~crossed'
                 PROVE  /\ st'.changed = ValidatorsAt(b + 1)
                        /\ \A h \in 1..(b + 1) :
                             valInfo'[h] = InfoFor(h, ValidatorsAt(h), ValidatorsAt(h))
      BY <2>1, <2>4 DEF History, InfoFor
    <3>1. ~crossed /\ st.changed = ValidatorsAt(st.height + 1) /\ b = st.height + 1
      BY <2>1, <2>2 DEF History, ValidBlock
    <3>2. st'.changed = ValidatorsAt(b + 1)
      BY <2>3, <2>4, <3>1
    <3>3. valInfo'[b + 1] = InfoFor(b + 1, ValidatorsAt(b + 1), ValidatorsAt(b + 1))
      BY <2>1, <2>4, <2>5, <3>2 DEF NodeTypes
    <3>4. ASSUME NEW h \in 1..b
          PROVE  valInfo'[h] = InfoFor(h, ValidatorsAt(h), ValidatorsAt(h))
      <4>1. h # b + 1 /\ h \in 1..(MaxHeight + 1) /\ h \in 1..(st.height + 1)
        BY <1>a, <3>1
      <4>2. valInfo'[h] = valInfo[h]
        BY <2>1, <4>1 DEF NodeTypes
      <4>3. QED
        BY <3>1, <4>1, <4>2 DEF History
    <3>5. QED
      BY <1>a, <3>2, <3>3, <3>4
  <2>13. QED
    BY <2>9, <2>10, <2>11, <2>12
<1>5. CASE RollbackBegin
  <2>1. /\ Stopped /\ pc' = "rollbackApp"
        /\ rollbacks < MaxRollbacks /\ rollbacks' = rollbacks + 1
        /\ target' \in 1..(MaxHeight - 1)
        /\ UNCHANGED <<storeHeight, blocks, st, valInfo, responses, mem, cursor,
                       crossed, killed, crashes>>
    BY <1>5 DEF RollbackBegin
  <2>2. NodeTypes'
    BY <1>a, <2>1 DEF NodeTypes, Stopped, InCommand, InAppRollback, InRollback
  <2>3. StepHeights' /\ StoreComplete'
    BY <1>a, <2>1 DEF StepHeights, StoreComplete, InCommand, InAppRollback, InRollback
  <2>4. FirstRollback' /\ StateMatchesChain'
    BY <1>a, <2>1 DEF FirstRollback, StateMatchesChain, InCommand, InAppRollback, InRollback
  <2>5. History'
    BY <2>1 DEF History, InfoFor
  <2>6. QED
    BY <2>2, <2>3, <2>4, <2>5
<1>6. CASE RollbackApp \/ RollbackHeader \/ RollbackBlock \/ RollbackFast
           \/ RollbackDeleteBlock \/ CrashInAppRollback
  <2>1. /\ InAppRollback
        /\ pc' \in {"raHeader", "raBlock", "raFast", "raDelete", "rollback"}
        /\ UNCHANGED <<storeHeight, blocks, st, valInfo, responses, target, mem,
                       crossed, killed, rollbacks>>
    <3>1. CASE RollbackApp \/ RollbackHeader
      BY Zenon, <3>1 DEF RollbackApp, RollbackHeader, InAppRollback
    <3>2. CASE RollbackBlock \/ RollbackFast
      BY Zenon, <3>2 DEF RollbackBlock, RollbackFast, InAppRollback
    <3>3. CASE RollbackDeleteBlock \/ CrashInAppRollback
      BY Zenon, <3>3 DEF RollbackDeleteBlock, CrashInAppRollback, InAppRollback
    <3>4. QED
      BY Zenon, <1>6, <3>1, <3>2, <3>3
  <2>2. cursor' \in 0..MaxHeight
    <3>1. CASE RollbackApp
      BY Zenon, <3>1 DEF RollbackApp, AppTypes
    <3>2. CASE RollbackHeader
      <4>1. cursor' = cursor \/ cursor' \in appBlocks \cup {0}
        BY Zenon, <3>2 DEF RollbackHeader
      <4>2. Heights \subseteq 0..MaxHeight /\ 0 \in 0..MaxHeight
        BY <1>a
      <4>3. QED
        BY Zenon, <4>1, <4>2 DEF AppTypes, NodeTypes
    <3>3. CASE cursor' = cursor
      BY Zenon, <3>3 DEF NodeTypes
    <3>4. QED
      BY Zenon, <1>6, <3>1, <3>2, <3>3
      DEF RollbackBlock, RollbackFast, RollbackDeleteBlock, CrashInAppRollback
  <2>3. crashes' \in 0..MaxCrashes
    <3>1. CASE crashes' = crashes
      BY Zenon, <3>1 DEF NodeTypes
    <3>2. CASE crashes < MaxCrashes /\ crashes' = crashes + 1
      BY <1>a, <3>2 DEF NodeTypes
    <3>3. QED
      BY Zenon, <1>6, <3>1, <3>2
      DEF RollbackApp, RollbackHeader, RollbackBlock, RollbackFast, RollbackDeleteBlock,
          CrashInAppRollback
  <2>4. NodeTypes'
    BY Zenon, <2>1, <2>2, <2>3 DEF NodeTypes, InCommand, InAppRollback, InRollback
  <2>5. StepHeights' /\ StoreComplete'
    BY Zenon, <2>1 DEF StepHeights, StoreComplete, InCommand
  <2>6. FirstRollback' /\ History' /\ StateMatchesChain'
    BY Zenon, <2>1 DEF FirstRollback, History, StateMatchesChain, InCommand, InfoFor
  <2>7. QED
    BY Zenon, <2>4, <2>5, <2>6
<1>7. CASE RollbackSaveValidators
  <2>a. /\ pc = "rollback"
        /\ UNCHANGED <<storeHeight, blocks, st, responses, target, killed,
                       rollbacks, crashes>>
    BY <1>7 DEF RollbackSaveValidators
  <2>1. CASE pc' = "off" /\ UNCHANGED <<mem, cursor, valInfo, crossed>>
    <3>1. NodeTypes'
      BY <2>a, <2>1 DEF NodeTypes, Stopped, InCommand, InAppRollback, InRollback
    <3>2. StepHeights' /\ StoreComplete'
      BY SMTT(30), <2>a, <2>1 DEF StepHeights, StoreComplete, InCommand, InAppRollback, InRollback
    <3>3. FirstRollback' /\ History' /\ StateMatchesChain'
      BY <2>a, <2>1 DEF FirstRollback, History, StateMatchesChain, InCommand, InAppRollback, InRollback, InfoFor
    <3>4. QED
      BY <3>1, <3>2, <3>3
  <2>2. CASE /\ target < st.height
             /\ HasValidators(target) /\ HasValidators(target + 1)
             /\ mem' = RolledBackState
             /\ cursor' = st.height
             /\ valInfo' = [valInfo EXCEPT ![target + 1] =
                              InfoFor(target + 1, mem'.changed, mem'.vals)]
             /\ crossed' = (crossed \/ target + 1 < st.changed)
             /\ pc' = "rbState"
    <3> DEFINE k == target + 1
    <3>1. /\ target \in 1..(MaxHeight + 1) /\ k \in 1..(MaxHeight + 1)
          /\ target \in 1..(st.height + 1) /\ k \in 1..(st.height + 1)
          /\ target \in Heights /\ st.height + 1 \in 1..(MaxHeight + 1)
      <4>1. target >= 1
        BY Zenon, <2>a DEF StepHeights, InCommand, InRollback
      <4>2. QED
        BY <1>a, <2>2, <4>1
    <3>2. /\ mem'.height = target /\ mem'.vals = LoadValidators(k)
          /\ mem'.lastVals = LoadValidators(target) /\ mem'.changed = st.changed
      BY <2>2 DEF RolledBackState
    <3>3. ASSUME NEW h \in 1..(MaxHeight + 1), HasValidators(h)
          PROVE  LoadValidators(h) \in 0..(MaxHeight + 1)
      <4>1. valInfo[h] \in ValidatorsInfo /\ valInfo[h].changed \in 1..(MaxHeight + 1)
        BY <3>3 DEF HasValidators, NodeTypes, ValidatorsInfo, Nil
      <4>2. valInfo[valInfo[h].changed] \in ValidatorsInfo
        BY <4>1 DEF NodeTypes
      <4>3. QED
        BY <4>1, <4>2 DEF LoadValidators, ValidatorsInfo
    <3>4. mem' \in State
      <4>1. LoadValidators(k) \in 0..(MaxHeight + 1) /\ LoadValidators(target) \in 0..(MaxHeight + 1)
        BY <2>2, <3>1, <3>3
      <4>2. QED
        BY <2>2, <3>1, <4>1 DEF RolledBackState, State, NodeTypes
    <3>5. InfoFor(k, mem'.changed, mem'.vals) \in ValidatorsInfo
      BY <1>b, <3>4 DEF InfoFor, ValidatorsInfo, State, Nil
    <3>6. valInfo' \in [1..(MaxHeight + 1) -> ValidatorsInfo]
      BY Zenon, <2>2, <3>5 DEF NodeTypes
    <3>7. crossed' \in BOOLEAN
      BY SMTT(30), <2>2
    <3>8. NodeTypes'
      BY SMTT(30), <1>a, <2>a, <2>2, <3>4, <3>6, <3>7 DEF NodeTypes, Stopped, InCommand, InAppRollback, InRollback
    <3>9. StepHeights' /\ StoreComplete'
      BY <1>a, <2>a, <2>2, <3>2 DEF StepHeights, StoreComplete, InCommand, InAppRollback, InRollback
    <3>10. ~crossed => LoadValidators(k) = ValidatorsAt(k)
                       /\ LoadValidators(target) = ValidatorsAt(target)
      <4> SUFFICES ASSUME ~crossed
                   PROVE  /\ LoadValidators(k) = ValidatorsAt(k)
                          /\ LoadValidators(target) = ValidatorsAt(target)
        OBVIOUS
      <4>1. \A h \in 1..(st.height + 1) :
              valInfo[h] = InfoFor(h, ValidatorsAt(h), ValidatorsAt(h))
        BY Zenon DEF History
      <4>2. st.height \in Heights
        BY Zenon, <1>a
      <4> HIDE DEF k
      <4>3. QED
        BY Zenon, <3>1, <4>1, <4>2, HistoryLoads
    <3>11. FirstRollback'
      BY <2>a, <2>2, <3>2, <3>10 DEF FirstRollback, InCommand, InAppRollback, InRollback
    <3>12. StateMatchesChain'
      BY <2>a DEF StateMatchesChain
    <3>13. History'
      <4> SUFFICES ASSUME ~crossed'
                   PROVE  /\ st.changed = ValidatorsAt(st.height + 1)
                          /\ mem'.changed = ValidatorsAt(k)
                          /\ \A h \in 1..(st.height + 1) :
                               valInfo'[h] = InfoFor(h, ValidatorsAt(h), ValidatorsAt(h))
        BY <2>a DEF History, InfoFor
      <4>1. ~crossed /\ ~(k < st.changed)
        BY Zenon, <2>2
      <4>2. st.changed = ValidatorsAt(st.height + 1)
        BY <4>1 DEF History
      <4>3. ValidatorsAt(k) = st.changed
        <5>1. st.changed <= k
          BY SMTT(30), <1>a, <4>1 DEF NodeTypes, State
        <5>2. QED
          BY <3>1, <4>2, <5>1, ValidatorsAtBetween
      <4>4. valInfo'[k] = InfoFor(k, ValidatorsAt(k), ValidatorsAt(k))
        <5>1. valInfo \in [1..(MaxHeight + 1) -> ValidatorsInfo]
          BY Zenon DEF NodeTypes
        <5>2. valInfo'[k] = InfoFor(k, mem'.changed, mem'.vals)
          BY Zenon, <2>2, <3>1, <5>1
        <5>3. mem'.changed = ValidatorsAt(k) /\ mem'.vals = ValidatorsAt(k)
          BY Zenon, <3>2, <3>10, <4>1, <4>3
        <5>4. QED
          BY Zenon, <5>2, <5>3
      <4>5. ASSUME NEW h \in 1..(st.height + 1), h # k
            PROVE  valInfo'[h] = InfoFor(h, ValidatorsAt(h), ValidatorsAt(h))
        <5>1. valInfo'[h] = valInfo[h]
          BY SMTT(30), <2>2, <3>1, <4>5 DEF NodeTypes
        <5>2. QED
          BY SMTT(30), <4>1, <5>1 DEF History
      <4>6. QED
        BY <3>2, <4>2, <4>3, <4>4, <4>5
    <3>14. QED
      BY SMTT(30), <3>8, <3>9, <3>11, <3>12, <3>13
  <2>3. QED
    BY <1>7, <2>1, <2>2 DEF RollbackSaveValidators
<1>8. CASE RollbackSaveState
  <2>1. /\ pc = "rbState" /\ pc' = "rbDescriptor"
        /\ st' = mem
        /\ UNCHANGED <<storeHeight, blocks, valInfo, responses, target, mem,
                       cursor, crossed, killed, rollbacks, crashes>>
    BY <1>8 DEF RollbackSaveState
  <2>2. mem.height = target /\ target < st.height
    BY <2>1 DEF StepHeights
  <2>3. NodeTypes'
    BY <2>1 DEF NodeTypes, Stopped, InCommand, InAppRollback, InRollback
  <2>4. StepHeights' /\ StoreComplete'
    BY SMTT(30), <1>a, <2>1, <2>2 DEF StepHeights, StoreComplete, InCommand, InAppRollback, InRollback
  <2>5. FirstRollback' /\ StateMatchesChain'
    BY SMTT(30), <2>1, <2>2 DEF FirstRollback, StateMatchesChain, InCommand, InAppRollback, InRollback
  <2>6. History'
    <3>1. 1..(target + 1) \subseteq 1..(st.height + 1)
      BY <1>a, <2>2
    <3>2. QED
      BY <2>1, <2>2, <3>1 DEF History, InfoFor
  <2>7. QED
    BY <2>3, <2>4, <2>5, <2>6
<1>9. CASE RollbackSaveDescriptor
  <2>1. /\ pc = "rbDescriptor" /\ pc' = "rbDelete"
        /\ storeHeight' = target
        /\ UNCHANGED <<blocks, st, valInfo, responses, target, mem, cursor,
                       crossed, killed, rollbacks, crashes>>
    BY <1>9 DEF RollbackSaveDescriptor
  <2>2. st.height = target /\ target <= storeHeight
    BY <2>1 DEF StepHeights
  <2>3. NodeTypes'
    BY <1>a, <2>1, <2>2 DEF NodeTypes, Stopped, InCommand, InAppRollback, InRollback
  <2>4. StepHeights' /\ StoreComplete'
    BY SMTT(30), <1>a, <2>1, <2>2 DEF StepHeights, StoreComplete, InCommand, InAppRollback, InRollback
  <2>5. FirstRollback' /\ History' /\ StateMatchesChain'
    BY <2>1 DEF FirstRollback, History, StateMatchesChain, InCommand, InAppRollback, InRollback, InfoFor
  <2>6. QED
    BY <2>3, <2>4, <2>5
<1>10. CASE RollbackDelete
  <2>1. /\ pc = "rbDelete"
        /\ \/ /\ cursor > target /\ cursor' = cursor - 1 /\ pc' = pc
              /\ blocks' = blocks \ {cursor} /\ responses' = responses \ {cursor}
           \/ pc' = "off" /\ UNCHANGED <<blocks, responses, cursor>>
        /\ UNCHANGED <<storeHeight, st, valInfo, target, mem, crossed,
                       killed, rollbacks, crashes>>
    BY <1>10 DEF RollbackDelete
  <2>2. storeHeight = target
    BY <2>1 DEF StepHeights
  <2>3. NodeTypes'
    <3>1. cursor' \in 0..MaxHeight
      BY <1>a, <2>1 DEF NodeTypes
    <3>2. blocks' \subseteq Heights /\ responses' \subseteq Heights
      BY <2>1 DEF NodeTypes
    <3>3. QED
      BY <2>1, <3>1, <3>2 DEF NodeTypes, Stopped, InCommand, InAppRollback, InRollback
  <2>4. StepHeights' /\ StoreComplete'
    BY SMTT(30), <1>a, <2>1, <2>2 DEF StepHeights, StoreComplete, InCommand, InAppRollback, InRollback
  <2>5. FirstRollback' /\ History' /\ StateMatchesChain'
    BY <2>1 DEF FirstRollback, History, StateMatchesChain, InCommand, InAppRollback, InRollback, InfoFor
  <2>6. QED
    BY <2>3, <2>4, <2>5
<1>11. ASSUME Die, killed' \in BOOLEAN, responses' \in {responses, responses \cup {storeHeight}}
       PROVE  NodeInv'
  <2>1. /\ pc' = "off" /\ crashes < MaxCrashes /\ crashes' = crashes + 1
        /\ UNCHANGED <<storeHeight, blocks, st, valInfo, target, mem,
                       cursor, crossed, rollbacks>>
    BY <1>11 DEF Die
  <2>2. NodeTypes'
    BY <1>a, <1>11, <2>1 DEF NodeTypes, Stopped, InCommand, InAppRollback, InRollback
  <2>3. StepHeights' /\ StoreComplete'
    BY SMTT(30), <2>1 DEF StepHeights, StoreComplete, InCommand, InAppRollback, InRollback
  <2>4. FirstRollback' /\ History' /\ StateMatchesChain'
    <3>1. FirstRollback'
      BY Zenon, <2>1 DEF FirstRollback, InCommand, InAppRollback, InRollback
    <3>2. History' /\ StateMatchesChain'
      BY Zenon, <2>1 DEF History, StateMatchesChain, InfoFor
    <3>3. QED
      BY Zenon, <3>1, <3>2
  <2>5. QED
    BY <2>2, <2>3, <2>4
<1>12. CASE UNCHANGED vars
  <2> USE <1>12 DEF vars
  <2>1. NodeTypes'
    BY Zenon DEF NodeTypes, Stopped, InCommand, InAppRollback, InRollback
  <2>2. StepHeights'
    BY Zenon DEF StepHeights, InCommand, InAppRollback, InRollback, ValidBlock
  <2>3. FirstRollback' /\ History'
    BY Zenon DEF FirstRollback, History, InCommand, InAppRollback, InRollback, InfoFor
  <2>4. StateMatchesChain' /\ StoreComplete'
    BY Zenon DEF StateMatchesChain, StoreComplete
  <2>5. QED
    BY Zenon, <2>1, <2>2, <2>3, <2>4
<1>13. QED
  <2>1. ASSUME Crash \/ CrashInRollback \/ CrashInInsert
        PROVE  /\ Die /\ killed' \in BOOLEAN
               /\ responses' \in {responses, responses \cup {storeHeight}}
    BY Zenon, <2>1 DEF Crash, CrashInRollback, CrashInInsert, NodeTypes
  <2>2. CASE Kill
    BY Zenon, <1>6, <1>11, <2>1, <2>2 DEF Kill
  <2>3. CASE ProcessStep
    BY Zenon, <1>1, <1>2, <1>3, <1>4, <1>6, <1>7, <1>8, <1>9, <1>10, <2>3 DEF ProcessStep
  <2>4. QED
    BY Zenon, <1>5, <1>12, <2>2, <2>3 DEF Next

\* Moving one of the two heads leaves the other where it is.
LEMMA MoveHead ==
  ASSUME NEW r \in [header : 0..MaxHeight, fast : Heights]
  PROVE  /\ \A h \in 0..MaxHeight :
              /\ [r EXCEPT !.header = h] \in [header : 0..MaxHeight, fast : Heights]
              /\ [r EXCEPT !.header = h].fast = r.fast
         /\ \A f \in Heights :
              /\ [r EXCEPT !.fast = f] \in [header : 0..MaxHeight, fast : Heights]
              /\ [r EXCEPT !.fast = f].fast = f
  BY SMTT(30)

\* Every step preserves what the application's database satisfies: only a step of
\* `ethermint rollback` lowers a head, and only one of it or a new block moves one.
LEMMA AppPreserves == IInv /\ [Next]_vars => AppTypes' /\ AppHeights'
<1> SUFFICES ASSUME IInv, [Next]_vars PROVE AppTypes' /\ AppHeights'
  OBVIOUS
<1> USE DEF IInv, NodeInv
<1>a. /\ MaxHeight \in Nat /\ Heights = 1..MaxHeight
      /\ storeHeight \in Heights /\ st.height \in Heights
      /\ target \in Nat /\ appHeight \in 0..MaxHeight /\ cursor \in 0..MaxHeight
      /\ heads.header \in 0..MaxHeight /\ heads.fast \in Heights
  BY SMTT(30), RollbackAssumption DEF NodeTypes, AppTypes, State, Heights
<1>b. /\ heads \in [header : 0..MaxHeight, fast : Heights]
      /\ \A h \in appBlocks \cup {0} : h \in 0..MaxHeight
      /\ \A h \in Heights : h \in 0..MaxHeight
  BY SMTT(30), RollbackAssumption DEF AppTypes, Heights
<1>1. ASSUME NEW b \in Heights, Insert(b), b <= storeHeight, storeHeight' = storeHeight,
             faulted' = faulted, ~InCommand'
      PROVE  AppTypes' /\ AppHeights'
  <2>1. /\ appHeight' = b /\ appBlocks' = appBlocks \cup (appHeight + 1)..b
        /\ canonical' \in {b, canonical}
        /\ heads' = [header |-> b, fast |-> b] \/ heads' = heads
    BY Zenon, <1>1 DEF Insert
  <2>2. AppTypes'
    <3>1. heads' \in [header : 0..MaxHeight, fast : Heights]
      BY <1>a, <2>1 DEF AppTypes
    <3>2. appBlocks' \subseteq Heights /\ appHeight' \in 0..MaxHeight
      BY <1>a, <2>1 DEF AppTypes
    <3>3. QED
      BY Zenon, <1>1, <2>1, <3>1, <3>2 DEF AppTypes
  <2>3. ~faulted => 1..b \subseteq appBlocks'
    BY <1>a, <2>1 DEF AppHeights
  <2>4. QED
    BY Zenon, <1>1, <2>1, <2>2, <2>3 DEF AppHeights, InCommand, InAppRollback, InRollback
<1>2. ASSUME UNCHANGED <<appDB, faulted, storeHeight>>, ~InCommand'
      PROVE  AppTypes' /\ AppHeights'
  BY Zenon, <1>2 DEF appDB, AppTypes, AppHeights, InCommand, InAppRollback, InRollback
<1>3. CASE StartNode
  <2>1. /\ UNCHANGED <<faulted, storeHeight>> /\ pc' \in {"genesis", "panicked", "sync", "apply"}
        /\ Insert(st.height) \/ UNCHANGED appDB
    BY <1>3 DEF StartNode
  <2>2. ~InCommand' /\ st.height <= storeHeight
    BY <2>1 DEF InCommand, InAppRollback, InRollback, StepHeights
  <2>3. QED
    BY Zenon, <1>a, <1>1, <1>2, <2>1, <2>2
<1>4. CASE Execute
  <2>1. /\ UNCHANGED <<faulted, storeHeight>> /\ pc' \in {"panicked", "saveState"}
        /\ Insert(storeHeight) \/ UNCHANGED appDB
    BY Zenon, <1>4 DEF Execute
  <2>2. ~InCommand' /\ storeHeight <= storeHeight
    BY <1>a, <2>1 DEF InCommand, InAppRollback, InRollback
  <2>3. QED
    BY Zenon, <1>a, <1>1, <1>2, <2>1, <2>2
<1>5. CASE StoreBlock
  <2>1. /\ UNCHANGED <<appDB, faulted>> /\ pc' = "apply" /\ storeHeight' = storeHeight + 1
    BY Zenon, <1>5 DEF StoreBlock
  <2>2. appHeight <= storeHeight => appHeight <= storeHeight'
    BY <1>a, <2>1
  <2>3. QED
    BY Zenon, <2>1, <2>2 DEF appDB, AppTypes, AppHeights, InRollback
<1>6. CASE SaveState \/ Crash
  <2>1. UNCHANGED <<appDB, faulted, storeHeight>> /\ pc' \in {"sync", "off"}
    BY Zenon, <1>6 DEF SaveState, Crash, Die
  <2>2. ~InCommand'
    BY <2>1 DEF InCommand, InAppRollback, InRollback
  <2>3. QED
    BY Zenon, <1>2, <2>1, <2>2
<1>7. CASE RollbackBegin
  <2>1. /\ UNCHANGED <<appDB, storeHeight>> /\ pc' = "rollbackApp"
        /\ faulted' = (faulted \/ {heads.header, heads.fast} # {appHeight})
    BY Zenon, <1>7 DEF RollbackBegin
  <2>2. AppTypes'
    BY Zenon, <2>1 DEF appDB, AppTypes
  <2>3. ~faulted' => ~faulted /\ heads.header = appHeight /\ heads.fast = appHeight
    BY Zenon, <2>1
  <2>4. QED
    BY Zenon, <2>1, <2>2, <2>3 DEF appDB, AppHeights, InRollback
<1>8. CASE RollbackApp
  <2>1. /\ pc = "rollbackApp"
        /\ pc' = IF appHeight > target /\ appHeight \in appBlocks THEN "raHeader" ELSE "rollback"
        /\ cursor' = IF heads.header \in appBlocks \cup {0} THEN heads.header ELSE appHeight
        /\ UNCHANGED <<appDB, storeHeight, target, faulted>>
    BY Zenon, <1>8 DEF RollbackApp
  <2>2. AppTypes'
    BY Zenon, <2>1 DEF appDB, AppTypes
  <2>3. ASSUME ~faulted PROVE cursor' = appHeight /\ (pc' = "rollback" => appHeight <= target)
    <3>1. heads.header = appHeight /\ heads.fast = appHeight /\ 1..appHeight \subseteq appBlocks
      BY Zenon, <2>1, <2>3 DEF AppHeights
    <3>2. appHeight \in 1..appHeight
      BY <1>a, <3>1
    <3>3. QED
      BY <1>a, <2>1, <3>1, <3>2
  <2>4. pc' \in {"raHeader", "rollback"} /\ (pc' = "rollback" \/ ~InRollback')
    BY <2>1 DEF InRollback
  <2>5. ~faulted => heads.fast = appHeight
    BY Zenon, <2>1 DEF AppHeights
  <2>6. QED
    BY Zenon, <2>1, <2>2, <2>3, <2>4, <2>5 DEF appDB, AppHeights
<1>9. CASE RollbackHeader
  <2>1. /\ pc = "raHeader" /\ UNCHANGED <<storeHeight, target, faulted, appHeight, canonical, appBlocks>>
        /\ \/ /\ heads.fast > target /\ cursor - 1 \in appBlocks \cup {0}
              /\ cursor' = cursor - 1 /\ heads' = [heads EXCEPT !.header = cursor'] /\ pc' = "raBlock"
           \/ /\ ~(heads.fast > target /\ cursor - 1 \in appBlocks \cup {0})
              /\ pc' = "rollback" /\ heads' = heads
    BY Zenon, <1>9 DEF RollbackHeader
  <2>2. CASE pc' = "raBlock"
    <3>1. /\ heads.fast > target /\ cursor' = cursor - 1 /\ cursor' \in appBlocks \cup {0}
          /\ heads' = [heads EXCEPT !.header = cursor']
      BY <2>1, <2>2
    <3>2. heads' \in [header : 0..MaxHeight, fast : Heights] /\ heads'.fast = heads.fast
      <4>1. cursor' \in 0..MaxHeight
        BY Zenon, <1>b, <3>1
      <4>2. QED
        BY Zenon, <1>b, <3>1, <4>1, MoveHead
    <3>3. target' < heads'.fast
      BY <1>a, <2>1, <3>1, <3>2
    <3>4. QED
      BY Zenon, <2>1, <2>2, <3>1, <3>2, <3>3 DEF AppTypes, AppHeights, InRollback
  <2>3. CASE pc' = "rollback"
    <3>1. ~(heads.fast > target /\ cursor - 1 \in appBlocks \cup {0}) /\ heads' = heads
      BY <2>1, <2>3
    <3>2. ~faulted => appHeight <= target
      <4> SUFFICES ASSUME ~faulted PROVE appHeight <= target
        OBVIOUS
      <4>1. cursor = appHeight /\ heads.fast = appHeight /\ 1..appHeight \subseteq appBlocks
        BY Zenon, <2>1 DEF AppHeights
      <4>2. cursor - 1 \in 1..appHeight \/ cursor - 1 = 0
        BY <1>a, <4>1
      <4>3. QED
        BY <1>a, <3>1, <4>1, <4>2
    <3>3. QED
      BY Zenon, <2>1, <2>3, <3>1, <3>2 DEF AppTypes, AppHeights
  <2>4. QED
    BY Zenon, <2>1, <2>2, <2>3
<1>10. CASE RollbackBlock
  <2>1. /\ pc = "raBlock" /\ UNCHANGED <<storeHeight, target, faulted, heads, canonical, appBlocks, cursor>>
        /\ \/ appHeight - 1 \in appBlocks \cup {0} /\ appHeight' = appHeight - 1 /\ pc' = "raFast"
           \/ appHeight - 1 \notin appBlocks \cup {0} /\ pc' = "rollback" /\ appHeight' = appHeight
    BY Zenon, <1>10 DEF RollbackBlock
  <2>2. ~faulted => appHeight - 1 \in appBlocks \cup {0}
    <3> SUFFICES ASSUME ~faulted PROVE appHeight - 1 \in appBlocks \cup {0}
      OBVIOUS
    <3>1. heads.fast = appHeight /\ 1..appHeight \subseteq appBlocks
      BY Zenon, <2>1 DEF AppHeights
    <3>2. QED
      BY <1>a, <3>1
  <2>3. CASE pc' = "raFast"
    <3>1. appHeight' = appHeight - 1 /\ appHeight' \in appBlocks \cup {0}
      BY <2>1, <2>3
    <3>2. appHeight' \in 0..MaxHeight
      BY <1>a, <3>1 DEF AppTypes
    <3>3. AppTypes'
      BY Zenon, <2>1, <3>2 DEF AppTypes
    <3>4. target' < heads'.fast
      BY Zenon, <2>1 DEF AppHeights
    <3>5. ASSUME ~faulted
          PROVE  /\ appHeight' <= storeHeight' /\ 1..(appHeight') \subseteq appBlocks'
                 /\ cursor' = appHeight' /\ heads'.fast = appHeight' + 1
      <4>1. /\ appHeight <= storeHeight /\ 1..appHeight \subseteq appBlocks
            /\ cursor = appHeight - 1 /\ heads.fast = appHeight
        BY Zenon, <2>1, <3>5 DEF AppHeights
      <4>2. QED
        BY <1>a, <2>1, <3>1, <4>1
    <3>6. pc' = "raFast" /\ ~InRollback' /\ faulted' = faulted
      BY <2>1, <2>3 DEF InRollback
    <3>7. QED
      BY Zenon, <3>3, <3>4, <3>5, <3>6 DEF AppHeights
  <2>4. CASE pc' = "rollback"
    BY Zenon, <2>1, <2>2, <2>4 DEF AppTypes, AppHeights
  <2>5. QED
    BY Zenon, <2>1, <2>3, <2>4
<1>11. CASE RollbackFast
  <2>1. /\ pc = "raFast" /\ pc' = "raDelete" /\ heads' = [heads EXCEPT !.fast = @ - 1]
        /\ UNCHANGED <<storeHeight, target, faulted, appHeight, canonical, appBlocks, cursor>>
    BY Zenon, <1>11 DEF RollbackFast
  <2>2. target < heads.fast /\ target >= 1
    BY Zenon, <2>1 DEF AppHeights, StepHeights, InCommand, InAppRollback
  <2>3. heads' \in [header : 0..MaxHeight, fast : Heights] /\ heads'.fast = heads.fast - 1
    <3>1. heads.fast - 1 \in Heights
      BY <1>a, <2>2
    <3>2. QED
      BY Zenon, <1>b, <2>1, <3>1, MoveHead
  <2>4. ~faulted => heads'.fast = appHeight
    BY <1>a, <2>1, <2>3 DEF AppHeights
  <2>5. QED
    BY Zenon, <2>1, <2>3, <2>4 DEF AppTypes, AppHeights, InRollback
<1>12. CASE RollbackDeleteBlock
  <2>1. /\ pc = "raDelete" /\ pc' = "raHeader" /\ appBlocks' = appBlocks \ {heads.fast + 1}
        /\ UNCHANGED <<storeHeight, target, faulted, appHeight, heads, canonical, cursor>>
    BY Zenon, <1>12 DEF RollbackDeleteBlock
  <2>2. ~faulted => 1..appHeight \subseteq appBlocks'
    BY <1>a, <2>1 DEF AppHeights
  <2>3. appBlocks' \subseteq Heights
    BY Zenon, <2>1 DEF AppTypes
  <2>4. QED
    BY Zenon, <2>1, <2>2, <2>3 DEF AppTypes, AppHeights, InRollback
<1>13. CASE RollbackSaveValidators \/ RollbackSaveState
  <2>1. /\ InRollback /\ UNCHANGED <<appDB, faulted, storeHeight, target>>
        /\ pc' \in {"rbState", "rbDescriptor", "off"}
    BY Zenon, <1>13 DEF RollbackSaveValidators, RollbackSaveState, InRollback
  <2>2. pc' \notin {"rollbackApp", "raHeader", "raBlock", "raFast", "raDelete"}
    BY <2>1
  <2>3. QED
    BY Zenon, <2>1, <2>2 DEF appDB, AppTypes, AppHeights
<1>14. CASE RollbackSaveDescriptor
  <2>1. /\ InRollback /\ UNCHANGED <<appDB, faulted, target>>
        /\ pc' = "rbDelete" /\ storeHeight' = target
    BY Zenon, <1>14 DEF RollbackSaveDescriptor, InRollback
  <2>2. QED
    BY Zenon, <2>1 DEF appDB, AppTypes, AppHeights
<1>15. CASE RollbackDelete
  <2>1. /\ InRollback /\ UNCHANGED <<appDB, faulted, storeHeight, target>>
        /\ pc' \in {"rbDelete", "off"}
    BY Zenon, <1>15 DEF RollbackDelete, InRollback
  <2>2. pc' \notin {"rollbackApp", "raHeader", "raBlock", "raFast", "raDelete"}
    BY <2>1
  <2>3. QED
    BY Zenon, <2>1, <2>2 DEF appDB, AppTypes, AppHeights
<1>16. CASE CrashInInsert
  <2>1. /\ UNCHANGED <<storeHeight, faulted>> /\ pc' = "off" /\ appHeight < storeHeight
        /\ appBlocks' = appBlocks \cup (appHeight + 1)..storeHeight
        /\ canonical' \in {storeHeight, canonical} /\ appHeight' \in {appHeight, storeHeight}
        /\ heads' = heads \/ heads' = [heads EXCEPT !.header = storeHeight]
    BY Zenon, <1>16 DEF CrashInInsert, Die
  <2>2. heads' \in [header : 0..MaxHeight, fast : Heights]
    BY Zenon, <1>a, <1>b, <2>1, MoveHead
  <2>3. appBlocks' \subseteq Heights /\ appHeight' \in 0..MaxHeight /\ canonical' \in Heights
    BY <1>a, <2>1 DEF AppTypes
  <2>4. ~faulted => appHeight' <= storeHeight /\ 1..(appHeight') \subseteq appBlocks'
    BY <1>a, <2>1 DEF AppHeights
  <2>5. QED
    BY Zenon, <2>1, <2>2, <2>3, <2>4 DEF AppTypes, AppHeights, InRollback
<1>17. CASE CrashInAppRollback
  <2>1. UNCHANGED appDB /\ faulted' = TRUE /\ pc' = "rollback"
    BY Zenon, <1>17 DEF CrashInAppRollback
  <2>2. QED
    BY Zenon, <2>1 DEF appDB, AppTypes, AppHeights
<1>18. CASE CrashInRollback
  <2>1. UNCHANGED <<appDB, faulted, storeHeight>> /\ pc' = "off"
    BY Zenon, <1>18 DEF CrashInRollback, Die
  <2>2. ~InCommand'
    BY <2>1 DEF InCommand, InAppRollback, InRollback
  <2>3. QED
    BY Zenon, <1>2, <2>1, <2>2
<1>19. CASE UNCHANGED vars
  BY Zenon, <1>19 DEF vars, appDB, AppTypes, AppHeights, InRollback
<1>20. QED
  BY Zenon, <1>3, <1>4, <1>5, <1>6, <1>7, <1>8, <1>9, <1>10, <1>11, <1>12, <1>13, <1>14, <1>15,
     <1>16, <1>17, <1>18, <1>19
  DEF Next, ProcessStep, Kill

\* The invariant holds in every state of every behaviour.
LEMMA Invariance == Spec => []IInv
<1>1. IInv /\ [Next]_vars => IInv'
  BY Zenon, NodePreserves, AppPreserves DEF IInv
<1>2. QED
  BY <1>1, InitIInv, PTL DEF Spec

-----------------------------------------------------------------------------
\* Every variable keeps its type: no rollback takes a height out of the chain.
THEOREM RollbackTypes == Spec => []TypeOK
<1>1. IInv => TypeOK
  BY Zenon DEF IInv, NodeInv, NodeTypes, AppTypes, TypeOK
<1>2. QED
  BY <1>1, Invariance, PTL

\* A node that is rolled back once has the validators the chain had at its height,
\* wherever rollbackBlocks lands and wherever it is killed.
THEOREM StateMatchesChainThm == Spec => []StateMatchesChain
  BY Invariance, PTL DEF IInv, NodeInv

\* Until a rollback goes back over a validator change, LoadValidators finds the
\* set of every height the node holds.
THEOREM HistoryIntactThm == Spec => []HistoryIntact
<1>1. IInv => HistoryIntact
  BY SMTT(30), HistoryLoads DEF IInv, NodeInv, NodeTypes, State, History, HistoryIntact
<1>2. QED
  BY <1>1, Invariance, PTL

\* No kill of the command leaves a hole below the descriptor of the block store.
THEOREM StoreCompleteThm == Spec => []StoreComplete
  BY Invariance, PTL DEF IInv, NodeInv

\* The application is never above the block store, where the handshake would refuse
\* to start for good, unless some `ethermint rollback` was cut short or found its
\* heads apart: the script goes on with tendermint's half either way.
THEOREM AppNeverAheadThm == Spec => []AppNeverAhead
<1>1. IInv => AppNeverAhead
  BY Zenon DEF IInv, AppHeights, AppNeverAhead
<1>2. QED
  BY <1>1, Invariance, PTL
=============================================================================
