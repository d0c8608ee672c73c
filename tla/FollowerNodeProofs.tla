-------------------------- MODULE FollowerNodeProofs --------------------------
(***************************************************************************)
(* Proofs about FollowerNode, for every chain length, starting height,     *)
(* placement of transactions and number of faults.                         *)
(***************************************************************************)
EXTENDS FollowerNode, TLAPS

\* What the three databases have in common at every instant.
Durable ==
  /\ 1 <= appHeight
  /\ 1 <= st.height
  /\ HeightsInStep
  /\ 1..storeHeight \subseteq blocks
  /\ AgreesWithChain
  /\ appHeight = st.height + 1 => responses[appHeight] = appHeight

\* Every database is at the same block.
Level == storeHeight = st.height /\ appHeight = st.height

\* ApplyBlock has a block to apply: the one the state lacks, which the
\* application lacks too unless its mock stands in for it.
Applying ==
  /\ mem = st
  /\ blk = st.height + 1
  /\ blk = storeHeight
  /\ mock => ~syncing /\ appHeight = blk
  /\ ~mock => appHeight = st.height

\* What each step of the node relies on.
StepInv ==
  /\ pc \notin {"saveResponses", "commit", "replayCommit"} => work = None
  /\ pc # "panicked"
  /\ pc = "replay" =>
       /\ mem = st
       /\ ~mock
       /\ ~syncing
       /\ final = st.height
       /\ blk = appHeight + 1
       /\ blk <= final + 1
  /\ pc = "replayCommit" =>
       /\ mem = st
       /\ ~mock
       /\ ~syncing
       /\ final = st.height
       /\ blk = appHeight + 1
       /\ blk <= final
       /\ work \in {None, blk}
  /\ pc = "reactor" => Level
  /\ pc = "idle" => mem = st /\ Level /\ poolHeight = storeHeight + 1
  /\ pc = "saveDescriptor" =>
       /\ mem = st
       /\ Level
       /\ blk = storeHeight + 1
       /\ blk \in blocks
       /\ poolHeight = blk + 1
  /\ pc \in {"validate", "exec"} => Applying
  /\ pc \in {"saveResponses", "commit"} =>
       /\ Applying
       /\ result = blk
       /\ work \in {None, blk}
       /\ mock => work = None
  /\ pc = "commit" => responses[blk] = blk
  /\ pc = "saveState" =>
       /\ mem.height = blk
       /\ mem.appHash = blk
       /\ mem.results = blk
       /\ blk = storeHeight
       /\ blk = st.height + 1
       /\ appHeight = blk
       /\ responses[blk] = blk
  /\ pc = "publish" =>
       /\ mem = st
       /\ blk = st.height
       /\ Level
  /\ pc \in {"validate", "exec", "saveResponses", "commit", "saveState", "publish"}
       /\ syncing => poolHeight = storeHeight + 1

\* The evidence pool is updated after the state is saved, and only by the sync loop.
EvidenceInv ==
  /\ EvidenceUpdatedOnce
  /\ pc = "publish" /\ syncing => updated[blk] = 0

IInv == TypeOK /\ Durable /\ StepInv /\ EvidenceInv

\* The heights are natural numbers within the chain.
LEMMA HeightTypes ==
  ASSUME TypeOK
  PROVE  /\ MaxHeight \in Nat
         /\ storeHeight \in 0..MaxHeight
         /\ appHeight \in 0..MaxHeight
         /\ st.height \in 0..MaxHeight
         /\ mem.height \in 0..MaxHeight
  BY HeightAssumption DEF TypeOK, State

\* From databases in step, ReplayBlocks chooses one of the plans that recover.
LEMMA PlanRecovers ==
  ASSUME IInv, NEW plan, plan = ReplayPlan(storeHeight, st.height, appHeight)
  PROVE  \/ plan = "checkAppHash" /\ Level
         \/ plan \in {"replayApp", "replayAppState"} /\ appHeight < st.height
         \/ /\ plan = "replayReal"
            /\ storeHeight = st.height + 1
            /\ appHeight = st.height
         \/ /\ plan = "replayMock"
            /\ storeHeight = st.height + 1
            /\ appHeight = storeHeight
<1> USE HeightTypes DEF IInv, Durable, HeightsInStep, Level
<1>1. CASE storeHeight = st.height
  BY <1>1 DEF ReplayPlan
<1>2. CASE storeHeight = st.height + 1
  BY <1>2 DEF ReplayPlan
<1>3. QED
  BY <1>1, <1>2

\* Every step of the node and of its environment preserves the invariant.
LEMMA StepPreserves == IInv /\ [Next]_vars => IInv'
<1> SUFFICES ASSUME IInv, [Next]_vars PROVE IInv'
  OBVIOUS
<1> USE HeightTypes DEF IInv
<1>1. CASE Handshake
  <2> DEFINE plan == ReplayPlan(storeHeight, st.height, appHeight)
  <2>1. /\ pc \in {"off", "panicked"}
        /\ mem' = st
        /\ syncing' = FALSE
        /\ UNCHANGED <<durable, work, result, poolHeight, updated, published, faults>>
    BY <1>1 DEF Handshake
  <2>2. Durable' /\ EvidenceUpdatedOnce'
    BY <2>1
    DEF durable, Durable, EvidenceInv, EvidenceUpdatedOnce, HeightsInStep,
        AgreesWithChain
  <2>3. work = None
    BY <2>1 DEF StepInv
  <2>4. CASE plan = "checkAppHash"
    <3>1. Level
      BY <2>4, PlanRecovers
    <3>2. pc' = "reactor" /\ UNCHANGED <<blk, final, mock>>
      BY <1>1, <2>4, <3>1 DEF Handshake, Durable, AgreesWithChain, Level
    <3>3. TypeOK'
      BY Zenon, <2>1, <3>2 DEF TypeOK, durable, Steps
    <3>4. StepInv'
      BY <2>1, <2>3, <3>1, <3>2 DEF StepInv, Level, durable
    <3>5. QED
      BY <2>2, <3>2, <3>3, <3>4 DEF EvidenceInv
  <2>5. CASE plan \in {"replayApp", "replayAppState"}
    <3>1. appHeight < st.height
      BY <2>5, PlanRecovers
    <3>2. /\ pc' = "replay"
          /\ blk' = appHeight + 1
          /\ final' = st.height
          /\ mock' = FALSE
      BY <1>1, <2>5 DEF Handshake
    <3> mock' \in BOOLEAN /\ syncing' \in BOOLEAN
      BY Zenon, <2>1, <3>2
    <3>3. TypeOK'
      BY <2>1, <3>1, <3>2 DEF TypeOK, durable, Steps
    <3>4. StepInv'
      BY <2>1, <2>3, <3>1, <3>2 DEF StepInv, durable
    <3>5. QED
      BY <2>2, <3>2, <3>3, <3>4 DEF EvidenceInv
  <2>6. CASE plan \in {"replayReal", "replayMock"}
    <3>1. /\ storeHeight = st.height + 1
          /\ plan = "replayMock" => appHeight = storeHeight
          /\ plan = "replayReal" => appHeight = st.height
      BY <2>6, PlanRecovers
    <3>2. /\ storeHeight \in blocks
          /\ plan = "replayMock" => responses[storeHeight] # None
      BY <3>1 DEF Durable, None
    <3>3. /\ pc' = "validate"
          /\ blk' = storeHeight
          /\ mock' = (plan = "replayMock")
          /\ UNCHANGED final
      BY <1>1, <2>6, <3>2 DEF Handshake
    <3> mock' \in BOOLEAN /\ syncing' \in BOOLEAN
      BY Zenon, <2>1, <3>3
    <3>4. TypeOK'
      BY <2>1, <3>3 DEF TypeOK, durable, Steps
    <3>5. Applying'
      BY Zenon, <2>1, <2>6, <3>1, <3>3 DEF Applying, durable
    <3>6. StepInv'
      BY <2>1, <2>3, <3>3, <3>5 DEF StepInv, durable
    <3>7. QED
      BY <2>2, <3>3, <3>4, <3>6 DEF EvidenceInv
  <2>7. QED
    BY <2>4, <2>5, <2>6, PlanRecovers
<1>2. CASE ReplayExec
  <2>1. /\ blk \in 0..MaxHeight
        /\ blk \in blocks
        /\ pc' = "replayCommit"
        /\ work' \in {None, blk}
    BY <1>2
    DEF ReplayExec, Durable, StepInv, Level, HeightsInStep, AgreesWithChain,
        TypeOK, WorkAfter, Executes
  <2>2. TypeOK'
    BY <2>1, <1>2 DEF ReplayExec, TypeOK, durable, Steps, Hash
  <2>3. Durable'
    BY <2>1, <1>2
    DEF ReplayExec, durable, TypeOK, Durable, HeightsInStep, AgreesWithChain
  <2>4. StepInv'
    BY <2>1, <2>2, <1>2 DEF ReplayExec, durable, StepInv, Level
  <2>5. EvidenceInv'
    BY SMTT(30), <2>1, <1>2 DEF ReplayExec, durable, TypeOK, EvidenceInv, EvidenceUpdatedOnce
  <2>6. QED
    BY <2>2, <2>3, <2>4, <2>5
<1>3. CASE ReplayCommit
  <2>1. /\ blk \in 1..MaxHeight
        /\ appHeight' = blk
        /\ appHash' = blk
        /\ work' = None
        /\ blk <= st.height
    BY <1>3
    DEF ReplayCommit, Durable, StepInv, Level, HeightsInStep, AgreesWithChain,
        TypeOK, AppCommit, CommitHash, Executes
  <2>2. TypeOK'
    BY <2>1, <1>3 DEF ReplayCommit, TypeOK, durable, Steps, Hash
  <2>3. Durable'
    BY <2>1, <1>3
    DEF ReplayCommit, durable, TypeOK, Durable, HeightsInStep, AgreesWithChain
  <2>4. StepInv'
    BY <2>1, <2>2, <1>3 DEF ReplayCommit, durable, StepInv, Level
  <2>5. EvidenceInv'
    BY <2>1, <1>3
    DEF ReplayCommit, durable, TypeOK, EvidenceInv, EvidenceUpdatedOnce
  <2>6. QED
    BY <2>2, <2>3, <2>4, <2>5
<1>4. CASE ReplayDone
  <2>1. /\ blk' \in 0..(MaxHeight + 1)
        /\ blk = st.height + 1
        /\ appHeight = st.height
        /\ storeHeight = st.height => pc' = "reactor"
        /\ storeHeight = st.height + 1 => pc' = "validate" /\ blk' = storeHeight
        /\ storeHeight \in {st.height, st.height + 1}
    BY <1>4
    DEF ReplayDone, Durable, StepInv, Level, HeightsInStep, AgreesWithChain,
        TypeOK
  <2>2. TypeOK'
    BY <2>1, <1>4 DEF ReplayDone, TypeOK, durable, Steps
  <2>3. Durable'
    BY SMTT(30), <2>1, <1>4
    DEF ReplayDone, durable, TypeOK, Durable, HeightsInStep, AgreesWithChain
  <2>4. StepInv'
    BY <2>1, <2>2, <1>4 DEF ReplayDone, durable, StepInv, Level, Applying
  <2>5. EvidenceInv'
    BY SMTT(30), <2>1, <1>4 DEF ReplayDone, durable, TypeOK, EvidenceInv, EvidenceUpdatedOnce
  <2>6. QED
    BY <2>2, <2>3, <2>4, <2>5
<1>5. CASE NewBlockchainReactor
  <2>1. /\ pc' = "idle"
        /\ poolHeight' = storeHeight + 1
        /\ Level
    BY <1>5
    DEF NewBlockchainReactor, Durable, StepInv, Level, HeightsInStep,
        AgreesWithChain, TypeOK
  <2>2. TypeOK'
    BY <2>1, <1>5 DEF NewBlockchainReactor, TypeOK, durable, Steps
  <2>3. Durable'
    BY <2>1, <1>5
    DEF NewBlockchainReactor, durable, TypeOK, Durable, HeightsInStep,
        AgreesWithChain
  <2>4. StepInv'
    BY <2>1, <2>2, <1>5 DEF NewBlockchainReactor, durable, StepInv, Level
  <2>5. EvidenceInv'
    BY SMTT(30), <2>1, <1>5
    DEF NewBlockchainReactor, durable, TypeOK, EvidenceInv, EvidenceUpdatedOnce
  <2>6. QED
    BY <2>2, <2>3, <2>4, <2>5
<1>6. CASE SaveBlockData
  <2>1. /\ poolHeight = storeHeight + 1
        /\ poolHeight \in 1..MaxHeight
        /\ poolHeight \in Heights
        /\ pc' = "saveDescriptor"
        /\ blocks' = blocks \cup {poolHeight}
    BY <1>6
    DEF SaveBlockData, Durable, StepInv, Level, HeightsInStep, AgreesWithChain,
        TypeOK, Heights
  <2>2. TypeOK'
    BY <2>1, <1>6 DEF SaveBlockData, TypeOK, durable, Steps
  <2>3. Durable'
    BY <2>1, <1>6
    DEF SaveBlockData, durable, TypeOK, Durable, HeightsInStep, AgreesWithChain
  <2>4. StepInv'
    BY <2>1, <2>2, <1>6 DEF SaveBlockData, durable, StepInv, Level
  <2>5. EvidenceInv'
    BY SMTT(30), <2>1, <1>6
    DEF SaveBlockData, durable, TypeOK, EvidenceInv, EvidenceUpdatedOnce
  <2>6. QED
    BY <2>2, <2>3, <2>4, <2>5
<1>7. CASE SaveBlockDescriptor
  <2>1. /\ blk = st.height + 1
        /\ blk \in blocks
        /\ blk \in 1..MaxHeight
        /\ storeHeight = st.height
        /\ appHeight = st.height
        /\ mock' \in BOOLEAN
        /\ syncing' \in BOOLEAN
    BY Zenon, <1>7
    DEF SaveBlockDescriptor, Durable, StepInv, Level, HeightsInStep,
        AgreesWithChain, TypeOK, Heights
  <2>2. TypeOK'
    BY <2>1, <1>7 DEF SaveBlockDescriptor, TypeOK, durable, Steps
  <2>3. Durable'
    BY <2>1, <1>7
    DEF SaveBlockDescriptor, durable, TypeOK, Durable, HeightsInStep,
        AgreesWithChain
  <2>4. StepInv'
    BY <2>1, <2>2, <1>7 DEF SaveBlockDescriptor, durable, StepInv, Level, Applying
  <2>5. EvidenceInv'
    BY <2>1, <1>7
    DEF SaveBlockDescriptor, durable, TypeOK, EvidenceInv, EvidenceUpdatedOnce
  <2>6. QED
    BY <2>2, <2>3, <2>4, <2>5
<1>8. CASE ValidateBlock
  <2>1. /\ Applying
        /\ pc' = "exec"
    BY <1>8
    DEF ValidateBlock, Durable, StepInv, Level, HeightsInStep, AgreesWithChain,
        TypeOK, ValidBlock, Applying
  <2>2. TypeOK'
    BY <2>1, <1>8 DEF ValidateBlock, TypeOK, durable, Steps
  <2>3. Durable'
    BY <2>1, <1>8
    DEF ValidateBlock, durable, TypeOK, Durable, HeightsInStep, AgreesWithChain
  <2>4. StepInv'
    BY <2>1, <2>2, <1>8 DEF ValidateBlock, durable, StepInv, Level, Applying
  <2>5. EvidenceInv'
    BY SMTT(30), <2>1, <1>8
    DEF ValidateBlock, durable, TypeOK, EvidenceInv, EvidenceUpdatedOnce
  <2>6. QED
    BY <2>2, <2>3, <2>4, <2>5
<1>9. CASE ExecBlockOnProxyApp
  <2>1. /\ Applying
        /\ blk \in 1..MaxHeight
        /\ result' = blk
        /\ work' \in {None, blk}
        /\ mock => work' = None
    <3>1. pc = "exec"
      BY Zenon, <1>9 DEF ExecBlockOnProxyApp
    <3>2. Applying /\ work = None
      BY Zenon, <3>1 DEF StepInv
    <3>3. blk = st.height + 1 /\ blk = storeHeight /\ (mock => appHeight = blk)
      BY Zenon, <3>2 DEF Applying
    <3>4. blk \in 1..MaxHeight
      BY <3>3
    <3>5. appHash = appHeight /\ st.appHash = st.height
          /\ (appHeight = st.height + 1 => responses[appHeight] = appHeight)
      BY Zenon DEF Durable, AgreesWithChain
    <3>6. QED
      BY <1>9, <3>2, <3>3, <3>4, <3>5
      DEF ExecBlockOnProxyApp, WorkAfter, TxResults, Executes, Applying
  <2>2. TypeOK'
    BY <2>1, <1>9 DEF ExecBlockOnProxyApp, TypeOK, durable, Steps, Hash
  <2>3. Durable'
    BY SMTT(30), <2>1, <1>9
    DEF ExecBlockOnProxyApp, durable, TypeOK, Durable, HeightsInStep,
        AgreesWithChain
  <2>4. StepInv'
    BY <2>1, <2>2, <1>9 DEF ExecBlockOnProxyApp, durable, StepInv, Level, Applying
  <2>5. EvidenceInv'
    BY SMTT(30), <2>1, <1>9
    DEF ExecBlockOnProxyApp, durable, TypeOK, EvidenceInv, EvidenceUpdatedOnce
  <2>6. QED
    BY <2>2, <2>3, <2>4, <2>5
<1>10. CASE SaveABCIResponses
  <2>1. /\ Applying
        /\ blk \in Heights
        /\ result = blk
        /\ responses' = [responses EXCEPT ![blk] = blk]
        /\ responses'[blk] = blk
        /\ \A h \in Heights : responses'[h] \in {None, h}
    BY SMTT(30), <1>10
    DEF SaveABCIResponses, Durable, StepInv, Level, HeightsInStep,
        AgreesWithChain, TypeOK, Applying, Heights
  <2>2. TypeOK'
    BY ZenonT(30), <2>1, <1>10 DEF SaveABCIResponses, TypeOK, durable, Steps, Hash, Heights
  <2>3. Durable'
    BY <2>1, <1>10
    DEF SaveABCIResponses, durable, TypeOK, Durable, HeightsInStep,
        AgreesWithChain, Applying, Heights, None
  <2>4. StepInv'
    BY <2>1, <2>2, <1>10 DEF SaveABCIResponses, durable, StepInv, Level, Applying
  <2>5. EvidenceInv'
    BY <2>1, <1>10
    DEF SaveABCIResponses, durable, TypeOK, EvidenceInv, EvidenceUpdatedOnce
  <2>6. QED
    BY <2>2, <2>3, <2>4, <2>5
<1>11. CASE Commit
  <2> /\ Applying
      /\ blk \in 1..MaxHeight
      /\ responses[blk] = blk
      /\ result = blk
      /\ work \in {None, blk}
      /\ mock => work = None
      /\ appHash = appHeight
    <3>1. pc = "commit"
      BY Zenon, <1>11 DEF Commit
    <3>2. /\ Applying /\ responses[blk] = blk /\ result = blk
          /\ work \in {None, blk} /\ (mock => work = None)
      BY Zenon, <3>1 DEF StepInv
    <3>3. appHash = appHeight
      BY Zenon DEF Durable, AgreesWithChain
    <3>4. blk = st.height + 1 /\ blk = storeHeight
      BY Zenon, <3>2 DEF Applying
    <3>5. blk \in 1..MaxHeight
      BY <3>4
    <3>6. QED
      BY Zenon, <3>2, <3>3, <3>5
  <2> appHeight' = blk /\ appHash' = blk /\ work' = None
    BY <1>11 DEF Commit, AppCommit, CommitHash, Executes, Applying
  <2>1. /\ Applying
        /\ blk \in 1..MaxHeight
        /\ responses[blk] = blk
        /\ appHeight' = blk
        /\ appHash' = blk
        /\ work' = None
        /\ mem' = [height |-> blk, appHash |-> blk, results |-> blk]
    BY SMTT(30), <1>11 DEF Commit
  <2>2. TypeOK'
    <3>1. appHeight' \in 0..MaxHeight /\ appHash' \in Hash /\ mem' \in State
      BY <2>1 DEF Hash, State
    <3>2. pc' \in Steps /\ work' \in Hash \cup {None}
      BY Zenon, <1>11, <2>1 DEF Commit, Steps
    <3>3. QED
      BY Zenon, <1>11, <3>1, <3>2 DEF Commit, TypeOK
  <2>3. Durable'
    <3>1. /\ UNCHANGED <<storeHeight, blocks, st, responses>>
          /\ blk = st.height + 1
          /\ blk = storeHeight
      BY Zenon, <2>1, <1>11 DEF Commit, Applying
    <3>2. QED
      BY <2>1, <3>1 DEF Durable, HeightsInStep, AgreesWithChain
  <2>4. StepInv'
    <3>1. /\ pc' = "saveState"
          /\ blk' = blk
          /\ storeHeight' = storeHeight
          /\ st' = st
          /\ responses' = responses
          /\ syncing' = syncing
          /\ poolHeight' = poolHeight
          /\ storeHeight = blk /\ blk = st.height + 1
          /\ syncing => poolHeight = storeHeight + 1
      BY Zenon, <1>11 DEF Commit, StepInv, Applying
    <3>2. QED
      BY <2>1, <3>1 DEF StepInv
  <2>5. EvidenceInv'
    BY <2>1, <1>11 DEF Commit, durable, TypeOK, EvidenceInv, EvidenceUpdatedOnce
  <2>6. QED
    BY <2>2, <2>3, <2>4, <2>5
<1>12. CASE SaveState
  <2>1. /\ blk \in 1..MaxHeight
        /\ st' = mem
        /\ mem.height = blk
        /\ mem.appHash = blk
        /\ mem.results = blk
        /\ st.height + 1 = blk
        /\ appHeight = blk
        /\ storeHeight = blk
    <3>1. pc = "saveState" /\ st' = mem
      BY Zenon, <1>12 DEF SaveState
    <3>2. /\ mem.height = blk
          /\ mem.appHash = blk
          /\ mem.results = blk
          /\ blk = storeHeight
          /\ blk = st.height + 1
          /\ appHeight = blk
      BY Zenon, <3>1 DEF StepInv
    <3>3. st.height + 1 \in 1..MaxHeight
      <4>1. storeHeight \in 0..MaxHeight /\ st.height \in 0..MaxHeight
        BY Zenon
      <4>2. QED
        BY <3>2, <4>1
    <3>4. QED
      BY Zenon, <3>1, <3>2, <3>3
  <2>2. TypeOK'
    BY <2>1, <1>12 DEF SaveState, TypeOK, durable, Steps
  <2>3. Durable'
    BY <2>1, <1>12
    DEF SaveState, durable, TypeOK, Durable, HeightsInStep, AgreesWithChain
  <2>4. StepInv'
    BY <2>1, <2>2, <1>12 DEF SaveState, durable, StepInv, Level
  <2> updated[blk] = 0
    <3>1. updated[blk] \in Nat
      BY SMTT(30), <2>1 DEF TypeOK, Heights
    <3>2. updated[blk] <= (IF blk <= st.height THEN 1 ELSE 0)
      BY <2>1 DEF EvidenceInv, EvidenceUpdatedOnce, Heights
    <3>3. ~(blk <= st.height)
      <4>1. st.height \in Int
        BY HeightTypes
      <4>2. QED
        BY <2>1, <4>1
    <3>4. QED
      BY <3>1, <3>2, <3>3
  <2>5. EvidenceInv'
    BY SMTT(30), <2>1, <1>12
    DEF SaveState, durable, TypeOK, EvidenceInv, EvidenceUpdatedOnce, Heights
  <2>6. QED
    BY SMTT(30), <2>2, <2>3, <2>4, <2>5
<1>13. CASE Publish
  <2>1. /\ blk \in Heights
        /\ st.height = blk
        /\ Level
        /\ ~syncing => pc' = "reactor" /\ UNCHANGED <<updated, published>>
        /\ syncing => /\ pc' = "idle"
                      /\ updated' = [updated EXCEPT ![blk] = @ + 1]
                      /\ updated[blk] = 0
                      /\ published' = published
    <3>1. pc = "publish"
      BY Zenon, <1>13 DEF Publish
    <3>2. blk = st.height /\ Level
      BY Zenon, <3>1 DEF StepInv
    <3>3. blk \in Heights
      <4>1. st.height \in 0..MaxHeight /\ 1 <= st.height
        BY Zenon DEF Durable
      <4>2. QED
        BY <3>2, <4>1 DEF Heights
    <3>4. syncing => updated[blk] = 0
      BY Zenon, <3>1 DEF EvidenceInv
    <3>5. published \cup fireEvents(blk) = published
      BY DEF fireEvents
    <3>6. /\ ~syncing => pc' = "reactor" /\ UNCHANGED <<updated, published>>
          /\ syncing => /\ pc' = "idle"
                        /\ updated' = [updated EXCEPT ![blk] = @ + 1]
                        /\ published' = published
      BY Zenon, <1>13, <3>2, <3>5 DEF Publish
    <3>7. QED
      BY Zenon, <3>2, <3>3, <3>4, <3>6
  <2> updated' \in [Heights -> Nat] /\ published' = published
    BY <2>1, <1>13 DEF Publish, fireEvents, TypeOK
  <2>2. TypeOK'
    BY <2>1, <1>13 DEF Publish, TypeOK, durable, Steps
  <2>3. Durable'
    BY SMTT(30), <2>1, <1>13
    DEF Publish, durable, TypeOK, Durable, HeightsInStep, AgreesWithChain
  <2>4. StepInv'
    BY Zenon, <2>1, <2>2, <1>13 DEF Publish, durable, StepInv, Level
  <2>5. EvidenceInv'
    BY SMTT(30), <2>1, <1>13 DEF Publish, durable, TypeOK, EvidenceInv, EvidenceUpdatedOnce
  <2>6. QED
    BY <2>2, <2>3, <2>4, <2>5
<1>14. CASE Crash
  <2>1. faults' \in 0..MaxFaults
    BY SMTT(30), <1>14, HeightAssumption DEF Crash, TypeOK
  <2>2. TypeOK'
    <3>1. pc' \in Steps /\ work' \in Hash \cup {None}
      BY Zenon, <1>14 DEF Crash, Steps
    <3>2. QED
      BY Zenon, <2>1, <1>14, <3>1 DEF Crash, TypeOK, durable
  <2>3. Durable'
    BY SMTT(30), <2>1, <1>14
    DEF Crash, durable, TypeOK, Durable, HeightsInStep, AgreesWithChain
  <2>4. StepInv'
    BY Zenon, <1>14 DEF Crash, StepInv
  <2>5. EvidenceInv'
    BY <2>1, <1>14 DEF Crash, durable, TypeOK, EvidenceInv, EvidenceUpdatedOnce
  <2>6. QED
    BY <2>2, <2>3, <2>4, <2>5
<1>15. CASE RewindApp
  <2>1. /\ faults' \in 0..MaxFaults
        /\ appHeight' \in 1..(appHeight - 1)
        /\ appHash' = appHeight'
        /\ st.height >= appHeight'
        /\ appHeight' \in 0..MaxHeight
    <3>1. st.height + 1 >= appHeight
      BY SMTT(30) DEF Durable, HeightsInStep
    <3>2. /\ faults' \in 0..MaxFaults
          /\ appHeight' \in 1..(appHeight - 1)
          /\ appHash' = appHeight'
      BY SMTT(30), <1>15, HeightAssumption DEF RewindApp, TypeOK
    <3>3. QED
      BY <3>1, <3>2
  <2>2. TypeOK'
    <3>1. appHash' \in Hash
      BY <2>1 DEF Hash
    <3>2. pc' \in Steps /\ work' \in Hash \cup {None}
      BY Zenon, <1>15 DEF RewindApp, Steps
    <3>3. QED
      BY Zenon, <2>1, <1>15, <3>1, <3>2 DEF RewindApp, TypeOK
  <2>3. Durable'
    <3>1. UNCHANGED <<storeHeight, blocks, st, responses>>
      BY Zenon, <1>15 DEF RewindApp
    <3>2. HeightsInStep' /\ 1 <= appHeight' /\ appHeight' # st.height + 1
      BY <2>1, <3>1 DEF Durable, HeightsInStep
    <3>3. QED
      BY Zenon, <2>1, <3>1, <3>2 DEF Durable, AgreesWithChain
  <2>4. StepInv'
    BY Zenon, <2>1, <2>2, <1>15 DEF RewindApp, durable, StepInv, Level
  <2>5. EvidenceInv'
    BY <2>1, <1>15 DEF RewindApp, durable, TypeOK, EvidenceInv, EvidenceUpdatedOnce
  <2>6. QED
    BY <2>2, <2>3, <2>4, <2>5
<1>16. CASE UNCHANGED vars
  <2> USE <1>16 DEF vars, durable, volatile
  <2>1. TypeOK'
    BY DEF TypeOK
  <2>2. Durable'
    BY DEF Durable, HeightsInStep, AgreesWithChain
  <2>3. StepInv'
    <3>1. /\ work' = work /\ pc' = pc /\ mem' = mem /\ blk' = blk /\ final' = final
          /\ mock' = mock /\ syncing' = syncing /\ result' = result
          /\ poolHeight' = poolHeight /\ storeHeight' = storeHeight
          /\ blocks' = blocks /\ st' = st /\ responses' = responses
          /\ appHeight' = appHeight
      OBVIOUS
    <3>2. Level' = Level /\ Applying' = Applying
      BY <3>1 DEF Level, Applying
    <3>3. QED
      <4>1. StepInv
        BY Zenon
      <4>2. QED
        BY ONLY ZenonT(60), <3>1, <3>2, <4>1 DEF StepInv
  <2>4. EvidenceInv'
    BY DEF EvidenceInv, EvidenceUpdatedOnce
  <2>5. QED
    BY <2>1, <2>2, <2>3, <2>4
<1>17. QED
  BY <1>1, <1>2, <1>3, <1>4, <1>5, <1>6, <1>7, <1>8,
     <1>9, <1>10, <1>11, <1>12, <1>13, <1>14, <1>15, <1>16 DEF Next, NodeStep

\* The invariant holds of every behaviour of a node that has a block behind it.
LEMMA Invariance == ASSUME StartHeight > 0 PROVE Spec => []IInv
<1>1. Init => IInv
  <2> SUFFICES ASSUME Init PROVE IInv
    OBVIOUS
  <2> USE HeightAssumption DEF Init, At, Heights, Hash, None, Wrong
  <2>1. /\ st.height = StartHeight
        /\ st.appHash = StartHeight
        /\ st.results = StartHeight
    OBVIOUS
  <2>2. TypeOK
    <3>1. st \in State /\ mem \in State
      BY DEF State
    <3>2. mock \in BOOLEAN /\ syncing \in BOOLEAN /\ updated \in [Heights -> Nat]
      BY Zenon
    <3>3. responses \in [Heights -> Hash \cup {None}]
      OBVIOUS
    <3>4. QED
      BY <3>1, <3>2, <3>3 DEF TypeOK, Steps
  <2>3. Durable
    BY SMTT(30), <2>1 DEF Durable, HeightsInStep, AgreesWithChain
  <2>4. StepInv /\ EvidenceInv
    BY <2>1 DEF StepInv, EvidenceInv, EvidenceUpdatedOnce
  <2>5. QED
    BY <2>2, <2>3, <2>4 DEF IInv
<1>2. QED
  BY <1>1, StepPreserves, PTL DEF Spec

\* Every variable keeps its type: in particular no height leaves the chain and
\* no index of the responses or of the update counts is out of bounds.
THEOREM TypeCorrect == ASSUME StartHeight > 0 PROVE Spec => []TypeOK
<1>1. IInv => TypeOK
  BY DEF IInv
<1>2. QED
  BY <1>1, Invariance, PTL

\* However many times both processes die, between whichever writes, and however
\* far the application is rewound, the handshake, NewBlockchainReactor,
\* SaveBlock and ApplyBlock never give up.
THEOREM NeverStuckThm == ASSUME StartHeight > 0 PROVE Spec => []NeverStuck
<1>1. IInv => NeverStuck
  BY DEF IInv, StepInv, NeverStuck
<1>2. QED
  BY <1>1, Invariance, PTL

\* A handshake that returns leaves the application and the state at the last
\* stored block.
THEOREM SyncedThm == ASSUME StartHeight > 0 PROVE Spec => []SyncedAfterHandshake
<1>1. IInv => SyncedAfterHandshake
  BY DEF IInv, StepInv, Level, SyncedAfterHandshake
<1>2. QED
  BY <1>1, Invariance, PTL

\* The three heights stay within one block of each other at every instant, the
\* premise under which ReplayBlocks knows what to replay.
THEOREM HeightsThm ==
  ASSUME StartHeight > 0 PROVE Spec => [](HeightsInStep /\ MockReplayable)
<1>1. IInv => HeightsInStep /\ MockReplayable
  <2> SUFFICES ASSUME IInv PROVE HeightsInStep /\ MockReplayable
    OBVIOUS
  <2>1. appHeight = st.height + 1 => appHeight \in blocks
    BY HeightTypes DEF IInv, Durable, HeightsInStep
  <2>2. QED
    BY <2>1 DEF IInv, Durable, MockReplayable
<1>2. QED
  BY <1>1, Invariance, PTL

\* Each block is executed on the state its predecessor left and on nothing else:
\* the application's hash, the saved state and the saved results are the chain's.
THEOREM AgreesThm == ASSUME StartHeight > 0 PROVE Spec => []AgreesWithChain
<1>1. IInv => AgreesWithChain
  BY DEF IInv, Durable
<1>2. QED
  BY <1>1, Invariance, PTL

\* The evidence pool never gets a block twice, or before its state is saved.
THEOREM EvidenceThm == ASSUME StartHeight > 0 PROVE Spec => []EvidenceUpdatedOnce
<1>1. IInv => EvidenceUpdatedOnce
  BY DEF IInv, EvidenceInv
<1>2. QED
  BY <1>1, Invariance, PTL

\* The node implements the safety part of the ledger: each step stores, executes
\* or records the one block in flight, rewinds the application, or is invisible.
THEOREM LedgerThm == ASSUME StartHeight > 0 PROVE Spec => ImplementsLedgerSafety
<1>1. Init => L!LedgerInit
  BY SMTT(30) DEF Init, At, L!LedgerInit
<1>2. IInv /\ [Next]_vars => [L!LedgerNext]_(L!ledger)
  <2> SUFFICES ASSUME IInv, [Next]_vars PROVE [L!LedgerNext]_(L!ledger)
    BY SMTT(30)
  <2> USE HeightTypes DEF IInv, L!LedgerNext, L!ledger
  <2>1. CASE ReplayCommit
    BY SMTT(30), <2>1 DEF ReplayCommit, AppCommit, StepInv, Durable, HeightsInStep, L!Execute
  <2>2. CASE SaveBlockDescriptor
    <3>1. blk \in 1..MaxHeight /\ blk = storeHeight + 1 /\ Level
      BY <2>2 DEF SaveBlockDescriptor, StepInv, TypeOK, Heights
    <3>2. QED
      BY SMTT(30), <2>2, <3>1 DEF SaveBlockDescriptor, Level, L!Store
  <2>3. CASE Commit
    <3>1. Applying
      BY <2>3 DEF Commit, StepInv
    <3>2. CASE mock
      BY <2>3, <3>2 DEF Commit
    <3>3. CASE ~mock
      <4>1. appHeight' = appHeight + 1 /\ storeHeight' = storeHeight /\ st' = st
        BY <2>3, <3>3 DEF Commit, AppCommit
      <4>2. appHeight = st.height /\ blk = st.height + 1 /\ blk = storeHeight
        BY SMTT(30), <3>1, <3>3 DEF Applying
      <4>3. QED
        BY <4>1, <4>2 DEF L!Execute
    <3>4. QED
      BY SMTT(30), <3>2, <3>3
  <2>4. CASE SaveState
    BY SMTT(30), <2>4 DEF SaveState, StepInv, L!Record
  <2>5. CASE RewindApp
    BY <2>5 DEF RewindApp, L!Rewind
  <2>6. CASE UNCHANGED <<storeHeight, appHeight, st>>
    BY <2>6
  <2>7. QED
    BY Zenon, <2>1, <2>2, <2>3, <2>4, <2>5, <2>6
    DEF Next, NodeStep, Handshake, ReplayExec, ReplayDone, NewBlockchainReactor,
        SaveBlockData, ValidateBlock, ExecBlockOnProxyApp, SaveABCIResponses, Publish,
        Crash, vars, durable
<1>3. QED
  BY <1>1, <1>2, Invariance, PTL DEF Spec, ImplementsLedgerSafety, L!LedgerSafety

=============================================================================
