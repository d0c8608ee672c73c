------------------------------ MODULE Handshake ------------------------------
(***************************************************************************)
(* The decision the Handshaker takes when the node starts                  *)
(* (tendermint/consensus/replay.go).  Three durable heights are compared:  *)
(* that of the block store, that of the saved state, and the one the       *)
(* application reports in its Info response.                               *)
(***************************************************************************)
EXTENDS Integers

\* What ReplayBlocks goes on to do.
Plans == {"skip",            \* return at once: nothing is replayed or compared
          "checkAppHash",    \* compare the saved app hash with the reported one
          "error",           \* ErrAppBlockHeightTooHigh
          "panic",           \* the store is behind the state, or too far ahead
          "replayApp",       \* run stored blocks on the application only
          "replayAppState",  \* the same, and the last one on the state as well
          "replayReal",      \* apply the last block with the real application
          "replayMock"}      \* apply it from the saved ABCI responses

\* Faulty variant: an application behind the store is taken to be in step.
ReplayPlanLeavesAppBehind(storeHeight, stateHeight, appHeight) ==
  IF appHeight = 0 /\ storeHeight > 0 THEN "skip"
  ELSE IF storeHeight = 0 THEN "checkAppHash"
  ELSE IF storeHeight < appHeight THEN "error"
  ELSE IF storeHeight \notin {stateHeight, stateHeight + 1} THEN "panic"
  ELSE IF storeHeight = stateHeight THEN "skip"
  ELSE IF appHeight <= stateHeight THEN "replayReal" ELSE "replayMock"

\* Faulty variant: the last block is always applied with the real application.
ReplayPlanNeverMocks(storeHeight, stateHeight, appHeight) ==
  IF appHeight = 0 /\ storeHeight > 0 THEN "skip"
  ELSE IF storeHeight = 0 THEN "checkAppHash"
  ELSE IF storeHeight < appHeight THEN "error"
  ELSE IF storeHeight \notin {stateHeight, stateHeight + 1} THEN "panic"
  ELSE IF storeHeight = stateHeight
       THEN IF appHeight < storeHeight THEN "replayApp" ELSE "checkAppHash"
  ELSE IF appHeight < stateHeight THEN "replayAppState" ELSE "replayReal"

\* The cases of ReplayBlocks in the order the code tests them.
ReplayPlan(storeHeight, stateHeight, appHeight) ==
  IF appHeight = 0 /\ storeHeight > 0 THEN "skip"
  ELSE IF storeHeight = 0 THEN "checkAppHash"
  ELSE IF storeHeight < appHeight THEN "error"
  ELSE IF storeHeight \notin {stateHeight, stateHeight + 1} THEN "panic"
  ELSE IF storeHeight = stateHeight
       THEN IF appHeight < storeHeight THEN "replayApp" ELSE "checkAppHash"
  ELSE IF appHeight < stateHeight THEN "replayAppState"
  ELSE IF appHeight = stateHeight THEN "replayReal"
  ELSE "replayMock"

=============================================================================
