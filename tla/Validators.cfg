SPECIFICATION Spec
CONSTANTS
  Keys <- MCKeys
  Geneses <- MCGeneses
  Blocks <- MCBlocks
  MaxHeight = 9
  ValHeight = 3
  MaxVals = 2
  MaxRestarts = 1
INVARIANTS
  CommitsShareSigner
  UpdatesAccepted
  StrategyMatchesState
  ProposersProportional
CHECK_DEADLOCK FALSE
