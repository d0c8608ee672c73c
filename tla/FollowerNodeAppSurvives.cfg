CONSTANTS
  MaxHeight = 4
  StartHeight = 1
  TxHeights <- MCTxHeights
  MaxFaults = 1
SPECIFICATION SpecIndependent
INVARIANTS NeverStuck
CHECK_DEADLOCK FALSE
