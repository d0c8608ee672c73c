CONSTANTS
  MaxHeight = 4
  StartHeight = 1
  TxHeights <- MCTxHeights
  MaxFaults = 3
SPECIFICATION FairSpec
INVARIANTS TypeOK NeverStuck SyncedAfterHandshake HeightsInStep AgreesWithChain EvidenceUpdatedOnce
PROPERTIES CatchesUp ImplementsLedger
CHECK_DEADLOCK FALSE
