CONSTANTS
  MaxHeight = 6
  StartHeight = 1
  ValChanges <- MCValChanges
  MaxRollbacks = 2
  MaxCrashes = 3
SPECIFICATION FairSpec
INVARIANTS StateMatchesChain HistoryIntact StoreComplete AppNeverAhead
PROPERTIES Resyncs
CHECK_DEADLOCK FALSE
