SPECIFICATION Spec
CONSTANTS
  a1 = a1
  a2 = a2
  Accounts <- MCAccounts
  Txs <- MCTxs
  Balances <- MCBalances
  AccountSlots = 1
  GlobalSlots = 2
  AccountQueue = 1
  GlobalQueue = 1
  MaxNonce = 2
  MaxJournal = 3
INVARIANTS IndexExact PendingNonceExact QueueWaits BalanceReserved JournalCovers
PROPERTY ImplementsPendingPool
CHECK_DEADLOCK FALSE
