SPECIFICATION FairSpec
CONSTANTS
  a1 = a1
  x = x
  y = y
  Accounts = {a1}
  Txs <- MCTxs
  Unpayable = {}
  Peers = {p1}
  CacheSize = 1
  MaxInFlight = 1
  MaxBlock = 2
INVARIANTS AcceptedInNonceOrder NoCommittedTx SentInOrder
PROPERTY TxsReachPeers
CHECK_DEADLOCK FALSE
