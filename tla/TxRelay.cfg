SPECIFICATION RelaySpec
CONSTANTS
  a1 = a1
  x = x
  Accounts = {a1}
  Txs <- MCTxs
  Unpayable = {}
  Peers = {}
  CacheSize = 1
  MaxInFlight = 1
  MaxBlock = 1
  Foreign <- MCFirst
  BlockCap = 1
  Paced = TRUE
INVARIANTS NoneSetAside
PROPERTIES RoutedToTendermint CheckTxAnswered
