CONSTANTS
  p1 = p1
  p2 = p2
  Peers <- MCPeers
  BadPeers <- MCNoBadPeers
  NoPeer = NoPeer
  MaxHeight = 4
  maxTotalRequesters = 3
  maxPendingRequestsPerPeer = 2
  MaxDrops = 0
SPECIFICATION FairSpec
INVARIANTS PeerPendingExact
PROPERTIES BlocksSynced
