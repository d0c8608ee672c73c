CONSTANTS
  p1 = p1
  p2 = p2
  Peers <- MCPeers
  BadPeers <- MCBadPeers
  NoPeer = NoPeer
  MaxHeight = 2
  maxTotalRequesters = 2
  maxPendingRequestsPerPeer = 1
  MaxDrops = 1
SPECIFICATION Spec
INVARIANTS RequestersContiguous BlockFromAssignedPeer HandedOver
CHECK_DEADLOCK FALSE
