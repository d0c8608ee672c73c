SPECIFICATION FairSpec
CONSTANTS
  Ev = {e1, e2}
  HeightOf <- MCHeightOf
  Peers = {p1, p2}
  Genuine = {e1}
  MaxAge = 1
  MaxHeight = 3
  MaxCrashes = 2
INVARIANTS
  KnownIsPending
  AnnouncedIsDurable
PROPERTIES
  ContinuouslyBroadcast
  AddEvidenceReturns
