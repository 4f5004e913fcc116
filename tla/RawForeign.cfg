CONSTANTS
  PeerKinds = {"oob"}
  MaxForeign = 1
  MaxRuns = 1
SPECIFICATION Spec
CHECK_DEADLOCK FALSE
INVARIANTS
  LtkIsPeers
