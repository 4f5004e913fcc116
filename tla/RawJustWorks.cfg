CONSTANTS
  PeerKinds = {"just_works"}
  MaxForeign = 0
  MaxRuns = 1
SPECIFICATION Spec
CHECK_DEADLOCK FALSE
INVARIANTS
  SuccessWaitsForLtk
