CONSTANTS
  PeerKinds = {"oob", "just_works", "passkey"}
  MaxForeign = 1
  MaxRuns = 2
SPECIFICATION FairSpec
CHECK_DEADLOCK FALSE
INVARIANTS
  TypeOK
  StartsClean
  UnaskedSuccessWaitsForLtk
  IrkIsWaitedFor
  BondOutlivesRun
  MaskIsUndone
PROPERTIES
  RunEnds
