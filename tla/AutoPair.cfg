CONSTANTS
  Program = {a1, a2}
  Autos = {a1, a2}
  Nobody = nobody
  MaxExchange = 2
  Lookalike = TRUE
  Cable = {TRUE, FALSE}
SPECIFICATION FairSpec
CHECK_DEADLOCK FALSE
INVARIANTS
  AutoTypeOK
  PairedIsTwoSided
  AgentGoesWithRun
PROPERTIES
  RunsOnce
  LockComesBack
  RecordsAreFresh
