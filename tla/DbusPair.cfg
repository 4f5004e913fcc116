CONSTANTS
  Program = {c1, c2}
  Autos = {}
  Nobody = nobody
  MaxExchange = 2
  Lookalike = FALSE
  Cable = {TRUE}
SPECIFICATION Spec
SYMMETRY Programs
CHECK_DEADLOCK FALSE
INVARIANTS
  SuccessIsTwoSided
  TrustedIsPaired
  PairHasAgent
