CONSTANTS
  Program = {a1}
  Autos = {a1}
  Nobody = nobody
  MaxExchange = 1
  Lookalike = FALSE
  Cable = {TRUE, FALSE}
SPECIFICATION Spec
CHECK_DEADLOCK FALSE
INVARIANTS
  ReconnectIsConfirmed
