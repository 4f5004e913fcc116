CONSTANTS
  a1 = a1
  a2 = a2
  a3 = a3
  kbd = kbd
  other = other
  k1 = k1
  k2 = k2
  Addr = {a2}
  Peer = {other}
  Key = {k1}
  ZeroKey = zero
  TornKey = torn
  ConnAddr <- StaticConn
  IdAddr <- StaticId
  Kind <- KbdAndLegacy
  Option = "B"
  ScCapable = TRUE
  MaxArm = 1
  MaxPair = 1
SPECIFICATION Spec
CHECK_DEADLOCK FALSE
INVARIANTS
  AuthenticatedBondHasKey
