CONSTANTS
  a1 = a1
  a2 = a2
  a3 = a3
  kbd = kbd
  other = other
  k1 = k1
  k2 = k2
  Addr = {a1, a3}
  Peer = {kbd}
  Key = {k1, k2}
  ZeroKey = zero
  TornKey = torn
  ConnAddr <- StaticConn
  IdAddr <- PrivateId
  Kind <- KbdAndLegacy
  Option = "A"
  ScCapable = TRUE
  MaxArm = 2
  MaxPair = 3
SPECIFICATION Spec
CHECK_DEADLOCK FALSE
INVARIANTS
  SpentKeyIsWiped
