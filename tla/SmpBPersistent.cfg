CONSTANTS
  a1 = a1
  a2 = a2
  a3 = a3
  kbd = kbd
  other = other
  k1 = k1
  k2 = k2
  Addr = {a1}
  Peer = {kbd}
  Key = {k1, k2}
  ZeroKey = zero
  TornKey = torn
  ConnAddr <- StaticConn
  IdAddr <- StaticId
  Kind <- KbdAndLegacy
  Option = "B"
  ScCapable = TRUE
  MaxArm = 2
  MaxPair = 2
SPECIFICATION Spec
CHECK_DEADLOCK FALSE
PROPERTIES
  PersistentKeyStays
