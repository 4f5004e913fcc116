CONSTANTS
  a1 = a1
  a2 = a2
  a3 = a3
  kbd = kbd
  other = other
  k1 = k1
  k2 = k2
  Addr = {a1, a2}
  Peer = {kbd, other}
  Key = {k1, k2}
  ZeroKey = zero
  TornKey = torn
  ConnAddr <- StaticConn
  IdAddr <- StaticId
  Kind <- KbdAndSc
  Option = "A"
  ScCapable = TRUE
  MaxArm = 2
  MaxPair = 2
SPECIFICATION FairSpec
CHECK_DEADLOCK FALSE
INVARIANTS
  TypeOK
  SpentKeyIsWiped
  KeyBondsOnce
  KeyedBondIsWhole
  IInv
  UnarmedPairingUnchanged
PROPERTIES
  PairingEnds
  BondIsTwoSided
  FailureKeepsKey
  ImplementsOneTimeKey
