CONSTANTS
  Program = {p1, p2}
  Adapter = {hci0, hci1}
  Host <- TwoAdapters
  NoHost = none
  p1 = p1
  p2 = p2
  hci0 = hci0
  hci1 = hci1
  MaxExchange = 2
SPECIFICATION FairSpec
CHECK_DEADLOCK FALSE
INVARIANTS
  TypeOK
  RecordIsFresh
  RecordIsCurrent
  ExchangeInv
PROPERTIES
  ExchangeEnds
  ImplementsFreshRecord
