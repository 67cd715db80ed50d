\* Two subscriptions with two items each, and a buffer that holds one id.
CONSTANTS
  Calls = {c1, c2}
  MaxItems = 2
  MaxWire = 2
  BufferIds = 1
  BufferItems = 2
  Modes <- AllModes
SPECIFICATION Spec
INVARIANTS
  CloseReachesEverybody
  LeaseKeepsOpen
  ItemsInOrderInTurns
PROPERTIES
  WaitingCallsSettle
CHECK_DEADLOCK FALSE
