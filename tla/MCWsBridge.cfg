\* Two connections, room for one at a time.
CONSTANTS
  Conns = {k1, k2}
  MaxConnections = 1
  QueueCap = 2
  NoConn = NoConn
SPECIFICATION BridgeSpec
PROPERTIES
  PrefixDelivery
  StopTerminates
CHECK_DEADLOCK FALSE
