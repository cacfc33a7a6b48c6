SPECIFICATION ConnectionsSpec
CONSTANTS
  t1 = t1
  t2 = t2
  w1 = w1
  worker = worker
  Cnxs <- MCCnxs
  WsCnxs <- MCWsCnxs
  Ports <- MCPorts
  PortOf <- MCPortOf
  Others <- MCOthers
CHECK_DEADLOCK FALSE
INVARIANTS
  ConnectionsTypeOK
  PrivatePortsAreSafe
  NoSilentConnection
PROPERTY
  LostPeersAreForgotten
