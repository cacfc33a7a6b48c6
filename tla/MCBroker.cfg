SPECIFICATION MCSpec
CONSTANTS
  w1 = w1
  t1 = t1
  t2 = t2
  alice = alice
  Conns <- MCConns
  WsConns <- MCWsConns
  Logins <- MCLogins
  Patterns <- MCPatterns
  SendDests <- MCSendDests
  MaxSession = 3
  MaxLinks = 3
  MaxQueue = 6
  MaxReqs = 3
  Relogin = FALSE
SYMMETRY Symmetric
CHECK_DEADLOCK FALSE
INVARIANTS
  OneEndPerConnection
  ListedConnectionsExist
  NoAbandonedSession
  QuietSessionsAreReachable
  WritersWaitForRunners
PROPERTIES
  ExclusiveSessionsEndEmpty
