SPECIFICATION MCSpec
CONSTANTS
  w1 = w1
  t1 = t1
  alice = alice
  bob = bob
  AliceProfiles <- OnlyAgent
  Conns <- MCConns
  WsConns <- MCWsConns
  Logins <- MCLogins
  Patterns <- OnlyAlice
  SendDests <- MCSendDests
  MaxSession = 4
  MaxLinks = 4
  MaxQueue = 6
  MaxReqs = 4
  Relogin = FALSE
CHECK_DEADLOCK FALSE
INVARIANT
  FramesReachTheirSession
