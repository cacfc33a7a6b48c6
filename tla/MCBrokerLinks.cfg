SPECIFICATION MCSpec
CONSTANTS
  w1 = w1
  t1 = t1
  alice = alice
  bob = bob
  AliceProfiles <- OtherThanBob
  Conns <- MCConns
  WsConns <- MCWsConns
  Logins <- MCLogins
  Patterns <- MCPatterns
  SendDests <- MCSendDests
  MaxSession = 3
  MaxLinks = 3
  MaxQueue = 5
  MaxReqs = 3
  Relogin = TRUE
CHECK_DEADLOCK FALSE
INVARIANTS
  RegistryTypeOK
  RegistryConsistent
  ExclusiveProfilesHoldOneConnection
PROPERTY
  UsesManagers
