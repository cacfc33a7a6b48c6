SPECIFICATION LifecycleSpec
CONSTANTS
  Adders <- MCAdders
  Stoppers <- MCStoppers
  MaxTasks = 2
CHECK_DEADLOCK FALSE
INVARIANTS
  LifecycleTypeOK
  StopEndsServers
  QueueFollowsServers
  CrashHasACause
PROPERTY
  StopReturns
