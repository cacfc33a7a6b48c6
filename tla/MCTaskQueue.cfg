SPECIFICATION FairSpec
CONSTANTS
  ws = ws
  tcp = tcp
  main = main
  acceptor = acceptor
  Adders <- MCAdders
  Stoppers <- MCStoppers
  MaxTasks = 4
CHECK_DEADLOCK FALSE
INVARIANTS
  TasksInOrder
PROPERTIES
  NoTaskAfterStop
  ImplementsFifo
  AwakeWorkerEmptiesQueue
