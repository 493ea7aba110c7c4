CONSTANTS
  Capacity = 3
  HostFds <- MCHostFds
  IntWidth = 4
  Fibers <- MCFibers
  CountRange = 4
  MaxQueue = 3
SPECIFICATION WaeioFairSpec
CONSTRAINT LuckyOrOneHandler
ACTION_CONSTRAINT OneKindOfEvent
INVARIANTS NoFiberLost StaleFibersNotResumed
PROPERTIES RoundsAreBounded PollsForEver QueuedFibersRunAgain
CHECK_DEADLOCK FALSE
