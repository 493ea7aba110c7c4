CONSTANTS
  Capacity = 4
  HostFds <- MCHostFds
  IntWidth = 2
SPECIFICATION HttpFairSpec
CHECK_DEADLOCK FALSE
INVARIANTS
  ClientsAreCounted
  OnlyListenerQueuedTwice
PROPERTIES
  HttpImplementsServer
  QueuedFibersRun
