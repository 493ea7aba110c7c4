CONSTANTS
  ConnFds <- MCConnFds
  Requests = {"get", "quit", "drop"}
  PeerEvents = {"fin", "rst", "err"}
  MaxBacklog = 1
  MaxRx = 1
  Capacity = 3
  Debug = TRUE
SPECIFICATION FairSpec
CHECK_DEADLOCK FALSE
INVARIANTS
  ArraysInSync
  FiberSeesOwnFd
  OnlyShutdownAsserts
PROPERTIES
  OrphansByCompactionOnly
  ShutdownCompletes
  RequestsReceived
  ConnectsAccepted
