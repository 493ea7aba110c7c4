CONSTANTS
  ConnFds <- MCConnFds2
  Requests = {"get", "quit"}
  PeerEvents = {"fin", "rst", "err"}
  MaxBacklog = 2
  MaxRx = 1
  Capacity = 3
SPECIFICATION FairSpec
CHECK_DEADLOCK FALSE
INVARIANTS
  ArrayIsOpenSet
  NeverOverruns
PROPERTIES
  ImplementsConnectionServer
  ShutdownCompletes
  RequestsReceived
