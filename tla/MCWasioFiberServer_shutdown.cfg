CONSTANTS
  ConnFds <- MCConnFds
  Requests = {"get", "quit"}
  PeerEvents = {"fin", "rst"}
  MaxBacklog = 1
  MaxRx = 1
  Capacity = 3
  Debug = TRUE
SPECIFICATION Spec
CHECK_DEADLOCK FALSE
INVARIANT LengthZeroAtEnd
