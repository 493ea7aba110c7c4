CONSTANTS
  Capacity = 3
  HostFds <- MCHostFds
  IntWidth = 4
  Fibers <- MCFibers
  CountRange = 4
  MaxQueue = 3
SPECIFICATION WaeioSpec
INVARIANT NoAcceptWhenFull
CHECK_DEADLOCK FALSE
