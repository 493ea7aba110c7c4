CONSTANTS
  Capacity = 4
  HostFds <- MCHostFds
  IntWidth = 4
  MaxCount = 6
SPECIFICATION EchoFairSpec
INVARIANTS
  StaleBuffersCounted
  InterestMatchesBuffer
PROPERTIES
  QuitEnds
CHECK_DEADLOCK FALSE
