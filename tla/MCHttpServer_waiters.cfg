CONSTANTS
  Capacity = 2
  HostFds <- MCHostFds
  IntWidth = 2
SPECIFICATION HttpFairSpec
CHECK_DEADLOCK FALSE
PROPERTY WaitersAreContinued
