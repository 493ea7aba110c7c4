CONSTANTS
  Capacity = 4
  HostFds <- MCHostFds
  Preopened <- MCPreopened
  IntWidth = 2
SPECIFICATION Spec
INVARIANTS
  FreeEntriesEmpty
  OneEntryPerSocket
PROPERTIES
  SocketsLost
