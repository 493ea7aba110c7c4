CONSTANTS
  IntWidth = 2
  Sizes <- MCSizes
  Entries <- MCEntries
SPECIFICATION DisciplinedSpec
INVARIANTS
  BitmapMatchesHeld
  FullIsTruthful
  NoDoubleIssue
PROPERTY ImplementsAllocator
