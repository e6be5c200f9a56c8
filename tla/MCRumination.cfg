SPECIFICATION FairSpec
CONSTANTS
  a = a
  b = b
  Topics = {a, b}
  MaxCycles = 3
  MaxHistory = 2
  MaxCompleted = 2
  FlatAfter = 1
  RecentTopics = 3
  Repeats = 2
  MaxThreads = 3
  MaxFaults = 2
INVARIANTS
  ThreadsOnce
  FileCurrent
  NoRepetition
PROPERTIES
  EveryThreadEnds
