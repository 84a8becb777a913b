SPECIFICATION Spec
CONSTANTS
  NumFeeds = 2
  MaxStarts = 2
  SpawnFailsAt = {0, 1}
INVARIANTS
  TypeOK
  MembersOutliveThreads
  RejectedBeforeThreads
PROPERTIES
  DestructorReturns
  StopEndsAllFeeds
