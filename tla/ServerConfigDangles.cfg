SPECIFICATION Spec
CONSTANTS
  NumFeeds = 2
  MaxStarts = 2
  SpawnFailsAt = {0}
INVARIANT ConfigReadInScope
