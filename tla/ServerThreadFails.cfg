SPECIFICATION Spec
CONSTANTS
  NumFeeds = 2
  MaxStarts = 1
  SpawnFailsAt = {1}
PROPERTY SetupFailureIsThrown
