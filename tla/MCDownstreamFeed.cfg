SPECIFICATION FairSpec
CONSTANTS
  MTU = 48
  MinMessageSize = 14
  SkipBefore = 1
  Files <- AllFiles
INVARIANTS
  TypeOK
  NumbersTile
  WireMatchesBuffer
  ReplayInFileOrder
  ReplayComplete
  CompleteFileKeepsAssertions
  WithinMTU
  HeartbeatAnnouncesSent
  EndOfSessionIsLast
PROPERTIES
  NothingAfterEndOfSession
  StopEndsFeed
  FeedFinishes
  ImplementsSession
