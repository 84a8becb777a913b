SPECIFICATION FairSpec
CONSTANTS
  MTU = 48
  MinMessageSize = 14
  SkipBefore = 1
  Files <- OversizeFiles
PROPERTY ReplayReachesEnd
