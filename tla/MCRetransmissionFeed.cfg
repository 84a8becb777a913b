SPECIFICATION FeedSpec
CONSTANTS
  Base = 3
  r1 = r1
  session = session
  other = other
  Readers <- MCReaders
  BufferSize = 2
  Positions <- MCPositions
  SeqMod = 8
  MaxSeq = 5
  Nullopt = Nullopt
  MTU = 48
  MinMessageSize = 14
  File <- MCFile
  Skipped = 1
  Session = session
  Requests <- MCRequests
  MaxRequests = 3
INVARIANTS
  FeedTypeOK
  WindowIntact
  LookupComplete
  LookupWithinLaps
  ReplyFaithful
  ReplyIsWellFormed
  FewLateRequests
