SPECIFICATION BufferSpec
CONSTANTS
  r1 = r1
  r2 = r2
  Readers <- MCReaders
  BufferSize = 2
  Positions = {0, 3, 5, 8, 9}
  SeqMod = 8
  MaxSeq = 5
  Nullopt = Nullopt
INVARIANT NeverPushedIsNullopt
