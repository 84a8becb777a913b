SPECIFICATION Spec
CONSTANTS
  Timestamps = {3, 4, 7, 10, 13}
  Speeds <- MCSpeeds
  MaxWork = 2
  MaxOversleep = 1
  MaxTime = 15
  None = None
INVARIANTS
  TypeOK
  NeverEarly
  NoDrift
  Punctual
  OnePacketAfterStop
