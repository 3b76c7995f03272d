SPECIFICATION FairSpec
CONSTANTS
  S0 = S0
  S4 = S4
  Stream <- Streams
  Size = 3
  Preamble = 2
  StreamWindow = 2
  SessionWindow = 3
  Quarter = 3
  Cap = 1
  Fickle <- OnlyS0
  Readers <- OnlyS4
INVARIANTS
  WithinLimits
  ReleasedOnce
  MemoryBound
PROPERTIES
  ReadersFinish
  WindowReturned
