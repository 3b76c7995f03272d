SPECIFICATION CodecSpec
CONSTANTS
  Radix = 4
  TransportParameters <- MCTransportParameters
  KeyBytes = 1
  RoleNonceBytes = 1
  MaxLocatorBytes = 2
  DefaultMaxRecordSize = 5
  PreambleOverhead = 2
  MinAckThreshold = 2
  FrameTypes <- MCFrameTypes
  MaxJoinBytes = 14
  NoLimit = NoLimit
  Records <- AllRecords
  RawWrites <- AllRaw
  SizeWidths = {2, 4}
  Modes <- MCModes
  MaxRecordSize = 24
  MaxWrites = 2
  Params <- MCParams
  MaxParams = 4
INVARIANTS
  ChunkIndependent
  ReadsWhatWasWritten
  DecodesBack
PROPERTY ClassifyDecidesOnce
CHECK_DEADLOCK FALSE
