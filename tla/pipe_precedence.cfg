SPECIFICATION PipeSpec
CONSTANTS
  Radix = 4
  TransportParameters <- MCTransportParameters
  KeyBytes = 1
  RoleNonceBytes = 1
  MaxLocatorBytes = 2
  DefaultMaxRecordSize = 5
  PreambleOverhead = 2
  MinAckThreshold = 2
  FrameTypes <- MCFrameTypes
  MaxJoinBytes = 14
  NoLimit = NoLimit
  Records <- OneRecord
  RawWrites <- TruncatedDatagram
  SizeWidths = {2}
  Modes <- OneMode
  MaxRecordSize = 24
  MaxWrites = 1
INVARIANT DecodeErrorsFirst
CHECK_DEADLOCK FALSE
