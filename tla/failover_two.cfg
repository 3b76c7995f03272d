SPECIFICATION Spec
CONSTANTS
  P0 = P0
  P2 = P2
  Pipe <- Two
  Boot = P0
  N = 2
  Removable <- NoPipe
  MaxSpurious = 1
  MaxAcks = 1
  FateGroup <- NoGroup
INVARIANTS
  NoChunkLost
  OneOwner
  NoFalseAlarm
PROPERTY
  ImplementsDelivery
