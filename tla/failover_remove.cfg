SPECIFICATION FairSpec
CONSTANTS
  P0 = P0
  P2 = P2
  Pipe <- Two
  Boot = P0
  N = 1
  Removable <- OnlyP2
  MaxSpurious = 0
  MaxAcks = 1
  FateGroup <- SameFate
INVARIANTS
  EndIsExpected
PROPERTIES
  RemovalStands
  Completes
  Settles
