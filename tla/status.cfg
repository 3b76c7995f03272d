SPECIFICATION FairSpec
CONSTANTS
  P0 = P0
  P1 = P1
  Pipe <- MCPipe
  Boot = P0
  Setting <- MCSetting
  MaxTrouble = 2
  Nowhere = Nowhere
INVARIANT
  Agreed
PROPERTIES
  Follows
  Restored
CHECK_DEADLOCK FALSE
