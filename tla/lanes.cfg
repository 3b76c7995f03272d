SPECIFICATION Spec
CONSTANTS
  MaxLanes = 3
  MaxUnits = 2
  a = a
  b = b
  Stream <- MCStream
SYMMETRY Streams
INVARIANTS
  InOrder
  CloseComesLast
  LostByFaultOnly
CHECK_DEADLOCK FALSE
