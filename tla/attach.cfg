SPECIFICATION FairSpec
CONSTANTS
  MaxId = 4
  Window = 1
  Cap = 1
INVARIANT
  NeverFatal
PROPERTIES
  UsedOnce
  Retires
CHECK_DEADLOCK FALSE
