SPECIFICATION FairSpec
CONSTANTS
  s1 = s1
  s2 = s2
  s3 = s3
  s4 = s4
  s5 = s5
  Slot <- Slots
  Boot = s1
  Cap = 2
  Dirs <- PairsAndUplinks
  RejoinDirs <- Pairs
  MaxFaults = 1
INVARIANTS
  CapHolds
PROPERTIES
  JoinCostsNoDirection
  Resumes
CHECK_DEADLOCK FALSE
