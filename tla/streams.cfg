SPECIFICATION FairSpec
CONSTANTS
  MaxId = 3
  Limit = 2
INVARIANTS
  NotProcessed
  BoundedConcurrency
  FenceCovers
PROPERTIES
  EveryStreamAnswered
  CreditReturns
