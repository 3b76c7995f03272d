SPECIFICATION FairSpec
CONSTANTS
  Configs <- MCConfigs
  Delay = 1
  HandshakeTimeout = 3
  Linger = 3
  Budget = 1
  Refill = 1
  MaxData = 1
  MaxPings = 2
INVARIANTS
  RolesOpposed
  RejectedIsUnread
  NeverCutOff
  TrueReason
  KeptAlive
PROPERTIES
  Ends
