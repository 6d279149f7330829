\* The fixture of the tests with packs of two, from an empty document, twice.
CONSTANTS
  UMod = 32
  Value <- MCValue
  OldValue <- MCOldValue
  NewValue <- MCNewValue
  NClients = 2
  InitSize = 0
  Filtered = TRUE
  MaxPack = 2
  MaxOps = 4
  MaxRounds = 4
  MaxSessions = 1
  Rounds = 1
  OpsPerRound = 2
  JoinPeriod = 1
  TestPeriod = 1
  MaxStart = 1
SPECIFICATION Driver
INVARIANT Converged
PROPERTY CallsAllowed
CHECK_DEADLOCK FALSE
