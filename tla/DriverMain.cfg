\* main.cpp with one operation a round.
CONSTANTS
  UMod = 16
  Value <- MCValue
  OldValue <- MCOldValue
  NewValue <- MCNewValue
  NClients = 2
  InitSize = 1
  Filtered = FALSE
  MaxPack = 1
  MaxOps = 4
  MaxRounds = 4
  MaxSessions = 0
  Rounds = 2
  OpsPerRound = 1
  JoinPeriod = 2
  TestPeriod = 1
  MaxStart = 0
SPECIFICATION FairDriver
INVARIANT DriverTypeOK
PROPERTIES
  CallsAllowed
  InsertsReachAll
  EndsConsistent
CHECK_DEADLOCK FALSE
