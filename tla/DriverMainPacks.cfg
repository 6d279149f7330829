\* main.cpp with two operations a round.
CONSTANTS
  UMod = 16
  Value <- MCValue
  OldValue <- MCOldValue
  NewValue <- MCNewValue
  NClients = 2
  InitSize = 2
  Filtered = FALSE
  MaxPack = 2
  MaxOps = 4
  MaxRounds = 4
  MaxSessions = 0
  Rounds = 1
  OpsPerRound = 2
  JoinPeriod = 1
  TestPeriod = 1
  MaxStart = 0
SPECIFICATION Driver
INVARIANT Converged
CHECK_DEADLOCK FALSE
