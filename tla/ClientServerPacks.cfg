\* Two clients, packs of two, one update.
CONSTANTS
  UMod = 16
  Value <- MCValue
  OldValue <- MCOldValue
  NewValue <- MCNewValue
  NClients = 2
  InitSize = 2
  Filtered = TRUE
  MaxPack = 2
  MaxOps = 2
  MaxRounds = 1
  MaxSessions = 0
SPECIFICATION Spec
INVARIANTS
  TypeOK
  Converged
  OwnOpsKept
  UpdateInBounds
PROPERTY ImplementsSharedDocument
CHECK_DEADLOCK FALSE
