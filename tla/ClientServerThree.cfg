\* Three clients, one operation each, two updates.
CONSTANTS
  UMod = 16
  Value <- MCValue
  OldValue <- MCOldValue
  NewValue <- MCNewValue
  NClients = 3
  InitSize = 2
  Filtered = TRUE
  MaxPack = 1
  MaxOps = 1
  MaxRounds = 2
  MaxSessions = 0
SPECIFICATION Spec
INVARIANTS
  UpdateInBounds
PROPERTY ImplementsSharedDocument
CHECK_DEADLOCK FALSE
