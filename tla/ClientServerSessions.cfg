\* Two clients, two operations each, two updates, two sessions, from an empty document.
CONSTANTS
  UMod = 16
  Value <- MCValue
  OldValue <- MCOldValue
  NewValue <- MCNewValue
  NClients = 2
  InitSize = 0
  Filtered = TRUE
  MaxPack = 1
  MaxOps = 2
  MaxRounds = 2
  MaxSessions = 1
SPECIFICATION Spec
INVARIANTS
  PushInSync
  OwnOpsKept
  PointersValid
PROPERTY ImplementsSharedDocument
CHECK_DEADLOCK FALSE
