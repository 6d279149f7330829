\* Two clients, two operations each, an array of five in deques of two at first, two updates.
CONSTANTS
  UMod = 16
  Value <- MCValue
  OldValue <- MCOldValue
  NewValue <- MCNewValue
  NClients = 2
  InitSize = 5
  Filtered = TRUE
  MaxPack = 1
  MaxOps = 2
  MaxRounds = 2
  Thrown = thrown
SPECIFICATION Spec
INVARIANTS
  ArraysSound
  StatesEqual
PROPERTY ImplementsClientServer
CHECK_DEADLOCK FALSE
