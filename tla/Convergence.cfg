\* Two operations of each of two clients, or three operations of three clients.
CONSTANTS
  UMod = 16
  Value <- MCValue
  Clients = {1, 2, 3}
  MaxOps = 2
  MaxReceived <- MCMaxReceived
  InitDoc <- MCInitDoc
  NewValue <- MCNewValue
SPECIFICATION Spec
INVARIANTS
  TypeOK
  OrderIrrelevant
  SortedPacks
PROPERTY NextInBounds
CHECK_DEADLOCK FALSE
