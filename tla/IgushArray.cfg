\* Up to seven elements, in deques of one to three.
CONSTANTS
  Value = {x, y}
  Thrown = thrown
  MaxSize = 7
  MaxReserve = 10
SPECIFICATION Spec
INVARIANTS
  TypeOK
  Structure
  DequesNeverThrow
  IteratorsAgree
PROPERTY ImplementsVector
VIEW Array
