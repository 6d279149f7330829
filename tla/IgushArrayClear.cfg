\* The same array: empty() after clear().
CONSTANTS
  Value = {x, y}
  Thrown = thrown
  MaxSize = 3
  MaxReserve = 4
SPECIFICATION Spec
INVARIANT EmptyIsSizeZero
VIEW Array
