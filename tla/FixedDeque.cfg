\* A ring of five slots.
CONSTANTS
  Value = {x, y}
  Raw = raw
  MaxSize = 4
  MaxGrowth = 5
SPECIFICATION Spec
INVARIANTS
  TypeOK
  LifetimesRespected
  IteratorsOrdered
PROPERTIES
  MisusedByGrowthOnly
  ImplementsBoundedDeque
VIEW Ring
