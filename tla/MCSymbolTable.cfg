SPECIFICATION Spec
CONSTANTS
  n1 = n1
  n2 = n2
  n3 = n3
  n4 = n4
  Name <- MCName
  SYMBOL_MAX = 3
INVARIANTS
  TypeOK
  PointersAgree
  PointersLive
  CapacityIsForDistinctNames
PROPERTY
  ImplementsInterner
CHECK_DEADLOCK FALSE
