SPECIFICATION Spec
CONSTANTS
  Klass <- MCKlass
  KlassRank <- MCRank
  Var <- MCVar
  Name <- MCName
  Programs <- MCPrograms
  SYMBOL_MAX = 100
  FUNC_MAX = 100
  RowLen = 20
  MaxDepth = 4
INVARIANT
  DispatchesOnObject
CHECK_DEADLOCK FALSE
