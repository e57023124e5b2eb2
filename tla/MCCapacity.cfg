SPECIFICATION FairSpec
CONSTANTS
  Klass <- MCKlass
  KlassRank <- MCRank
  Var <- MCVar
  Name <- MCName
  Programs <- MCPrograms
  SYMBOL_MAX = 6
  FUNC_MAX = 2
  RowLen = 2
  MaxDepth = 4
INVARIANT
  AssertHasACause
PROPERTY
  CompilationEnds
CHECK_DEADLOCK FALSE
