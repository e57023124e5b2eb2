SPECIFICATION FairSpec
CONSTANTS
  Klass <- MCKlass
  KlassRank <- MCRank
  Var <- MCVar
  Name <- MCName
  Programs <- MCPrograms
  SYMBOL_MAX = 12
  FUNC_MAX = 12
  RowLen = 3
  MaxDepth = 6
PROPERTIES
  ImplementsSource
  ProgramExits
CHECK_DEADLOCK FALSE
