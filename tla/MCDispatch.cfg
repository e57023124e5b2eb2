SPECIFICATION Spec
CONSTANTS
  Klass <- MCKlass
  KlassRank <- MCRank
  Var <- MCVar
  Name <- MCName
  Programs <- MCPrograms
  SYMBOL_MAX = 12
  FUNC_MAX = 4
  RowLen = 2
  MaxDepth = 4
INVARIANTS
  TypeOK
  DispatchesToStaticClass
  EmptySlotHasACause
  ReceiversAreLexical
  UndefinedHasACause
  CrashHasACause
  UnresolvedIffUsedFirst
CHECK_DEADLOCK FALSE
