SPECIFICATION ObjectSpec
CONSTANTS
  Declaration <- MCDeclaration
  Programs <- MCObjectPrograms
  Klass <- MCKlass
  KlassRank <- MCRank
  Member <- MCMember
  JunkMemory = FALSE
  RowLen = 3
INVARIANTS
  ObjectTypeOK
  WellTypedProgramsDoNotFail
  VariablesHoldTheirTypes
  IdsTellClassesApart
CHECK_DEADLOCK FALSE
