SPECIFICATION FairObjectSpec
CONSTANTS
  Declaration <- MCDeclaration
  Programs <- MCWellTyped
  Klass <- MCKlass
  KlassRank <- MCRank
  Member <- MCMember
  JunkMemory = FALSE
  RowLen = 3
PROPERTIES
  ImplementsMeaning
  ObjectProgramExits
CHECK_DEADLOCK FALSE
