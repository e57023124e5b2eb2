SPECIFICATION FairLayoutSpec
CONSTANTS
  Declaration <- MCDeclaration
  Programs <- MCPrograms
  Klass <- MCKlass
  KlassRank <- MCRank
  Member <- MCMember
  JunkMemory = TRUE
INVARIANTS
  LayoutTypeOK
  LayoutsExtend
  MembersKeepTheirIndex
  LayoutAssertHasACause
  LayoutCrashHasACause
PROPERTY
  LayoutsEnd
CHECK_DEADLOCK FALSE
