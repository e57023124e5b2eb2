SPECIFICATION FairSpec
CONSTANTS
  Node <- MCNode
  Bodies <- MCBodies
  Var <- MCVar
  Width = 3
  MaxOut = 6
  Fuel = 30
INVARIANTS
  TypeOK
  PhiMatchesPredecessors
  BlocksConnected
  MalformedIffIllFormed
  UsesDominated
  RunsLikeTheBody
PROPERTY
  ReachesTheEnd
CHECK_DEADLOCK FALSE
