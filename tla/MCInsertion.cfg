SPECIFICATION Spec
CONSTANTS
  Programs <- MCPrograms
  FUNC_MAX = 5
  StdioBuffer = 4
  StackDepth = 8
INVARIANTS
  InsertionTypeOK
  OverflowIffCyclic
  WrittenIffWellPlaced
  WhatFollowsMainRunsFirst
  ModuleFirstIffTextFits
CHECK_DEADLOCK FALSE
