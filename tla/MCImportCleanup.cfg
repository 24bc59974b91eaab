CONSTANTS
  f1 = f1
  f2 = f2
  Files <- MCFiles
  FixList <- MCFixList
  MaxLen = 3
  Top = 1
  MaxRuns = 2
SPECIFICATION Spec
PROPERTY RunRepairsImports
CHECK_DEADLOCK FALSE
