\* One worker; a failed first status refresh leaves the default -1.
CONSTANTS
  a1 = a1
  i1 = i1
  t1 = t1
  t2 = t2
  AndroidDevs <- MCAndroidDevs
  IOSDevs <- MCIOSDevs
  TestSuite <- MCTestSuite
  MaxWorkers = 1
  StartLevel = 50
  MaxDrain = 1
SPECIFICATION Spec
INVARIANT BatteryReadingsKnown
CHECK_DEADLOCK FALSE
