\* Two workers: executions overlap, including two on the same device.
CONSTANTS
  a1 = a1
  i1 = i1
  t1 = t1
  t2 = t2
  AndroidDevs <- MCAndroidDevs
  IOSDevs <- MCIOSDevs
  TestSuite <- MCTestSuite
  MaxWorkers = 2
  StartLevel = 50
  MaxDrain = 1
SPECIFICATION Spec
INVARIANT DrainIsolation
CHECK_DEADLOCK FALSE
