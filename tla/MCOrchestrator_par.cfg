\* Two workers: executions overlap, including two on the same device; the
\* battery is held constant so that only the scheduling varies.
CONSTANTS
  a1 = a1
  i1 = i1
  t1 = t1
  t2 = t2
  AndroidDevs <- MCAndroidDevs
  IOSDevs <- MCIOSDevs
  TestSuite <- MCTestSuite
  MaxWorkers = 2
  StartLevel = 50
  MaxDrain = 0
SPECIFICATION Spec
INVARIANT TypeOK
INVARIANT ResultsExactlyOnce
PROPERTY Termination
\* The process exits after the reports (or after finding no device).
CHECK_DEADLOCK FALSE
