\* One worker: executions run one after another, and a battery may lose
\* one percent while a test runs on it.
CONSTANTS
  a1 = a1
  i1 = i1
  t1 = t1
  t2 = t2
  AndroidDevs <- MCAndroidDevs
  IOSDevs <- MCIOSDevs
  TestSuite <- MCTestSuite
  MaxWorkers = 1
  StartLevel = 50
  MaxDrain = 1
SPECIFICATION Spec
INVARIANT TypeOK
INVARIANT ResultsExactlyOnce
 
PROPERTY Termination
\* The process exits after the reports (or after finding no device).
CHECK_DEADLOCK FALSE
