CONSTANTS
  a1 = a1
  a2 = a2
  i1 = i1
  AndroidDevs <- MCAndroidDevs
  IOSDevs <- MCIOSDevs
  OnDarwin = TRUE
  DurationArgs = {1}
  MinPeersArgs = {2, 4}
  Threshold = 5
  StartLevel = 50
  MaxDrain = 1
SPECIFICATION Spec
INVARIANT TypeOK
PROPERTY CompletesWithAllResults
CHECK_DEADLOCK FALSE
