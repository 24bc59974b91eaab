\* performance_monitor.main on a device from which no sample was collected.
CONSTANTS
  MaxStarts = 1
  MaxSamples = 3
  MaxBytes = 2
  Durations = {0}
SPECIFICATION SpecMain
INVARIANT ReportListsDevice
CHECK_DEADLOCK FALSE
