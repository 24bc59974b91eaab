\* The caller of performance_monitor.main: one start, the sleep (which
\* raises for a negative --duration), one stop, get_metrics, then the
\* analyzer.
CONSTANTS
  MaxStarts = 1
  MaxSamples = 3
  MaxBytes = 2
  Durations <- MCDurations
SPECIFICATION SpecMain
INVARIANT TypeOK
INVARIANT Delivery
INVARIANT TrafficAccounted
PROPERTY RefinesSamplerSpec
 
\* The program ends once print_summary has returned and the thread exited,
\* or, after the sleep raised, only the monitor thread is left running.
CHECK_DEADLOCK FALSE
