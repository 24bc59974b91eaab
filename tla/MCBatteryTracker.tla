--------------------------- MODULE MCBatteryTracker ---------------------------
EXTENDS BatteryTracker

\* Two of run_complete_test's four phases: enough for a phase change with
\* both monitor threads alive and for the last phase before stop.
MCPhaseNames == <<"baseline", "ble_scan">>

=============================================================================
