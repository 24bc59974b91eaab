--------------------------- MODULE MCTestRunnerSeq ---------------------------
EXTENDS TestRunnerSeq

CONSTANTS a1, a2, i1

\* Two Android devices (so one can be dropped by discovery and the device
\* loop turns) and one iOS device.
MCAndroidDevs == <<a1, a2>>
MCIOSDevs     == <<i1>>

=============================================================================
