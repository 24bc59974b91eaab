CONSTANTS
  PhaseNames <- MCPhaseNames
  MaxStarts = 2
  MaxSnaps = 3
  Callers = {"run_complete_test", "main"}
  SnapLevels = {49, 50}
SPECIFICATION Spec
INVARIANT TypeOK
PROPERTY RefinesSamplerSpec
PROPERTY StopEndsAll
CHECK_DEADLOCK FALSE
