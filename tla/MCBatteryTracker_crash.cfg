CONSTANTS
  PhaseNames <- MCPhaseNames
  MaxStarts = 2
  MaxSnaps = 3
  Callers = {"run_complete_test"}
  SnapLevels = {49, 50}
SPECIFICATION Spec
PROPERTY AppendsToOpenPhase
CHECK_DEADLOCK FALSE
