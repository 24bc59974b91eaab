CONSTANTS
  PhaseNames <- MCPhaseNames
  MaxStarts = 2
  MaxSnaps = 3
  Callers = {"main"}
  SnapLevels = {49, 50}
SPECIFICATION Spec
PROPERTY Termination
CHECK_DEADLOCK FALSE
