SPECIFICATION Spec
CONSTANTS
  MaxSequence = 2
  MaxMotions = 1
  Steps = 1
  Fallback = TRUE
  Outputs = TRUE
  MaxFaults = 1
INVARIANTS
  StepInProgressIsKept
CHECK_DEADLOCK FALSE
