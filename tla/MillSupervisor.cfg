CONSTANTS
  Callers = {c1, c2}
  Ops = {"machine"}
  MaxSequence = 2
  Links = {1, 2}
  MaxTroubles = 1
  Commissioned = TRUE
SPECIFICATION Spec
INVARIANTS
  MillTypeOK
PROPERTIES
  ImplementsOneProgramPerCommand
CHECK_DEADLOCK FALSE
