CONSTANTS
  Callers = {c1}
  Ops = {"probe", "machine", "load"}
  MaxSequence = 1
  Links = {1, 2}
  MaxTroubles = 1
  Commissioned = TRUE
SPECIFICATION FairSpec
PROPERTIES
  VerdictArrives
  AlignmentReturns
CHECK_DEADLOCK FALSE
