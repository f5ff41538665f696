SPECIFICATION FairSpec
CONSTANTS
  MaxSequence = 3
  MaxMotions = 1
  Steps = 2
  Fallback = TRUE
  Outputs = FALSE
  MaxFaults = 1
INVARIANTS
  LinkTypeOK
  LedgerKnowsEveryCommand
  NoStepRunsTwice
  SuccessMeansDone
PROPERTIES
  ImplementsAtomicSteps
  MovementThreadEnds
CHECK_DEADLOCK FALSE
