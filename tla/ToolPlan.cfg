SPECIFICATION Spec
CONSTANTS
  MaxQueue = 4
  MaxTool = 4
  Programs = {{}, {1}, {1, 2}, {2, 4}, {3, 4}}
  MaxSlots = 3
  Baseline = 2
  ExactLimit = 3
  MaxPasses = 2
  MaxPreviews = 2
INVARIANTS
  PlanIsCheapest
  PreviewKeepsQueue
  AppliedPlanIsFinal
CHECK_DEADLOCK FALSE
