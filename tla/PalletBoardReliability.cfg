CONSTANTS
  Pallets = {p1, p2}
  NoPallet = NoPallet
  MaxSlots = 2
  Simulated = FALSE
  DebugMenu = FALSE

SPECIFICATION Spec

INVARIANT ReliabilityExcludesMotion
