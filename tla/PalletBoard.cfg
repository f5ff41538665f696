CONSTANTS
  Pallets = {p1, p2, p3}
  NoPallet = NoPallet
  MaxSlots = 2
  Simulated = FALSE
  DebugMenu = TRUE

SPECIFICATION Spec

SYMMETRY PalletSymmetry

INVARIANTS
  TypeOK
  SlotsExclusive
  ClaimsInsidePool
  OnePalletPerPlace
  HeldPalletCanReturn
  NoForgottenReservation
  MotionKeepsItsSlots
  QueueIsContiguous

PROPERTIES
  RunModeKeepsMillPallet
  LockedPalletMovesByMotionOnly
  BoardAllocatesPool
