\* The same for slices with different numbers of blocks.
SPECIFICATION Spec
CONSTANTS
  Lanes = 3
  Rate = 3
  MaxBlocks = 2
  SameBlocks = FALSE
CHECK_DEADLOCK FALSE
INVARIANTS
  LanesInPhase
