\* Three lanes, blocks of 3 bytes, slices of up to two whole blocks and
\* any tail, the ones where both ends of the padding meet included.
SPECIFICATION Spec
CONSTANTS
  Lanes = 3
  Rate = 3
  MaxBlocks = 2
  SameBlocks = TRUE
CHECK_DEADLOCK FALSE
INVARIANTS
  LanesInPhase
  DigestIsKeccak
PROPERTIES
  EveryBatchHashed
