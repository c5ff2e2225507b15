\* Every function of KeccakHash.c and SP800-185.inc.
SPECIFICATION Spec
CONSTANTS
  rateInBytes = 6
  capacityInBytes = 2
  laneSize = 2
  Parallelism <- MCParallelism
  Starts <- MCStarts
  Text <- MCText
  Pieces = {0, 3, 4, 8, 72, 128}
  MaxMessage = 144
  Elements <- MCElements
  MaxTuple = 3
  Outputs = {8, 12}
  MaxOutput = 3
INVARIANT SameNodeSameInput
CHECK_DEADLOCK FALSE
