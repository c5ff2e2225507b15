SPECIFICATION Spec
CONSTANTS
  bPrime = 6
  Rhash = 2
  Rkin = 4
  Rkout = 3
  lRatchet = 2
  Kernels <- MCKernels
  Starts <- MCStarts
  Strings <- MCStrings
  Lengths = {1, 8}
  MaxCalls = 2
CHECK_DEADLOCK FALSE
INVARIANTS
  StateIsHistory
  SameEverywhere
  KeystreamOnce
  RatchetOverwrites
