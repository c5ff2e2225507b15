\* The generator on a permutation of 5 bytes: blocks of 1, 2 and 3 bytes,
\* capacities that fill a block, exceed it, or leave no room for one.
SPECIFICATION Spec
CONSTANTS
  Width = 40
  Capacities = {0, 8, 16, 21, 30, 31}
  MaxSeed = 5
  MaxOutput = 5
  MaxForget = 4
INVARIANTS
  TypeOK
  NeverRefused
  SeedsInOrder
  SeedInfluencesOutput
  OutputIsFresh
  ForgetIsIrreversible
