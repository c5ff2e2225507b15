\* The sponge on a permutation of 5 bytes with rates of 1, 2 and 3 bytes; pairs
\* SpongeInitialize refuses (a wrong sum, not whole bytes).
SPECIFICATION Spec
CONSTANTS
  Width = 40
  Rates = {8, 16, 20, 24}
  Capacities = {16, 20, 24, 32}
  Delimiters = {1, 6, 128, 134}
  MaxInput = 8
  MaxOutput = 7
INVARIANTS
  TypeOK
  IndexInBlock
  IncrementalIsOneShot
PROPERTIES
  EveryCallReturns
  ImplementsXOF
