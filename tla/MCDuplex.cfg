\* A duplex object on a permutation of 3 bytes: rates that end with a byte, just
\* after one and inside one, and rates DuplexInitialize refuses.
SPECIFICATION Spec
CONSTANTS
  Width = 24
  Rates = {2, 3, 10, 16, 19, 25}
  Delimiters = {0, 1, 2, 6, 128}
  MaxPerms = 2
  MaxInput = 3
INVARIANTS
  BlocksArePadded
  FurtherOutputFollows
  NoCapacityBitOut
