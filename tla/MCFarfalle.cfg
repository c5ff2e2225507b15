\* Bytes of two bits, blocks of three bytes, two blocks at once.
SPECIFICATION Spec
CONSTANTS
  byte = 2
  width = 6
  Parallelism = {2}
  WBCAE_t = 4
  Keys = {1, 2}
  FirstKey = 1
  KeyLengths = {3, 6}
  InputLengths = {3, 4, 14}
  OutputLengths = {4, 13}
  DataLengths = {1, 5, 9, 15}
  WLengths = {0, 3}
  ChangedBits = {1, 4, 8, 12, 18}
  MaxRolls = 4
  MaxOutput = 17
INVARIANT AccumulatorIsHistory OutputIsStream DecipherUndoesEncipher ChangesAreFelt
CHECK_DEADLOCK FALSE
