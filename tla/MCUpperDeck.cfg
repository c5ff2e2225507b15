SPECIFICATION Spec
CONSTANTS
  original = original
  clone = clone
  Decks = {original, clone}
  Rho = 2
  Key <- MCKey
  Strings <- MCStrings
  Trailers = {2, 4}
  MaxStrings <- MCMaxStrings
  MaxOutput <- MCMaxOutput
INVARIANTS
  OnlyKnownFailures
  StreamIsContinuous
  StringsDetermineState
PROPERTIES
  EveryCallReturns
CHECK_DEADLOCK FALSE
