SPECIFICATION Spec
CONSTANTS
  alice = alice
  carol = carol
  bob = bob
  Senders = {alice, carol}
  Receiver = bob
  Schemes = {"DWrap", "DeckBO", "SANE", "SANSE"}
  Rho = 2
  TagLen = 1
  Key <- MCKey
  Messages <- MCMessages
  MaxWraps <- MCMaxWraps
  MaxFailed = 1
CHECK_DEADLOCK FALSE
INVARIANTS
  HistoryIsState
  NextIsAccepted
  Authentic
  KeystreamOnce
