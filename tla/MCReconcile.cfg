CONSTANTS
  Symbols = {btc, eth}
  Qtys = {1}
  None = None
  BatchMax = 1
  MaxSeq = 1
  MaxCrashes = 0
  MaxDrops = 1
  MaxRecons = 1
  MaxMoves = 1
  NetworkMayFail = TRUE
  VenueMayClose = FALSE
  HostChecksGate = TRUE
SPECIFICATION Spec
INVARIANTS
  PositionMatchesBook
PROPERTIES
  DriftHasACause
CHECK_DEADLOCK FALSE
