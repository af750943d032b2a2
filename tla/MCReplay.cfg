CONSTANTS
  Symbols = {btc}
  Qtys = {1}
  None = None
  BatchMax = 1
  MaxSeq = 1
  MaxCrashes = 0
  MaxDrops = 0
  MaxRecons = 0
  MaxMoves = 0
  NetworkMayFail = FALSE
  VenueMayClose = FALSE
  HostChecksGate = TRUE
SPECIFICATION Spec
INVARIANTS
  RecoveryRebuildsPositions
CHECK_DEADLOCK FALSE
