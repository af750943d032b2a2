CONSTANTS
  Symbols = {btc}
  Qtys = {1}
  None = None
  BatchMax = 1
  MaxSeq = 1
  MaxCrashes = 0
  MaxDrops = 0
  MaxRecons = 0
  MaxMoves = 0
  NetworkMayFail = TRUE
  VenueMayClose = FALSE
  HostChecksGate = TRUE
SPECIFICATION Spec
INVARIANTS
  QuietAgreement
CHECK_DEADLOCK FALSE
