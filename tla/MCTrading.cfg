CONSTANTS
  Symbols = {btc}
  Qtys = {2}
  None = None
  BatchMax = 2
  MaxSeq = 2
  MaxCrashes = 0
  MaxDrops = 0
  MaxRecons = 0
  MaxMoves = 0
  NetworkMayFail = FALSE
  VenueMayClose = TRUE
  HostChecksGate = TRUE
SPECIFICATION Spec
INVARIANTS
  TypeOk
  NothingLost
PROPERTIES
  BookNeverForgets
CHECK_DEADLOCK FALSE
