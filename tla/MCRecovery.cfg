CONSTANTS
  Symbols = {btc}
  Qtys = {2}
  None = None
  BatchMax = 1
  MaxSeq = 1
  MaxCrashes = 1
  MaxDrops = 0
  MaxRecons = 0
  MaxMoves = 0
  NetworkMayFail = TRUE
  VenueMayClose = TRUE
  HostChecksGate = FALSE
SPECIFICATION FairSpec
INVARIANTS
  BookWellFormed
  EngineNeverAhead
  FillsAreDurable
  GateNeedsBook
PROPERTIES
  HandleCompletes
  ColdStartDecides
CHECK_DEADLOCK FALSE
