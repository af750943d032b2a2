SPECIFICATION PartsSpec
CONSTANTS
  MaxQty = 5
  MaxFill = 6
  None = None
  NoFigure = NoFigure
  GateSymbols = {"A", "B"}
  GateMark <- TwoPrices
  GateCorrelated = {{"A", "B"}}
  GateEquities = {1}
  GatePosition = 2
  GateAggregate = 3
  GateLeverage = 2
  GateCluster = 2
  GateOrders = 1
  GateWindow = 1
  GateQty = 1
  GateClock = 2
  GateAccepted = 2
  PaceCategories = {"order", "position"}
  PaceCapacity = 1
  PaceRefill = 1
  PaceDelay = 2
  PaceClock = 3
  PaceSends = 2
  PaceHits = 2
  KillSymbols = {"A", "B"}
  KillTriggers = {1, 2}
  KillHeld = {0, 1}
  KillOrders = 1
  Nonces = {"n1", "n2"}
  WindowMs = 2
  FutureTolerance = 1
  IntakeClock = 4
  Ids = {"s1", "s2"}
  DeskClock = 3
  DeskStarts = 1
  AuditBodies = {"a", "b"}
  AuditLegacy = 1
  AuditRows = 3
  AuditDamage = 2
  JournalEntries = 6
  JournalCuts = 2
  SimOrders = {"o1"}
  SimBooks <- ThreeBooks
  SimLimits = {2}
  SimLatency = 1
  SimSlipPart = 4
  SimQty = 2
  SimClock = 2
  SimTraded = 2
  PaperPairs <- TwoPairs
  PaperPrices = {90, 110}
  PaperSignals <- LongShort
  PaperStop = 10
  PaperTarget = 20
  PaperTrailing = 15
  PaperPosition = 300
  PaperRiskCap = 500
  PaperMinQty = 1
  PaperMaxQty = 3
  PaperFee = 1
  PaperEquity = 1000
  PaperDailyLoss = 3
  PaperFlatten = TRUE
  PaperTrades = 2
  PaperTurns = 1
  PageTokens = {"k1", "k2"}
  PageTrades = {"t1"}
  PageModes = {TRUE, FALSE}
  PageSockets = {1, 2}
  PageLogs = 2
  PageReplayed = 1
  PageShown = 2
  PageEvents = 2
  PageFaults = 1
  TopSymbols = {"A"}
  TopBooks = {1, 2}
  TopPrices = {5}
  TopChanges = 5
INVARIANTS
  StateAgreesWithFill
  PartsTypeOk
  GateHolds
  RequestsBehave
  StoresHold
  FillsAreEarned
  BooksBalance
  ScreensAreTrue
  OneArmedStrategy
  FiguresAgree
  ReplaysAgree
  IntelIsFair
  PlansAddUp
PROPERTIES
  OnlyForward
  KeepsPromise
  Prudent
CHECK_DEADLOCK FALSE
