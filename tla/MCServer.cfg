SPECIFICATION Spec
CONSTANTS
  Symbols = {a, b}
  None = None
  MaxOpen = 1
  MaxPerDay = 2
  MaxLosses = 1
  MaxDailyLoss = 2
  HasCooldown = TRUE
  MaxStarts = 2
  MaxCommands = 2
  RefreshMayFail = FALSE
  RequestMayFail = TRUE
SYMMETRY Interchangeable
INVARIANTS TypeOk RiskLimitsHold SettledOnce TableDescribesVenue
CHECK_DEADLOCK FALSE
