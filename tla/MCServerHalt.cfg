SPECIFICATION Spec
CONSTANTS
  Symbols = {a, b}
  None = None
  MaxOpen = 1
  MaxPerDay = 1
  MaxLosses = 1
  MaxDailyLoss = 2
  HasCooldown = TRUE
  MaxStarts = 1
  MaxCommands = 2
  RefreshMayFail = FALSE
  RequestMayFail = FALSE
PROPERTY HaltMeansHalt
CHECK_DEADLOCK FALSE
