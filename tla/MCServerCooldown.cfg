SPECIFICATION FairSpec
CONSTANTS
  Symbols = {a}
  None = None
  MaxOpen = 1
  MaxPerDay = 1
  MaxLosses = 1
  MaxDailyLoss = 9
  HasCooldown = TRUE
  MaxStarts = 1
  MaxCommands = 1
  RefreshMayFail = FALSE
  RequestMayFail = FALSE
PROPERTY CooldownEnds
CHECK_DEADLOCK FALSE
