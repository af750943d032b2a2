SPECIFICATION FairSpec
CONSTANTS
  Symbols = {a, b}
  None = None
  MaxOpen = 1
  MaxPerDay = 2
  MaxLosses = 1
  MaxDailyLoss = 2
  HasCooldown = TRUE
  MaxStarts = 1
  MaxCommands = 1
  RefreshMayFail = FALSE
  RequestMayFail = TRUE
PROPERTIES TickFinishes EmergencyFinishes LosingTrips
CHECK_DEADLOCK FALSE
