SPECIFICATION Spec
CONSTANTS
  SYMBOLS <- TwoSymbols
  Prices = {4, 5}
  Ratios = {100}
  Volatilities = {100}
  Deposit = 40
  DayLength = 3
  LastDay = 0
  RedisFaults = TRUE
  MaxPerOrder = 50
  MaxDailyLoss = 100
  MaxTotalExposure = 100
  MaxDailyTrades = 4
  MaxConcurrent = 1
  FeeBuffer = 1
  CooldownTime = 2
  CooldownAfter = 3
INVARIANTS
  StreakFollowsConfig
  HoldingsWithinLimit
PROPERTIES
  CooldownHonoured
