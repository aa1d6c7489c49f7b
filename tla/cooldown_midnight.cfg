SPECIFICATION Spec
CONSTANTS
  SYMBOLS <- OneSymbol
  Prices = {4, 5}
  Ratios = {100}
  Volatilities = {100}
  Deposit = 40
  DayLength = 3
  LastDay = 1
  RedisFaults = FALSE
  MaxPerOrder = 50
  MaxDailyLoss = 100
  MaxTotalExposure = 100
  MaxDailyTrades = 4
  MaxConcurrent = 2
  FeeBuffer = 1
  CooldownTime = 2
  CooldownAfter = 3
PROPERTIES
  CooldownSpansMidnight
