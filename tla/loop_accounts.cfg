SPECIFICATION Spec
CONSTANTS
  SYMBOLS <- TwoSymbols
  Prices = {4, 5}
  Ratios = {50, 100}
  Volatilities = {50, 100}
  Deposit = 40
  DayLength = 1
  LastDay = 1
  RedisFaults = FALSE
  MaxPerOrder = 50
  MaxDailyLoss = 10
  MaxTotalExposure = 100
  MaxDailyTrades = 2
  MaxConcurrent = 2
  FeeBuffer = 1
  CooldownTime = 1
  CooldownAfter = 3
INVARIANTS
  TypeOK
  NeverOverdrawn
  BooksAgree
  EntriesWithinLimit
PROPERTIES
  ImplementsLedger
  HaltIsFinal
  LossLimitHonoured
  EntryWithinCap
  HaltStaysTold
