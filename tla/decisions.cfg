SPECIFICATION DecisionSpec
CONSTANTS
  RejectCooldown <- ShortCooldowns
  Symbols = {btc, eth}
  RejectWindow = 3
  ErrorThreshold = 2
  ErrorWindow = 2
  ErrorBlock = 2
  CreditBlock = 2
  HourLimit = 2
  DayLimit = 3
  HourLength = 1
  DayHours = 2
  Setting <- BothKeys
  Bucket <- Buckets
  Confidences = {59, 60}
  ColumnWidth = 50
  btc = btc
  eth = eth
INVARIANTS
  CanaryWithinShare
  BudgetHeld
PROPERTIES
  DecisionsAreTraceable
  GuardReopens
  RefusalsCoolDown
  BreakerOpens
