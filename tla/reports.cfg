SPECIFICATION HistorySpec
SYMMETRY Interchangeable
CONSTANTS
  btc = btc
  eth = eth
  Symbols <- TwoSymbols
  Quantities = {1, 2}
  Reasons <- TwoReasons
  EarlyReasons <- Early
  Changes <- PointChanges
  ReviewDays = 2
  ReviewLimit = 3
  WeeklyDays = 2
  MinSamples = 1
  EarlyPercent = 60
  MaxRows = 4
  LastDate = 2
CHECK_DEADLOCK FALSE
INVARIANTS
  EntriesExact
  WeeklyEntryNotLater
PROPERTIES
  SuggestionsFollowPoints
