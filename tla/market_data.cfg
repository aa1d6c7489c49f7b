SPECIFICATION TrackerFairSpec
CONSTANTS
  SYMBOLS <- TwoSymbols
  Page = 2
  FirstMinute = 2
  LastMinute = 5
  Silent = {2}
  Window <- TwoWindows
  Tolerance = 1
  ScanLimit = 1
  MaxSales = 1
INVARIANTS
  PointsAreNearest
PROPERTIES
  BackfillClosesGap
  EverySymbolKeepsUp
  WindowsAreTracked
