SPECIFICATION FairSpec
CONSTANTS
  PeriodDays = 2
  BaseUrls = 2
  MaxRetries = 3
  MaxSales = 3
  LastDay = 2
INVARIANTS
  ProfitNeverAheadOfList
  DuplicatesOnlyUnanswered
PROPERTIES
  JobsEnd
