SPECIFICATION FairSpec
CONSTANTS
  SYMBOLS <- TwoSymbols
  FEEDS <- TwoFeeds
  Articles <- TwoArticles
  Weight <- Weights
  WindowHours = 2
  MaxArticles = 2
  LastHour = 2
  btc = btc
  eth = eth
  coindesk = coindesk
  decrypt = decrypt
INVARIANTS
  ScoreWithinArticles
  ScoreIsCurrent
PROPERTIES
  ScoresSettle
