SPECIFICATION FairSpec
CONSTANTS
  Users = {"ann","bob"}
  Questions = {"q1","q2"}
  Reports = {"status"}
  RateMax = 2
  Window = 2
  ClientLimit = 1
  RunLimit = 2
  Cooldown = 2
  CacheTTL = 2
  CacheMax = 2
INVARIANTS
  FreshAnswers
  LimitsHeld
PROPERTIES
  AsksAnswered
