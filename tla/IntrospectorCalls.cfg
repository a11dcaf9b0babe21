SPECIFICATION FairSpec
CONSTANTS
  Tokens = {t1}
  Calls = {c1, c2}
  None = None
  CacheTTL = 2
  HTTPTimeout = 1
  Expiry <- ExpiresAt3
  JWTs = {t1}
  ReportsExp = {}
  Closes = TRUE
  MaxTime = 5
INVARIANTS
  CacheSound
  BoundedStaleness
  InactiveIsNoticed
  ClearCacheTakesEffect
PROPERTIES
  EverythingEnds
