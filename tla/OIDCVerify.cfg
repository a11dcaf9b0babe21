SPECIFICATION OneTokenSpec
CONSTANTS
  Tokens = {t1, t2, t3}
  Calls = {c1, c2, c3}
  None = None
  CacheTTL = 1
  HTTPTimeout = 1
  Expiry <- ExpiresAt3
  JWTs = {t1}
  ReportsExp = {t2}
  Closes = FALSE
  CacheDuration = 1
  DisableIntrospection = {TRUE, FALSE}
  MaxTime = 5
SYMMETRY Symmetry
VIEW View
INVARIANTS
  VerifySound
  StackedStaleness
CHECK_DEADLOCK FALSE
