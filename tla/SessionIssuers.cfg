SPECIFICATION FairSpec
CONSTANTS
  Sessions = {s1}
  Requests = {r1, r2}
  NoRow = NoRow
  NoRequest = NoRequest
  HasVerifier = FALSE
  IdleTimeout = 0
  AbsoluteTimeout = 0
  DefaultAccessTTL = 1
  DefaultRefreshTTL = 3
  AccessTTLs = {0, 2}
  RefreshTTLs = {0, 1}
  SendsRefreshToken = {TRUE, FALSE}
  MaxTime = 3
PROPERTIES
  ResolveReturns
  ExpiredRowsGo
CHECK_DEADLOCK FALSE
