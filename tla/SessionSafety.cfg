SPECIFICATION Spec
CONSTANTS
  Sessions = {s1}
  Requests = {r1, r2, r3}
  NoRow = NoRow
  NoRequest = NoRequest
  HasVerifier = TRUE
  IdleTimeout = 2
  AbsoluteTimeout = 3
  DefaultAccessTTL = 1
  DefaultRefreshTTL = 3
  AccessTTLs = {0}
  RefreshTTLs = {0, 2}
  SendsRefreshToken = {TRUE}
  MaxTime = 4
SYMMETRY Symmetry
INVARIANTS
  TypeOK
  LogoutIsFinal
  SpentTokenOnlyAfterLoss
  ReturnedSessionUsable
  AbsoluteTimeoutEnforced
  RevocationBites
PROPERTIES
  NoResurrection
CHECK_DEADLOCK FALSE
