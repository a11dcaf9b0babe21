SPECIFICATION Spec
CONSTANTS
  None = None
  Tabs = {t1, t2}
  Logins = {l1}
  Codes = {k1, k2}
  Sessions = {x1, x2}
  Second = 2
  LoginStateTTL = 0
  Lifetime = 2
  Routes <- TwoRoutes
  RoleSets <- Claims
  Policies <- Lists
  Raws = {"path", "hostPath"}
  Requests <- Calls
  Base = TRUE
  MaxTime = 2
SYMMETRY Symmetry
INVARIANTS
  LoginsComplete
  LogoutEndsAccess
  CookiesTogether
  RequestsDecided
PROPERTIES
  CookieExpiresWithSession
CHECK_DEADLOCK FALSE
