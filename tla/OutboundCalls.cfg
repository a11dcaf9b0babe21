SPECIFICATION FairSpec
CONSTANTS
  c1 = c1
  c2 = c2
  Calls = {c1, c2}
  KindsOf <- Kinds
  MaxAttempts = 3
  WaitMin = 2
  WaitMax = 3
  RetryAfterCap = 2
  Second = 1
  MaxDuration = 7
  None = None
  Scopes = {s1}
  EmptyScope = EmptyScope
  NoToken = NoToken
  NoAuth = NoAuth
  Skew = 1
  AuthTimeout = 2
  Lifetimes = {1, 2}
  MaxTitleBytes = 3
  Statuses = {200, 404, 429}
  Headers <- RetryAfters
  Replies <- FCMReplies
  Messages <- Notifications
INVARIANTS
  RetryContract
  SkewAbsorbsLatency
  
PROPERTIES
  CallsReturn
