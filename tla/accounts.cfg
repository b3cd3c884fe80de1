SPECIFICATION Spec
CONSTANTS
  NULL = NULL
  s1 = s1
  s2 = s2
  ann = ann
  home = home
  Subscriptions = {s1, s2}
  People = {ann}
  Address <- MCAddress
  SessionLife = 1
  MaxTime = 1
  MaxKeys = 3
INVARIANTS OneAnswer RetiredKeysStayDead
PROPERTIES BoundAnswerHolds
SYMMETRY EitherSubscription
CHECK_DEADLOCK FALSE
