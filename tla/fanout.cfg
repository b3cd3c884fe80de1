SPECIFICATION Spec
CONSTANTS
  NULL = NULL
  a1 = a1
  a2 = a2
  f1 = f1
  f2 = f2
  btc = btc
  today = today
  butterfly = butterfly
  calendar = calendar
  p1 = p1
  p2 = p2
  Alerts = {a1, a2}
  Settings <- MCSettings
  Surfaces <- MCSurfaces
  Slots = {f1, f2}
  Posters = {p1, p2}
  Limit = 1
  Quiet = 3
  RunLife = 1
  MaxTime = 3
  MaxRuns = 3
  MaxFaults = 1
INVARIANTS RepeatsAreExplained OvershootIsBounded
PROPERTIES ToldOrLogged
CONSTRAINT IdsAreLeft
SYMMETRY Interchangeable
CHECK_DEADLOCK FALSE
