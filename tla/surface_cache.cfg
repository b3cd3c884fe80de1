SPECIFICATION FairSpec
CONSTANTS
  NULL = NULL
  btc = btc
  Keys = {btc}
  Targets <- MCTargets
  Requests = {r1, r2}
  Refreshers = {w1, w2}
  TTL = 1
  MaxTime = 2
  MaxFailures = 1
  MaxStarts = 2
INVARIANTS TypeOK SingleFlight RequestsFitOnlyTheMissing ErrorIsCurrent
PROPERTIES ValuesOnlyGetNewer RequestsEnd StaleIsRefreshed
CHECK_DEADLOCK FALSE
