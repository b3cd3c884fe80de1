SPECIFICATION Spec
CONSTANTS
  NULL = NULL
  s1 = s1
  s2 = s2
  sold = sold
  unsold = unsold
  dearer = dearer
  terminal = terminal
  desk = desk
  mail = mail
  other = other
  t1 = t1
  t2 = t2
  e1 = e1
  e2 = e2
  e3 = e3
  e4 = e4
  a1 = a1
  a2 = a2
  Prices = {sold, unsold, dearer}
  Tiers = {terminal, desk}
  TierMap <- MCTierMap
  Subscriptions = {s1, s2}
  Emails = {mail, other}
  CustomerEmail <- MCCustomerEmail
  EventIds = {e1, e2, e3, e4}
  AdjustmentIds = {a1, a2}
  PastDueGrace = 2
  CacheTTL = 2
  Retention = 20
  MaxEntries = 10
  Messages <- Crossing
  Threads = {t1, t2}
  MaxTime = 1
  MaxRestarts = 0
  MaxFailures = 1
  MaxUnreadable = 0
  MaxCopies = 1
  MaxRefunds = 2
INVARIANTS CeilingIsShut
PROPERTIES AppliedOnce
SYMMETRY Alike
CHECK_DEADLOCK FALSE
