SPECIFICATION Spec
CONSTANTS
  NULL = NULL
  s1 = s1
  s2 = s2
  sold = sold
  unsold = unsold
  dearer = dearer
  terminal = terminal
  desk = desk
  mail = mail
  other = other
  t1 = t1
  t2 = t2
  e1 = e1
  e2 = e2
  e3 = e3
  e4 = e4
  a1 = a1
  a2 = a2
  Prices = {sold, unsold, dearer}
  Tiers = {terminal, desk}
  TierMap <- MCTierMap
  Subscriptions = {s1}
  Emails = {mail, other}
  CustomerEmail <- MCCustomerEmail
  EventIds = {e1, e2, e3, e4}
  AdjustmentIds = {a1, a2}
  PastDueGrace = 2
  CacheTTL = 1
  Retention = 20
  MaxEntries = 10
  Messages <- Lifecycle
  Threads = {t1}
  MaxTime = 1
  MaxRestarts = 1
  MaxFailures = 1
  MaxUnreadable = 1
  MaxCopies = 0
  MaxRefunds = 1
INVARIANTS TypeOK RefundsAreOnRecord
PROPERTIES KeepsContract OverwritesAreExplained
CHECK_DEADLOCK FALSE
