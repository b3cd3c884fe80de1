SPECIFICATION Spec
CONSTANTS
  NULL = NULL
  s1 = s1 s2 = s2 sold = sold unsold = unsold terminal = terminal mail = mail
  i1 = i1 i2 = i2 e1 = e1 e2 = e2 e3 = e3 e4 = e4 e5 = e5 a1 = a1
  Prices = {sold, unsold}
  Tiers = {terminal}
  TierMap <- MCTierMap
  Subscriptions = {s1, s2}
  Emails = {mail}
  CustomerEmail <- MCCustomerEmail
  EventIds = {e1, e2, e3, e4, e5}
  AdjustmentIds = {a1}
  PastDueGrace = 2
  RequestLife = 1
  Messages <- Refunded
  Isolates = {i1}
  MaxTime = 1
  MaxCrashes = 0
  MaxThrows = 1
  MaxCopies = 0
INVARIANTS NoSilentLoss
CHECK_DEADLOCK FALSE
