SPECIFICATION Spec
CONSTANTS
  u1 = u1
  u2 = u2
  c1 = c1
  c2 = c2
  cx = cx
  k1 = k1
  k2 = k2
  Users = {u1, u2}
  Keys = {k1, k2}
  Categories = {c1, c2}
  OtherCategories = {cx}
  Asks <- GuardAsks
  Requests = {r1, r2}
  Handlers = {h1, h2}
  Workers = {w1}
  Quota <- GuardQuota
  MaxPerUser = 2
  MaxQty = 3
  Faults = {"readBackFails"}
  MaxSent = 1
SYMMETRY Symmetry
INVARIANTS NoOversell AccountLimit QuotaLedger SettlementHonoured TicketsMatchPaid TwinsResolved
PROPERTY KeepsThePromise
CHECK_DEADLOCK FALSE
