SPECIFICATION FairSpec
CONSTANTS
  u1 = u1
  u2 = u2
  c1 = c1
  c2 = c2
  cx = cx
  k1 = k1
  k2 = k2
  Users = {u1, u2}
  Keys = {k1, k2}
  Categories = {c1, c2}
  OtherCategories = {cx}
  Asks <- CompetingAsks
  Requests = {r1, r2}
  Handlers = {h1}
  Workers = {w1}
  Quota <- MCQuota
  MaxPerUser = 2
  MaxQty = 3
  Faults = {"crash", "insertFails"}
  MaxSent = 1
INVARIANTS TypeOK RedisLedger LayersAgree
PROPERTIES HoldsEnd StoresAgree
CHECK_DEADLOCK FALSE
