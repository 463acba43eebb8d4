SPECIFICATION Spec
CONSTANTS
  ip1 = ip1
  u1  = u1
  u2  = u2
  Anonymous = Anonymous
  Requests <- Asks
  Limit    <- Limits
  Window   = 4
  Second   = 2
  MaxLag   = 1
  Horizon  = 7
INVARIANTS
  NeverTooMany
  RefusedIsFree
PROPERTY
  RetryHonoured
CHECK_DEADLOCK FALSE
