SPECIFICATION Spec
CONSTANTS
  None     = None
  Workers  = {w1, w2}
  Syncers  = {s1}
  Api      = api
  Callers  = {c1, c2}
  Quotas   = {1, 2}
  Resets   = TRUE
  MaxCalls = 2
  Budget   = 1
INVARIANTS
  OnlyFaultsDrift
PROPERTIES
  HealsOnlyWhatPersists
  HealsInTheEnd
CHECK_DEADLOCK FALSE
