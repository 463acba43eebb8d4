SPECIFICATION Spec
CONSTANTS
  Users = {1, 2}
  Workers = {w1, w2}
  Lots = {0, 1}
  Start = 3
  Horizon = 9
  MaxLag = 0
  SessionTtl = 2
  HbTimeout = 2
  LeaderTtl = 2
  Grain = 2
  Rate = 1
  MaxActive = 1
  Stocks = {2}
  StatusMoves <- OpeningOnly
  Stalls = FALSE
SYMMETRY Symmetry
INVARIANT ServedInTime
CHECK_DEADLOCK FALSE
