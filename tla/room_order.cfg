SPECIFICATION Spec
CONSTANTS
  Users = {1, 2}
  Workers = {w1}
  Lots = {0, 1}
  Start = 3
  Horizon = 6
  MaxLag = 1
  SessionTtl = 2
  HbTimeout = 2
  LeaderTtl = 2
  Grain = 2
  Rate = 1
  MaxActive = 1
  Stocks = {2}
  StatusMoves <- OrdinaryMoves
  Stalls = FALSE
INVARIANTS TypeOK QueueWatched NeverBoth
PROPERTIES NobodyOvertaken FifoAfterOpening DropsOnlyTheSilent
CHECK_DEADLOCK FALSE
