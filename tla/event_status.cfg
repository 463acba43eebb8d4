SPECIFICATION Spec
CONSTANTS
  Workers = {w1}
  Api = api
  Plans <- TwoPlans
  AdminActs = {"pause", "resume", "reschedule", "raise"}
  Horizon = 2
  First <- Early
  Budget = 2
PROPERTIES NeverOpensEarly PauseHolds SoldOutHolds FollowsTheSchedule ClosedWhenSoldOut
CHECK_DEADLOCK FALSE
