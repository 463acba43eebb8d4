SPECIFICATION FairSpec
CONSTANTS
  Streams = {s1, s2}
  Polls = {p1, p2}
  Keys = {k1, k2}
  Moves <- MCMoves
  Links = {"event", "queue", "checkout"}
  Restless = FALSE
  MaxReads = 2
  MaxWire = 1
INVARIANTS TypeOK OneStream Listening Quiet OneOrderPerVisit
PROPERTIES TurnIsShown
CHECK_DEADLOCK FALSE
