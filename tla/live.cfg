SPECIFICATION MCSpec
CONSTANTS
  MaxCommits = 4
  MaxInFlight = 2
  QueueCap = 2
INVARIANT NewsIsOnItsWay
PROPERTY Converges
PROPERTY DeleteEndsStream
CHECK_DEADLOCK FALSE
