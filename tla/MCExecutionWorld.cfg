SPECIFICATION Spec
CONSTANTS
  a = a
  b = b
  w = w
  Tasks = {a, b}
  World <- SharedWorld
  Stoppable = {a}
  MaxAttempts = 2
  MaxLaunches = 4
  MaxRestarts = 0
INVARIANTS OneClaimPerWorld
PROPERTIES StoppedUntilRetried
CHECK_DEADLOCK FALSE
