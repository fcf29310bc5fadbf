SPECIFICATION Spec
CONSTANTS
  a = a
  b = b
  w = w
  Tasks = {a}
  World <- SoleWorld
  Stoppable = {a}
  MaxAttempts = 2
  MaxLaunches = 2
  MaxRestarts = 1
INVARIANTS StopSparesScheduling
CHECK_DEADLOCK FALSE
