SPECIFICATION Spec
CONSTANTS
  a = a
  b = b
  w = w
  Tasks = {a, b}
  World <- SharedWorld
  Stoppable = {}
  MaxAttempts = 2
  MaxLaunches = 4
  MaxRestarts = 0
INVARIANTS OneWorkerPerWorld
CHECK_DEADLOCK FALSE
