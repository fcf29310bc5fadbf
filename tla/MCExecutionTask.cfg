SPECIFICATION FairSpec
CONSTANTS
  a = a
  b = b
  w = w
  Tasks = {a}
  World <- SoleWorld
  Stoppable = {a}
  MaxAttempts = 2
  MaxLaunches = 4
  MaxRestarts = 2
INVARIANTS TypeOK OneProcessPerTask Supervised RepliesAreResults NoReplayUnreviewed
PROPERTIES ResultsAreFinal AttemptsSpec WorkersConverge DispatchesConverge StoppedIsReworkable
CHECK_DEADLOCK FALSE
