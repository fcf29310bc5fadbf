CONSTANTS
  Parts = {"supervisor", "upgrade", "tool", "pay", "plan", "worker"}
  Candidates = {1, 2, 3}
  Legacy = {0}
  MaxFaults = 1
  Commits = {0, 1, 2, 3}
  JobMishaps = 1
  Ops = {"o1"}
  Pixels = {"p", "q"}
  Files = {"f"}
  Contents = {"1", "2"}
  MaxTrouble = 1
  MaxTransfers = 2
  Scanners = {w1, w2}
  PageSize = 1
  Pages = 2
  MaxWrong = 1
  Nodes = {"a", "b"}
  Checked = {"b"}
  GapAttempts = 1
  MaxDispatches = 2
  MaxOwner = 2
  MaxSteps = 2
  Retries = 1
  WorkerMishaps = 2
SYMMETRY Alike
SPECIFICATION Spec
INVARIANTS
  RunningIsActive
  AncestorsKept
  EvidenceStands
  ReportsAreTrue
  CursorSkipsNothing
  PaidOnce
  FullMeansDelivered
  NothingDoneTwice
PROPERTIES
  RollbackKeepsFacts
  MainFollowsRelease
CHECK_DEADLOCK FALSE
