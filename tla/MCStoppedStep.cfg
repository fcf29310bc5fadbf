CONSTANTS
  Nodes = {"a", "c"}
  DependsOn <- Independent
  Checked = {"a"}
  GapAttempts = 1
  MaxDispatches = 2
  MaxOwner = 2
SPECIFICATION PlanSpec
PROPERTY StoppedStepWaits
CHECK_DEADLOCK FALSE
