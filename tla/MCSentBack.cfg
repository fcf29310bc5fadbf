CONSTANTS
  Nodes = {"a"}
  DependsOn <- Independent
  Checked = {}
  GapAttempts = 3
  MaxDispatches = 2
  MaxOwner = 6
SPECIFICATION SendBackSpec
INVARIANT AcceptedIsComplete
CHECK_DEADLOCK FALSE
