CONSTANTS
  a = a
  b = b
  x = x
  y = y
  Pixels = {a, b}
  Seeds = {x, y}
  Recipient <- MCRecipient
  Unread = {y}
  Replies <- MCReplies
  MaxEffects = 3
  Energy <- MCEnergy
  Estimate = 2
  Costs = {3}
  RunLimit = 4
  MaxCalls = 3
  MaxFaults = 1
  Sleepers = {b}
  MaxRuns = 2
  MaxPerRound = 2
  MaxRounds = 1
SPECIFICATION Spec
INVARIANTS
  KernelTypeOK
  ReservedMatchesBills
  FilesFollowBody
  NoMailForTheDead
  EffectsOnceInOrder
  NoStartedToolMet
  OneOpenBill
PROPERTIES
  RoundsLeaveNoWork
  UserStopSticks
  RunsSettle
CHECK_DEADLOCK FALSE
