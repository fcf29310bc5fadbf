SPECIFICATION FairSpec
CONSTANTS
  p1 = p1
  p2 = p2
  p3 = p3
  chat = chat
  talk = talk
  step = step
  w1 = w1
  a1 = a1
  NoHold = NoHold
  Permits = {p1, p2}
  Ops <- TwoOps
  WorkerOps = {step}
  Scope <- TwoScopes
  Amounts = {2}
  Costs = {1, 3}
  Allowances = {3, 5}
  MaxPeriods = 2
PROPERTIES NoPermitStaysSent AccountSpec
CHECK_DEADLOCK FALSE
