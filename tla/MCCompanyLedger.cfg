SPECIFICATION Spec
CONSTANTS
  p1 = p1
  p2 = p2
  p3 = p3
  chat = chat
  talk = talk
  step = step
  w1 = w1
  a1 = a1
  NoHold = NoHold
  Permits <- MCPermits
  Ops <- MCOps
  WorkerOps = {step}
  Scope <- MCScope
  Amounts = {2}
  Costs = {1, 3}
  Allowances = {3, 5}
  MaxPeriods = 2
INVARIANTS TypeOK MoneyCovered BilledNeverReleased SentOnce
PROPERTIES FinalStatesStay NoGrantOnUnseenOverrun
SYMMETRY Symmetry
CHECK_DEADLOCK FALSE
