SPECIFICATION Spec
CONSTANTS
  p1 = p1  t1 = t1  t2 = t2  plan1 = plan1  turn1 = turn1  m1 = m1  m2 = m2
  Projects = {p1}  Threads = {t1, t2}  Turns = {turn1}  Plans = {plan1}  Modes = {m1, m2}
  Absent = Absent  NoTurn = NoTurn  NoSource = NoSource  NoMode = NoMode
  NoAttempt = NoAttempt  NoTx = NoTx
  CommandIds <- PlanIds
  CommandOf <- ThreadCommands
  Attempts <- PlanIds
  AttemptOf <- PlanAttempts
  Faults = {}
  MaxFaults = 0
  MaxCrashes = 1
CONSTRAINT ShortQueue
INVARIANTS RefusedPlanIsAbsent
CHECK_DEADLOCK FALSE
