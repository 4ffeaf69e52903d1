SPECIFICATION Spec
CONSTANTS
  p1 = p1  t1 = t1  t2 = t2  plan1 = plan1  turn1 = turn1  m1 = m1  m2 = m2
  Projects = {p1}  Threads = {t1}  Turns = {turn1}  Plans = {plan1}  Modes = {m1, m2}
  Absent = Absent  NoTurn = NoTurn  NoSource = NoSource  NoMode = NoMode
  NoAttempt = NoAttempt  NoTx = NoTx
  CommandIds <- LifecycleIds
  CommandOf <- LifecycleCommands
  Attempts <- LifecycleAttemptIds
  AttemptOf <- LifecycleAttempts
  Faults = {"lookup", "tx", "commit"}
  MaxFaults = 1
  MaxCrashes = 1
CONSTRAINT ShortQueue
INVARIANTS TypeOK ProjectionIsLog ModelIsCurrent RepliesAreTrue TurnStartsInCurrentMode
PROPERTIES ImplementsCommandLog
CHECK_DEADLOCK FALSE
