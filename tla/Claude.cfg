SPECIFICATION Spec
CONSTANTS
  MaxSessions = 3  MaxPrompts = 2  MaxBackground = 1
  Requests = {r1}
INVARIANTS TurnsEnd ApprovalsCanBeAnswered NoneLeaks
CHECK_DEADLOCK FALSE
