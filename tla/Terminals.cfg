SPECIFICATION Spec
CONSTANTS
  Terminals = {t1, t2}
  MaxRetained = 1
  MaxSessions = 3
  MaxProcesses = 2
  MaxOutputs = 2
  MaxCalls = 3
  MaxFibers = 2
INVARIANTS NoneAtLarge TranscriptIsStored DeathIsNoticed
CHECK_DEADLOCK FALSE
