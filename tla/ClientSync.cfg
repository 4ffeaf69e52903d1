SPECIFICATION FairSpec
CONSTANTS
  Commands = {"boot", "other", "post"}  Threads = {"old", "new", "own"}
  ThreadOf <- MCThreadOf  Creates = {"boot"}  Worktrees = {"boot"}
  Posts = {"post"}  InitialLog <- MCInitialLog
  MaxFaults = 1  MaxLost = 2  MaxInputs = 2
INVARIANTS ShownIsStored BootstrapIsWhole
PROPERTIES NeverBack OnlyWhenReady EveryCallEnds
CHECK_DEADLOCK FALSE
