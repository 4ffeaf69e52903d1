SPECIFICATION FairSpec
CONSTANTS
  MaxTurns = 3  MaxReverts = 2  MaxEdits = 1
  Outcomes = {"failed", "interrupted"}
  Faults = {"baseline", "restore", "rollback"}  MaxFaults = 3
  HastyTurns = 2  HastyReverts = 1  HastyFaults = 0
INVARIANTS RefsAreCaptured RowsAreConversation WorkspaceIsOfConversation
PROPERTIES PlaceholdersAreReplaced
CHECK_DEADLOCK FALSE
