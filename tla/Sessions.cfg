SPECIFICATION Spec
CONSTANTS
  Instances = {i1, i2}  NoInstance = NoInstance  Default = i1
  Modes = {"full-access", "approval-required"}  InitialMode = "full-access"
  Commands = {"mode", "stop", "interrupt", "delete"}
  MaxTurns = 2  MaxOwn = 1
  Faults = {"start", "deliver", "exit", "crash"}  MaxInputs = 4  HastyInputs = 2
INVARIANTS NoPhantomTurn TurnsAreAnswered RunningIsShown ShownModeIsReal StoppedIsStopped
CHECK_DEADLOCK FALSE
