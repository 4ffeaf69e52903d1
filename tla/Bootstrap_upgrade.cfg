SPECIFICATION Spec
CONSTANTS
  turn1 = turn1  turn2 = turn2  plan1 = plan1
  Turns = {turn1, turn2}  Plans = {plan1}  NoTurn = NoTurn  Counts = {0, 1, 2}
  OldEvents <- AllEvents
  NewEvents <- AllEvents
  Limit = 3
  MaxLog = 4
  MaxCrashes = 1
CHECK_DEADLOCK FALSE
INVARIANTS NeverTwice ReplayIsLive
