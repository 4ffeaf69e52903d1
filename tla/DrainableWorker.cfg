SPECIFICATION FairSpec
CONSTANTS
  Drainers = {d1, d2}
  MaxItems = 3
PROPERTIES DrainIsComplete DrainReturns
CHECK_DEADLOCK FALSE
