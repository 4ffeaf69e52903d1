SPECIFICATION FairSpec
CONSTANTS
  Keys = {k1, k2}
  Drainers = {d1, d2}
  NoKey = NoKey
  MaxEnqueues = 3
INVARIANTS QueueIsBookkeeping LatestNeverLost
PROPERTIES DrainKeyIsComplete DrainReturns
CHECK_DEADLOCK FALSE
