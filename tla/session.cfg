SPECIFICATION Spec
CONSTANTS
  Tabs = {t1, t2}
  NoTab = NoTab
  Requests = {r1, r2}
  MaxPairs = 3
  MaxResets = 1
  MaxEndings = 1
INVARIANTS TypeOK QueueIsServed RotatedOnce ResetEndsSessions
PROPERTIES LossIsExplained EveryRequestEnds
CHECK_DEADLOCK FALSE
