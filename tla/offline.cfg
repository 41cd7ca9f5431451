SPECIFICATION DriftSpec
CONSTANTS
  Subs = {s1}
  Plans = {"plan1"}
  Workers = {w1}
  Ops = {"CompleteInstall"}
  Links = {"up", "gone"}
  BatchSize = 1
  Threshold = 2
  MaxOps = 1
INVARIANTS SyncedMeansApplied
CHECK_DEADLOCK FALSE
