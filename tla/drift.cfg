SPECIFICATION DriftSpec
CONSTANTS
  Subs = {s1}
  Plans = {"plan1", "plan2"}
  Workers = {w1}
  Ops <- OpNames
  Links = {"up", "down", "gone"}
  BatchSize = 1
  Threshold = 2
  MaxOps = 4
INVARIANTS TypeOK DriftExplained
