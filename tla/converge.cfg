SPECIFICATION FairSpec
CONSTANTS
  Subs = {s1, s2}
  Plans = {"plan1"}
  Workers = {w1}
  Ops = {"CompleteInstall", "isolir", "settle", "restart"}
  Links = {"up", "down"}
  BatchSize = 1
  Threshold = 2
  MaxOps = 3
PROPERTIES Converges
