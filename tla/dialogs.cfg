SPECIFICATION Spec
CONSTANTS
  AllDialogs <- WebDialogs
  Rows = {r1, r2}
  Places = {p1, p2}
  MaxOpens = 3
  MaxSends = 3
  MaxPolls = 2
INVARIANTS TypeOK SentAsMeant LostIsEarly SentOnce
PROPERTY AnswerClosesOwn
CHECK_DEADLOCK FALSE
