SPECIFICATION CollectionSpec
CONSTANTS
  Invoices = {i1, i2}
  Workers = {w1, w2}
  Ops = {"CreateManual", "Collect", "Cancel", "restart", "fault"}
  MaxPayments = 2
  MaxOps = 3
INVARIANTS SettledIsServed CollectedOnce
CHECK_DEADLOCK FALSE
