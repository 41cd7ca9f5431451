SPECIFICATION SettlementSpec
CONSTANTS
  i1 = i1
  w1 = w1
  w2 = w2
  Invoices <- OneInvoice
  Workers <- TwoWorkers
  Ops <- AllOps
  MaxPayments = 2
  MaxOps = 3
INVARIANTS TypeOK ConfirmedIsSettled SettledIsServed MoneyIsRecorded
SYMMETRY WorkerSymmetry
CHECK_DEADLOCK FALSE
