SPECIFICATION ScheduleSpec
CONSTANTS
  MonthLengths <- Gregorian
  StartDates <- EndOfJanuary
  BillingDays = {1, 31}
  MaxMonth = 1
  Ops <- AllOps
  MaxOps = 3
INVARIANTS TypeOK LapseExplained MonthsAreBilled
CHECK_DEADLOCK FALSE
