SPECIFICATION Spec
CONSTANTS
  AllTables <- WebTables
  Records = {a, b, c}
  Matching = {b, c}
  PageSize = 2
  MaxHistory = 3
INVARIANTS TypeOK SelectedIsChosen PageHasRows
CHECK_DEADLOCK FALSE
