SPECIFICATION Spec
CONSTANTS
  Pages = {p1, p2}
  MaxChannels = 3
  QueueSize = 1
  MaxPerTopic = 2
  MaxPerDevice = 3
  MaxWritten = 2
  MaxUpsets = 2
INVARIANTS TypeOK MissingIsExplained
PROPERTIES ImplementsFeed ComesBack
CHECK_DEADLOCK FALSE
