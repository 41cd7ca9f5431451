SPECIFICATION Spec
CONSTANTS
  Queries <- WebQueries
  Mutations <- WebMutations
  Sites <- WebSites
  Layout = {"useRouters", "useHotspotActive", "useCurrentUser"}
  MaxWrites = 3
INVARIANTS TypeOK OwnWritesShown StaleOnlyInGaps
PROPERTY PolledCatchesUp
CHECK_DEADLOCK FALSE
