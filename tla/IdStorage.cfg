CONSTANTS
  StartId = 0
  LastId = 15
  MaxFreed = 3
  MaxPending = 2
  Fail = Fail
SPECIFICATION CarefulSpec
INVARIANTS TypeOK IdsUnique InArray ForeachVisitsAll
PROPERTY ImplementsIds
CHECK_DEADLOCK FALSE
