CONSTANTS
  Price = {1, 2}
  Quantity = {1, 3}
  Depth = 1
  MaxSize = 4
  MaxId = 100
  MaxOld = 2
  MaxLive = 3
  MaxRows = 4
SPECIFICATION Spec
INVARIANTS
  ReplayIndexes
  ReplayMatches
CHECK_DEADLOCK FALSE
