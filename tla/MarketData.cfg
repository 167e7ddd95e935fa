CONSTANTS
  Capacity = 2
  MaxMoves = 6
  MaxSeq = 4
SPECIFICATION FairSpec
INVARIANTS
  StaleOnlyAfterDrop
PROPERTIES
  NeverBackwards
  CatchesUp
CHECK_DEADLOCK FALSE
