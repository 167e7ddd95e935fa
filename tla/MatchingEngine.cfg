SPECIFICATION FairSpec
CONSTANTS
  Price = {1, 2}
  Quantity = {1, 2}
  MaxOrders = 4
INVARIANTS UncrossedWhenIdle IndexesExact Conserved
PROPERTIES PriceTimePriority EveryOrderEnds
