SPECIFICATION WaiterFairSpec
CONSTANTS
  InboundCapacity = 3
  PipeCapacity = 2
  ReadSize = 2
INVARIANTS NoMissedWakeup NothingStranded
PROPERTIES EventuallyServed
CHECK_DEADLOCK FALSE
