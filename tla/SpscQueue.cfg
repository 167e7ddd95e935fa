SPECIFICATION Spec
CONSTANTS
  N = 3
  Value = {v1, v2}
  NoValue = NoValue
INVARIANTS
  NoSlotRace
PROPERTIES
  ImplementsFifo
