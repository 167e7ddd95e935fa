CONSTANTS
  EveryN = 0
  SyncEveryN = 2
  Faults = {"torn", "crash"}
  MaxCommands = 4
  MaxFaults = 2
SPECIFICATION Spec
PROPERTY KilledLosesNothing
CHECK_DEADLOCK FALSE
