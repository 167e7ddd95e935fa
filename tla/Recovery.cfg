CONSTANTS
  EveryN = 2
  SyncEveryN = 2
  Faults = {"crash", "snapshot", "truncate", "stop", "torn", "append", "power", "damage"}
  MaxCommands = 6
  MaxFaults = 3
SPECIFICATION Spec
INVARIANTS
  NeverAhead
  PrevSuffices
  NeverRefused
PROPERTIES
  RecoversWhatWasLogged
  RecoversWhatIsDurable
CHECK_DEADLOCK FALSE
