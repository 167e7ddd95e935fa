CONSTANTS
  Session = {1, 2}
  ClientId = {c1}
  InboundCap = 2
  EgressCap = 2
  MaxSent = 3
SPECIFICATION FairSpec
INVARIANTS
  FreedIsForgotten
  TombstoneArrives
  UniqueLive
PROPERTIES
  RetiringEnds
  Answered
CHECK_DEADLOCK FALSE
