CONSTANTS
  Session = {s1, s2}
  ClientId = {c1, c2}
  Price = {10, 12}
  Quantity = {1, 2, 3}
  OrderType = {"LIMIT", "MARKET"}
  MaxOrderQty = 2
  TickSize = 1
  BandBp = 1000
  MaxBookDepth = 1
  MaxSubscribers = 1
  MaxOrders = 3
SPECIFICATION VerifySpec
SYMMETRY Symmetry
VIEW VerifyView
INVARIANTS
  OwnershipExact
  SnapshotRoundTrip
  VerifierFollows
PROPERTIES
  EventsInOrder
  FillsAccount
  ReplayFollows
  BookMovesArePublished
  IdsFollowOrders
CHECK_DEADLOCK FALSE
