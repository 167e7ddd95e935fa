CONSTANTS
  Session = {s1, s2}
  ClientId = {c1, c2}
  Price = {10}
  Quantity = {1}
  OrderType = {"LIMIT", "MARKET"}
  MaxOrderQty = 2
  TickSize = 1
  BandBp = 1000
  MaxBookDepth = 1
  MaxSubscribers = 0
  MaxOrders = 3
SPECIFICATION VerifySpec
PROPERTY DigestsMatch
CHECK_DEADLOCK FALSE
