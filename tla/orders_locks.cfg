SPECIFICATION FairSpec
CONSTANTS
  p1 = p1
  p2 = p2
  p3 = p3
  s1 = s1
  s2 = s2
  alice = alice
  bob = bob
  Sessions = {s1, s2}
  Products = {p1, p2}
  Customers = {alice}
  Carts <- PairCarts
  Scope <- Everything
  Ops = {"create", "admincancel", "level"}
  MaxOrders = 2
  MaxReceipts = 0
  MaxLevel = 1
  MaxRequests = 2
  MaxCrashes = 0
CHECK_DEADLOCK FALSE
PROPERTY RequestsEnd
