SPECIFICATION FairSpec
CONSTANTS
  p1 = p1
  p2 = p2
  p3 = p3
  s1 = s1
  s2 = s2
  alice = alice
  bob = bob
  Sessions = {s1}
  Products = {p1}
  Customers = {alice}
  Carts <- OneUnitCarts
  Scope <- Everything
  Ops = {"create", "flag", "autocancel"}
  MaxOrders = 1
  MaxReceipts = 0
  MaxLevel = 1
  MaxRequests = 2
  MaxCrashes = 0
CHECK_DEADLOCK FALSE
PROPERTY StaleOrdersAreClosed
