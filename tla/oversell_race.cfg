SPECIFICATION Spec
CONSTANTS
  p1 = p1
  p2 = p2
  p3 = p3
  s1 = s1
  s2 = s2
  alice = alice
  bob = bob
  Sessions = {s1, s2}
  Products = {p1}
  Customers = {alice, bob}
  Carts <- OneUnitCarts
  Scope <- Everything
  Ops = {"create"}
  MaxOrders = 2
  MaxReceipts = 0
  MaxLevel = 1
  MaxRequests = 1
  MaxCrashes = 0
CHECK_DEADLOCK FALSE
PROPERTY OrdersAreStocked
