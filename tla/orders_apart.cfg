SPECIFICATION Spec
CONSTANTS
  p1 = p1
  p2 = p2
  p3 = p3
  s1 = s1
  s2 = s2
  alice = alice
  bob = bob
  Sessions = {s1, s2}
  Products = {p1, p2, p3}
  Customers = {alice}
  Carts <- ApartCarts
  Scope <- Apart
  Ops = {"create", "cancel", "repay", "approve", "receipt", "level"}
  MaxOrders = 2
  MaxReceipts = 1
  MaxLevel = 1
  MaxRequests = 3
  MaxCrashes = 1
CHECK_DEADLOCK FALSE
SYMMETRY Alike
INVARIANT SoldOutIffHidden
INVARIANT RefsAreDense
PROPERTY RefinesLedger
PROPERTY UnitsAreConserved
PROPERTY CancelRestoresOnce
