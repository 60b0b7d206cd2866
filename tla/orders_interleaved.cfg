SPECIFICATION Spec
CONSTANTS
  p1 = p1
  p2 = p2
  p3 = p3
  s1 = s1
  s2 = s2
  alice = alice
  bob = bob
  Sessions = {s1, s2}
  Products = {p1}
  Customers = {alice}
  Carts <- OneUnitCarts
  Scope <- Everything
  Ops = {"create", "admincancel", "autocancel", "repay", "approve", "resend", "flag", "receipt", "refund"}
  MaxOrders = 2
  MaxReceipts = 1
  MaxLevel = 1
  MaxRequests = 3
  MaxCrashes = 0
CHECK_DEADLOCK FALSE
INVARIANT TypeOK
INVARIANT PayMatchesStatus
INVARIANT RefundsAreBacked
PROPERTY PaidOnlyByApproval
