SPECIFICATION Spec
CONSTANTS
  s1 = s1
  s2 = s2
  s3 = s3
  Sessions = {s1, s2}
  Ops = {"order", "approve", "refund", "decide"}
  MaxOrders = 1
  MaxRequests = 4
  MaxFaults = 0
CHECK_DEADLOCK FALSE
INVARIANT DecidedOnce
