SPECIFICATION Spec
CONSTANTS
  s1 = s1
  s2 = s2
  s3 = s3
  Sessions = {s1}
  Ops = {"book", "bookstatus"}
  MaxOrders = 0
  MaxRequests = 2
  MaxFaults = 0
CHECK_DEADLOCK FALSE
PROPERTY BookingStatusIsStored
