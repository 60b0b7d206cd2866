SPECIFICATION FairSpec
CONSTANTS
  s1 = s1
  s2 = s2
  s3 = s3
  Sessions = {s1, s2}
  Ops = {"order", "crm", "book", "unbook", "refund", "approve", "cancel", "bookstatus", "decide"}
  MaxOrders = 2
  MaxRequests = 4
  MaxFaults = 1
CHECK_DEADLOCK FALSE
INVARIANT BookingRefsAreDense
INVARIANT StageIsLastMove
INVARIANT AnnouncedIsDecided
PROPERTY RequestsEnd
