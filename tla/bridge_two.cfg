SPECIFICATION Spec
CONSTANTS
  d1 = d1
  d2 = d2
  ali = ali
  Requests = {"connect"}
  Dashboards = {d1}
  Contacts = {}
  MaxSockets = 4
  MaxRequests = 1
  MaxFaults = 1
  MaxRestarts = 0
CHECK_DEADLOCK FALSE
INVARIANT OneSocket
