SPECIFICATION Spec
CONSTANTS
  d1 = d1
  d2 = d2
  ali = ali
  Requests = {"connect", "disconnect"}
  Dashboards = {d1}
  Contacts = {}
  MaxSockets = 4
  MaxRequests = 3
  MaxFaults = 2
  MaxRestarts = 0
CHECK_DEADLOCK FALSE
PROPERTY ConnectOverrides
