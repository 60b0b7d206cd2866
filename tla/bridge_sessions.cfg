SPECIFICATION FairSpec
CONSTANTS
  d1 = d1
  d2 = d2
  ali = ali
  Requests = {"connect", "force", "disconnect"}
  Dashboards = {d1, d2}
  Contacts = {ali}
  MaxSockets = 3
  MaxRequests = 2
  MaxFaults = 1
  MaxRestarts = 1
CHECK_DEADLOCK FALSE
INVARIANT NeverAbandoned
INVARIANT PairingIsKept
INVARIANT NoSecondScan
PROPERTY ComesBack
