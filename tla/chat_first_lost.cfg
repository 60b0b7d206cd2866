SPECIFICATION Spec
CONSTANTS
  r1 = r1
  r2 = r2
  m1 = m1
  m2 = m2
  m3 = m3
  stop = stop
  alice = alice
  bob = bob
  Runners = {r1, r2}
  Messages = {m1, m2}
  Customers = {alice}
  From <- FromAlice
  Stops = {}
  Payloads <- Single
  Faults <- NoFaults
  HistoryLimit = 2
  MayPause = FALSE
  MaxRequests = 2
  MaxRestarts = 0
CHECK_DEADLOCK FALSE
PROPERTY LoserIsDuplicate
