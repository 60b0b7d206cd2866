SPECIFICATION FairSpec
CONSTANTS
  r1 = r1
  r2 = r2
  m1 = m1
  m2 = m2
  m3 = m3
  stop = stop
  alice = alice
  bob = bob
  Runners = {r1, r2}
  Messages = {m1, m2, m3}
  Customers = {alice, bob}
  From <- FromBoth
  Stops = {}
  Payloads <- Mixed
  Faults <- FirstFails
  HistoryLimit = 2
  MayPause = FALSE
  MaxRequests = 3
  MaxRestarts = 0
CHECK_DEADLOCK FALSE
PROPERTY RequestsEnd
PROPERTY IngestedIsAnswered
