SPECIFICATION Spec
CONSTANTS
  r1 = r1
  r2 = r2
  m1 = m1
  m2 = m2
  m3 = m3
  stop = stop
  alice = alice
  bob = bob
  Runners = {r1, r2}
  Messages = {m1, m2, m3, stop}
  Customers = {alice}
  From <- FromAlice
  Stops = {stop}
  Payloads <- WithStop
  Faults <- TwoFail
  HistoryLimit = 2
  MayPause = TRUE
  MaxRequests = 3
  MaxRestarts = 1
SYMMETRY Alike
CHECK_DEADLOCK FALSE
INVARIANT IngestIsWhole
INVARIANT AnsweredOnce
INVARIANT TurnSeesNewestReplies
PROPERTY RefinesInbox
