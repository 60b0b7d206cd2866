SPECIFICATION FairSpec
CONSTANTS
  a = a
  b = b
  w1 = w1
  w2 = w2
  w3 = w3
  w4 = w4
  r1 = r1
  r2 = r2
  Configs = {a}
  Initially = {a}
  Objects = {w1, w2}
  Requests = {r1}
  MaxDelay = 1
  MaxEdits = 0
  Faults = {"dropped"}
  MaxFaults = 1
CHECK_DEADLOCK FALSE
PROPERTY CatchesUp
