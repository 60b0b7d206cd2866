SPECIFICATION FairSpec
CONSTANTS
  ali = ali
  sana = sana
  k1 = k1
  k2 = k2
  w1 = w1
  w2 = w2
  r1 = r1
  t1 = t1
  t2 = t2
  Customers = {ali}
  Numbers <- HandedOut
  Fallbacks <- Drawn
  Nothing <- Blank
  Contains <- TextContains
  Keys = {k1, k2}
  Start <- Differ
  Initially = {k1}
  Objects = {w1, w2}
  Requests = {r1}
  Tasks = {t1, t2}
  MaxOrders = 1
  MaxChanges = 2
  MaxEdits = 0
  Faults = {"number", "lost", "refused", "dropped", "text", "restart"}
  MaxFaults = 0
CHECK_DEADLOCK FALSE
INVARIANT TextedOnce
