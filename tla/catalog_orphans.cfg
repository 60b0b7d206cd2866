SPECIFICATION Spec
CONSTANTS
  a = a
  b = b
  t1 = t1
  t2 = t2
  i1 = i1
  i2 = i2
  s1 = s1
  s2 = s2
  w1 = w1
  d1 = d1
  Processes = {a}
  Tasks = {t1}
  Items = {i1}
  Ids <- OneId
  Of <- OneItemOf
  By <- OneReaderOf
  Hashed = {w1}
  Lossy = {}
  Shops = {"pages"}
  AtFirst = {"soldout", "instock"}
  MaxEvents = 2
  MaxSlow = 0
CHECK_DEADLOCK FALSE
INVARIANT RemovedLeavesNothing
