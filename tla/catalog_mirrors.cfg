SPECIFICATION FairSpec
CONSTANTS
  a = a
  b = b
  t1 = t1
  t2 = t2
  i1 = i1
  i2 = i2
  s1 = s1
  s2 = s2
  w1 = w1
  d1 = d1
  Processes = {a, b}
  Tasks = {t1, t2}
  Items = {i1, i2}
  Ids <- AllIds
  Of <- ItemOf
  By <- ReaderOf
  Hashed = {w1}
  Lossy = {i1}
  Shops = {"store", "pages", "table"}
  AtFirst = {"instock"}
  MaxEvents = 2
  MaxSlow = 1
CHECK_DEADLOCK FALSE
INVARIANT OneSyncUnlessSlow
PROPERTY NothingComesBack
PROPERTY SyncingEnds
PROPERTY MirrorsInTheEnd
