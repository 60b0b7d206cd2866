SPECIFICATION Spec
CONSTANTS
  h1 = h1
  h2 = h2
  ali = ali
  boss = boss
  n1 = n1
  n2 = n2
  n3 = n3
  bad = bad
  o1 = o1
  o2 = o2
  nobody = nobody
  Handlers = {h1, h2}
  Customers = {ali, boss}
  Numbers = {n1, n2, n3, bad}
  WaId <- Book
  Nobody = nobody
  Admin = boss
  Refs = {o1, o2}
  Unnumbered = {}
  Requests <- Everything
  Attempts = 2
  MaxRequests = 3
  MaxFaults = 2
  MaxRestarts = 1
CHECK_DEADLOCK FALSE
INVARIANT SomethingGoesOn
INVARIANT ReportsAreTrue
INVARIANT OptOutIsRespected
INVARIANT AlertedOnce
INVARIANT OncePerRequest
