\* Two shifts of one cashier, four rows; two users and three logins, a lock after three
\* failures.
SPECIFICATION SuiteSpec
CONSTANTS
  RunParts = {"shifts", "access"}
  k1 = k1
  s1 = s1
  s2 = s2
  c1 = c1
  c2 = c2
  o1 = o1
  NoShift = NoShift
  Cashier = {k1}
  Shift = {s1, s2}
  Client = {c1, c2}
  Order = {o1}
  QuoteOf <- MCQuoteOf
  Method = {"cash"}
  Amount = {1, 2}
  Opening = {1}
  Moves <- MCMoves
  RequireShift = FALSE
  MaxRows = 4
  MaxMoves = 1
  User = {c1, c2}
  Attempt = {l1, l2, l3}
  Threshold = 3
  RateMax = 2
  b1 = b1
  b2 = b2
  counter = counter
  app = app
  Branches = {b1, b2}
  Sources = {counter, app}
  Zones = {}
  Customers = {}
  None = None
  SourcesFor <- MCSourcesFor
  TypesOf <- MCTypesOf
  Discounting = {b1}
  MaxQty = 1
  MaxMenuCalls = 1
SYMMETRY Symmetric
INVARIANTS SplitsStand LockAtThreshold
PROPERTIES ClosedStays
CHECK_DEADLOCK FALSE
