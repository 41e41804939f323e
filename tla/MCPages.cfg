\* Three requests for a logo; two branches, a payment, a day that passes and two runs of
\* the reports; three customers, a change and a change of the query; two people with two
\* switches, two changes and two reloads; two items, two sheets, a movement.
SPECIFICATION SuiteSpec
CONSTANTS
  Request = {q1, q2, q3}
  Nobody = Nobody
  None = None
  Branch = {b1, b2}
  b2 = b2
  All = All
  Source = {s1}
  Method = {cash, Unpaid}
  Unpaid = Unpaid
  Period = {1, 2}
  DayLength = 2
  MaxTime = 2
  MaxRows = 1
  MaxRuns = 2
  MaxFails = 0
  MaxId = 3
  MaxValue = 1
  Null = Null
  Absent = Absent
  Found = {1, 3}
  Unit = 1
  Limit = 1
  MaxChanges = 1
  MaxQueries = 1
  Admin = {a1, a2}
  a1 = a1
  a2 = a2
  InBranch = {a2}
  KeyOrder <- MCKeyOrder
  Value = {"on", "off"}
  Default <- MCDefault
  MaxEdits = 2
  MaxReloads = 2
  Item = {flour, oil}
  flour = flour
  MaxQuantity = 1
  MaxSheets = 2
  MaxChoices = 1
  MaxMoves = 2
INVARIANTS LogoStands  StoredInWhole
PROPERTIES PagesSettle
CHECK_DEADLOCK FALSE
