\* One event and five steps of the admin; two accounts, a mapping and two saves; a
\* residual of two branches and two openings; two ranges and three steps; three saves
\* of a policy; three rows in pages of one; six sources, two runs of two items.
SPECIFICATION SuiteSpec
CONSTANTS
  None = None
  DeskEvent = {e1}
  DeskSteps = 5
  MaxPosts = 1
  Account = {a1, a2}
  Mapping = {m}
  MaxValue = 2
  MaxSaves = 2
  MaxOpens = 2
  Residual = {r1}
  Branch = {a, b}
  a = a
  All = all
  MaxLoads = 2
  MaxOpenings = 2
  Dates = {june, july}
  PeriodSteps = 3
  Value = {v2}
  Default = v1
  PolicyLoads = 1
  PolicySaves = 2
  MaxId = 3
  Filter = {all, a, b}
  PageLimit = 1
  ListLoads = 3
  OldPayment = {1, 4}
  Cash = {3, 5}
  Movement = {2, 6}
  Old = {1, 2, 3, 4}
  Run = {r1, r2}
  ToolLimit = 2
  MaxCrashes = 2
INVARIANTS DesksActOnOwn BackfilledOnce
 
CHECK_DEADLOCK FALSE
