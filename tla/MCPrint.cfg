\* The print queue alone: two jobs, of which a poll claims one, and two attempts.
SPECIFICATION SuiteSpec
CONSTANTS
  Parts = {"print"}
  Request = {r1, r2}
  NoRequest = NoRequest
  NoJob = NoJob
  PoolSize = 2
  MaxHolds = 2
  Order = {o1}
  Key = {k1, k2}
  NoKey = NoKey
  None = None
  MaxLoads = 2
  MaxTaps = 1
  Second = 3
  LateAfter = 4
  MaxTime = 7
  MaxClockHolds = 2
  Manager = {m1, m2}
  NoManager = NoManager
  MaxFlips = 3
  Ticket = {j1, j2}
  Device = {d1}
  NoDevice = NoDevice
  Batch = 1
  MaxAttempts = 2
INVARIANTS BudgetHolds
PROPERTIES EndedStays 
CHECK_DEADLOCK FALSE
