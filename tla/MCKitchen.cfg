\* Two requests on one order and a pool of two connections; a board of one order and one
\* button at a time; seven ticks with two holds; two managers, two keys and three pauses
\* and resumes.
SPECIFICATION SuiteSpec
CONSTANTS
  Parts = {"requests", "board", "clock", "pause"}
  Request = {r1, r2}
  NoRequest = NoRequest
  NoJob = NoJob
  PoolSize = 2
  MaxHolds = 2
  Order = {o1}
  Key = {k1, k2}
  NoKey = NoKey
  None = None
  MaxLoads = 2
  MaxTaps = 1
  Second = 3
  LateAfter = 4
  MaxTime = 7
  MaxClockHolds = 2
  Manager = {m1, m2}
  NoManager = NoManager
  MaxFlips = 3
  Ticket = {j1, j2}
  Device = {d1}
  NoDevice = NoDevice
  Batch = 1
  MaxAttempts = 2
INVARIANTS HoldsStand ScreenStands FlipsStand
PROPERTIES ImplementsHolds CardsHold KitchenSettles
CHECK_DEADLOCK FALSE
