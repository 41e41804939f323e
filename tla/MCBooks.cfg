SPECIFICATION SuiteSpec
CONSTANTS
  o1 = o1
  flour = flour
  store = store
  cellar = cellar
  v1 = v1
  p1 = p1
  k1 = k1
  k2 = k2
  k3 = k3
  k4 = k4
  Unit = 2
  Order = {o1}
  Location = {store, cellar}
  Manual = {p1}
  Process <- MCProcess
  Key <- MCKey
  Recipe <- MCRecipe
  VariantOf <- MCVariantOf
  HomeOf <- MCHomeOf
  QtyOf <- MCQtyOf
  ManualRequest <- MCManualRequest
  Item = {flour}
  NoVariant = NoVariant
  NoCost = NoCost
  NoMove = NoMove
  MaxAttempts = 2
  Content = {small, large}
  NoContent = NoContent
  Leg = {"out", "in"}
  MaxOpenings = 2
  MaxSubmits = 3
  m1 = m1
  m2 = m2
  m3 = m3
  b1 = b1
  b2 = b2
  Movement <- MCMovement
  Reversal = {r1}
  Original <- MCOriginal
  Worth <- MCWorth
  Branch = {b1, b2}
  BranchOf <- MCBranchOf
  Date = {1, 2}
  DateOf <- MCDateOf
  Span <- MCSpan
  Cent = 8
  SettleKey = {s1}
  NoKey = NoKey
  NoEntry = NoEntry
  MaxSettlements = 2
  Seed = {seed1, seed2}
  Desk = {desk1, desk2}
  Moves <- MCMoves
  Standard <- MCStandard
  DefaultRules <- MCDefaultRules
  FirstCharts <- MCFirstCharts
  OwnCode = {"1050", "7000"}
  None = "none"
  MaxOwn = 1
  MaxEdits = 2
  MaxPosts = 2
SYMMETRY Symmetric
INVARIANTS ConsumedExactly MovedOnce 
PROPERTIES ImplementsStockLedger SeedStands
CHECK_DEADLOCK FALSE
