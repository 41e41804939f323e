\* Three creations in two branches, with one midnight and one change of menu or settings;
\* two editors; a source and a new one.
SPECIFICATION SuiteSpec
CONSTANTS
  b1 = b1
  b2 = b2
  p1 = p1
  m1 = m1
  m2 = m2
  Account = Account
  Branch = {b1, b2}
  Product = {p1}
  Modifier = {m1, m2}
  Request = {r1, r2, r3}
  Items <- MCItems
  Ahead <- MCAhead
  Starting = 1
  MaxClock = 1
  MaxEdits = 1
  Editor = {b1, b2}
  Text = {"new"}
  Image = {"new"}
  Groups = {"new"}
  NoGroups = "none"
  Empty = Empty
  MaxWrites = 2
  MaxTasks = 2
  Source = {"direct"}
  NewSource = "new"
  Price = {"base", "own"}
  Base = "base"
  Page = "page"
  Other = {"admin"}
  Nobody = "nobody"
  MaxCalls = 2
  MaxSelects = 1
SYMMETRY Symmetric
INVARIANTS NumbersStand 
PROPERTIES ChosenAsOffered CopiedWhole
CHECK_DEADLOCK FALSE
