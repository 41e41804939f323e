\* Two orders at one table, with a payment key; zero (the "unpaid" marker), a part of the
\* total and, at creation, the whole of it are paid.
CONSTANTS
  Order = {o1, o2}
  Table = {t1}
  NoTable = NoTable
  Method = {"cash", "unpaid"}
  Key = {k1}
  NoKey = NoKey
  Total = 2
  Amount = {0, 1}
  MaxRows = 2
SPECIFICATION Spec
INVARIANTS RefundsWithinCaptures CapturesWithinTotal CancelledHoldsNoMoney AckedChargedOnce ServedTableOccupied
PROPERTY FinalStatusFrozen
SYMMETRY Symmetry
CHECK_DEADLOCK FALSE
