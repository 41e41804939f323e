\* A cancellation between the two halves of an order's creation.
CONSTANTS
  Order = {o1}
  Table = {}
  NoTable = NoTable
  Method = {"cash", "unpaid"}
  Key = {}
  NoKey = NoKey
  Total = 1
  Amount = {0, 1}
  MaxRows = 1
SPECIFICATION Spec
PROPERTY CancelledStaysCancelled
CHECK_DEADLOCK FALSE
