\* A payment, its refund and a sub-cent movement, two process requests, one admin.
CONSTANTS
  Event = {1, 2, 3}
  Payment = {1}
  Refund = {2}
  Adjustment = {}
  SubCent = {3}
  Zero = {}
  Original <- OnlyPayment
  Worker = {w1, w2}
  NoWorker = NoWorker
  Admin = {a1}
  Limit = 2
  MaxAttempts = 2
  MaxClaims = 2
SPECIFICATION Spec
INVARIANTS SettledHasEvidence
PROPERTIES ImplementsLedger ProcessRequestEnds
CHECK_DEADLOCK FALSE
