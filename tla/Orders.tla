------------------------------- MODULE Orders -------------------------------
(***************************************************************************)
(* Orders, their payments and the tables they occupy, under the concurrent *)
(* requests of several cashiers.  One action is one database transaction   *)
(* (or one autocommitted statement) of the API:                            *)
(*                                                                         *)
(*   POST  /orders               Create, then MarkSubmitted and MarkSeated *)
(*   PATCH /orders/:id/status    Transition (not cancelled), Cancel        *)
(*   PATCH /kitchen/orders/:id/status                    Transition        *)
(*   POST  /orders/:id/payments  RecordPayment or ReplayPayment            *)
(*   POST  /orders/:id/refund    Refund                                    *)
(*                                                                         *)
(* Every transaction that touches an order first takes the order row FOR   *)
(* UPDATE, so a whole transaction is one step; the exception is what       *)
(* creation does after its commit, which takes no lock and is one step per *)
(* statement.  Payments are kept per captured row with the total refunded  *)
(* against it: the refund rows point at their original and are summed by   *)
(* reversal_of_payment_id wherever the code reads them.                    *)
(***************************************************************************)
EXTENDS Integers, Sequences, Functions, TLC, OrderStatus

CONSTANTS
  Order,    \* order ids
  Table,    \* dining tables
  NoTable,  \* takeaway and delivery orders have table_id null
  Method,   \* payment methods the branch enables, "unpaid" among them or not
  Key,      \* idempotency keys clients send with a payment
  NoKey,    \* a payment sent without a key
  Total,    \* the total of every order, in minor units
  Amount,   \* amounts clients ask to pay or refund, in minor units
  MaxRows   \* bound: captured payment rows per order

ASSUME OrdersAssumption ==
  /\ NoTable \notin Table
  /\ NoKey \notin Key
  /\ Total \in Nat \ {0}
  /\ Amount \subseteq Nat
  /\ MaxRows \in Nat

\* For runs of safety properties: nothing tells the orders apart.
Symmetry == Permutations(Order)

VARIABLES
  status,  \* status[o]: orders.status, "none" before the row exists
  seat,    \* seat[o]: orders.table_id
  rest,    \* rest[o]: what the request that created o has still to do after
           \* its commit: "submit", "seat", "nothing", or "lost" in a crash
  rows,    \* rows[o]: the captured payments of o, in allocation_sequence order
  table,   \* table[t]: dining_tables.status
  acked    \* payment requests with a key that were answered 200 or 201

vars == <<status, seat, rest, rows, table, acked>>

Row == [key : Key \cup {NoKey}, method : Method, amount : Nat, refunded : Nat]
Ack == [order : Order, key : Key, method : Method, amount : Amount]

TypeOK ==
  /\ status \in [Order -> Statuses \cup {"none"}]
  /\ seat \in [Order -> Table \cup {NoTable}]
  /\ rest \in [Order -> {"submit", "seat", "nothing", "lost"}]
  /\ rows \in [Order -> Seq(Row)]
  /\ table \in [Table -> {"available", "occupied", "cleaning"}]
  /\ acked \subseteq Ack

Init ==
  /\ status = [o \in Order |-> "none"]
  /\ seat = [o \in Order |-> NoTable]
  /\ rest = [o \in Order |-> "nothing"]
  /\ rows = [o \in Order |-> <<>>]
  /\ table = [t \in Table |-> "available"]
  /\ acked = {}

-----------------------------------------------------------------------------
(* Money of an order.                                                      *)

Refundable(row) == row.amount - row.refunded

\* Sum of the captured amounts: what captureAllocation walks through.
Gross(o) == SumFunction([i \in DOMAIN rows[o] |-> rows[o][i].amount])

\* netPaidMinor: captured rows less refund rows.
Net(o) == SumFunction([i \in DOMAIN rows[o] |-> Refundable(rows[o][i])])

\* Bug: the share of a row is bounded by what was captured, not by what is left.
RefundSharesOfCaptured(o, amount) ==
  {s \in [DOMAIN rows[o] -> 0..amount] :
     /\ \A i \in DOMAIN s : s[i] <= rows[o][i].amount
     /\ SumFunction(s) = amount}

\* How createRefundRows may spread `amount` over the captured rows: it drains
\* them one after the other, so at most one is left partly refunded.  It visits
\* them by created_at, the start of the capturing transaction, which waiting
\* for the order lock can put in any order.
RefundShares(o, amount) ==
  {s \in [DOMAIN rows[o] -> 0..amount] :
     /\ \A i \in DOMAIN s : s[i] <= Refundable(rows[o][i])
     /\ SumFunction(s) = amount
     /\ \A i, j \in DOMAIN s :
          (i # j /\ s[i] > 0 /\ s[j] > 0) =>
             \/ s[i] = Refundable(rows[o][i])
             \/ s[j] = Refundable(rows[o][j])}

ApplyRefund(o, s) ==
  rows' = [rows EXCEPT ![o] =
             [i \in DOMAIN rows[o] |-> [rows[o][i] EXCEPT !.refunded = @ + s[i]]]]

-----------------------------------------------------------------------------
(* Creation.                                                               *)

\* The create transaction: a draft with its items, and when a method is chosen
\* a payment of the whole total.  The amount needs no guard: the row is new.
Create(o, submit, m, t) ==
  /\ status[o] = "none"
  /\ status' = [status EXCEPT ![o] = "draft"]
  /\ seat' = [seat EXCEPT ![o] = t]
  /\ rest' = [rest EXCEPT ![o] = IF submit THEN "submit" ELSE "nothing"]
  /\ rows' = IF m = "unpaid" THEN rows
             ELSE [rows EXCEPT ![o] =
                     <<[key |-> NoKey, method |-> m, amount |-> Total, refunded |-> 0]>>]
  /\ UNCHANGED <<table, acked>>

\* After the commit the request writes "submitted" by id, without a lock and
\* without looking at the status the row has by now.
MarkSubmitted(o) ==
  /\ rest[o] = "submit"
  /\ status' = [status EXCEPT ![o] = "submitted"]
  /\ rest' = [rest EXCEPT ![o] = IF seat[o] \in Table THEN "seat" ELSE "nothing"]
  /\ UNCHANGED <<seat, rows, table, acked>>

\* Its next statement marks the table, again unconditionally.
MarkSeated(o) ==
  /\ rest[o] = "seat"
  /\ table' = [table EXCEPT ![seat[o]] = "occupied"]
  /\ rest' = [rest EXCEPT ![o] = "nothing"]
  /\ UNCHANGED <<status, seat, rows, acked>>

\* The process stops, or the database refuses one of those statements.
LoseRest(o) ==
  /\ rest[o] \in {"submit", "seat"}
  /\ rest' = [rest EXCEPT ![o] = "lost"]
  /\ UNCHANGED <<status, seat, rows, table, acked>>

-----------------------------------------------------------------------------
(* Status changes of an existing order.                                    *)

\* Bug: the table is released as soon as the food is ready.
TouchTableAtReady(o, to) ==
  table' = IF seat[o] \in Table
           THEN [table EXCEPT ![seat[o]] = TableAfter(@, IF to = "ready" THEN "completed" ELSE to)]
           ELSE table

\* What a status change does to the table the order is seated at.
TouchTable(o, to) ==
  table' = IF seat[o] \in Table
           THEN [table EXCEPT ![seat[o]] = TableAfter(@, to)]
           ELSE table

\* transitionOrderStatus: TRANSITIONS is looked up with the status read under
\* the row lock.
Transition(o, to) ==
  /\ status[o] # "none"
  /\ to \in TRANSITIONS[status[o]] \ {"cancelled"}
  /\ status' = [status EXCEPT ![o] = to]
  /\ TouchTable(o, to)
  /\ UNCHANGED <<seat, rest, rows, acked>>

\* handleCancellation: whatever is still held of the customer's money is
\* refunded in the transaction that cancels the order.
Cancel(o) ==
  /\ status[o] \in CANCEL_FROM_STATUSES
  /\ \/ /\ Net(o) > 0
        /\ \E s \in RefundShares(o, Net(o)) : ApplyRefund(o, s)
     \/ /\ Net(o) = 0
        /\ UNCHANGED rows
  /\ status' = [status EXCEPT ![o] = "cancelled"]
  /\ TouchTable(o, "cancelled")
  /\ UNCHANGED <<seat, rest, acked>>

-----------------------------------------------------------------------------
(* Payments and refunds.                                                   *)

\* The route's checks, which the trigger ykms_guard_payment_insert repeats.
PaymentGuards(o, m, a) ==
  IF m = "unpaid" THEN a = 0
  ELSE a > 0 /\ Net(o) < Total /\ Net(o) + a <= Total

\* Bug: the allocation lets refunded money be captured again.
AllocationAcceptsOnNet(o, m, a) == m = "unpaid" \/ Net(o) + a <= Total

\* allocateGross, called for the financial event in the same transaction,
\* throws when the captured amounts exceed the total: refunds do not count.
AllocationAccepts(o, m, a) == m = "unpaid" \/ Gross(o) + a <= Total

\* Bug: the stored key is not looked up.
RowsWithNoKeyLookup(o, k) == {}

RowsWithKey(o, k) == {i \in DOMAIN rows[o] : rows[o][i].key = k}

\* Bug: the status is looked at before the transaction only, as it was then.
OpenBeforeLock(o) == status[o] # "none"

Open(o) == status[o] \notin {"none", "cancelled"}

RecordPayment(o, k, m, a) ==
  /\ Open(o)
  /\ k = NoKey \/ RowsWithKey(o, k) = {}
  /\ PaymentGuards(o, m, a)
  /\ AllocationAccepts(o, m, a)
  /\ Len(rows[o]) < MaxRows
  /\ rows' = [rows EXCEPT ![o] =
                Append(@, [key |-> k, method |-> m, amount |-> a, refunded |-> 0])]
  /\ acked' = IF k = NoKey THEN acked
              ELSE acked \cup {[order |-> o, key |-> k, method |-> m, amount |-> a]}
  /\ UNCHANGED <<status, seat, rest, table>>

\* A key that was used is answered with the stored row when the request is the
\* same, and with 409 when it is not.
ReplayMatches(row, m, a) == row.method = m /\ row.amount = a

ReplayPayment(o, k, m, a) ==
  /\ Open(o)
  /\ k # NoKey
  /\ \E i \in RowsWithKey(o, k) : ReplayMatches(rows[o][i], m, a)
  /\ acked' = acked \cup {[order |-> o, key |-> k, method |-> m, amount |-> a]}
  /\ UNCHANGED <<status, seat, rest, rows, table>>

\* A refund is possible in every status, up to the net paid.
Refund(o, a) ==
  /\ status[o] # "none"
  /\ a > 0
  /\ a <= Net(o)
  /\ \E s \in RefundShares(o, a) : ApplyRefund(o, s)
  /\ UNCHANGED <<status, seat, rest, table, acked>>

Next ==
  \E o \in Order :
    \/ \E submit \in BOOLEAN, m \in Method \cup {"unpaid"}, t \in Table \cup {NoTable} :
         Create(o, submit, m, t)
    \/ MarkSubmitted(o)
    \/ MarkSeated(o)
    \/ LoseRest(o)
    \/ \E to \in Statuses : Transition(o, to)
    \/ Cancel(o)
    \/ \E k \in Key \cup {NoKey}, m \in Method, a \in Amount :
         RecordPayment(o, k, m, a) \/ ReplayPayment(o, k, m, a)
    \/ \E a \in Amount : Refund(o, a)

Spec == Init /\ [][Next]_vars

-----------------------------------------------------------------------------
(* Properties.                                                             *)

\* However payments, refunds and cancellations interleave, no captured payment
\* is refunded beyond its amount, and the captures of an order together never
\* exceed its total, so that the revenue and VAT allocated to them fit it.
RefundsWithinCaptures ==
  \A o \in Order : \A i \in DOMAIN rows[o] : rows[o][i].refunded <= rows[o][i].amount

CapturesWithinTotal == \A o \in Order : Gross(o) <= Total

\* Cancelling returns everything, and nothing can be collected afterwards: a
\* cancelled order holds no money of the customer, whichever payment raced it.
CancelledHoldsNoMoney ==
  \A o \in Order : status[o] = "cancelled" => Net(o) = 0

\* A client that was told its payment with key k succeeded, the first time or on
\* a retry, has exactly one payment row for it, with the method and amount it
\* asked for.
AckedChargedOnce ==
  \A a \in acked :
    /\ \E i \in DOMAIN rows[a.order] :
         /\ rows[a.order][i].key = a.key
         /\ rows[a.order][i].method = a.method
         /\ rows[a.order][i].amount = a.amount
    /\ \A i, j \in DOMAIN rows[a.order] :
         (rows[a.order][i].key = a.key /\ rows[a.order][j].key = a.key) => i = j

\* An order that is completed or cancelled stays so: only the pending second
\* half of its own creation may still move it (see CancelledStaysCancelled).
FinalStatusFrozen ==
  [][\A o \in Order : (status[o] \in Final /\ rest[o] # "submit") =>
                        status'[o] = status[o]]_vars

\* The table of an order that waits for, is in or came out of the kitchen is
\* occupied, however its creation and the kitchen's requests interleaved, unless
\* another order was seated there too or the creation has not reached the table.
ServedTableOccupied ==
  \A o \in Order :
    (/\ status[o] \in {"submitted", "in_kitchen", "ready"}
     /\ rest[o] = "nothing"
     /\ seat[o] \in Table
     /\ \A p \in Order \ {o} : seat[p] # seat[o])
    => table[seat[o]] = "occupied"

\* Stated by TRANSITIONS ("cancelled: []"): nothing follows a cancellation.  The
\* code breaks it, because MarkSubmitted does not look at the status.
CancelledStaysCancelled ==
  [][\A o \in Order : status[o] = "cancelled" => status'[o] = "cancelled"]_vars

\* Stated by the checks on the net paid: what they let through as a payment of
\* the open balance is accepted.  The code breaks it after a refund.
BalanceCollectable ==
  \A o \in Order, m \in Method, a \in Amount :
    (Open(o) /\ PaymentGuards(o, m, a)) => AllocationAccepts(o, m, a)
=============================================================================
