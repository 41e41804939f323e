---------------------------- MODULE OrdersProofs ----------------------------
(***************************************************************************)
(* Theorems about Orders, for any number of orders, tables, keys, amounts  *)
(* and payments.                                                           *)
(***************************************************************************)
EXTENDS Orders, SequenceTheorems, Sums, TLAPS

-----------------------------------------------------------------------------
(* What a refund does to the captured rows of an order.                    *)

\* Spreading a refund over the captured rows leaves as many rows, with the same
\* keys, methods and amounts, and takes from each row no more than is left.
LEMMA RefundedRows ==
  ASSUME TypeOK, NEW o \in Order, NEW amount, NEW s \in RefundShares(o, amount),
         ApplyRefund(o, s)
  PROVE  /\ rows' \in [Order -> Seq(Row)]
         /\ \A p \in Order : DOMAIN rows'[p] = DOMAIN rows[p]
         /\ \A p \in Order : \A i \in DOMAIN rows[p] :
              /\ rows'[p][i].key = rows[p][i].key
              /\ rows'[p][i].method = rows[p][i].method
              /\ rows'[p][i].amount = rows[p][i].amount
              /\ rows[p][i].refunded <= rows[p][i].amount
                   => rows'[p][i].refunded <= rows'[p][i].amount
<1> DEFINE new == [i \in DOMAIN rows[o] |-> [rows[o][i] EXCEPT !.refunded = @ + s[i]]]
<1>1. rows \in [Order -> Seq(Row)]
  BY DEF TypeOK
<1>2. rows' = [rows EXCEPT ![o] = new]
  BY DEF ApplyRefund
<1>3. rows[o] \in Seq(Row) /\ DOMAIN rows[o] = 1..Len(rows[o]) /\ Len(rows[o]) \in Nat
  BY <1>1
<1>4. ASSUME NEW i \in DOMAIN rows[o]
      PROVE  rows[o][i] \in Row /\ s[i] \in Nat /\ s[i] <= Refundable(rows[o][i])
  <2>1. rows[o][i] \in Row
    BY <1>3
  <2>2. s \in [DOMAIN rows[o] -> 0..amount] /\ \A j \in DOMAIN s : s[j] <= Refundable(rows[o][j])
    BY DEF RefundShares
  <2>3. s[i] \in 0..amount /\ s[i] <= Refundable(rows[o][i])
    BY <2>2
  <2>4. s[i] \in Nat
    BY <2>3
  <2> QED
    BY <2>1, <2>3, <2>4
<1>5. ASSUME NEW i \in DOMAIN rows[o]
      PROVE  /\ new[i] \in Row
             /\ new[i].key = rows[o][i].key
             /\ new[i].method = rows[o][i].method
             /\ new[i].amount = rows[o][i].amount
             /\ new[i].refunded <= new[i].amount
  BY <1>4 DEF Row, Refundable
<1>6. new \in Seq(Row)
  <2>1. new \in [1..Len(rows[o]) -> Row]
    BY <1>3, <1>5
  <2> QED
    BY <1>3, <2>1, SeqDef
<1>7. rows' \in [Order -> Seq(Row)]
  BY <1>1, <1>2, <1>6
<1>8. rows'[o] = new /\ \A p \in Order \ {o} : rows'[p] = rows[p]
  BY <1>1, <1>2
<1>9. DOMAIN new = DOMAIN rows[o]
  OBVIOUS
<1> HIDE DEF new
<1> QED
  BY <1>5, <1>7, <1>8, <1>9

-----------------------------------------------------------------------------
(* Type correctness.                                                       *)

\* Every reachable state has the shape that TypeOK describes.
THEOREM TypeCorrect == Spec => []TypeOK
<1>1. Init => TypeOK
  BY OrdersAssumption DEF Init, TypeOK
<1>2. TypeOK /\ [Next]_vars => TypeOK'
  <2> SUFFICES ASSUME TypeOK, [Next]_vars
               PROVE  TypeOK'
    OBVIOUS
  <2>1. ASSUME NEW o \in Order, NEW submit \in BOOLEAN, NEW m \in Method \cup {"unpaid"},
               NEW t \in Table \cup {NoTable}, Create(o, submit, m, t)
        PROVE  TypeOK'
    <3>1. m # "unpaid" =>
            <<[key |-> NoKey, method |-> m, amount |-> Total, refunded |-> 0]>> \in Seq(Row)
      BY OrdersAssumption DEF Row
    <3>2. rows' \in [Order -> Seq(Row)]
      BY <2>1, <3>1 DEF Create, TypeOK
    <3> QED
      BY <2>1, <3>2 DEF Create, TypeOK, Statuses
  <2>2. ASSUME NEW o \in Order, MarkSubmitted(o)
        PROVE  TypeOK'
    BY <2>2 DEF MarkSubmitted, TypeOK, Statuses
  <2>3. ASSUME NEW o \in Order, MarkSeated(o)
        PROVE  TypeOK'
    BY <2>3 DEF MarkSeated, TypeOK
  <2>4. ASSUME NEW o \in Order, LoseRest(o)
        PROVE  TypeOK'
    BY <2>4 DEF LoseRest, TypeOK
  <2>5. ASSUME NEW o \in Order, NEW to, TouchTable(o, to)
        PROVE  table' \in [Table -> {"available", "occupied", "cleaning"}]
    BY <2>5 DEF TouchTable, TableAfter, TypeOK
  <2>6. ASSUME NEW o \in Order, NEW to \in Statuses, Transition(o, to)
        PROVE  TypeOK'
    <3>1. table' \in [Table -> {"available", "occupied", "cleaning"}]
      BY <2>5, <2>6 DEF Transition
    <3> QED
      BY <2>6, <3>1 DEF Transition, TypeOK
  <2>7. ASSUME NEW o \in Order, Cancel(o)
        PROVE  TypeOK'
    <3>1. table' \in [Table -> {"available", "occupied", "cleaning"}]
      BY <2>5, <2>7 DEF Cancel
    <3>2. rows' \in [Order -> Seq(Row)]
      <4>1. CASE UNCHANGED rows
        BY <4>1 DEF TypeOK
      <4>2. CASE \E s \in RefundShares(o, Net(o)) : ApplyRefund(o, s)
        BY <4>2, RefundedRows
      <4> QED
        BY <2>7, <4>1, <4>2 DEF Cancel
    <3> QED
      BY <2>7, <3>1, <3>2 DEF Cancel, TypeOK, Statuses
  <2>8. ASSUME NEW o \in Order, NEW k \in Key \cup {NoKey}, NEW m \in Method,
               NEW a \in Amount, RecordPayment(o, k, m, a)
        PROVE  TypeOK'
    <3>1. [key |-> k, method |-> m, amount |-> a, refunded |-> 0] \in Row
      BY OrdersAssumption DEF Row
    <3>2. rows' \in [Order -> Seq(Row)]
      BY <2>8, <3>1 DEF RecordPayment, TypeOK
    <3>3. acked' \subseteq Ack
      BY <2>8 DEF RecordPayment, TypeOK, Ack
    <3> QED
      BY <2>8, <3>2, <3>3 DEF RecordPayment, TypeOK
  <2>9. ASSUME NEW o \in Order, NEW k \in Key \cup {NoKey}, NEW m \in Method,
               NEW a \in Amount, ReplayPayment(o, k, m, a)
        PROVE  TypeOK'
    BY <2>9 DEF ReplayPayment, TypeOK, Ack
  <2>10. ASSUME NEW o \in Order, NEW a \in Amount, Refund(o, a)
         PROVE  TypeOK'
    <3>1. rows' \in [Order -> Seq(Row)]
      BY <2>10, RefundedRows DEF Refund
    <3> QED
      BY <2>10, <3>1 DEF Refund, TypeOK
  <2>11. CASE UNCHANGED vars
    BY <2>11 DEF vars, TypeOK
  <2> QED
    BY <2>1, <2>2, <2>3, <2>4, <2>6, <2>7, <2>8, <2>9, <2>10, <2>11 DEF Next
<1> QED
  BY <1>1, <1>2, PTL DEF Spec

-----------------------------------------------------------------------------
(* Safety.                                                                 *)

\* No captured payment is ever refunded beyond its amount.
THEOREM RefundsBounded == Spec => []RefundsWithinCaptures
<1>1. Init => RefundsWithinCaptures
  BY DEF Init, RefundsWithinCaptures
<1>2. TypeOK /\ RefundsWithinCaptures /\ [Next]_vars => RefundsWithinCaptures'
  <2> SUFFICES ASSUME TypeOK, RefundsWithinCaptures, [Next]_vars
               PROVE  RefundsWithinCaptures'
    OBVIOUS
  <2>1. ASSUME UNCHANGED rows
        PROVE  RefundsWithinCaptures'
    BY <2>1 DEF RefundsWithinCaptures
  <2>2. ASSUME NEW o \in Order, NEW amount, NEW s \in RefundShares(o, amount),
               ApplyRefund(o, s)
        PROVE  RefundsWithinCaptures'
    BY <2>2, RefundedRows DEF RefundsWithinCaptures
  <2>3. ASSUME NEW o \in Order, NEW submit \in BOOLEAN, NEW m \in Method \cup {"unpaid"},
               NEW t \in Table \cup {NoTable}, Create(o, submit, m, t)
        PROVE  RefundsWithinCaptures'
    BY <2>3, OrdersAssumption DEF Create, RefundsWithinCaptures, TypeOK
  <2>4. ASSUME NEW o \in Order, NEW k \in Key \cup {NoKey}, NEW m \in Method,
               NEW a \in Amount, RecordPayment(o, k, m, a)
        PROVE  RefundsWithinCaptures'
    BY <2>4, OrdersAssumption DEF RecordPayment, RefundsWithinCaptures, TypeOK
  <2>5. ASSUME NEW o \in Order, Cancel(o)
        PROVE  RefundsWithinCaptures'
    BY <2>1, <2>2, <2>5 DEF Cancel
  <2>6. ASSUME NEW o \in Order, NEW a \in Amount, Refund(o, a)
        PROVE  RefundsWithinCaptures'
    BY <2>2, <2>6 DEF Refund
  <2> QED
    BY <2>1, <2>3, <2>4, <2>5, <2>6
    DEF Next, MarkSubmitted, MarkSeated, LoseRest, Transition, ReplayPayment, vars
<1> QED
  BY <1>1, <1>2, TypeCorrect, PTL DEF Spec

\* The strengthening of AckedChargedOnce that is inductive: a key names at most
\* one row of an order, whether its request was answered or not.
KeysUnique ==
  \A o \in Order : \A i, j \in DOMAIN rows[o] :
    (rows[o][i].key = rows[o][j].key /\ rows[o][i].key # NoKey) => i = j

AcksStored ==
  \A a \in acked : \E i \in DOMAIN rows[a.order] :
    /\ rows[a.order][i].key = a.key
    /\ rows[a.order][i].method = a.method
    /\ rows[a.order][i].amount = a.amount

\* An order that was not created yet has no payments, which creation could lose.
UnbornHasNoRows == \A o \in Order : status[o] = "none" => rows[o] = <<>>

PaymentInv == KeysUnique /\ AcksStored /\ UnbornHasNoRows

\* Rows that keep their keys, methods and amounts keep the invariant.
LEMMA SameRowsKeepPayments ==
  ASSUME TypeOK, PaymentInv, UNCHANGED acked,
         rows' \in [Order -> Seq(Row)],
         \A o \in Order : status'[o] = "none" => status[o] = "none",
         \A o \in Order :
           /\ DOMAIN rows'[o] = DOMAIN rows[o]
           /\ \A i \in DOMAIN rows[o] :
                /\ rows'[o][i].key = rows[o][i].key
                /\ rows'[o][i].method = rows[o][i].method
                /\ rows'[o][i].amount = rows[o][i].amount
  PROVE  PaymentInv'
<1>1. \A a \in acked : a.order \in Order
  BY DEF TypeOK, Ack
<1>2. KeysUnique'
  BY DEF PaymentInv, KeysUnique
<1>3. AcksStored'
  BY <1>1 DEF PaymentInv, AcksStored
<1>4. UnbornHasNoRows'
  <2> SUFFICES ASSUME NEW o \in Order, status'[o] = "none"
               PROVE  rows'[o] = <<>>
    BY DEF UnbornHasNoRows
  <2>1. rows[o] = <<>>
    BY DEF PaymentInv, UnbornHasNoRows
  <2>2. rows'[o] \in Seq(Row) /\ DOMAIN rows'[o] = {}
    BY <2>1
  <2> QED
    BY <2>2
<1> QED
  BY <1>2, <1>3, <1>4 DEF PaymentInv

\* A payment that is recorded under a key not used before keeps it too.
LEMMA NewRowKeepsPayments ==
  ASSUME TypeOK, PaymentInv, NEW o \in Order, NEW k \in Key \cup {NoKey},
         NEW m \in Method, NEW a \in Amount, RecordPayment(o, k, m, a)
  PROVE  PaymentInv'
<1> DEFINE r == [key |-> k, method |-> m, amount |-> a, refunded |-> 0]
           n == Len(rows[o])
<1>1. rows[o] \in Seq(Row) /\ n \in Nat /\ DOMAIN rows[o] = 1..n
  BY DEF TypeOK
<1>2. rows' = [rows EXCEPT ![o] = Append(rows[o], r)]
  BY DEF RecordPayment
<1>3. /\ DOMAIN rows'[o] = 1..(n + 1)
      /\ rows'[o][n + 1] = r
      /\ \A i \in 1..n : rows'[o][i] = rows[o][i]
      /\ \A p \in Order \ {o} : rows'[p] = rows[p]
  BY <1>1, <1>2 DEF TypeOK
<1>4. k = NoKey \/ \A i \in 1..n : rows[o][i].key # k
  BY <1>1 DEF RecordPayment, RowsWithKey
<1>5. KeysUnique'
  <2> SUFFICES ASSUME NEW p \in Order, NEW i \in DOMAIN rows'[p], NEW j \in DOMAIN rows'[p],
                      rows'[p][i].key = rows'[p][j].key, rows'[p][i].key # NoKey
               PROVE  i = j
    BY DEF KeysUnique
  <2>1. CASE p # o
    BY <1>3, <2>1 DEF PaymentInv, KeysUnique
  <2>2. CASE p = o
    <3>1. i \in 1..(n + 1) /\ j \in 1..(n + 1)
      BY <1>3, <2>2
    <3>2. CASE i \in 1..n /\ j \in 1..n
      BY <1>1, <1>3, <2>2, <3>2 DEF PaymentInv, KeysUnique
    <3>3. CASE i = n + 1 /\ j \in 1..n
      BY <1>3, <1>4, <2>2, <3>3
    <3>4. CASE i \in 1..n /\ j = n + 1
      BY <1>3, <1>4, <2>2, <3>4
    <3> QED
      BY <1>1, <3>1, <3>2, <3>3, <3>4
  <2> QED
    BY <2>1, <2>2
<1>6. AcksStored'
  <2> SUFFICES ASSUME NEW b \in acked'
               PROVE  \E i \in DOMAIN rows'[b.order] :
                        /\ rows'[b.order][i].key = b.key
                        /\ rows'[b.order][i].method = b.method
                        /\ rows'[b.order][i].amount = b.amount
    BY DEF AcksStored
  <2>1. CASE b \in acked
    <3>1. b.order \in Order
      BY <2>1 DEF TypeOK, Ack
    <3>2. PICK i \in DOMAIN rows[b.order] :
            /\ rows[b.order][i].key = b.key
            /\ rows[b.order][i].method = b.method
            /\ rows[b.order][i].amount = b.amount
      BY <2>1 DEF PaymentInv, AcksStored
    <3>3. i \in DOMAIN rows'[b.order] /\ rows'[b.order][i] = rows[b.order][i]
      BY <1>1, <1>3, <3>1, <3>2
    <3> QED
      BY <3>2, <3>3
  <2>2. CASE b = [order |-> o, key |-> k, method |-> m, amount |-> a]
    BY <1>1, <1>3, <2>2
  <2> QED
    BY <2>1, <2>2 DEF RecordPayment
<1>7. UnbornHasNoRows'
  BY <1>3 DEF RecordPayment, Open, PaymentInv, UnbornHasNoRows
<1> QED
  BY <1>5, <1>6, <1>7 DEF PaymentInv

\* Creation, which fills the rows of an order that had none.
LEMMA CreationKeepsPayments ==
  ASSUME TypeOK, PaymentInv, NEW o \in Order, NEW submit \in BOOLEAN,
         NEW m \in Method \cup {"unpaid"}, NEW t \in Table \cup {NoTable},
         Create(o, submit, m, t)
  PROVE  PaymentInv'
<1> DEFINE r == [key |-> NoKey, method |-> m, amount |-> Total, refunded |-> 0]
<1>1. rows[o] = <<>>
  BY DEF Create, PaymentInv, UnbornHasNoRows
<1>2. rows'[o] \in {<<>>, <<r>>} /\ \A p \in Order \ {o} : rows'[p] = rows[p]
  BY <1>1 DEF Create, TypeOK
<1>3. status' = [status EXCEPT ![o] = "draft"] /\ acked' = acked
  BY DEF Create
<1>4. KeysUnique'
  BY <1>2 DEF PaymentInv, KeysUnique
<1>5. \A a \in acked : a.order \in Order \ {o}
  BY <1>1 DEF PaymentInv, AcksStored, TypeOK, Ack
<1>6. AcksStored'
  BY <1>2, <1>3, <1>5 DEF PaymentInv, AcksStored
<1>7. UnbornHasNoRows'
  BY <1>2, <1>3 DEF TypeOK, PaymentInv, UnbornHasNoRows
<1> QED
  BY <1>4, <1>6, <1>7 DEF PaymentInv

\* A payment whose request was answered, however often it was sent, is charged
\* exactly once, as asked for.
THEOREM ChargedOnce == Spec => []AckedChargedOnce
<1>1. Init => PaymentInv
  BY DEF Init, PaymentInv, KeysUnique, AcksStored, UnbornHasNoRows
<1>2. TypeOK /\ TypeOK' /\ PaymentInv /\ [Next]_vars => PaymentInv'
  <2> SUFFICES ASSUME TypeOK, TypeOK', PaymentInv, [Next]_vars
               PROVE  PaymentInv'
    OBVIOUS
  <2>0. rows' \in [Order -> Seq(Row)]
    BY DEF TypeOK
  <2>1. ASSUME UNCHANGED <<rows, acked>>,
               \A o \in Order : status'[o] = "none" => status[o] = "none"
        PROVE  PaymentInv'
    BY <2>0, <2>1, SameRowsKeepPayments
  <2>2. ASSUME NEW o \in Order, NEW amount, NEW s \in RefundShares(o, amount),
               ApplyRefund(o, s), UNCHANGED acked,
               \A p \in Order : status'[p] = "none" => status[p] = "none"
        PROVE  PaymentInv'
    BY <2>0, <2>2, RefundedRows, SameRowsKeepPayments
  <2>3. ASSUME NEW o \in Order, MarkSubmitted(o)
        PROVE  PaymentInv'
    BY <2>1, <2>3 DEF MarkSubmitted, TypeOK
  <2>4. ASSUME NEW o \in Order, NEW to \in Statuses, Transition(o, to)
        PROVE  PaymentInv'
    BY <2>1, <2>4 DEF Transition, TypeOK, Statuses
  <2>5. ASSUME NEW o \in Order, Cancel(o)
        PROVE  PaymentInv'
    <3>1. acked' = acked /\ \A p \in Order : status'[p] = "none" => status[p] = "none"
      BY <2>5 DEF Cancel, TypeOK
    <3> QED
      BY <2>1, <2>2, <2>5, <3>1 DEF Cancel
  <2>6. ASSUME NEW o \in Order, NEW a \in Amount, Refund(o, a)
        PROVE  PaymentInv'
    BY <2>2, <2>6 DEF Refund
  <2>7. ASSUME NEW o \in Order, NEW k \in Key \cup {NoKey}, NEW m \in Method,
               NEW a \in Amount, ReplayPayment(o, k, m, a)
        PROVE  PaymentInv'
    <3>1. rows' = rows /\ status' = status
      BY <2>7 DEF ReplayPayment
    <3>2. PICK i \in DOMAIN rows[o] :
            rows[o][i].key = k /\ rows[o][i].method = m /\ rows[o][i].amount = a
      BY <2>7 DEF ReplayPayment, RowsWithKey, ReplayMatches
    <3>3. acked' = acked \cup {[order |-> o, key |-> k, method |-> m, amount |-> a]}
      BY <2>7 DEF ReplayPayment
    <3>4. AcksStored'
      BY <3>1, <3>2, <3>3 DEF PaymentInv, AcksStored
    <3> QED
      BY <3>1, <3>4 DEF PaymentInv, KeysUnique, UnbornHasNoRows
  <2>8. ASSUME NEW o \in Order, MarkSeated(o) \/ LoseRest(o)
        PROVE  PaymentInv'
    BY <2>1, <2>8 DEF MarkSeated, LoseRest
  <2>9. CASE UNCHANGED vars
    BY <2>1, <2>9 DEF vars
  <2> QED
    BY <2>3, <2>4, <2>5, <2>6, <2>7, <2>8, <2>9, NewRowKeepsPayments, CreationKeepsPayments
    DEF Next
<1>3. TypeOK /\ PaymentInv => AckedChargedOnce
  <2> SUFFICES ASSUME TypeOK, PaymentInv, NEW a \in acked
               PROVE  /\ \E i \in DOMAIN rows[a.order] :
                           /\ rows[a.order][i].key = a.key
                           /\ rows[a.order][i].method = a.method
                           /\ rows[a.order][i].amount = a.amount
                      /\ \A i, j \in DOMAIN rows[a.order] :
                           (rows[a.order][i].key = a.key /\ rows[a.order][j].key = a.key) => i = j
    BY DEF AckedChargedOnce
  <2>1. a.order \in Order /\ a.key \in Key /\ a.key # NoKey
    BY OrdersAssumption DEF TypeOK, Ack
  <2> QED
    BY <2>1 DEF PaymentInv, KeysUnique, AcksStored
<1> QED
  BY <1>1, <1>2, <1>3, TypeCorrect, PTL DEF Spec

\* A completed or cancelled order is only ever moved by the pending second half
\* of its own creation.
THEOREM FinalFrozen == Spec => FinalStatusFrozen
<1>1. TypeOK /\ [Next]_vars
        => [\A o \in Order : (status[o] \in Final /\ rest[o] # "submit")
                              => status'[o] = status[o]]_vars
  <2> SUFFICES ASSUME TypeOK, [Next]_vars, NEW o \in Order,
                      status[o] \in Final, rest[o] # "submit"
               PROVE  status'[o] = status[o]
    OBVIOUS
  <2>1. ASSUME NEW p \in Order, NEW submit \in BOOLEAN, NEW m \in Method \cup {"unpaid"},
               NEW t \in Table \cup {NoTable}, Create(p, submit, m, t)
        PROVE  status'[o] = status[o]
    BY <2>1 DEF Create, TypeOK, Final
  <2>2. ASSUME NEW p \in Order, MarkSubmitted(p)
        PROVE  status'[o] = status[o]
    BY <2>2 DEF MarkSubmitted, TypeOK
  <2>3. ASSUME NEW p \in Order, NEW to \in Statuses, Transition(p, to)
        PROVE  status'[o] = status[o]
    <3>1. CASE p = o
      BY <2>3, <3>1 DEF Transition, TRANSITIONS, Final
    <3>2. CASE p # o
      BY <2>3, <3>2 DEF Transition, TypeOK
    <3> QED
      BY <3>1, <3>2
  <2>4. ASSUME NEW p \in Order, Cancel(p)
        PROVE  status'[o] = status[o]
    BY <2>4 DEF Cancel, CANCEL_FROM_STATUSES, TypeOK, Final
  <2> QED
    BY <2>1, <2>2, <2>3, <2>4
    DEF Next, MarkSeated, LoseRest, RecordPayment, ReplayPayment, Refund, vars
<1> QED
  BY <1>1, TypeCorrect, PTL DEF Spec, FinalStatusFrozen

-----------------------------------------------------------------------------
(* The sums of the rows.                                                   *)

Amounts(o) == [i \in DOMAIN rows[o] |-> rows[o][i].amount]
Held(o) == [i \in DOMAIN rows[o] |-> Refundable(rows[o][i])]

\* The sums of an order's rows, as sums over the rows' places.
LEMMA RowSums ==
  ASSUME TypeOK, NEW o \in Order
  PROVE  /\ IsFiniteSet(DOMAIN rows[o])
         /\ \A i \in DOMAIN rows[o] : Amounts(o)[i] \in Int /\ Held(o)[i] \in Int
         /\ Gross(o) = SumFunctionOnSet(Amounts(o), DOMAIN rows[o])
         /\ Net(o) = SumFunctionOnSet(Held(o), DOMAIN rows[o])
         /\ Gross(o) \in Int
         /\ Net(o) \in Int
<1>1. rows[o] \in Seq(Row)
  BY DEF TypeOK
<1>2. Len(rows[o]) \in Nat /\ DOMAIN rows[o] = 1..Len(rows[o])
  BY <1>1
<1>3. IsFiniteSet(DOMAIN rows[o])
  BY <1>2, FS_Interval
<1>4. \A i \in DOMAIN rows[o] : Amounts(o)[i] \in Int /\ Held(o)[i] \in Int
  <2>1. \A i \in DOMAIN rows[o] : rows[o][i] \in Row
    BY <1>1
  <2> QED
    BY <2>1 DEF Amounts, Held, Row, Refundable
<1>5. Gross(o) = SumFunctionOnSet(Amounts(o), DOMAIN rows[o])
  BY DEF Gross, Amounts, SumFunction
<1>6. Net(o) = SumFunctionOnSet(Held(o), DOMAIN rows[o])
  BY DEF Net, Held, SumFunction
<1> QED
  BY <1>3, <1>4, <1>5, <1>6, SumType

\* Orders with the same rows have the same sums.
LEMMA SameRowsSameSums ==
  ASSUME NEW o \in Order, rows'[o] = rows[o]
  PROVE  Gross(o)' = Gross(o) /\ Net(o)' = Net(o)
BY DEF Gross, Net

\* A refund takes its amount from what the order holds and leaves what was
\* captured for it.
LEMMA RefundedSums ==
  ASSUME TypeOK, TypeOK', NEW o \in Order, NEW amount \in Nat, NEW s \in RefundShares(o, amount),
         ApplyRefund(o, s)
  PROVE  /\ Net(o)' = Net(o) - amount
         /\ \A p \in Order : Gross(p)' = Gross(p)
         /\ \A p \in Order \ {o} : Net(p)' = Net(p)
<1> DEFINE D == DOMAIN rows[o]
<1>1. /\ DOMAIN rows'[o] = D
      /\ \A i \in D : Amounts(o)'[i] = Amounts(o)[i]
  BY RefundedRows DEF Amounts
<1>2. s \in [D -> 0..amount] /\ SumFunctionOnSet(s, D) = amount
  BY DEF RefundShares, SumFunction
<1>3. rows' = [rows EXCEPT ![o] = [i \in D |-> [rows[o][i] EXCEPT !.refunded = @ + s[i]]]]
  BY DEF ApplyRefund
<1>4. \A i \in D : s[i] \in Int /\ Held(o)[i] \in Int /\ Held(o)'[i] \in Int
                   /\ Held(o)[i] = Held(o)'[i] + s[i]
  <2>1. rows[o] \in Seq(Row)
    BY DEF TypeOK
  <2> SUFFICES ASSUME NEW i \in D
               PROVE  s[i] \in Int /\ Held(o)[i] \in Int /\ Held(o)'[i] \in Int
                      /\ Held(o)[i] = Held(o)'[i] + s[i]
    OBVIOUS
  <2>2. rows[o][i] \in Row /\ s[i] \in Nat
    BY <1>2, <2>1
  <2>3. rows'[o][i] = [rows[o][i] EXCEPT !.refunded = @ + s[i]]
    BY <1>3 DEF TypeOK
  <2>4. rows'[o][i].amount = rows[o][i].amount /\ rows'[o][i].refunded = rows[o][i].refunded + s[i]
    BY <2>2, <2>3 DEF Row
  <2>5. Held(o)[i] = rows[o][i].amount - rows[o][i].refunded
    BY DEF Held, Refundable
  <2>6. Held(o)'[i] = rows'[o][i].amount - rows'[o][i].refunded
    BY <1>1 DEF Held, Refundable
  <2> QED
    BY <2>2, <2>4, <2>5, <2>6 DEF Row
<1>5. IsFiniteSet(D)
  BY RowSums
<1>6. SumFunctionOnSet(Held(o), D) = SumFunctionOnSet(Held(o)', D) + SumFunctionOnSet(s, D)
  <2> DEFINE g == Held(o)'
             k == Held(o)
  <2>1. \A i \in D : g[i] \in Int /\ s[i] \in Int /\ k[i] = g[i] + s[i]
    BY <1>4
  <2>2. SumFunctionOnSet(k, D) = SumFunctionOnSet(g, D) + SumFunctionOnSet(s, D)
    <3> HIDE DEF g, k, D
    <3> QED
      BY <1>5, <2>1, SumPlus
  <2> QED
    BY <2>2
<1>7. /\ Net(o) = SumFunctionOnSet(Held(o), D)
      /\ Net(o)' = SumFunctionOnSet(Held(o)', D)
      /\ SumFunctionOnSet(Held(o)', D) \in Int
  <2>1. Net(o) = SumFunctionOnSet(Held(o), D)
    BY RowSums
  <2>2. Net(o)' = SumFunctionOnSet(Held(o)', D)
    BY <1>1 DEF Net, Held, SumFunction
  <2>3. SumFunctionOnSet(Held(o)', D) \in Int
    <3> DEFINE g == Held(o)'
    <3>1. \A i \in D : g[i] \in Int
      BY <1>4
    <3>2. SumFunctionOnSet(g, D) \in Int
      <4> HIDE DEF g, D
      <4> QED
        BY <1>5, <3>1, SumType
    <3> QED
      BY <3>2
  <2> QED
    BY <2>1, <2>2, <2>3
<1>8. Net(o)' = Net(o) - amount
  BY <1>2, <1>6, <1>7
<1>9. Gross(o)' = Gross(o)
  <2>1. Gross(o) = SumFunctionOnSet(Amounts(o), D)
    BY RowSums
  <2>2. Gross(o)' = SumFunctionOnSet(Amounts(o)', D)
    BY <1>1 DEF Gross, Amounts, SumFunction
  <2>3. SumFunctionOnSet(Amounts(o), D) = SumFunctionOnSet(Amounts(o)', D)
    <3> DEFINE g == Amounts(o)'
               k == Amounts(o)
    <3>1. \A i \in D : k[i] = g[i]
      BY <1>1
    <3>2. SumFunctionOnSet(k, D) = SumFunctionOnSet(g, D)
      <4> HIDE DEF g, k, D
      <4> QED
        BY <1>5, <3>1, SumSame
    <3> QED
      BY <3>2
  <2> QED
    BY <2>1, <2>2, <2>3
<1>10. \A p \in Order \ {o} : rows'[p] = rows[p]
  BY <1>3 DEF TypeOK
<1> QED
  BY <1>8, <1>9, <1>10, SameRowsSameSums

\* A payment that is recorded adds its amount to both sums.
LEMMA RecordedSums ==
  ASSUME TypeOK, NEW o \in Order, NEW k \in Key \cup {NoKey}, NEW m \in Method,
         NEW a \in Amount, RecordPayment(o, k, m, a)
  PROVE  /\ Gross(o)' = Gross(o) + a
         /\ \A p \in Order \ {o} : rows'[p] = rows[p]
<1> DEFINE r == [key |-> k, method |-> m, amount |-> a, refunded |-> 0]
           n == Len(rows[o])
<1>1. rows[o] \in Seq(Row) /\ n \in Nat /\ DOMAIN rows[o] = 1..n
  BY DEF TypeOK
<1>2. rows' = [rows EXCEPT ![o] = Append(rows[o], r)]
  BY DEF RecordPayment
<1>3. /\ DOMAIN rows'[o] = 1..(n + 1)
      /\ rows'[o][n + 1] = r
      /\ \A i \in 1..n : rows'[o][i] = rows[o][i]
      /\ \A p \in Order \ {o} : rows'[p] = rows[p]
  BY <1>1, <1>2 DEF TypeOK
<1> DEFINE g == Amounts(o)'
<1>4. /\ \A i \in 1..n : g[i] = Amounts(o)[i]
      /\ g[n + 1] = a
  BY <1>1, <1>3 DEF Amounts
<1>5. a \in Int /\ \A i \in 1..(n + 1) : g[i] \in Int
  <2>1. a \in Int
    BY OrdersAssumption
  <2>2. \A i \in 1..n : Amounts(o)[i] \in Int
    BY <1>1, RowSums
  <2> QED
    BY <1>1, <1>4, <2>1, <2>2
<1>6. Gross(o)' = SumFunctionOnSet(g, 1..(n + 1))
  BY <1>3 DEF Gross, Amounts, SumFunction
<1> HIDE DEF g
<1>7. SumFunctionOnSet(g, 1..(n + 1)) = g[n + 1] + SumFunctionOnSet(g, 1..n)
  <2> DEFINE S == 1..(n + 1)
  <2>1. n + 1 \in S
    BY <1>1
  <2>2. S \ {n + 1} = 1..n
    BY <1>1
  <2>3. IsFiniteSet(S)
    BY <1>1, FS_Interval
  <2>4. \A x \in S : g[x] \in Int
    BY <1>5
  <2> HIDE DEF S, n
  <2>5. SumFunctionOnSet(g, S) = g[n + 1] + SumFunctionOnSet(g, S \ {n + 1})
    BY <2>1, <2>3, <2>4, SumTakeOut
  <2> QED
    BY <2>2, <2>5 DEF S
<1>8. SumFunctionOnSet(g, 1..n) = Gross(o)
  <2> DEFINE S == 1..n
  <2>1. IsFiniteSet(S) /\ Gross(o) = SumFunctionOnSet(Amounts(o), S)
    BY <1>1, RowSums
  <2>2. \A x \in S : g[x] = Amounts(o)[x]
    BY <1>4
  <2> HIDE DEF S
  <2>3. SumFunctionOnSet(g, S) = SumFunctionOnSet(Amounts(o), S)
    BY <2>1, <2>2, SumSame
  <2> QED
    BY <2>1, <2>3 DEF S
<1>9. Gross(o) \in Int
  BY RowSums
<1> QED
  BY <1>3, <1>4, <1>5, <1>6, <1>7, <1>8, <1>9

\* An order that is paid when it is created has captured its total.
LEMMA CreatedSums ==
  ASSUME TypeOK, NEW o \in Order, NEW submit \in BOOLEAN, NEW m \in Method \cup {"unpaid"},
         NEW t \in Table \cup {NoTable}, Create(o, submit, m, t)
  PROVE  /\ Gross(o)' \in {Gross(o), Total}
         /\ \A p \in Order \ {o} : rows'[p] = rows[p]
<1> DEFINE r == [key |-> NoKey, method |-> m, amount |-> Total, refunded |-> 0]
<1>1. CASE m = "unpaid"
  BY <1>1, SameRowsSameSums DEF Create
<1>2. CASE m # "unpaid"
  <2>1. rows'[o] = <<r>> /\ \A p \in Order \ {o} : rows'[p] = rows[p]
    BY <1>2 DEF Create, TypeOK
  <2> DEFINE g == Amounts(o)'
  <2>2. DOMAIN rows'[o] = {1} /\ g[1] = Total /\ Total \in Int
    BY <2>1, OrdersAssumption DEF Amounts
  <2>3. Gross(o)' = SumFunctionOnSet(g, {1})
    BY <2>2 DEF Gross, Amounts, SumFunction
  <2> HIDE DEF g
  <2>4. SumFunctionOnSet(g, {1}) = g[1] + SumFunctionOnSet(g, {1} \ {1})
    BY <2>2, FS_Singleton, SumTakeOut
  <2>5. {1} \ {1} = {} /\ SumFunctionOnSet(g, {}) = 0
    BY SumOfNone
  <2> QED
    BY <2>1, <2>2, <2>3, <2>4, <2>5
<1> QED
  BY <1>1, <1>2

-----------------------------------------------------------------------------

\* However payments and refunds interleave, the captures of an order never
\* exceed its total.
THEOREM CapturesBounded == Spec => []CapturesWithinTotal
<1>1. Init => CapturesWithinTotal
  <2> SUFFICES ASSUME Init, NEW o \in Order
               PROVE  Gross(o) <= Total
    BY DEF CapturesWithinTotal
  <2>1. DOMAIN rows[o] = {}
    BY DEF Init
  <2>2. Gross(o) = 0
    BY <2>1, SumOfNone DEF Gross, SumFunction
  <2> QED
    BY <2>2, OrdersAssumption
<1>2. TypeOK /\ TypeOK' /\ CapturesWithinTotal /\ [Next]_vars => CapturesWithinTotal'
  <2> SUFFICES ASSUME TypeOK, TypeOK', CapturesWithinTotal, [Next]_vars
               PROVE  CapturesWithinTotal'
    OBVIOUS
  <2>1. ASSUME UNCHANGED rows
        PROVE  CapturesWithinTotal'
    BY <2>1, SameRowsSameSums DEF CapturesWithinTotal
  <2>2. ASSUME NEW o \in Order, NEW amount \in Nat, NEW s \in RefundShares(o, amount),
               ApplyRefund(o, s)
        PROVE  CapturesWithinTotal'
    BY <2>2, RefundedSums DEF CapturesWithinTotal
  <2>3. ASSUME NEW o \in Order, NEW submit \in BOOLEAN, NEW m \in Method \cup {"unpaid"},
               NEW t \in Table \cup {NoTable}, Create(o, submit, m, t)
        PROVE  CapturesWithinTotal'
    BY <2>3, CreatedSums, SameRowsSameSums, OrdersAssumption DEF CapturesWithinTotal
  <2>4. ASSUME NEW o \in Order, NEW k \in Key \cup {NoKey}, NEW m \in Method,
               NEW a \in Amount, RecordPayment(o, k, m, a)
        PROVE  CapturesWithinTotal'
    <3>1. Gross(o) \in Int /\ a \in Nat /\ Gross(o) <= Total /\ Total \in Nat
      BY RowSums, OrdersAssumption DEF CapturesWithinTotal
    <3>2. m = "unpaid" => a = 0
      BY <2>4 DEF RecordPayment, PaymentGuards
    <3>3. Gross(o) + a <= Total
      BY <2>4, <3>1, <3>2 DEF RecordPayment, AllocationAccepts
    <3> QED
      BY <2>4, <3>3, RecordedSums, SameRowsSameSums DEF CapturesWithinTotal
  <2>5. ASSUME NEW o \in Order, Cancel(o)
        PROVE  CapturesWithinTotal'
    <3>1. Net(o) \in Int
      BY RowSums
    <3> QED
      BY <2>1, <2>2, <2>5, <3>1 DEF Cancel
  <2>6. ASSUME NEW o \in Order, NEW a \in Amount, Refund(o, a)
        PROVE  CapturesWithinTotal'
    BY <2>2, <2>6, OrdersAssumption DEF Refund
  <2> QED
    BY <2>1, <2>3, <2>4, <2>5, <2>6
    DEF Next, MarkSubmitted, MarkSeated, LoseRest, Transition, ReplayPayment, vars
<1> QED
  BY <1>1, <1>2, TypeCorrect, PTL DEF Spec

\* A cancelled order holds no money of the customer, whichever payment raced
\* the cancellation.
THEOREM CancelledSettled == Spec => []CancelledHoldsNoMoney
<1>1. Init => CancelledHoldsNoMoney
  BY DEF Init, CancelledHoldsNoMoney
<1>2. TypeOK /\ TypeOK' /\ CancelledHoldsNoMoney /\ [Next]_vars => CancelledHoldsNoMoney'
  <2> SUFFICES ASSUME TypeOK, TypeOK', CancelledHoldsNoMoney, [Next]_vars
               PROVE  CancelledHoldsNoMoney'
    OBVIOUS
  <2>1. ASSUME UNCHANGED rows,
               \A p \in Order : status'[p] = "cancelled" => status[p] = "cancelled"
        PROVE  CancelledHoldsNoMoney'
    BY <2>1, SameRowsSameSums DEF CancelledHoldsNoMoney
  <2>2. ASSUME NEW o \in Order, NEW submit \in BOOLEAN, NEW m \in Method \cup {"unpaid"},
               NEW t \in Table \cup {NoTable}, Create(o, submit, m, t)
        PROVE  CancelledHoldsNoMoney'
    <3>1. status'[o] = "draft" /\ \A p \in Order \ {o} : status'[p] = status[p]
      BY <2>2 DEF Create, TypeOK
    <3> QED
      BY <2>2, <3>1, CreatedSums, SameRowsSameSums DEF CancelledHoldsNoMoney
  <2>3. ASSUME NEW o \in Order, MarkSubmitted(o)
        PROVE  CancelledHoldsNoMoney'
    BY <2>1, <2>3 DEF MarkSubmitted, TypeOK
  <2>4. ASSUME NEW o \in Order, NEW to \in Statuses, Transition(o, to)
        PROVE  CancelledHoldsNoMoney'
    BY <2>1, <2>4 DEF Transition, TypeOK
  <2>5. ASSUME NEW o \in Order, Cancel(o)
        PROVE  CancelledHoldsNoMoney'
    <3>1. /\ Net(o) \in Int
          /\ \A p \in Order \ {o} : status'[p] = status[p]
      BY <2>5, RowSums DEF Cancel, TypeOK
    <3>2. Net(o)' = 0 /\ \A p \in Order \ {o} : Net(p)' = Net(p)
      <4>1. CASE Net(o) > 0 /\ \E s \in RefundShares(o, Net(o)) : ApplyRefund(o, s)
        <5>1. PICK s \in RefundShares(o, Net(o)) : ApplyRefund(o, s)
          BY <4>1
        <5>2. Net(o) \in Nat /\ Net(o) - Net(o) = 0
          BY <3>1, <4>1
        <5> QED
          BY <5>1, <5>2, RefundedSums
      <4>2. CASE Net(o) = 0 /\ UNCHANGED rows
        BY <4>2, SameRowsSameSums
      <4> QED
        BY <2>5, <4>1, <4>2 DEF Cancel
    <3> QED
      BY <3>1, <3>2 DEF CancelledHoldsNoMoney
  <2>6. ASSUME NEW o \in Order, NEW k \in Key \cup {NoKey}, NEW m \in Method,
               NEW a \in Amount, RecordPayment(o, k, m, a)
        PROVE  CancelledHoldsNoMoney'
    <3>1. status[o] # "cancelled" /\ status' = status
      BY <2>6 DEF RecordPayment, Open
    <3> QED
      BY <2>6, <3>1, RecordedSums, SameRowsSameSums DEF CancelledHoldsNoMoney
  <2>7. ASSUME NEW o \in Order, NEW a \in Amount, Refund(o, a)
        PROVE  CancelledHoldsNoMoney'
    <3>1. Net(o) \in Int /\ a \in Nat /\ Net(o) # 0 /\ status' = status
      BY <2>7, RowSums, OrdersAssumption DEF Refund
    <3>2. status[o] # "cancelled"
      BY <3>1 DEF CancelledHoldsNoMoney
    <3>3. \A p \in Order \ {o} : Net(p)' = Net(p)
      BY <2>7, <3>1, RefundedSums DEF Refund
    <3> QED
      BY <3>1, <3>2, <3>3 DEF CancelledHoldsNoMoney
  <2>8. ASSUME UNCHANGED <<rows, status>>
        PROVE  CancelledHoldsNoMoney'
    BY <2>1, <2>8
  <2> QED
    BY <2>2, <2>3, <2>4, <2>5, <2>6, <2>7, <2>8
    DEF Next, MarkSeated, LoseRest, ReplayPayment, vars
<1> QED
  BY <1>1, <1>2, TypeCorrect, PTL DEF Spec

-----------------------------------------------------------------------------
(* Tables.                                                                 *)

\* An order that was not created yet sits nowhere, so that its creation cannot
\* take it away from the table of another.
UnbornIsUnseated == \A o \in Order : status[o] = "none" => seat[o] = NoTable

\* The table of an order that waits for, is in or came out of the kitchen stays
\* occupied, unless another order was seated there too or its creation has not
\* reached the table.
THEOREM TableServed == Spec => []ServedTableOccupied
<1> DEFINE Inv == UnbornIsUnseated /\ ServedTableOccupied
<1>1. Init => Inv
  BY OrdersAssumption DEF Init, UnbornIsUnseated, ServedTableOccupied
<1>2. TypeOK /\ Inv /\ [Next]_vars => Inv'
  <2> SUFFICES ASSUME TypeOK, Inv, [Next]_vars
               PROVE  Inv'
    OBVIOUS
  <2>1. ASSUME NEW o \in Order, NEW submit \in BOOLEAN, NEW m \in Method \cup {"unpaid"},
               NEW t \in Table \cup {NoTable}, Create(o, submit, m, t)
        PROVE  Inv'
    <3>1. /\ status[o] = "none" /\ seat[o] = NoTable
          /\ status'[o] = "draft"
          /\ table' = table
          /\ \A p \in Order \ {o} : /\ status'[p] = status[p] /\ seat'[p] = seat[p]
                                    /\ rest'[p] = rest[p]
      BY <2>1 DEF Create, TypeOK, UnbornIsUnseated
    <3>2. UnbornIsUnseated'
      BY <3>1 DEF UnbornIsUnseated
    <3>3. ServedTableOccupied'
      BY <3>1, OrdersAssumption DEF ServedTableOccupied
    <3> QED
      BY <3>2, <3>3
  <2>2. ASSUME NEW o \in Order, MarkSubmitted(o)
        PROVE  Inv'
    <3>1. /\ status'[o] = "submitted" /\ seat' = seat /\ table' = table
          /\ seat[o] \in Table => rest'[o] = "seat"
          /\ \A p \in Order \ {o} : status'[p] = status[p] /\ rest'[p] = rest[p]
      BY <2>2 DEF MarkSubmitted, TypeOK
    <3> QED
      BY <3>1 DEF UnbornIsUnseated, ServedTableOccupied
  <2>3. ASSUME NEW o \in Order, MarkSeated(o)
        PROVE  Inv'
    <3>1. /\ status' = status /\ seat' = seat
          /\ \A p \in Order : rest'[p] = "nothing" => rest[p] = "nothing" \/ p = o
          /\ \A t \in Table : table[t] = "occupied" \/ t = seat[o] => table'[t] = "occupied"
      BY <2>3 DEF MarkSeated, TypeOK
    <3> QED
      BY <3>1 DEF UnbornIsUnseated, ServedTableOccupied
  <2>4. ASSUME NEW o \in Order, LoseRest(o)
        PROVE  Inv'
    <3>1. /\ UNCHANGED <<status, seat, table>>
          /\ \A p \in Order : rest'[p] = "nothing" => rest[p] = "nothing"
      BY <2>4 DEF LoseRest, TypeOK
    <3> QED
      BY <3>1 DEF UnbornIsUnseated, ServedTableOccupied
  <2>5. ASSUME NEW o \in Order, NEW to \in Statuses, TouchTable(o, to),
               UNCHANGED <<seat, rest>>,
               status[o] # "none", status' = [status EXCEPT ![o] = to],
               to = "ready" => status[o] \in {"submitted", "in_kitchen"}
        PROVE  Inv'
    <3>1. /\ status'[o] = to
          /\ \A p \in Order \ {o} : status'[p] = status[p]
          /\ \A t \in Table : t # seat[o] => table'[t] = table[t]
          /\ seat[o] \in Table => table'[seat[o]] = TableAfter(table[seat[o]], to)
      BY <2>5 DEF TouchTable, TypeOK
    <3>2. UnbornIsUnseated'
      BY <2>5, <3>1 DEF UnbornIsUnseated, Statuses
    <3>3. ASSUME NEW p \in Order, status'[p] \in {"submitted", "in_kitchen", "ready"},
                 rest[p] = "nothing", seat[p] \in Table, \A q \in Order \ {p} : seat[q] # seat[p]
          PROVE  table'[seat[p]] = "occupied"
      <4>1. CASE p # o
        BY <3>1, <3>3, <4>1 DEF ServedTableOccupied
      <4>2. CASE p = o /\ to = "ready"
        <5>1. table[seat[o]] = "occupied"
          BY <2>5, <3>3, <4>2 DEF ServedTableOccupied
        <5> QED
          BY <3>1, <3>3, <4>2, <5>1 DEF TableAfter
      <4>3. CASE p = o /\ to # "ready"
        BY <3>1, <3>3, <4>3 DEF TableAfter
      <4> QED
        BY <4>1, <4>2, <4>3
    <3> QED
      BY <2>5, <3>2, <3>3 DEF ServedTableOccupied
  <2>6. ASSUME NEW o \in Order, NEW to \in Statuses, Transition(o, to)
        PROVE  Inv'
    <3>1. to = "ready" => status[o] \in {"submitted", "in_kitchen"}
      BY <2>6 DEF Transition, TRANSITIONS, TypeOK, Statuses
    <3> QED
      BY <2>5, <2>6, <3>1 DEF Transition
  <2>7. ASSUME NEW o \in Order, Cancel(o)
        PROVE  Inv'
    <3>1. status[o] # "none" /\ "cancelled" \in Statuses
      BY <2>7 DEF Cancel, CANCEL_FROM_STATUSES, Statuses
    <3> QED
      BY <2>5, <2>7, <3>1 DEF Cancel
  <2>8. ASSUME UNCHANGED <<status, seat, rest, table>>
        PROVE  Inv'
    BY <2>8 DEF UnbornIsUnseated, ServedTableOccupied
  <2> QED
    BY <2>1, <2>2, <2>3, <2>4, <2>6, <2>7, <2>8
    DEF Next, RecordPayment, ReplayPayment, Refund, vars
<1> QED
  BY <1>1, <1>2, TypeCorrect, PTL DEF Spec
=============================================================================
