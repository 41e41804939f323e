------------------------------- MODULE Shifts -------------------------------
(***************************************************************************)
(* Cashiers' shifts and the money they take: cash of payments and refunds, *)
(* cash put in and taken out, and the count at the close.                  *)
(*                                                                         *)
(*   POST /shifts/open               AskOpen, Open                         *)
(*   POST /shifts/:id/cash-in, -out  AskMove, Move                         *)
(*   POST /shifts/:id/close          AskClose, Count (three sums), Close   *)
(*   POST /orders                    AskSale, Sell                         *)
(*   POST /orders/:id/payments       AskPay, Pay                           *)
(*   POST /orders/:id/refund         Refund                                *)
(*                                                                         *)
(* A request looks its shift up before the transaction that uses it, and   *)
(* nothing keeps the shift open meanwhile: the lookup and the use are      *)
(* separate steps, as are the sums of a close.  A payment is split into    *)
(* revenue and VAT in the transaction that stores it; the code recomputes  *)
(* the splits of the rows before it, here they are kept in the rows.       *)
(* Idempotency keys and status changes of orders are those of Orders.      *)
(***************************************************************************)
EXTENDS Integers, Sequences, Functions

CONSTANTS
  Cashier,
  Shift,         \* shift ids
  NoShift,
  Client,        \* requests that run at a time
  Order,
  QuoteOf,       \* what orders may be quoted: records of total and vat
  Method,        \* payment methods, "cash" among them
  Amount,        \* amounts that are paid or refunded
  Opening,       \* amounts that shifts open with
  Moves,         \* amounts put in, and taken out when negative
  RequireShift,  \* require_open_shift_for_cash
  MaxRows,       \* bound: payment rows
  MaxMoves       \* bound: cash movements

ASSUME ShiftsAssumption ==
  /\ NoShift \notin Shift
  /\ QuoteOf \subseteq [total : Nat, vat : Nat]
  /\ \A q \in QuoteOf : q.total = 0 \/ q.vat <= q.total
  /\ Amount \subseteq Nat \ {0}
  /\ Opening \subseteq Nat /\ Moves \subseteq Int \ {0}
  /\ RequireShift \in BOOLEAN
  /\ MaxRows \in Nat /\ MaxMoves \in Nat

VARIABLES
  quote,   \* quote[o]: total and vat_amount of the order, <<>> before it exists
  rows,    \* payments in allocation_sequence order, refunds among them
  shift,   \* shift[s]: status, cashier, opening_cash and, once closed, expected_cash
  moved,   \* moved[s]: its cash movements
  request  \* request[c]: what the client's request does next, <<>> when idle

vars == <<quote, rows, shift, moved, request>>

-----------------------------------------------------------------------------
(* Sums of an order in minor units: computeOrderTotals on what             *)
(* buildOrderQuote makes of the lines and the discount, and the split of   *)
(* its payments and refunds into revenue and VAT (lib/accountingMath.ts).  *)
(* The code's sums of an order are binary floating point numbers rounded   *)
(* to cents; here they are exact.                                          *)

Least(a, b) == IF a < b THEN a ELSE b
Most(a, b) == IF a < b THEN b ELSE a

\* Math.round(n / d) and divideRounded(n, d) for n >= 0: halves round up.
Round(n, d) == (2 * n + d) \div (2 * d)

\* The settings that sums depend on.  fee is a percentage or an amount, step
\* the multiple the total is rounded to, 1 for none.
Settings ==
  [discounts : BOOLEAN, feePercent : BOOLEAN, fee : Nat, vat : Nat, included : BOOLEAN, step : Nat \ {0}]

\* computeOrderTotals.  Rounding the total leaves the VAT as it was.
Totals(settings, subtotal, discount, delivery) ==
  LET after == Most(0, subtotal - discount)
      fee == IF settings.feePercent THEN Round(after * settings.fee, 100) ELSE settings.fee
      sum == after + fee + delivery
      vat == IF settings.included THEN Round(sum * settings.vat, 100 + settings.vat)
                                  ELSE Round((after + fee) * settings.vat, 100)
      gross == IF settings.included THEN sum ELSE sum + vat
  IN [total |-> settings.step * Round(gross, settings.step), vat |-> vat]

\* buildOrderQuote, from the sum of the lines on.
Quote(settings, subtotal, discount, delivery) ==
  Totals(settings, subtotal, IF settings.discounts THEN Least(discount, subtotal) ELSE 0, delivery)

\* Gross, revenue and VAT of a whole, or of the part of it used up so far.
Parts == [gross : Nat, revenue : Int, vat : Nat]

Whole(q) == [gross |-> q.total, revenue |-> q.total - q.vat, vat |-> q.vat]

\* Bug: every part takes its rounded share of the VAT.
SplitByRate(gross, whole, used) ==
  LET vat == Round(gross * whole.vat, whole.gross)
  IN [gross |-> gross, revenue |-> gross - vat, vat |-> vat]

\* allocateGross and allocateRefund, which differ in what the whole is: the
\* order or the payment that is refunded.  A part takes its share of the VAT,
\* within what is left of each, and the last part takes what is left.
Split(gross, whole, used) ==
  LET restRevenue == whole.revenue - used.revenue
      restVat == whole.vat - used.vat
      vat == Least(Round(gross * whole.vat, whole.gross), restVat)
      revenue == Least(gross - vat, restRevenue)
  IN IF gross = whole.gross - used.gross
       THEN [gross |-> gross, revenue |-> restRevenue, vat |-> restVat]
       ELSE [gross |-> gross, revenue |-> revenue, vat |-> gross - revenue]

\* They throw when the part exceeds what is left.
Splits(gross, whole, used) == gross > 0 /\ gross <= whole.gross - used.gross

-----------------------------------------------------------------------------

Row == [order : Order, method : Method, shift : Shift \cup {NoShift},
        of : Nat,  \* the row that is refunded, 0 for a payment
        parts : Parts]

TypeOK ==
  /\ \A o \in Order : quote[o] # <<>> => quote[o] \in QuoteOf
  /\ rows \in Seq(Row)
  /\ \A i \in DOMAIN rows : rows[i].of # 0 => rows[i].of < i /\ rows[rows[i].of].of = 0
  /\ shift \in [Shift -> [status : {"none", "open", "closed"}, cashier : Cashier,
                          opening : Nat, expected : Int]]
  /\ moved \in [Shift -> Seq(Int)]
  /\ \A c \in Client : request[c] # <<>> => request[c].shift \in Shift \cup {NoShift}

Init ==
  /\ quote = [o \in Order |-> <<>>]
  /\ rows = <<>>
  /\ shift \in [Shift -> {[status |-> "none", cashier |-> k, opening |-> 0, expected |-> 0] : k \in Cashier}]
  /\ moved = [s \in Shift |-> <<>>]
  /\ request = [c \in Client |-> <<>>]

-----------------------------------------------------------------------------

Exists(s) == shift[s].status # "none"
IsOpen(s) == shift[s].status = "open"

\* Bug: the lookup forgets to ask for an open shift.
AnyShiftOf(k) == {s \in Shift : Exists(s) /\ shift[s].cashier = k}

\* The lookups by cashier take any open shift of theirs.
OpenOf(k) == {s \in Shift : IsOpen(s) /\ shift[s].cashier = k}

Ask(c, r) ==
  /\ request[c] = <<>>
  /\ request' = [request EXCEPT ![c] = r]
  /\ UNCHANGED <<quote, rows, shift, moved>>

Asked(c, kind) == request[c] # <<>> /\ request[c].kind = kind

Done(c) == request' = [request EXCEPT ![c] = <<>>]

\* The request fails or its process stops.
Drop(c) ==
  /\ request[c] # <<>>
  /\ Done(c)
  /\ UNCHANGED <<quote, rows, shift, moved>>

-----------------------------------------------------------------------------
(* Shifts.                                                                 *)

\* Found no open shift; an open one is the answer.  The id is new.
AskOpen(c, k) ==
  /\ OpenOf(k) = {}
  /\ Ask(c, [kind |-> "open", cashier |-> k, shift |-> NoShift])

\* No lock and no index keeps another request from opening one as well.
Open(c, s, cash) ==
  /\ Asked(c, "open")
  /\ ~Exists(s)
  /\ shift[s].cashier = request[c].cashier
  /\ shift' = [shift EXCEPT ![s].status = "open", ![s].opening = cash]
  /\ Done(c)
  /\ UNCHANGED <<quote, rows, moved>>

AskMove(c, s, amount) ==
  /\ IsOpen(s)
  /\ Ask(c, [kind |-> "move", shift |-> s, amount |-> amount])

Move(c) ==
  /\ Asked(c, "move")
  /\ LET s == request[c].shift
     IN /\ SumFunctionOnSet([t \in Shift |-> Len(moved[t])], Shift) < MaxMoves
        /\ moved' = [moved EXCEPT ![s] = Append(@, request[c].amount)]
  /\ Done(c)
  /\ UNCHANGED <<quote, rows, shift>>

Amounts(seq, Test(_)) ==
  SumFunctionOnSet([i \in DOMAIN seq |-> IF Test(seq[i]) THEN seq[i] ELSE 0], DOMAIN seq)

\* What the row puts into the drawer.
CashOf(row) ==
  IF row.method # "cash" THEN 0 ELSE IF row.of = 0 THEN row.parts.gross ELSE -row.parts.gross

RowsOfShift(s) == {i \in DOMAIN rows : rows[i].shift = s}

CashSales(s) == SumFunctionOnSet([i \in DOMAIN rows |-> CashOf(rows[i])], RowsOfShift(s))
CashIn(s) == Amounts(moved[s], LAMBDA a : a > 0)
CashOut(s) == Amounts(moved[s], LAMBDA a : a < 0)

\* The sums of summarizeShift, in its order.
Sums(s) == <<CashSales(s), CashIn(s), CashOut(s)>>

AskClose(c, s) ==
  /\ IsOpen(s)
  /\ Ask(c, [kind |-> "close", shift |-> s, sums |-> <<>>])

\* One query reads one sum.
Count(c) ==
  /\ Asked(c, "close")
  /\ LET n == Len(request[c].sums)
     IN /\ n < 3
        /\ request' = [request EXCEPT ![c].sums = Append(@, Sums(request[c].shift)[n + 1])]
  /\ UNCHANGED <<quote, rows, shift, moved>>

\* Written by id: a second close overwrites the first.
Close(c) ==
  /\ Asked(c, "close")
  /\ LET s == request[c].shift
         sums == request[c].sums
     IN /\ Len(sums) = 3
        /\ shift' = [shift EXCEPT ![s].status = "closed",
                                  ![s].expected = shift[s].opening + sums[1] + sums[2] + sums[3]]
  /\ Done(c)
  /\ UNCHANGED <<quote, rows, moved>>

-----------------------------------------------------------------------------
(* Payments and refunds.                                                   *)

Captures(o) == {i \in DOMAIN rows : rows[i].order = o /\ rows[i].of = 0}

RefundsOf(n) == {i \in DOMAIN rows : rows[i].of = n}

\* Gross, revenue and VAT of several rows together.
PartsOf(rs) ==
  [gross |-> SumFunctionOnSet([i \in DOMAIN rows |-> rows[i].parts.gross], rs),
   revenue |-> SumFunctionOnSet([i \in DOMAIN rows |-> rows[i].parts.revenue], rs),
   vat |-> SumFunctionOnSet([i \in DOMAIN rows |-> rows[i].parts.vat], rs)]

Net(o) ==
  PartsOf(Captures(o)).gross - PartsOf(UNION {RefundsOf(i) : i \in Captures(o)}).gross

\* The shift a payment is taken in: cash may need one.
ShiftsFound(k, m) ==
  IF OpenOf(k) # {} THEN OpenOf(k) ELSE IF m = "cash" /\ RequireShift THEN {} ELSE {NoShift}

AskSale(c, k, m, s) ==
  /\ s \in ShiftsFound(k, m)
  /\ Ask(c, [kind |-> "sale", shift |-> s, method |-> m])

AskPay(c, k, o, m, amount, s) ==
  /\ quote[o] # <<>>
  /\ s \in ShiftsFound(k, m)
  /\ Ask(c, [kind |-> "pay", shift |-> s, order |-> o, method |-> m, amount |-> amount])

\* captureAllocation in the transaction of the insert.
Capture(o, q, m, amount, s) ==
  /\ Splits(amount, Whole(q), PartsOf(Captures(o)))
  /\ Len(rows) < MaxRows
  /\ rows' = Append(rows, [order |-> o, method |-> m, shift |-> s, of |-> 0,
                           parts |-> Split(amount, Whole(q), PartsOf(Captures(o)))])

\* An order is created with a payment of its total, which must not be 0.
Sell(c, o, q) ==
  /\ Asked(c, "sale")
  /\ quote[o] = <<>>
  /\ quote' = [quote EXCEPT ![o] = q]
  /\ Capture(o, q, request[c].method, q.total, request[c].shift)
  /\ Done(c)
  /\ UNCHANGED <<shift, moved>>

\* Created without a payment.
SellUnpaid(o, q) ==
  /\ quote[o] = <<>>
  /\ quote' = [quote EXCEPT ![o] = q]
  /\ UNCHANGED <<rows, shift, moved, request>>

Pay(c) ==
  /\ Asked(c, "pay")
  /\ LET r == request[c]
     IN /\ Net(r.order) + r.amount <= quote[r.order].total
        /\ Capture(r.order, quote[r.order], r.method, r.amount, r.shift)
  /\ Done(c)
  /\ UNCHANGED <<quote, shift, moved>>

Left(n) == rows[n].parts.gross - PartsOf(RefundsOf(n)).gross

\* Bug: the refund is booked to the shift that is open now.
RefundShiftNow(n) == IF \E s \in Shift : IsOpen(s) THEN CHOOSE s \in Shift : IsOpen(s) ELSE NoShift

\* original.shift_id, whether that shift is still open or not.
RefundShift(n) == rows[n].shift

\* refundAllocation: the whole is the refunded payment as it was split.
RefundRow(n, amount) ==
  [order |-> rows[n].order, method |-> rows[n].method, shift |-> RefundShift(n), of |-> n,
   parts |-> Split(amount, rows[n].parts, PartsOf(RefundsOf(n)))]

\* createRefundRows drains one payment after the other, in any order (see
\* RefundShares of Orders): here over at most two of them.
Refund(o, amount) ==
  \/ \E n \in Captures(o) :
       /\ amount <= Left(n)
       /\ Len(rows) < MaxRows
       /\ rows' = Append(rows, RefundRow(n, amount))
       /\ UNCHANGED <<quote, shift, moved, request>>
  \/ \E n, m \in Captures(o) :
       /\ n # m
       /\ Left(n) > 0 /\ Left(n) < amount
       /\ amount - Left(n) <= Left(m)
       /\ Len(rows) + 1 < MaxRows
       /\ rows' = rows \o <<RefundRow(n, Left(n)), RefundRow(m, amount - Left(n))>>
       /\ UNCHANGED <<quote, shift, moved, request>>

Next ==
  \/ \E c \in Client, k \in Cashier : AskOpen(c, k)
  \/ \E c \in Client, k \in Cashier, m \in Method, s \in Shift \cup {NoShift} :
       \/ AskSale(c, k, m, s)
       \/ \E o \in Order, a \in Amount : AskPay(c, k, o, m, a, s)
  \/ \E c \in Client, s \in Shift :
       \/ AskClose(c, s)
       \/ \E a \in Opening : Open(c, s, a)
       \/ \E a \in Moves : AskMove(c, s, a)
  \/ \E c \in Client : Move(c) \/ Count(c) \/ Close(c) \/ Pay(c) \/ Drop(c)
  \/ \E o \in Order, q \in QuoteOf : SellUnpaid(o, q) \/ \E c \in Client : Sell(c, o, q)
  \/ \E o \in Order, a \in Amount : Refund(o, a)

Spec == Init /\ [][Next]_vars

-----------------------------------------------------------------------------

Fits(used, whole) ==
  /\ used.revenue >= 0 /\ used.revenue <= whole.revenue
  /\ used.vat >= 0 /\ used.vat <= whole.vat
  /\ used.gross = used.revenue + used.vat
  /\ used.gross = whole.gross => used = whole

\* Over any sequence of partial payments and refunds, revenue and VAT captured
\* stay within those of the order, those refunded within those of the payment,
\* and both add up exactly when an order is fully paid or a payment fully
\* refunded, whatever was rounded on the way.
SplitsAddUp ==
  /\ \A o \in Order : Captures(o) # {} => Fits(PartsOf(Captures(o)), Whole(quote[o]))
  /\ \A n \in DOMAIN rows : rows[n].of = 0 => Fits(PartsOf(RefundsOf(n)), rows[n].parts)

\* Refunds correct the cash of the shift that took the payment and of no other:
\* the sales of a shift are never negative.
ShiftSalesNonNegative == \A s \in Shift : CashSales(s) >= 0

Found(s) == \E c \in Client : request[c] # <<>> /\ request[c].shift = s

\* A closed shift, once the requests that found it open are over, is final: no
\* request comes upon it again, the count stands, no cash is moved, and sales
\* only shrink, by refunds of payments it took.
ClosedStands ==
  [][\A s \in Shift :
       (shift[s].status = "closed" /\ ~Found(s)) =>
         /\ ~Found(s)'
         /\ shift'[s] = shift[s]
         /\ moved'[s] = moved[s]
         /\ CashSales(s)' <= CashSales(s)]_vars
=============================================================================
