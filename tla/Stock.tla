------------------------------- MODULE Stock -------------------------------
(***************************************************************************)
(* The stock service: movements posted by requests that run at once, are   *)
(* repeated with the same idempotency key, and race for the row lock of    *)
(* their item.                                                             *)
(*                                                                         *)
(*   POST /inventory/movements, /purchase-receipts, /waste   "receipt",    *)
(*                                     "issue", "adjustment" and "waste"   *)
(*   POST /inventory/transfers         "transfer"                          *)
(*   POST /inventory/stock-counts      "count"                             *)
(*   createStockMovement, called for orders  "consumption" and "reversal"  *)
(*                                                                         *)
(* A transaction looks its key up before it waits for the item (Ask),      *)
(* reads the balance once it has it (Lock) and inserts its rows, with the  *)
(* financial event of each movement (Write); RollBack is every refusal,    *)
(* error and lost connection.  Locations, items, suppliers and the         *)
(* approved unit conversions exist; quantities are already in base units.  *)
(***************************************************************************)
EXTENDS Integers, FiniteSets, FiniteSetsExt, Functions

CONSTANTS
  Unit,      \* quantity of one base unit
  Location,
  Item,
  Process,   \* transactions running at once
  Key,       \* idempotency keys
  NoCost,    \* a request without unit_cost
  NoMove     \* no reversed movement

VARIABLES
  moves,  \* moves[k]: the stock_movements row with key k, for the keys used
  counts, \* counts[k]: the inventory_stock_counts row with key k
  tx,     \* tx[p]: the request of p's transaction, <<>> without one
  seen    \* seen[p]: the balance p has read under the item's lock

stock == <<moves, counts>>
stockVars == <<moves, counts, tx, seen>>

Kind == {"receipt", "issue", "adjustment", "waste", "transfer", "count",
         "consumption", "reversal"}
Request == [kind : Kind, key : Key, location : Location, to : Location, item : Item,
            quantity : Int, cost : Nat \cup {NoCost}, of : Key \X {"move"} \cup {NoMove}]
Balances == [quantity : Int, value : Int]
EventStatus == {"pending", "pending_policy", "non_posting"}

-----------------------------------------------------------------------------
(* The moving weighted average of lib/inventoryMath.ts and what stock on   *)
(* hand is worth.  Quantities are whole fractions of a base unit, Unit of  *)
(* them to one; costs and values are whole fractions of the currency.      *)

ValuationAssumption == Unit \in Nat \ {0}

\* n / d rounded to the nearest integer, halves away from zero.
DivideRounded(n, d) ==
  IF n < 0 THEN -((2 * (-n) + d) \div (2 * d)) ELSE (2 * n + d) \div (2 * d)

valueFromQuantity(quantity, cost) == DivideRounded(quantity * cost, Unit)

averageUnitCost(balance) ==
  IF balance.quantity <= 0 THEN 0 ELSE DivideRounded(balance.value * Unit, balance.quantity)

\* What the movements of an item at a location sum up to.
BalanceOf(ledger, location, item) ==
  LET here == {k \in DOMAIN ledger : ledger[k].location = location /\ ledger[k].item = item}
  IN [quantity |-> SumFunction([k \in here |-> ledger[k].quantity]),
      value    |-> SumFunction([k \in here |-> ledger[k].value])]

-----------------------------------------------------------------------------

StockInit ==
  /\ moves = <<>>
  /\ counts = <<>>
  /\ tx = [p \in Process |-> <<>>]
  /\ seen = [p \in Process |-> <<>>]

-----------------------------------------------------------------------------

\* The key under which a repeated request finds that it was done.
IsReplay(r) ==
  CASE r.kind = "count"    -> r.key \in DOMAIN counts
    [] r.kind = "transfer" -> <<r.key, "out">> \in DOMAIN moves
    [] OTHER               -> <<r.key, "move">> \in DOMAIN moves

\* Only adjustments and reversals may carry a negative quantity.
Valid(r) ==
  /\ r.kind \in {"adjustment", "reversal"} => r.quantity # 0
  /\ r.kind = "count" => r.quantity >= 0
  /\ r.kind \notin {"adjustment", "reversal", "count"} => r.quantity > 0
  /\ r.kind = "transfer" => r.to # r.location

Ask(p, r) ==
  /\ tx[p] = <<>>
  /\ Valid(r)
  /\ ~IsReplay(r)
  /\ tx' = [tx EXCEPT ![p] = r]
  /\ UNCHANGED <<stock, seen>>

\* Bug: the item is read without FOR UPDATE.
ItemFreeAlways(item) == TRUE

ItemFree(item) == \A p \in Process : seen[p] # <<>> => tx[p].item # item

Lock(p) ==
  /\ tx[p] # <<>> /\ seen[p] = <<>>
  /\ ItemFree(tx[p].item)
  /\ seen' = [seen EXCEPT ![p] = BalanceOf(moves, tx[p].location, tx[p].item)]
  /\ UNCHANGED <<stock, tx>>

\* The signed quantity that a request moves at its location.
Quantity(r, balance) ==
  CASE r.kind \in {"issue", "waste", "consumption", "transfer"} -> -r.quantity
    [] r.kind = "count" -> r.quantity - balance.quantity
    [] OTHER            -> r.quantity

UnitCost(r, quantity, balance) ==
  IF quantity > 0 /\ r.cost # NoCost THEN r.cost ELSE averageUnitCost(balance)

\* financialDispositionForMovement: the status its event is enqueued with.
Disposition(r, value) ==
  IF value = 0 THEN "non_posting"
  ELSE CASE r.kind = "issue"                     -> "pending_policy"
         [] r.kind = "transfer"                  -> "non_posting"
         [] r.kind = "reversal" /\ r.of # NoMove -> moves[r.of].event
         [] OTHER                                -> "pending"

MovementOf(r, location, quantity, cost) ==
  LET value == valueFromQuantity(quantity, cost)
  IN [type |-> r.kind, location |-> location, item |-> r.item, quantity |-> quantity,
      cost |-> cost, value |-> value, of |-> r.of, event |-> Disposition(r, value)]

\* Neither quantity nor value goes negative, and stock that comes in has a cost.
Accepts(m, r, balance) ==
  /\ balance.quantity + m.quantity >= 0
  /\ m.quantity > 0 /\ r.cost = NoCost => m.cost # 0
  /\ balance.value + m.value >= 0

MoveKey(r) ==
  <<r.key, CASE r.kind = "count" -> "count" [] r.kind = "transfer" -> "out" [] OTHER -> "move">>

\* A table with one more row.
With(table, k, row) == [j \in DOMAIN table \cup {k} |-> IF j = k THEN row ELSE table[j]]

\* The unique index on the key refuses what was inserted since the lookup.
Insert(k, m) == k \notin DOMAIN moves /\ moves' = With(moves, k, m)

WriteMovement(r, balance) ==
  LET quantity == Quantity(r, balance)
      m == MovementOf(r, r.location, quantity, UnitCost(r, quantity, balance))
  IN /\ Accepts(m, r, balance)
     /\ Insert(MoveKey(r), m)
     /\ counts' = counts

\* Bug: the goods arrive at the average cost of the destination.
CostOfArrivalThere(out, r) == averageUnitCost(BalanceOf(moves, r.to, r.item))

\* transfer_in carries the cost that transfer_out was priced at.
CostOfArrival(out, r) == out.cost

WriteTransfer(r, balance) ==
  LET out == MovementOf(r, r.location, -r.quantity, averageUnitCost(balance))
      in == MovementOf(r, r.to, r.quantity, CostOfArrival(out, r))
  IN /\ Accepts(out, r, balance)
     /\ <<r.key, "in">> \notin DOMAIN moves
     /\ <<r.key, "out">> \notin DOMAIN moves
     /\ moves' = With(With(moves, <<r.key, "in">>, in), <<r.key, "out">>, out)
     /\ counts' = counts

WriteCount(r, balance) ==
  /\ r.key \notin DOMAIN counts
  /\ counts' = With(counts, r.key, [expected |-> balance.quantity, counted |-> r.quantity])
  /\ IF Quantity(r, balance) = 0
       THEN moves' = moves
       ELSE LET m == MovementOf(r, r.location, Quantity(r, balance), averageUnitCost(balance))
            IN Accepts(m, r, balance) /\ Insert(MoveKey(r), m)

Close(p) ==
  /\ tx' = [tx EXCEPT ![p] = <<>>]
  /\ seen' = [seen EXCEPT ![p] = <<>>]

Write(p) ==
  /\ seen[p] # <<>>
  /\ CASE tx[p].kind = "transfer" -> WriteTransfer(tx[p], seen[p])
       [] tx[p].kind = "count"    -> WriteCount(tx[p], seen[p])
       [] OTHER                   -> WriteMovement(tx[p], seen[p])
  /\ Close(p)

RollBack(p) ==
  /\ tx[p] # <<>>
  /\ Close(p)
  /\ UNCHANGED stock

-----------------------------------------------------------------------------

\* No location ever holds less than nothing of an item, in quantity or in value,
\* however many issues, transfers, counts and orders draw on it at once.
NonNegative ==
  \A l \in Location, i \in Item :
    BalanceOf(moves, l, i).quantity >= 0 /\ BalanceOf(moves, l, i).value >= 0

SL == INSTANCE StockLedger

\* Transactions with a row lock and late inserts do what atomic movements do.
ImplementsStockLedger == SL!Spec
=============================================================================
