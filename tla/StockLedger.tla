---------------------------- MODULE StockLedger ----------------------------
(***************************************************************************)
(* What the stock service promises of its append-only movements, with no   *)
(* transactions or locks: a movement goes in whole, by a key of its own,   *)
(* against the balance at that moment; stock that leaves is priced at the  *)
(* average; and a transfer moves quantity and value at once.               *)
(***************************************************************************)
EXTENDS Integers

CONSTANTS
  BalanceOf(_, _, _),       \* what movements of an item at a location sum up to
  valueFromQuantity(_, _),  \* what a quantity is worth at a unit cost
  averageUnitCost(_)        \* the average cost of a balance

VARIABLE moves  \* moves[k]: the stock movement with key k, for the keys used

Init == moves = <<>>

New == (DOMAIN moves') \ DOMAIN moves

Balance(m) == BalanceOf(moves, m.location, m.item)

\* m goes in against its balance and leaves neither quantity nor value negative.
Sound(m) ==
  /\ m.quantity # 0
  /\ m.value = valueFromQuantity(m.quantity, m.cost)
  /\ m.quantity < 0 => m.cost = averageUnitCost(Balance(m))
  /\ Balance(m).quantity + m.quantity >= 0
  /\ Balance(m).value + m.value >= 0

Append(k) == New = {k} /\ Sound(moves'[k])

Transfer(out, in) ==
  /\ New = {out, in}
  /\ Sound(moves'[out]) /\ Sound(moves'[in])
  /\ moves'[out].item = moves'[in].item /\ moves'[out].location # moves'[in].location
  /\ moves'[out].quantity + moves'[in].quantity = 0
  /\ moves'[out].value + moves'[in].value = 0

Next ==
  /\ \A k \in DOMAIN moves : k \in DOMAIN moves' /\ moves'[k] = moves[k]
  /\ \/ \E k \in New : Append(k)
     \/ \E out, in \in New : Transfer(out, in)

Spec == Init /\ [][Next]_moves
=============================================================================
