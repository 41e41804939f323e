---------------------------- MODULE Consumption ----------------------------
(***************************************************************************)
(* Stock taken for completed orders, by the recipes active at completion:  *)
(*                                                                         *)
(*   transitionOrderStatus to completed    Complete, then the processing   *)
(*   processConsumptionEvent               Claim; for each item Item, the  *)
(*                                         steps of Stock, Mark; Finish    *)
(*                                         or Fail                         *)
(*   POST /consumption-events/:id/retry    Claim of a failed event         *)
(*   POST /orders/:id/reverse-consumption  Reverse, then the processing    *)
(*   POST /inventory/recipes/:id/activate  Activate                        *)
(*                                                                         *)
(* Every item is a transaction of its own, between a claim and a final     *)
(* status that are transactions of their own too.  A process that stops    *)
(* leaves the event in processing, which nothing claims again.  Other      *)
(* requests move the same stock meanwhile.                                 *)
(***************************************************************************)
EXTENDS Stock

CONSTANTS
  Order,
  Recipe,        \* versions of recipes, with the fields
                 \*   family: the variant they are for, or NoVariant, and
                 \*   lines: the ingredients, records of item and quantity by number
  NoVariant,
  VariantOf(_),  \* the variant an order's one item is of
  HomeOf(_),     \* the default location of an order's branch
  QtyOf(_),      \* the quantity of that item
  ManualRequest, \* requests that move stock meanwhile
  Manual,        \* processes that serve them
  MaxAttempts    \* failures after which an event is dead

\* An order's two events.
Event == Order \X {"consume", "reverse"}

\* The keys of items' movements: made of ids of the server's, no client sends them.
ItemKeys == Event \X UNION {DOMAIN r.lines : r \in Recipe}

ConsumptionAssumption ==
  /\ ManualRequest \subseteq Request
  /\ \A r \in ManualRequest : r.key \notin ItemKeys
  /\ Process = Manual \cup Event /\ Manual \cap Event = {}
  /\ \A o \in Order : HomeOf(o) \in Location /\ QtyOf(o) \in Nat \ {0}
  /\ \A r \in Recipe :
       /\ IsFiniteSet(DOMAIN r.lines)
       /\ \A n \in DOMAIN r.lines : r.lines[n].item \in Item /\ r.lines[n].quantity \in Nat \ {0}
  /\ MaxAttempts \in Nat \ {0}
  /\ NoCost \notin Nat /\ NoMove \notin ItemKeys \X {"move"}

VARIABLES
  recipe,   \* recipe[r]: inventory_recipes.status
  status,   \* status[e]: inventory_consumption_events.status, "none" without a row
  attempts,
  lines,    \* lines[e]: its event items, by number
  marked,   \* marked[e]: items whose stock_movement_id is set
  left      \* left[e]: items the processing of e has yet to come to

consumption == <<status, attempts, lines, marked, left>>
vars == <<stockVars, recipe, consumption>>

TypeOK ==
  /\ \A k \in DOMAIN moves :
       moves[k].quantity \in Int /\ moves[k].cost \in Nat /\ moves[k].event \in EventStatus
  /\ \A p \in Process : tx[p] # <<>> => tx[p] \in Request
  /\ \A p \in Process : seen[p] # <<>> => seen[p] \in Balances
  /\ recipe \in [Recipe -> {"draft", "active", "retired"}]
  /\ status \in [Event -> {"none", "pending", "processing", "posted", "failed", "dead"}]
  /\ attempts \in [Event -> 0..MaxAttempts]
  /\ \A e \in Event : marked[e] \subseteq DOMAIN lines[e] /\ left[e] \subseteq DOMAIN lines[e]

Init ==
  /\ StockInit
  /\ recipe = [r \in Recipe |-> "draft"]
  /\ status = [e \in Event |-> "none"]
  /\ attempts = [e \in Event |-> 0]
  /\ lines = [e \in Event |-> <<>>]
  /\ marked = [e \in Event |-> {}]
  /\ left = [e \in Event |-> {}]

-----------------------------------------------------------------------------

\* The active version of the family is retired, and r becomes active if it was
\* a draft: activating an active version again leaves the family with none.
Activate(r) ==
  /\ recipe' = [s \in Recipe |->
                  IF s = r /\ recipe[s] = "draft" THEN "active"
                  ELSE IF recipe[s] = "active" /\ s.family = r.family THEN "retired"
                  ELSE recipe[s]]
  /\ UNCHANGED <<stockVars, consumption>>

ActiveFor(variant) == {r \in Recipe : recipe[r] = "active" /\ r.family = variant}

\* The variant's own recipe comes before the product's.
Chosen(o) == IF ActiveFor(VariantOf(o)) # {} THEN ActiveFor(VariantOf(o)) ELSE ActiveFor(NoVariant)

Scaled(o, r) ==
  [n \in DOMAIN r.lines |-> [item |-> r.lines[n].item, quantity |-> QtyOf(o) * r.lines[n].quantity]]

\* The snapshot of quantities goes in with the order's completion; an order
\* without a recipe has an event without items.
Complete(o) ==
  LET e == <<o, "consume">>
  IN /\ status[e] = "none"
     /\ \/ Chosen(o) = {} /\ lines' = lines
        \/ \E r \in Chosen(o) : lines' = [lines EXCEPT ![e] = Scaled(o, r)]
     /\ status' = [status EXCEPT ![e] = "pending"]
     /\ UNCHANGED <<stockVars, recipe, attempts, marked, left>>

\* The reversal's items are those the event has movements for.
Reverse(o) ==
  LET e == <<o, "consume">>
      r == <<o, "reverse">>
  IN /\ status[e] = "posted"
     /\ status[r] = "none"
     /\ status' = [status EXCEPT ![r] = "pending"]
     /\ lines' = [lines EXCEPT ![r] = [n \in marked[e] |-> lines[e][n]]]
     /\ UNCHANGED <<stockVars, recipe, attempts, marked, left>>

Claimable(e) == status[e] \in {"pending", "failed"}

Claim(e) ==
  /\ Claimable(e)
  /\ status' = [status EXCEPT ![e] = "processing"]
  /\ attempts' = [attempts EXCEPT ![e] = @ + 1]
  /\ left' = [left EXCEPT ![e] = DOMAIN lines[e]]
  /\ UNCHANGED <<stockVars, recipe, lines, marked>>

\* Bug: the key names the event only.
ItemKeyOfEvent(e, n) == <<e, 1>>

ItemKey(e, n) == <<e, n>>

MoveOf(e, n) == <<ItemKey(e, n), "move">>

\* Bug: the reversal is priced at today's average.
ReversalCostToday(e, n) == NoCost

\* A reversal puts back the original's quantity at the original's cost.
ReversalCost(e, n) == moves[MoveOf(<<e[1], "consume">>, n)].cost

ItemRequest(e, n) ==
  LET reverses == e[2] = "reverse"
  IN [kind |-> IF reverses THEN "reversal" ELSE "consumption",
      key |-> ItemKey(e, n), location |-> HomeOf(e[1]), to |-> HomeOf(e[1]),
      item |-> lines[e][n].item, quantity |-> lines[e][n].quantity,
      cost |-> IF reverses THEN ReversalCost(e, n) ELSE NoCost,
      of |-> IF reverses THEN MoveOf(<<e[1], "consume">>, n) ELSE NoMove]

\* createStockMovement for the next item in whatever order their ids have.
ProcessItem(e, n) ==
  /\ status[e] = "processing" /\ n \in left[e]
  /\ Ask(e, ItemRequest(e, n))
  /\ UNCHANGED <<recipe, consumption>>

\* The movement is there, new or from an earlier attempt.
Mark(e, n) ==
  /\ status[e] = "processing" /\ n \in left[e]
  /\ tx[e] = <<>>
  /\ MoveOf(e, n) \in DOMAIN moves
  /\ marked' = [marked EXCEPT ![e] = @ \cup {n}]
  /\ left' = [left EXCEPT ![e] = @ \ {n}]
  /\ UNCHANGED <<stockVars, recipe, status, attempts, lines>>

Finish(e) ==
  /\ status[e] = "processing" /\ tx[e] = <<>> /\ left[e] = {}
  /\ status' = [status EXCEPT ![e] = "posted"]
  /\ UNCHANGED <<stockVars, recipe, attempts, lines, marked, left>>

\* Any step fails: the open transaction rolls back, and the event is retried
\* by hand until it is dead.
Fail(e) ==
  /\ status[e] = "processing"
  /\ IF tx[e] = <<>> THEN UNCHANGED stockVars ELSE RollBack(e)
  /\ status' = [status EXCEPT ![e] = IF attempts[e] >= MaxAttempts THEN "dead" ELSE "failed"]
  /\ left' = [left EXCEPT ![e] = {}]
  /\ UNCHANGED <<recipe, attempts, lines, marked>>

Next ==
  \/ \E p \in Manual, r \in ManualRequest : Ask(p, r) /\ UNCHANGED <<recipe, consumption>>
  \/ \E p \in Process : (Lock(p) \/ Write(p)) /\ UNCHANGED <<recipe, consumption>>
  \/ \E p \in Manual : RollBack(p) /\ UNCHANGED <<recipe, consumption>>
  \/ \E r \in Recipe : Activate(r)
  \/ \E o \in Order : Complete(o) \/ Reverse(o)
  \/ \E e \in Event : Claim(e) \/ Finish(e) \/ Fail(e)
  \/ \E e \in Event : \E n \in DOMAIN lines[e] : ProcessItem(e, n) \/ Mark(e, n)

Spec == Init /\ [][Next]_vars

-----------------------------------------------------------------------------

\* What the movements of e's items say of item i, and what its items ask for.
Moved(e, i) ==
  SumFunction([k \in {k \in DOMAIN moves : /\ k[1] \in {<<e, n>> : n \in DOMAIN lines[e]}
                                          /\ moves[k].item = i} |-> moves[k].quantity])
Asked(e, i) ==
  SumFunction([n \in {n \in DOMAIN lines[e] : lines[e][n].item = i} |-> lines[e][n].quantity])

\* A posted event has moved exactly what the recipe asked for at completion,
\* once for each item, whatever failed and was retried in between and however
\* the recipes changed since.
PostedIsConsumed ==
  \A o \in Order : LET e == <<o, "consume">> IN
    status[e] = "posted" =>
      /\ marked[e] = DOMAIN lines[e]
      /\ \A i \in Item : Moved(e, i) = -Asked(e, i)

\* A posted reversal has put back the quantity and the value of each movement of
\* the consumption, at what it cost then, although the average has moved on.
ReversedExactly ==
  \A o \in Order : status[<<o, "reverse">>] = "posted" =>
    \A n \in DOMAIN lines[<<o, "consume">>] :
      LET taken == MoveOf(<<o, "consume">>, n)
          back == MoveOf(<<o, "reverse">>, n)
      IN /\ back \in DOMAIN moves
         /\ moves[back].quantity + moves[taken].quantity = 0
         /\ moves[back].value + moves[taken].value = 0
         /\ moves[back].event = moves[taken].event

\* Both, and no location holds less than nothing.
ConsumedExactly == PostedIsConsumed /\ ReversedExactly /\ NonNegative
=============================================================================
