------------------------------ MODULE Creation ------------------------------
(***************************************************************************)
(* POST /orders up to the commit of its transaction, against everything    *)
(* that changes under it: the menu, the settings, midnight and the other   *)
(* creations.                                                              *)
(*                                                                         *)
(*   POST /orders     Ask (middleware), Quote (BEGIN, buildOrderQuote),    *)
(*                    InsertOrder and AwaitTurn (the numbering trigger),   *)
(*                    InsertItems (foreign keys), Commit (deferred         *)
(*                    trigger), Drop (error, crash)                        *)
(*   menu             PatchProduct, PatchVariant, PatchGroup, SetAvailable,*)
(*                    Import, ImportExcel, and in two statements each      *)
(*                    Relink, DeleteVariant and DeleteProduct              *)
(*   PATCH /settings  PatchSetting                                         *)
(*                                                                         *)
(* Statements run at READ COMMITTED: each sees what is committed when it   *)
(* starts.  The queries of a quote are one step: what they read is read    *)
(* again by the trigger at the commit, but for is_active of the product    *)
(* and its availability, which nothing looks at after the quote.  An order *)
(* has one line; a product has one variant and there is one modifier       *)
(* group.  Payment and what follows the commit are in Orders and Shifts,   *)
(* which has the amounts too, the kitchen's pause in KitchenPause.         *)
(***************************************************************************)
EXTENDS Integers, FiniteSets, FiniteSetsExt

CONSTANTS
  Branch,
  Account,      \* branch_id NULL: a setting of the whole account
  Product,
  Modifier,     \* the modifiers of the group
  Request,
  Items,        \* the lines that are asked for
  Ahead,        \* Ahead[b]: half-days the branch's timezone is ahead
  Starting,     \* order_starting_number
  MaxClock,     \* bound: half-days that pass
  MaxEdits      \* bound: changes of menu and settings

Item == [product : Product, variant : BOOLEAN, picks : SUBSET Modifier]

ASSUME CreationAssumption ==
  /\ Items \subseteq Item
  /\ Account \notin Branch
  /\ Ahead \in [Branch -> Nat]
  /\ Starting \in Nat
  /\ MaxClock \in Nat /\ MaxEdits \in Nat

VARIABLES
  menu,      \* product, variant: "active", "inactive" or "deleted"; linked: products with
             \* the group; active, min, max: of the group; modifiers: active ones;
             \* available: per branch
  settings,  \* rows: branch or Account, key, value
  editing,   \* menu requests between their two statements
  edits,     \* how many changes were made
  clock,     \* half-days
  request    \* request[r]: the creation

vars == <<menu, settings, editing, edits, clock, request>>

Status == {"active", "inactive", "deleted"}
Key == {"branch_specific_numbering", "order_daily_reset"}
AllDays == -1

\* The defaults of the trigger.
Default(key) == key = "branch_specific_numbering"

Init ==
  /\ menu = [product |-> [p \in Product |-> "active"], variant |-> [p \in Product |-> "active"],
             linked |-> Product, active |-> TRUE, min |-> 1, max |-> 1,
             modifiers |-> Modifier, available |-> [b \in Branch |-> Product]]
  /\ settings \in SUBSET [branch : {Account}, key : Key, value : {FALSE, TRUE}]
  /\ \A s, t \in settings : s.key = t.key => s = t
  /\ editing = {}
  /\ edits = 0
  /\ clock = 0
  /\ request = [r \in Request |-> [at |-> "new"]]

At(r, step) == request[r].at = step

InTransaction(r) == request[r].at \in {"quoted", "waiting", "numbered", "stocked"}

Created == {r \in Request : At(r, "created")}

Sold(p) == \E r \in Created : request[r].item.product = p
SoldVariant(p) == \E r \in Created : request[r].item.product = p /\ request[r].item.variant

-----------------------------------------------------------------------------
(* The menu.                                                               *)

Edit == edits < MaxEdits /\ edits' = edits + 1

\* One statement, or one transaction, that changes the menu.
Write(m) ==
  /\ Edit
  /\ menu' = m
  /\ UNCHANGED <<settings, editing, clock, request>>

PatchProduct(p, s) ==
  /\ menu.product[p] # "deleted"
  /\ Write([menu EXCEPT !.product[p] = s])

PatchVariant(p, s) ==
  /\ menu.variant[p] # "deleted"
  /\ Write([menu EXCEPT !.variant[p] = s])

\* min is the larger of min_select and one for is_required.
PatchGroup(active, min, max) ==
  Write([menu EXCEPT !.active = active, !.min = min, !.max = max])

SetAvailable(b, ps) == Write([menu EXCEPT !.available[b] = ps])

\* POST /products/import of a product that exists, with its variant, the
\* group and the modifiers on: what is listed is activated, unless modifiers
\* are listed as inactive.
Import(p, on) ==
  /\ menu.product[p] # "deleted"
  /\ menu.variant[p] # "deleted"
  /\ Write([menu EXCEPT !.product[p] = "active", !.variant[p] = "active",
                        !.linked = @ \cup {p}, !.modifiers = on])

\* POST /products/import-excel: the products of the sheet's rows.
ImportExcel(ps, s) ==
  Write([menu EXCEPT !.product = [p \in Product |-> IF p \in ps /\ @[p] # "deleted" THEN s ELSE @[p]]])

\* The first statement of a request that has two.
Begin(e, m) ==
  /\ Edit
  /\ editing' = editing \cup {e}
  /\ menu' = m
  /\ UNCHANGED <<settings, clock, request>>

End(e, m) ==
  /\ e \in editing
  /\ editing' = editing \ {e}
  /\ menu' = m
  /\ UNCHANGED <<settings, edits, clock, request>>

\* The request fails or stops between its statements; so does the deletion of
\* a product that something else refers to, such as a recipe.
Abandon(e) == End(e, menu)

\* PUT modifier-groups deletes the links, then inserts them.
Unlink(p) ==
  /\ menu.product[p] # "deleted"
  /\ Begin([kind |-> "relink", product |-> p], [menu EXCEPT !.linked = @ \ {p}])

Relink(e) ==
  /\ e.kind = "relink"
  /\ menu.product[e.product] # "deleted"
  /\ End(e, [menu EXCEPT !.linked = @ \cup {e.product}])

\* DELETE looks for orders first, and refuses.
AskDeleteProduct(p) ==
  /\ menu.product[p] # "deleted"
  /\ ~Sold(p)
  /\ Begin([kind |-> "product", product |-> p], menu)

\* A row is deleted once no transaction that inserted items of it is open, and
\* not at all when items of it are stored.
Keeps(r) == At(r, "stocked") \/ At(r, "created")

\* Bug: the key to products is ON DELETE CASCADE, as those of other tables are.
KeepsNothing(p) == {i \in {} : i.product = p}

KeptItems(p) == {i \in {request[r].item : r \in {r \in Request : Keeps(r)}} : i.product = p}

\* Variants and links are deleted with it.
DeleteProduct(e) ==
  /\ e.kind = "product"
  /\ menu.product[e.product] # "deleted"
  /\ KeptItems(e.product) = {}
  /\ End(e, [menu EXCEPT !.product[e.product] = "deleted", !.variant[e.product] = "deleted",
                         !.linked = @ \ {e.product}])

AskDeleteVariant(p) ==
  /\ menu.variant[p] # "deleted"
  /\ Begin([kind |-> "variant", product |-> p, used |-> SoldVariant(p)], menu)

\* A variant that was sold is deactivated instead.
DeleteVariant(e) ==
  /\ e.kind = "variant"
  /\ menu.variant[e.product] # "deleted"
  /\ \/ e.used /\ End(e, [menu EXCEPT !.variant[e.product] = "inactive"])
     \/ /\ ~e.used
        /\ ~\E i \in KeptItems(e.product) : i.variant
        /\ End(e, [menu EXCEPT !.variant[e.product] = "deleted"])

-----------------------------------------------------------------------------
(* Settings.                                                               *)

\* ON CONFLICT (account_id, branch_id, key) finds the row of a branch.  A row
\* of the account has branch_id NULL, which conflicts with nothing: the new
\* row joins the old ones.
PatchSetting(s) ==
  /\ Edit
  /\ settings' = {t \in settings : s.branch = Account \/ t.branch # s.branch \/ t.key # s.key} \cup {s}
  /\ UNCHANGED <<menu, editing, clock, request>>

\* ORDER BY (branch_id IS NOT NULL) DESC LIMIT 1: the row of the branch, or any
\* one of the account's, or the default.
Values(b, key) ==
  LET of(scope) == {s.value : s \in {t \in settings : t.branch = scope /\ t.key = key}}
  IN IF of(b) # {} THEN of(b) ELSE IF of(Account) # {} THEN of(Account) ELSE {Default(key)}

-----------------------------------------------------------------------------
(* Creation.                                                               *)

\* The rules of validateOrderConfiguration.
Valid(i) ==
  LET offers == menu.active /\ i.product \in menu.linked
  IN /\ i.variant => menu.variant[i.product] = "active"
     /\ i.picks # {} => offers /\ i.picks \subseteq menu.modifiers
     /\ offers => Cardinality(i.picks) \in menu.min .. menu.max

Step(r, to) ==
  /\ request' = [request EXCEPT ![r] = to]
  /\ UNCHANGED <<menu, settings, editing, edits, clock>>

Refuse(r) == Step(r, [at |-> "refused"])

Drop(r) ==
  /\ At(r, "asked") \/ InTransaction(r)
  /\ Refuse(r)

Ask(r, b, i) ==
  /\ At(r, "new")
  /\ menu.product[i.product] = "active" /\ Valid(i)
  /\ Step(r, [at |-> "asked", branch |-> b, item |-> i])

\* CURRENT_TIMESTAMP and created_at are the start of the transaction.
Quote(r) ==
  /\ At(r, "asked")
  /\ LET i == request[r].item
     IN IF /\ menu.product[i.product] = "active" /\ Valid(i)
           /\ i.product \in menu.available[request[r].branch]
        THEN Step(r, [at |-> "quoted", branch |-> request[r].branch, item |-> i, started |-> clock])
        ELSE Refuse(r)

Day(b, time) == (time + Ahead[b]) \div 2

BusinessDay(r) == Day(request[r].branch, request[r].started)

\* v_numbering_key
NumberingKey(r, specific, daily) ==
  [branch |-> IF specific THEN request[r].branch ELSE Account,
   day |-> IF daily THEN BusinessDay(r) ELSE AllDays]

InsertOrder(r) ==
  /\ At(r, "quoted")
  /\ \E specific \in Values(request[r].branch, "branch_specific_numbering"),
        daily \in Values(request[r].branch, "order_daily_reset") :
       Step(r, [at |-> "waiting", branch |-> request[r].branch, item |-> request[r].item,
                started |-> request[r].started, key |-> NumberingKey(r, specific, daily)])

\* Bug: the lock ends with the trigger's statement.
HolderOfStatement(x) == x \notin Request

\* pg_advisory_xact_lock is held to the end of the transaction.
Holder(x) == At(x, "numbered") \/ At(x, "stocked")

\* Bug: max(order_no) forgets the business day.
InScopeAnyDay(r, k) == {x \in Created : k.branch \in {Account, request[x].branch}}

\* The orders that max(order_no) is taken over, in the timezone of r's branch.
InScope(r, k) ==
  {x \in Created : /\ k.branch \in {Account, request[x].branch}
                   /\ k.day \in {AllDays, Day(request[r].branch, request[x].started)}}

NextNumber(r, k) ==
  LET last == {request[x].number : x \in InScope(r, k)}
  IN IF last = {} THEN Starting ELSE Max({Max(last) + 1, Starting})

\* Orders with r's key that the unique index on (numbering_key, order_no) holds;
\* one that is in a transaction is waited for.
Numbered == {x \in Request : Keeps(x) \/ At(x, "numbered")}

Collides(r, n) == \E x \in Numbered : request[x].key = request[r].key /\ request[x].number = n

\* The lock is given, and max is read after it.
AwaitTurn(r) ==
  /\ At(r, "waiting")
  /\ \A x \in Request \ {r} : Holder(x) => request[x].key # request[r].key
  /\ LET n == NextNumber(r, request[r].key)
     IN Step(r, [at |-> IF Collides(r, n) THEN "collided" ELSE "numbered",
                 branch |-> request[r].branch, item |-> request[r].item,
                 started |-> request[r].started, key |-> request[r].key, number |-> n])

\* The foreign keys lock the rows of product and variant against deletion.
InsertItems(r) ==
  /\ At(r, "numbered")
  /\ LET i == request[r].item
     IN IF menu.product[i.product] = "deleted" \/ (i.variant /\ menu.variant[i.product] = "deleted")
        THEN Refuse(r)
        ELSE Step(r, [request[r] EXCEPT !.at = "stocked"])

\* Bug: the trigger at the commit looks at no group the line has no pick of.
RecheckedPicks(i) ==
  /\ i.variant => menu.variant[i.product] = "active"
  /\ i.picks # {} => i.picks \subseteq menu.modifiers /\ menu.active /\ i.product \in menu.linked

\* order_items_configuration_check, deferred: the rules once more.
Rechecked(i) == Valid(i)

Commit(r) ==
  /\ At(r, "stocked")
  /\ IF Rechecked(request[r].item)
     THEN Step(r, [request[r] EXCEPT !.at = "created"])
     ELSE Refuse(r)

-----------------------------------------------------------------------------

Midday ==
  /\ clock < MaxClock
  /\ clock' = clock + 1
  /\ UNCHANGED <<menu, settings, editing, edits, request>>

EditNext ==
  \/ \E p \in Product :
       \/ Unlink(p) \/ AskDeleteProduct(p) \/ AskDeleteVariant(p)
       \/ \E s \in {"active", "inactive"} : PatchProduct(p, s) \/ PatchVariant(p, s)
       \/ \E on \in SUBSET Modifier : Import(p, on)
  \/ \E ps \in SUBSET Product, s \in {"active", "inactive"} : ImportExcel(ps, s)
  \/ \E active \in BOOLEAN, min \in 0 .. 1, max \in 1 .. 2 : PatchGroup(active, min, max)
  \/ \E b \in Branch, ps \in SUBSET Product : SetAvailable(b, ps)
  \/ \E b \in Branch \cup {Account}, k \in Key, v \in BOOLEAN :
       PatchSetting([branch |-> b, key |-> k, value |-> v])
  \/ \E e \in editing : Relink(e) \/ DeleteProduct(e) \/ DeleteVariant(e) \/ Abandon(e)

CreateNext ==
  \E r \in Request :
    \/ \E b \in Branch, i \in Items : Ask(r, b, i)
    \/ Quote(r) \/ InsertOrder(r) \/ AwaitTurn(r) \/ InsertItems(r) \/ Commit(r) \/ Drop(r)

Next == EditNext \/ CreateNext \/ Midday

Spec == Init /\ [][Next]_vars

-----------------------------------------------------------------------------

TypeOK ==
  /\ menu \in [product : [Product -> Status], variant : [Product -> Status],
               linked : SUBSET Product, active : BOOLEAN, min : Nat, max : Nat,
               modifiers : SUBSET Modifier, available : [Branch -> SUBSET Product]]
  /\ settings \in SUBSET [branch : Branch \cup {Account}, key : Key, value : BOOLEAN]
  /\ \A r \in Created : request[r].number \in Nat /\ request[r].item \in Items
  /\ edits \in 0 .. MaxEdits /\ clock \in 0 .. MaxClock

\* While the branches share a timezone no creation fails for its number: not
\* for creations at the same time, not around midnight, and not when settings
\* change or several rows of one setting are there to be picked from.
NeverCollides == \A r \in Request : ~At(r, "collided")

\* The orders of a branch or account, and day, number on without gap or double
\* from the starting number, whatever creations failed between them; as long as
\* they were all numbered by one scope.
NumbersRunOn ==
  \A r \in Created :
    LET k == request[r].key
        orders == {x \in Created : /\ k.branch \in {Account, request[x].branch}
                                   /\ k.day \in {AllDays, BusinessDay(x)}}
    IN (\A x \in orders : request[x].key = k) =>
         {request[x].number : x \in orders} = Starting .. Starting + Cardinality(orders) - 1

\* "A product that is already referenced by an order cannot be physically
\* deleted" (productDelete.ts), nor can a variant, though the look for orders
\* and the deletion are two statements and a creation may come between.
SoldRowsRemain ==
  \A r \in Created : LET i == request[r].item
                     IN menu.product[i.product] # "deleted"
                        /\ (i.variant => menu.variant[i.product] # "deleted")

\* The choices that could be made of a product.
Offered(p) ==
  LET group == menu.active /\ p \in menu.linked
  IN [product : {p},
      variant : {FALSE} \cup {v \in {TRUE} : menu.variant[p] = "active"},
      picks : {ps \in SUBSET menu.modifiers :
                 IF group THEN menu.min <= Cardinality(ps) /\ Cardinality(ps) <= menu.max ELSE ps = {}}]

\* Whatever changed between quote and commit, the order that is committed has a
\* variant and choices that the menu offers at that moment.
ChosenAsOffered ==
  [][\A r \in Request :
       (r \notin Created /\ r \in Created') => request[r].item \in Offered(request[r].item.product)]_vars
=============================================================================
