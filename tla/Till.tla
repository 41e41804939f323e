------------------------------- MODULE Till ---------------------------------
(***************************************************************************)
(* The till in the browser (apps/admin/src/pages/pos): the draft of an     *)
(* order, whom it goes to, the lists that are loaded for it, the quote of  *)
(* the server and the order that is sent.                                  *)
(*                                                                         *)
(* Answers of the server arrive in any order and at any time.  What asks   *)
(* again guards itself in three ways: sources and zones by a flag that the *)
(* effect's cleanup sets, the quote by the flag and by the draft it was    *)
(* asked for, settings, menu and the saving of a customer not at all.      *)
(*                                                                         *)
(* A step is an event together with the renders and effects it causes.     *)
(* The payment method, the shift and the kitchen's pause only disable the  *)
(* button, as does a customer who is missing; they are left out or not     *)
(* asked for: the till may send more often here.                           *)
(***************************************************************************)
EXTENDS Integers

CONSTANTS
  Branches,
  Sources,
  Zones,
  Customers,
  None,
  SourcesFor,    \* SourcesFor[t]: active order sources of type t
  TypesOf,       \* TypesOf[b]: order types that b's settings enable
  Discounting,   \* branches whose settings have allow_discounts
  MaxQty,        \* bound: pieces in the cart
  MaxMenuCalls   \* bound: loads of the menu whose answers are told apart

OrderType == {"takeaway", "delivery"}

TillAssumption ==
  /\ None \notin Branches \cup Sources \cup Zones \cup Customers
  /\ SourcesFor \in [OrderType -> SUBSET Sources]
  /\ TypesOf \in [Branches -> SUBSET OrderType]
  /\ Discounting \subseteq Branches
  /\ MaxQty \in Nat \ {0}
  /\ MaxMenuCalls \in Nat \ {0}

VARIABLES
  draft,        \* what the cashier chose: a Draft
  customer,     \* whom it is delivered to, and whose address it shows
  address,
  saving,       \* quickBusy: the customer that is being saved
  settings,     \* the branch whose settings are held
  sources,      \* the sources and zones to choose from
  zones,
  menuLoaded,
  settingsCalls, sourceCalls, zoneCalls, menuCalls,  \* loads under way
  quote,        \* quoteState: the payload that it is the quote of
  quoteBusy, quoteError,
  asking,       \* the quote effect that is not cancelled
  sending       \* fireOrder: "no", "posting", or "refreshing" after the answer

delivery == <<customer, address, saving>>
lists == <<settings, sources, zones, menuLoaded>>
calls == <<settingsCalls, sourceCalls, zoneCalls, menuCalls>>
quoting == <<quote, quoteBusy, quoteError, asking>>
vars == <<draft, delivery, lists, calls, quoting, sending>>

Draft == [branch : Branches \cup {None}, type : OrderType,
          source : Sources \cup {None}, zone : Zones \cup {None},
          discount : {0, 1}, qty : 0..MaxQty]

NotAsking == [stage |-> "none", of |-> None]

TypeOK ==
  /\ draft \in Draft
  /\ customer \in Customers \cup {None}
  /\ address \in Customers \cup {None}
  /\ saving \in Customers \cup {None}
  /\ settings \in Branches \cup {None}
  /\ sources \subseteq Sources
  /\ zones \subseteq Zones
  /\ menuLoaded \in BOOLEAN
  /\ settingsCalls \subseteq Branches
  /\ sourceCalls \subseteq [type : OrderType, live : BOOLEAN]
  /\ zoneCalls \subseteq BOOLEAN
  /\ menuCalls \in 0..MaxMenuCalls
  /\ quote \in Draft \cup {None}
  /\ quoteBusy \in BOOLEAN
  /\ quoteError \in BOOLEAN
  /\ asking \in [stage : {"timer", "asked"}, of : Draft] \cup {NotAsking}
  /\ sending \in {"no", "posting", "refreshing"}

Init ==
  /\ draft = [branch |-> None, type |-> "takeaway", source |-> None,
              zone |-> None, discount |-> 0, qty |-> 0]
  /\ customer = None
  /\ address = None
  /\ saving = None
  /\ settings = None
  /\ sources = {}
  /\ zones = {}
  /\ menuLoaded = FALSE
  /\ settingsCalls = {}
  /\ sourceCalls = {}
  /\ zoneCalls = {}
  /\ menuCalls = 0
  /\ quote = None
  /\ quoteBusy = FALSE
  /\ quoteError = FALSE
  /\ asking = NotAsking
  /\ sending = "no"

-----------------------------------------------------------------------------
(* The quote.                                                              *)

Discounts(s) == s \in Discounting

\* What the quote is asked for, and its key: a discount counts only where the
\* settings held allow it.
Payload(d, s) == [d EXCEPT !.discount = IF Discounts(s) THEN @ ELSE 0]

\* Bug: the order carries the discount of the draft whatever the settings allow.
RawBody(d, s) == d

\* The same fields once more, as fireOrder writes them into the order.
Body(d, s) == [d EXCEPT !.discount = IF Discounts(s) THEN @ ELSE 0]

Complete(d) ==
  /\ d.branch # None
  /\ d.source # None
  /\ d.qty > 0
  /\ d.type = "delivery" => d.zone # None

\* quoteState is kept when the draft changes and counts while its key is the
\* draft's, also when the draft was changed and changed back.
IsCurrent(q, d, s) == q # None /\ q = Payload(d, s)

CurrentQuote == IF IsCurrent(quote, draft, settings) THEN quote ELSE None

\* Bug: a draft that is no longer complete leaves the till calculating.
AskKeepsBusy(d, s) ==
  IF Complete(d)
    THEN /\ asking' = [stage |-> "timer", of |-> Payload(d, s)]
         /\ quoteBusy' = TRUE
         /\ quoteError' = FALSE
         /\ UNCHANGED quote
    ELSE /\ asking' = NotAsking
         /\ quote' = None
         /\ quoteError' = FALSE
         /\ UNCHANGED quoteBusy

\* The effect runs again: its cleanup cancels the timer or the answer of the
\* run before.
AskQuote(d, s) ==
  IF Complete(d)
    THEN /\ asking' = [stage |-> "timer", of |-> Payload(d, s)]
         /\ quoteBusy' = TRUE
         /\ quoteError' = FALSE
         /\ UNCHANGED quote
    ELSE /\ asking' = NotAsking
         /\ quote' = None
         /\ quoteBusy' = FALSE
         /\ quoteError' = FALSE

\* Draft and settings become d and s; quotePayload is memoised on both.
Becomes(d, s) ==
  /\ draft' = d
  /\ settings' = s
  /\ IF d = draft /\ Discounts(s) = Discounts(settings)
       THEN UNCHANGED quoting
       ELSE AskQuote(d, s)

TimerFires ==
  /\ asking.stage = "timer"
  /\ asking' = [asking EXCEPT !.stage = "asked"]
  /\ UNCHANGED <<draft, delivery, lists, calls, quote, quoteBusy, quoteError, sending>>

\* The server quotes the payload or refuses it.
QuoteAnswer(ok) ==
  /\ asking.stage = "asked"
  /\ quote' = IF ok THEN asking.of ELSE None
  /\ quoteError' = ~ok
  /\ quoteBusy' = FALSE
  /\ asking' = NotAsking
  /\ UNCHANGED <<draft, delivery, lists, calls, sending>>

-----------------------------------------------------------------------------
(* Loads.                                                                  *)

MoreMenu(n) ==
  menuCalls' = IF menuCalls + n > MaxMenuCalls THEN MaxMenuCalls ELSE menuCalls + n

Cancelled(cs) == {[c EXCEPT !.live = FALSE] : c \in cs}

\* The effects on branch and order type: no source, and none to choose from,
\* until those of the type arrive; zones only for a delivery.
Reload(b, t) ==
  /\ sources' = {}
  /\ sourceCalls' = Cancelled(sourceCalls) \cup
       (IF b = None THEN {} ELSE {[type |-> t, live |-> TRUE]})
  /\ zones' = IF t = "delivery" THEN zones ELSE {}
  /\ zoneCalls' = {FALSE : c \in zoneCalls} \cup (IF t = "delivery" THEN {TRUE} ELSE {})

Reset(d, t) ==
  [d EXCEPT !.type = t, !.source = None, !.zone = IF t = "delivery" THEN @ ELSE None]

\* The first branch when the list arrives, then the cashier's choice.  Bound: not
\* a branch whose settings are still on their way.
ChooseBranch(b) ==
  /\ b # draft.branch /\ b \notin settingsCalls
  /\ Becomes(Reset([draft EXCEPT !.branch = b], draft.type), settings)
  /\ Reload(b, draft.type)
  /\ settingsCalls' = settingsCalls \cup {b}
  /\ MoreMenu(IF draft.source = None THEN 2 ELSE 3)
  /\ UNCHANGED <<delivery, menuLoaded, sending>>

\* Only types that the settings held enable have a button.
ChooseType(t) ==
  /\ settings # None => t \in TypesOf[settings]
  /\ Becomes([Reset(draft, t) EXCEPT !.zone = None], settings)
  /\ IF t = draft.type
       THEN UNCHANGED <<sources, zones, sourceCalls, zoneCalls>>
       ELSE Reload(draft.branch, t)
  /\ MoreMenu(IF draft.branch # None /\ (t # draft.type \/ draft.source # None) THEN 1 ELSE 0)
  /\ UNCHANGED <<delivery, menuLoaded, settingsCalls, sending>>

\* Whichever branch the answer is for, it replaces the settings; an order type
\* that they disable gives way to the other one if that is enabled.
SettingsAnswer(b) ==
  LET other == CHOOSE t \in OrderType : t # draft.type
      switch == draft.type \notin TypesOf[b] /\ other \in TypesOf[b]
  IN /\ settingsCalls' = settingsCalls \ {b}
     /\ Becomes(IF switch THEN Reset(draft, other) ELSE draft, b)
     /\ IF switch
          THEN /\ Reload(draft.branch, other)
               /\ MoreMenu(IF draft.source = None THEN 1 ELSE 2)
          ELSE UNCHANGED <<sources, zones, sourceCalls, zoneCalls, menuCalls>>
     /\ UNCHANGED <<delivery, menuLoaded, sending>>

\* Bug: the cleanup does not cancel the load before.
AlwaysHeard(c) == TRUE

Heard(c) == c.live

SourcesAnswer(c) ==
  /\ sourceCalls' = sourceCalls \ {c}
  /\ sources' = IF Heard(c) THEN SourcesFor[c.type] ELSE sources
  /\ UNCHANGED <<draft, delivery, settings, zones, menuLoaded, settingsCalls,
                 zoneCalls, menuCalls, quoting, sending>>

\* Zones may have been switched off meanwhile; a chosen one of those is dropped.
ZonesAnswer(live, active) ==
  /\ zoneCalls' = zoneCalls \ {live}
  /\ IF live
       THEN /\ zones' = active
            /\ Becomes([draft EXCEPT !.zone = IF @ \in active THEN @ ELSE None], settings)
       ELSE /\ zones' = zones
            /\ Becomes(draft, settings)
  /\ UNCHANGED <<delivery, sources, menuLoaded, settingsCalls, sourceCalls, menuCalls,
                 sending>>

\* A new menu gives every cart line its product again, and a new cart asks for
\* a new quote, whatever has changed.
MenuAnswer ==
  /\ menuCalls > 0
  /\ menuCalls' = menuCalls - 1
  /\ menuLoaded' = TRUE
  /\ AskQuote(draft, settings)
  /\ UNCHANGED <<draft, delivery, settings, sources, zones, settingsCalls,
                 sourceCalls, zoneCalls, sending>>

\* A load fails: an error is shown, and nothing asks again.
LoadFails ==
  /\ \/ /\ \E b \in settingsCalls : settingsCalls' = settingsCalls \ {b}
        /\ UNCHANGED <<sourceCalls, zoneCalls, menuCalls>>
     \/ /\ \E c \in sourceCalls : sourceCalls' = sourceCalls \ {c}
        /\ UNCHANGED <<settingsCalls, zoneCalls, menuCalls>>
     \/ /\ \E live \in zoneCalls : zoneCalls' = zoneCalls \ {live}
        /\ UNCHANGED <<settingsCalls, sourceCalls, menuCalls>>
     \/ /\ menuCalls > 0
        /\ menuCalls' = menuCalls - 1
        /\ UNCHANGED <<settingsCalls, sourceCalls, zoneCalls>>
  /\ UNCHANGED <<draft, delivery, lists, quoting, sending>>

-----------------------------------------------------------------------------
(* The cashier edits and sends, also while an order is being sent.         *)

Edit(d) ==
  /\ d # draft
  /\ Becomes(d, settings)
  /\ UNCHANGED <<delivery, sources, zones, menuLoaded, settingsCalls, sourceCalls,
                 zoneCalls, sending>>

AddProduct ==
  /\ menuLoaded /\ draft.qty < MaxQty
  /\ Edit([draft EXCEPT !.qty = @ + 1])
  /\ UNCHANGED menuCalls

RemovePieces(n) ==
  /\ Edit([draft EXCEPT !.qty = n])
  /\ UNCHANGED menuCalls

\* The field is there unless settings forbid discounts.
EnterDiscount ==
  /\ settings # None => Discounts(settings)
  /\ Edit([draft EXCEPT !.discount = 1 - @])
  /\ UNCHANGED menuCalls

PickSource(s) ==
  /\ Edit([draft EXCEPT !.source = s])
  /\ MoreMenu(IF draft.branch = None THEN 0 ELSE 1)

PickZone(z) ==
  /\ draft.type = "delivery"
  /\ Edit([draft EXCEPT !.zone = z])
  /\ UNCHANGED menuCalls

\* selectDeliveryCustomer: with a customer comes an address of theirs, if any.
Select(c) ==
  /\ customer' = c
  /\ address' \in {None, c}

PickCustomer(c) ==
  /\ draft.type = "delivery"
  /\ Select(c)
  /\ UNCHANGED <<draft, saving, lists, calls, quoting, sending>>

PickAddress(a) ==
  /\ draft.type = "delivery" /\ customer # None
  /\ address' = a
  /\ UNCHANGED <<draft, customer, saving, lists, calls, quoting, sending>>

\* A dialog saves a new address or phone of the customer, or a new customer.  It
\* can be closed, and anything done, before the answer.
Save(c) ==
  /\ saving = None
  /\ saving' = c
  /\ UNCHANGED <<draft, customer, address, lists, calls, quoting, sending>>

\* Bug: only the new address is set.
AddressOnly(c) ==
  /\ address' = c
  /\ UNCHANGED customer

\* loadCustomers selects the customer that was saved, whoever is by now; after
\* that the new address, or one of the customer's, is set.
Saved(c) == Select(c)

SaveEnds(ok) ==
  /\ saving # None
  /\ saving' = None
  /\ IF ok THEN Saved(saving) ELSE UNCHANGED <<customer, address>>
  /\ UNCHANGED <<draft, lists, calls, quoting, sending>>

Ready ==
  /\ sending = "no"
  /\ ~quoteError /\ ~quoteBusy
  /\ Complete(draft)
  /\ CurrentQuote # None

FireOrder ==
  /\ Ready
  /\ sending' = "posting"
  /\ UNCHANGED <<draft, delivery, lists, calls, quoting>>

\* The answer empties the draft as it is by now, and not as it was sent.
OrderAccepted ==
  /\ sending = "posting"
  /\ sending' = "refreshing"
  /\ Becomes([draft EXCEPT !.qty = 0, !.discount = 0, !.zone = None], settings)
  /\ customer' = None
  /\ address' = None
  /\ UNCHANGED <<saving, sources, zones, menuLoaded, calls>>

\* Refused, or the answer is lost: the draft stays and may be sent again.
OrderFailed ==
  /\ sending = "posting"
  /\ sending' = "no"
  /\ UNCHANGED <<draft, delivery, lists, calls, quoting>>

\* refreshShift and refreshHistory are answered.
Refreshed ==
  /\ sending = "refreshing"
  /\ sending' = "no"
  /\ UNCHANGED <<draft, delivery, lists, calls, quoting>>

-----------------------------------------------------------------------------

Next ==
  \/ TimerFires \/ \E ok \in BOOLEAN : QuoteAnswer(ok)
  \/ \E b \in Branches : ChooseBranch(b)
  \/ \E t \in OrderType : ChooseType(t)
  \/ \E b \in settingsCalls : SettingsAnswer(b)
  \/ \E c \in sourceCalls : SourcesAnswer(c)
  \/ \E live \in zoneCalls, active \in SUBSET Zones : ZonesAnswer(live, active)
  \/ MenuAnswer \/ LoadFails
  \/ AddProduct \/ \E n \in 0..draft.qty : RemovePieces(n)
  \/ EnterDiscount
  \/ \E s \in sources \cup {None} : PickSource(s)
  \/ \E z \in zones \cup {None} : PickZone(z)
  \/ \E c \in Customers \cup {None} : PickCustomer(c)
  \/ \E a \in {None, customer} : PickAddress(a)
  \/ \E c \in Customers : Save(c)
  \/ \E ok \in BOOLEAN : SaveEnds(ok)
  \/ FireOrder \/ OrderAccepted \/ OrderFailed \/ Refreshed

\* The browser runs timers and ends every fetch with an answer or an error.
Fairness ==
  /\ WF_vars(TimerFires)
  /\ WF_vars(\E ok \in BOOLEAN : QuoteAnswer(ok))

Spec == Init /\ [][Next]_vars /\ Fairness

-----------------------------------------------------------------------------

\* An order is sent only when the total on the screen is the server's quote for
\* the very order that goes out, whatever was edited, loaded, answered late or
\* undone since it was asked for.
SentAsQuoted ==
  [][sending = "no" /\ sending' = "posting" => quote = Body(draft, settings)]_vars

\* The chosen source and zone are always among those on offer, which are those of
\* the chosen order type, however late the lists of an earlier type or branch
\* arrive; and the address is the customer's, whichever customer was chosen while
\* another one's was being saved.  What a list no longer shows is not sent.
ChoicesOffered ==
  /\ draft.source # None => draft.source \in sources /\ sources = SourcesFor[draft.type]
  /\ draft.zone # None => draft.type = "delivery" /\ draft.zone \in zones
  /\ address # None => address = customer

\* Once draft and settings stay as they are, the total settles: the till stops
\* calculating, and has a quote or an error for an order that is complete.
QuoteSettles ==
  <>[][UNCHANGED <<draft, settings>>]_vars =>
    <>[](~quoteBusy /\ (Complete(draft) => CurrentQuote # None \/ quoteError))
=============================================================================
