------------------------------ MODULE Channels ------------------------------
(***************************************************************************)
(* Order sources, each with the types of order it takes and prices of its  *)
(* own (apps/api/src/modules/orderSources.ts), and the page where an admin *)
(* edits them (apps/admin/src/pages/settings/SourcesSection.tsx).          *)
(*                                                                         *)
(*   server   PutItem and PutCommit (a transaction over the menu's items), *)
(*            CopyRead and CopyCommit (a new source), PatchRead and        *)
(*            PatchWrite                                                   *)
(*   page     Select, Type, SaveMenu, SaveSource, CreateSource, and the    *)
(*            answers; Other callers send what they like                   *)
(*                                                                         *)
(* A price and an availability are one value, Base where there is no rule. *)
(* Names and the order of the sources are left out, as is the reload of    *)
(* the list of sources, while which the page shows nothing to edit.        *)
(* MaxCalls and MaxSelects bound the requests and the choices.             *)
(***************************************************************************)
EXTENDS Integers, Sequences

CONSTANTS Source, NewSource, Order, Price, Base, Page, Other, Nobody, MaxCalls, MaxSelects

VARIABLES
  types,     \* source |-> the types of order it takes
  menus,     \* source |-> product |-> price, as committed
  written,   \* every menu a source ever had
  call,      \* the request of each caller
  page,      \* selected, shown, from, menuLoading, saving
  loads,     \* loads of menus not answered yet
  calls, selects

vars == <<types, menus, written, call, page, loads, calls, selects>>

Products == {Order[i] : i \in DOMAIN Order}
Type == {"takeaway", "delivery"}
Caller == {Page} \cup Other
NoCall == [kind |-> "none"]
Nothing == [p \in {} |-> Base]
Exists(s) == s \in DOMAIN menus

Load(s, last) == [source |-> s, last |-> last, read |-> FALSE, menu |-> Nothing]

Init ==
  /\ types = [s \in Source |-> Type]
  /\ menus = [s \in Source |-> [p \in Products |-> Base]]
  /\ written = [s \in Source |-> {menus[s]}]
  /\ call = [c \in Caller |-> NoCall]
  /\ \E s \in Source :
       /\ page = [selected |-> s, shown |-> Nothing, from |-> Nobody, menuLoading |-> TRUE, saving |-> FALSE]
       /\ loads = << Load(s, FALSE) >>
  /\ calls = 0
  /\ selects = 0

-----------------------------------------------------------------------------
(* The server.                                                             *)

Is(c, kind, at) == call[c].kind = kind /\ call[c].at = at
At(c, at) == call' = [call EXCEPT ![c].at = at]

\* The row another transaction has written and not committed, where this one has something to write.
Blocked(c, p) ==
  LET s == call[c].source IN
  /\ call[c].items[p] # Base \/ menus[s][p] # Base
  /\ \E o \in Caller \ {c} : call[o].kind = "put" /\ call[o].source = s /\ p \in DOMAIN call[o].wrote

\* Bug: the items are written without a transaction.
MenusAfterAtOnce(c, p) == [menus EXCEPT ![call[c].source][p] = call[c].items[p]]

MenusAfter(c, p) == menus

\* A price is inserted or merged; a default deletes the rule, if there is one to see.
PutItem(c) ==
  \E i \in DOMAIN Order :
    LET p == Order[i]
        put == call[c]
    IN
    /\ Is(c, "put", "sent") /\ put.next = i
    /\ IF p \notin DOMAIN put.items
         THEN call' = [call EXCEPT ![c].next = i + 1] /\ UNCHANGED menus
         ELSE /\ ~Blocked(c, p)
              /\ call' = [call EXCEPT ![c].next = i + 1,
                            ![c].wrote = IF put.items[p] = Base /\ menus[put.source][p] = Base THEN @
                                         ELSE [q \in DOMAIN @ \cup {p} |-> put.items[q]]]
              /\ menus' = MenusAfter(c, p)
    /\ UNCHANGED <<types, written, page, loads, calls, selects>>

PutCommit(c) ==
  LET s == call[c].source
      wrote == call[c].wrote
      menu == [p \in Products |-> IF p \in DOMAIN wrote THEN wrote[p] ELSE menus[s][p]]
  IN
  /\ Is(c, "put", "sent") /\ call[c].next = Len(Order) + 1
  /\ menus' = [menus EXCEPT ![s] = menu]
  /\ written' = [written EXCEPT ![s] = @ \cup {menu}]
  /\ call' = [call EXCEPT ![c].at = "done", ![c].wrote = Nothing]
  /\ UNCHANGED <<types, page, loads, calls, selects>>

\* The rules of the source that is copied, in one query.
CopyRead(c) ==
  /\ Is(c, "copy", "sent")
  /\ call' = [call EXCEPT ![c].at = "read", ![c].items = menus[call[c].source]]
  /\ UNCHANGED <<types, menus, written, page, loads, calls, selects>>

CopyCommit(c) ==
  /\ Is(c, "copy", "read")
  /\ menus' = [s \in DOMAIN menus \cup {NewSource} |-> IF s = NewSource THEN call[c].items ELSE menus[s]]
  /\ written' = [s \in DOMAIN menus' |-> IF s = NewSource THEN {call[c].items} ELSE written[s]]
  /\ types' = [s \in DOMAIN menus' |-> IF s = NewSource THEN Type ELSE types[s]]
  /\ At(c, "done")
  /\ UNCHANGED <<page, loads, calls, selects>>

Merged(old, fields) == {t \in Type : IF t \in DOMAIN fields THEN fields[t] ELSE t \in old}

\* The fields sent are merged into the row as it is read; one type of order must remain.
PatchRead(c) ==
  /\ Is(c, "patch", "sent")
  /\ At(c, IF Merged(types[call[c].source], call[c].fields) = {} THEN "failed" ELSE "read")
  /\ UNCHANGED <<types, menus, written, page, loads, calls, selects>>

PatchWrite(c) ==
  /\ Is(c, "patch", "read")
  /\ types' = [types EXCEPT ![call[c].source] = Merged(@, call[c].fields)]
  /\ At(c, "done")
  /\ UNCHANGED <<menus, written, page, loads, calls, selects>>

Fail(c) ==
  /\ call[c].kind # "none"
  /\ call[c].at \notin {"done", "failed"}
  /\ call' = [call EXCEPT ![c] = [@ EXCEPT !.at = "failed", !.wrote = Nothing]]
  /\ UNCHANGED <<types, menus, written, page, loads, calls, selects>>

Serve(c) == PutItem(c) \/ PutCommit(c) \/ CopyRead(c) \/ CopyCommit(c) \/ PatchRead(c) \/ PatchWrite(c)

-----------------------------------------------------------------------------
(* Requests.                                                               *)

RequestOf(kind, s) ==
  [kind |-> kind, at |-> "sent", next |-> 1, source |-> s, from |-> s,
   items |-> Nothing, wrote |-> Nothing, fields |-> Nothing]

PutRequest(s, items, from) == [RequestOf("put", s) EXCEPT !.items = items, !.from = from]

PatchRequest(s, fields) == [RequestOf("patch", s) EXCEPT !.fields = fields]

CopyAllowed == ~Exists(NewSource) /\ \A c \in Caller : call[c].kind # "copy"

Send(c, request) ==
  /\ calls < MaxCalls
  /\ calls' = calls + 1
  /\ call' = [call EXCEPT ![c] = request]

\* Another caller may send any of the fields alone; of both, one must be true.
OtherSends(c) ==
  /\ call[c] = NoCall
  /\ \E s \in DOMAIN menus :
       \/ \E items \in [Products -> Price] : Send(c, PutRequest(s, items, s))
       \/ \E t \in Type : \E on \in BOOLEAN : Send(c, PatchRequest(s, [u \in {t} |-> on]))
       \/ CopyAllowed /\ Send(c, RequestOf("copy", s))
  /\ UNCHANGED <<types, menus, written, page, loads, selects>>

OtherAnswered(c) ==
  /\ call[c].kind # "none"
  /\ call[c].at \in {"done", "failed"}
  /\ call' = [call EXCEPT ![c] = NoCall]
  /\ UNCHANGED <<types, menus, written, page, loads, calls, selects>>

-----------------------------------------------------------------------------
(* The page.                                                               *)

\* A choice loads the menu of the source; loads under way go on.
Select(s) ==
  /\ s # page.selected
  /\ selects < MaxSelects
  /\ selects' = selects + 1
  /\ page' = [page EXCEPT !.selected = s, !.menuLoading = TRUE]
  /\ loads' = Append(loads, Load(s, FALSE))
  /\ UNCHANGED <<types, menus, written, call, calls>>

\* The items are hidden while the page believes that a menu is loading.
TypePrice(p, price) ==
  /\ ~page.menuLoading
  /\ p \in DOMAIN page.shown
  /\ page' = [page EXCEPT !.shown[p] = price]
  /\ UNCHANGED <<types, menus, written, call, loads, calls, selects>>

PageSends(request) ==
  /\ ~page.saving
  /\ page' = [page EXCEPT !.saving = TRUE]
  /\ Send(Page, request)
  /\ UNCHANGED <<types, menus, written, loads, selects>>

SaveMenu == ~page.menuLoading /\ PageSends(PutRequest(page.selected, page.shown, page.from))

SaveSource(fields) == \E t \in Type : fields[t] /\ PageSends(PatchRequest(page.selected, fields))

CreateSource(s) == CopyAllowed /\ PageSends(RequestOf("copy", s))

\* A saved menu is loaded again, whatever is selected by now; a saved or created source is selected.
PageAnswered ==
  LET done == call[Page]
      chosen == IF done.kind = "copy" THEN NewSource ELSE done.source
  IN
  /\ done.kind # "none"
  /\ done.at = "done"
  /\ call' = [call EXCEPT ![Page] = NoCall]
  /\ \/ /\ done.kind = "put"
        /\ page' = [page EXCEPT !.menuLoading = TRUE]
        /\ loads' = Append(loads, Load(done.source, TRUE))
     \/ /\ done.kind # "put"
        /\ page' = [page EXCEPT !.selected = chosen, !.saving = FALSE, !.menuLoading = @ \/ chosen # page.selected]
        /\ loads' = IF chosen = page.selected THEN loads ELSE Append(loads, Load(chosen, FALSE))
  /\ UNCHANGED <<types, menus, written, calls, selects>>

SavingAfterFailure == FALSE

PageFailed ==
  /\ call[Page].kind # "none"
  /\ call[Page].at = "failed"
  /\ call' = [call EXCEPT ![Page] = NoCall]
  /\ page' = [page EXCEPT !.saving = SavingAfterFailure]
  /\ UNCHANGED <<types, menus, written, loads, calls, selects>>

LoadRead(i) ==
  /\ ~loads[i].read
  /\ loads' = [loads EXCEPT ![i].read = TRUE, ![i].menu = menus[loads[i].source]]
  /\ UNCHANGED <<types, menus, written, call, page, calls, selects>>

\* Loads are answered in any order, and each answer replaces the menu that is shown.
LoadEnds(i) ==
  /\ loads' = SubSeq(loads, 1, i - 1) \o SubSeq(loads, i + 1, Len(loads))
  /\ \E failed \in BOOLEAN :
       /\ failed \/ loads[i].read
       /\ page' = [page EXCEPT !.menuLoading = FALSE,
                               !.saving = @ /\ ~loads[i].last,
                               !.shown = IF failed THEN @ ELSE loads[i].menu,
                               !.from = IF failed THEN @ ELSE loads[i].source]
  /\ UNCHANGED <<types, menus, written, call, calls, selects>>

PageStep ==
  \/ \E s \in DOMAIN menus : Select(s) \/ CreateSource(s)
  \/ \E p \in Products : \E price \in Price : TypePrice(p, price)
  \/ \E fields \in [Type -> BOOLEAN] : SaveSource(fields)
  \/ SaveMenu

Next ==
  \/ \E c \in Caller : Serve(c) \/ Fail(c)
  \/ \E c \in Other : OtherSends(c) \/ OtherAnswered(c)
  \/ PageStep
  \/ PageAnswered
  \/ PageFailed
  \/ \E i \in DOMAIN loads : LoadRead(i) \/ LoadEnds(i)

Spec == Init /\ [][Next]_vars

-----------------------------------------------------------------------------
(* Properties.                                                             *)

\* A source that copies another starts with a menu the other had at one moment,
\* never with the items of a save that is half done.
CopiedWhole ==
  [][\A s \in DOMAIN menus' \ DOMAIN menus : \E c \in Caller :
       call[c].kind = "copy" /\ menus'[s] \in written[call[c].source]]_vars

\* SourcesSection.tsx:182 "each source sets its own availability and price"
\* (translated): what is saved as the prices of a source was loaded as its own.
PricesOwn == call[Page].kind = "put" => call[Page].from \in {call[Page].source, Nobody}

\* orderSources.ts:33 "one order type at least must be enabled" (translated).
OrderTypeKept == \A s \in DOMAIN types : types[s] # {}
=============================================================================
