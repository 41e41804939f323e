------------------------------ MODULE ChartTab ------------------------------
(***************************************************************************)
(* The tab of the chart of accounts and of the mappings                    *)
(* (apps/admin/src/pages/accounting/components/ChartMappingsTab.tsx): four *)
(* dialogs, for new and for known accounts and mappings, each with its own *)
(* fields and its own busy mark, over one list that is loaded again after  *)
(* every save.  While it loads nothing of the tab is mounted but its own   *)
(* state.  What the server accepts is left to Chart.                       *)
(***************************************************************************)
EXTENDS Naturals

CONSTANTS
  Account,
  Mapping,
  None,
  MaxValue,  \* the fields of a row are one value, 0..MaxValue; 0 is no row yet
  MaxSaves,  \* bound: saves sent
  MaxOpens   \* bound: dialogs opened

TabAssumption ==
  /\ MaxValue \in Nat \ {0} /\ {MaxSaves, MaxOpens} \subseteq Nat
  /\ Account \cap Mapping = {}
  /\ None \notin Account \cup Mapping

VARIABLES
  stored,  \* the server's rows
  state,   \* loading, ready or error
  listed,  \* the rows on the screen
  open,    \* creatingAccount, editingAccount, creatingMapping, editingMapping
  form,    \* the fields of each dialog, with the row they were taken from
  busy,
  saves,   \* requests to save
  loads,   \* requests for the list
  made,    \* number of saves sent
  opens,
  lost     \* history: rows for which the answer to a write was lost

page == <<state, listed>>
dialogs == <<open, form, busy>>
requests == <<saves, loads, made, opens, lost>>
vars == <<stored, page, dialogs, requests>>

Row == Account \cup Mapping
Dialog == {"newAccount", "account", "newMapping", "mapping"}
FieldValue == 0..MaxValue

Rows(d) == IF d \in {"newAccount", "account"} THEN Account ELSE Mapping
IsNew(d) == d \in {"newAccount", "newMapping"}

Empty == [from |-> None, value |-> 0]

Init ==
  /\ stored \in [Row -> {0, 1}]
  /\ state = "loading" /\ listed = [r \in Row |-> 0]
  /\ open = [d \in Dialog |-> Empty]
  /\ form = [d \in Dialog |-> Empty]
  /\ busy = [d \in Dialog |-> FALSE]
  /\ saves = {} /\ made = 0 /\ opens = 0
  /\ loads = {[n |-> 0, rows |-> None]}
  /\ lost = {}

-----------------------------------------------------------------------------
(* Dialogs.  Each covers the page, so that one is opened at a time.        *)

NoneOpen == \A d \in Dialog : open[d] = Empty

\* Bug: the fields are taken from the row when the dialog is mounted only.
FieldsAsMounted(d, row) == IF form[d] = Empty THEN row ELSE form[d]

\* The effect of the dialog when its row changes.
Fields(d, row) == row

\* A new row, or one of the list with its fields as they are listed.
OpenDialog(d) ==
  /\ state = "ready" /\ NoneOpen
  /\ opens < MaxOpens /\ opens' = opens + 1
  /\ \E r \in Rows(d) :
       /\ IsNew(d) <=> listed[r] = 0
       /\ LET row == [from |-> r, value |-> listed[r]]
          IN /\ open' = [open EXCEPT ![d] = row]
             /\ form' = [form EXCEPT ![d] = Fields(d, row)]
  /\ UNCHANGED <<stored, page, busy, saves, loads, made, lost>>

Type(d, v) ==
  /\ state = "ready" /\ open[d] # Empty
  /\ v # form[d].value /\ v # 0
  /\ form' = [form EXCEPT ![d].value = v]
  /\ UNCHANGED <<stored, page, open, busy, requests>>

CloseDialog(d) ==
  /\ state = "ready" /\ open[d] # Empty
  /\ open' = [open EXCEPT ![d] = Empty]
  /\ UNCHANGED <<stored, page, form, busy, requests>>

\* Save: the fields, for the row of the dialog.
Save(d) ==
  /\ state = "ready" /\ open[d] # Empty
  /\ ~busy[d] /\ form[d].value # 0
  /\ made < MaxSaves /\ made' = made + 1
  /\ busy' = [busy EXCEPT ![d] = TRUE]
  /\ saves' = saves \cup
       {[d |-> d, id |-> open[d].from, fields |-> form[d], mounted |-> TRUE, done |-> FALSE,
         n |-> made]}
  /\ UNCHANGED <<stored, page, open, form, loads, opens, lost>>

-----------------------------------------------------------------------------
(* Answers.                                                                *)

\* POST refuses a row that is there, PATCH one that is not.
Write(s) ==
  /\ ~s.done
  /\ IsNew(s.d) <=> stored[s.id] = 0
  /\ stored' = [stored EXCEPT ![s.id] = s.fields.value]
  /\ saves' = (saves \ {s}) \cup {[s EXCEPT !.done = TRUE]}
  /\ UNCHANGED <<page, dialogs, loads, made, opens, lost>>

\* The list is asked for; the dialogs are not mounted meanwhile, and forget.
Load(sent) ==
  /\ state' = "loading"
  /\ loads' = loads \cup {[n |-> sent.n + 1, rows |-> None]}
  /\ saves' = {[t EXCEPT !.mounted = FALSE] : t \in saves \ {sent}}

\* onSaved closes the dialog, whatever it is open for by now, and loads.
Saved(s) ==
  /\ s.done
  /\ open' = [open EXCEPT ![s.d] = Empty]
  /\ busy' = [d \in Dialog |-> FALSE]
  /\ form' = [d \in Dialog |-> Empty]
  /\ Load(s)
  /\ UNCHANGED <<stored, listed, made, opens, lost>>

\* Bug: a save that was refused leaves its mark.
BusyAfterKept(s) == TRUE

BusyAfter(s) == IF s.mounted THEN FALSE ELSE busy[s.d]

\* A save is refused or lost, or its answer is: the fields stay.
SaveFails(s) ==
  /\ saves' = saves \ {s}
  /\ busy' = [busy EXCEPT ![s.d] = BusyAfter(s)]
  /\ lost' = IF s.done THEN lost \cup {s.id} ELSE lost
  /\ UNCHANGED <<stored, page, open, form, loads, made, opens>>

LoadRead(l) ==
  /\ l.rows = None
  /\ loads' = (loads \ {l}) \cup {[l EXCEPT !.rows = stored]}
  /\ UNCHANGED <<stored, page, dialogs, saves, made, opens, lost>>

\* The dialogs are mounted again, with the rows they were opened for.
LoadAnswered(l) ==
  /\ l.rows # None
  /\ listed' = l.rows
  /\ state' = "ready"
  /\ form' = [d \in Dialog |-> IF state = "ready" THEN form[d] ELSE open[d]]
  /\ loads' = loads \ {l}
  /\ UNCHANGED <<stored, open, busy, saves, made, opens, lost>>

LoadFails(l) ==
  /\ state' = "error"
  /\ loads' = loads \ {l}
  /\ saves' = {[s EXCEPT !.mounted = FALSE] : s \in saves}
  /\ busy' = [d \in Dialog |-> FALSE]
  /\ form' = [d \in Dialog |-> Empty]
  /\ UNCHANGED <<stored, listed, open, made, opens, lost>>

\* The button of the error.
Retry ==
  /\ state = "error"
  /\ state' = "loading"
  /\ loads' = loads \cup {[n |-> 0, rows |-> None]}
  /\ UNCHANGED <<stored, listed, dialogs, saves, made, opens, lost>>

-----------------------------------------------------------------------------
Next ==
  \/ \E d \in Dialog :
       \/ OpenDialog(d) \/ CloseDialog(d) \/ Save(d)
       \/ \E v \in FieldValue : Type(d, v)
  \/ \E s \in saves : Write(s) \/ Saved(s) \/ SaveFails(s)
  \/ \E l \in loads : LoadRead(l) \/ LoadAnswered(l) \/ LoadFails(l)
  \/ Retry

\* The page goes on with what is answered or fails.
Spec ==
  /\ Init /\ [][Next]_vars
  /\ WF_vars(\E s \in saves : Saved(s) \/ SaveFails(s))
  /\ WF_vars(\E l \in loads : LoadAnswered(l) \/ LoadFails(l))

-----------------------------------------------------------------------------
(* Properties.                                                             *)

\* Whichever dialogs were opened, closed and taken away by a list that loads
\* meanwhile, fields go to the row they were taken from.
SavedFromOwnRow == \A s \in saves : s.fields.from = s.id

\* Every save ends, and the buttons of its dialog come back.
BusyEnds == \A d \in Dialog : busy[d] ~> ~busy[d]

\* AccountingPage.tsx: "refreshes from the server after every write".  With every
\* answer in, the list shows what is stored, but for writes whose answer was lost.
ListShowsWrites ==
  (saves = {} /\ loads = {} /\ state = "ready") =>
    \A r \in Row \ lost : listed[r] = stored[r]
=============================================================================
