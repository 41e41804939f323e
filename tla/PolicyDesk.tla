----------------------------- MODULE PolicyDesk -----------------------------
(***************************************************************************)
(* The accounting policy of a tenant, for the account or for one branch:   *)
(* GET and PUT /accounting/settings                                        *)
(* (apps/api/src/modules/accountingSettings.ts) and the tab that edits     *)
(* them (apps/admin/src/pages/accounting/components/SettingsTab.tsx).      *)
(* The fields are one value.  The unique index of the settings holds for   *)
(* branches only, as the account's rows have no branch.                    *)
(***************************************************************************)
EXTENDS Naturals, FiniteSets

CONSTANTS
  Branch,
  Account,   \* the scope without a branch
  Value,
  Default,   \* ACCOUNTING_SETTINGS_DEFAULTS
  None,
  MaxLoads,  \* bound: loads sent by the tab
  MaxSaves   \* bound: saves, by the tab and by others

PolicyAssumption ==
  /\ {MaxLoads, MaxSaves} \subseteq Nat
  /\ Account \notin Branch
  /\ None \notin Value \cup {Default} \cup Branch \cup {Account}

VARIABLES
  rows,     \* [scope, value, n, after]: a row with the save that wrote it
  done,     \* saves that are committed; 0 wrote the rows of the beginning
  saves,    \* PUT requests
  made,
  branchId, \* the scope chosen in the tab
  state,    \* loading, ready or error
  form,     \* the fields, with the scope they were answered for
  busy,
  loads,    \* GET requests of the tab
  loaded

server == <<rows, done>>
tabState == <<branchId, state, form>>
vars == <<server, saves, made, tabState, busy, loads, loaded>>

Scope == Branch \cup {Account}

Of(scope) == {r \in rows : r.scope = scope}

\* getAccountingSettings: a branch's row over the account's over the default; of
\* two rows of one scope either may come last.
Effective(scope) ==
  IF Of(scope) # {} THEN {r.value : r \in Of(scope)}
  ELSE IF Of(Account) # {} THEN {r.value : r \in Of(Account)}
  ELSE {Default}

Init ==
  /\ \E with \in SUBSET Scope, v \in Value :
       rows = {[scope |-> s, value |-> v, n |-> 0, after |-> {}] : s \in with}
  /\ done = {0}
  /\ saves = {} /\ made = 0
  /\ branchId = Account /\ state = "loading" /\ form = None /\ busy = FALSE
  /\ loads = {[n |-> 0, scope |-> Account, answer |-> None]} /\ loaded = 0

-----------------------------------------------------------------------------
(* PUT /settings.                                                          *)

Change(s, t) == saves' = (saves \ {s}) \cup {t}

\* The delete of the transaction sees what is committed when it starts.
Start(s) ==
  /\ s.step = "sent"
  /\ Change(s, [s EXCEPT !.step = "started", !.after = done, !.sees = Of(s.scope)])
  /\ UNCHANGED <<server, made, tabState, busy, loads, loaded>>

\* Bug: an insert with onConflict().merge(), as the code had it.
ReplacedOnConflict(s) == IF s.scope = Account THEN {} ELSE s.sees

\* The rows that the delete takes away.
Replaced(s) == s.sees

\* The insert, and the commit; what another admin is answered is left out.
\* The index refuses a second row of a branch.
Commit(s) ==
  /\ s.step = "started"
  /\ LET kept == rows \ Replaced(s)
     IN /\ s.scope # Account => ~\E r \in kept : r.scope = s.scope
        /\ rows' = kept \cup
             {[scope |-> s.scope, value |-> s.value, n |-> s.n, after |-> s.after]}
  /\ done' = done \cup {s.n}
  /\ IF s.page THEN Change(s, [s EXCEPT !.step = "committed", !.sees = {}])
     ELSE saves' = saves \ {s}
  /\ UNCHANGED <<made, tabState, busy, loads, loaded>>

\* The answer is what holds after the commit.
Reply(s) ==
  /\ s.step = "committed"
  /\ \E v \in Effective(s.scope) : Change(s, [s EXCEPT !.step = "replied", !.value = v])
  /\ UNCHANGED <<server, made, tabState, busy, loads, loaded>>

Request(scope, v, from, page) ==
  [n |-> made + 1, scope |-> scope, value |-> v, from |-> from, page |-> page,
   step |-> "sent", after |-> {}, sees |-> {}]

\* Another admin.
OtherSaves(scope, v) ==
  /\ made < MaxSaves /\ made' = made + 1
  /\ saves' = saves \cup {Request(scope, v, scope, FALSE)}
  /\ UNCHANGED <<server, tabState, busy, loads, loaded>>

-----------------------------------------------------------------------------
(* The tab.                                                                *)

Load(scope) ==
  /\ loaded < MaxLoads /\ loaded' = loaded + 1
  /\ state' = "loading"
  /\ loads' = loads \cup {[n |-> loaded + 1, scope |-> scope, answer |-> None]}

\* The scope can be changed at any time, also while a save is under way.
Choose(scope) ==
  /\ scope # branchId
  /\ branchId' = scope
  /\ Load(scope)
  /\ UNCHANGED <<server, saves, made, form, busy>>

Retry ==
  /\ state = "error"
  /\ Load(branchId)
  /\ UNCHANGED <<server, saves, made, branchId, form, busy>>

\* patch
Type(v) ==
  /\ state = "ready" /\ form # None
  /\ v # form.value
  /\ form' = [form EXCEPT !.value = v]
  /\ UNCHANGED <<server, saves, made, branchId, state, busy, loads, loaded>>

\* save: the fields of the form, for the scope that is chosen.
Save ==
  /\ state = "ready" /\ form # None /\ ~busy
  /\ made < MaxSaves /\ made' = made + 1
  /\ busy' = TRUE
  /\ saves' = saves \cup {Request(branchId, form.value, form.from, TRUE)}
  /\ UNCHANGED <<server, tabState, loads, loaded>>

LoadRead(l) ==
  /\ l.answer = None
  /\ \E v \in Effective(l.scope) : loads' = (loads \ {l}) \cup {[l EXCEPT !.answer = v]}
  /\ UNCHANGED <<server, saves, made, tabState, busy, loaded>>

\* Whatever is chosen by now, the fields of the answer are shown.
Loaded(l) ==
  /\ l.answer # None
  /\ form' = [from |-> l.scope, value |-> l.answer]
  /\ state' = "ready"
  /\ loads' = loads \ {l}
  /\ UNCHANGED <<server, saves, made, branchId, busy, loaded>>

\* Bug: a failed load is forgotten.
StateAfterFailureKept == state

StateAfterFailure == "error"

LoadFails(l) ==
  /\ state' = StateAfterFailure
  /\ loads' = loads \ {l}
  /\ UNCHANGED <<server, saves, made, branchId, form, busy, loaded>>

\* So are the fields of the answer to a save.
Saved(s) ==
  /\ s.step = "replied" /\ s.page
  /\ form' = [from |-> s.scope, value |-> s.value]
  /\ busy' = FALSE
  /\ saves' = saves \ {s}
  /\ UNCHANGED <<server, made, branchId, state, loads, loaded>>

\* Bug: only a success gives the button back.
BusyAfterFailureKept(s) == busy

BusyAfterFailure(s) == IF s.page THEN FALSE ELSE busy

\* A save is refused or lost, its transaction is rolled back, or its answer is lost.
SaveFails(s) ==
  /\ busy' = BusyAfterFailure(s)
  /\ saves' = saves \ {s}
  /\ UNCHANGED <<server, made, tabState, loads, loaded>>

-----------------------------------------------------------------------------
Next ==
  \/ \E scope \in Scope : Choose(scope) \/ \E v \in Value : OtherSaves(scope, v)
  \/ \E v \in Value : Type(v)
  \/ Retry \/ Save
  \/ \E l \in loads : LoadRead(l) \/ Loaded(l) \/ LoadFails(l)
  \/ \E s \in saves : Start(s) \/ Commit(s) \/ Reply(s) \/ Saved(s) \/ SaveFails(s)

\* The tab goes on with what is answered or fails.
Spec ==
  /\ Init /\ [][Next]_vars
  /\ WF_vars(\E l \in loads : Loaded(l) \/ LoadFails(l))
  /\ WF_vars(\E s \in saves : s.page /\ (Saved(s) \/ SaveFails(s)))

-----------------------------------------------------------------------------
(* Properties.                                                             *)

\* A save replaces whatever was saved before it, duplicates of the account's row
\* too: two rows of one scope were saved at the same time, so that what GET
\* answers is never older than the last save that had no company.
LaterReplaces ==
  \A q, r \in rows : q.scope = r.scope => q.n \notin r.after

\* "Loading" ends, and the button comes back.
LoadingEnds == state = "loading" ~> state # "loading"
BusyEnds == busy ~> ~busy

\* accounting-chart-settings.test.ts: "upserts account-level settings without
\* creating duplicate rows on repeated saves".
OneRow == \A scope \in Scope : Cardinality(Of(scope)) <= 1

\* "Applies branch overrides without touching account-level values": fields are
\* saved for the scope they were answered for.
ScopeOwn == \A s \in saves : s.from = s.scope
=============================================================================
