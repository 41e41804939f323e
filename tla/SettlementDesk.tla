--------------------------- MODULE SettlementDesk ---------------------------
(***************************************************************************)
(* The tab for the settlement of rounding residuals                        *)
(* (apps/admin/src/pages/accounting/components/SettlementTab.tsx): open    *)
(* residuals are listed by a filter that a button applies, and a dialog    *)
(* settles those of the filter with a key that each opening makes anew.    *)
(* Entries and periods are left to Settlement: here a settlement takes the *)
(* open residuals of its filter, or answers what its key did before.       *)
(***************************************************************************)
EXTENDS Naturals, FiniteSets

CONSTANTS
  Residual,
  Branch,
  All,
  None,
  MaxLoads,    \* bound: lists asked for, by filters and by settlements
  MaxOpenings  \* bound: dialogs opened

SettlementAssumption ==
  /\ {MaxLoads, MaxOpenings} \subseteq Nat
  /\ All \notin Branch

VARIABLES
  branch,   \* of each residual
  unsettled,\* the open residuals
  answers,  \* what each key settled
  filters,
  state,    \* loading, ready or error
  shown,    \* the filter of the totals on the screen
  key,      \* idempotencyKey; None while executing is false
  result,
  busy,
  loads,
  settles,  \* requests to settle
  loaded,
  keys      \* number of keys made

server == <<branch, unsettled, answers>>
list == <<filters, state, shown, loads, loaded>>
dialog == <<key, result, busy, settles, keys>>
vars == <<server, list, dialog>>

BranchFilter == {All} \cup Branch

Init ==
  /\ branch \in [Residual -> Branch]
  /\ unsettled \in SUBSET Residual
  /\ answers = [k \in 1..MaxOpenings |-> None]
  /\ filters = All /\ state = "loading" /\ shown = None
  /\ loads = {[n |-> 0, filters |-> All]} /\ loaded = 0
  /\ key = None /\ result = None /\ busy = FALSE
  /\ settles = {} /\ keys = 0

-----------------------------------------------------------------------------
(* The server.                                                             *)

Scope(f) == {r \in unsettled : f = All \/ branch[r] = f}

\* POST /reconciliation/settle: a key that was used answers what it did.
Settle(s) ==
  /\ s.settled = None
  /\ LET done == IF answers[s.key] = None THEN Scope(s.filters) ELSE answers[s.key]
     IN /\ answers' = [answers EXCEPT ![s.key] = done]
        /\ settles' = (settles \ {s}) \cup {[s EXCEPT !.settled = done]}
        /\ unsettled' = IF answers[s.key] = None THEN unsettled \ done ELSE unsettled
  /\ UNCHANGED <<branch, list, key, result, busy, keys>>

-----------------------------------------------------------------------------
(* The list.                                                               *)

Request(f) ==
  /\ state' = "loading"
  /\ loaded' = loaded + 1
  /\ loads' = loads \cup {[n |-> loaded + 1, filters |-> f]}

\* The button that applies the draft, when no dialog covers it.
Apply(f) ==
  /\ key = None /\ loaded < MaxLoads
  /\ f # filters
  /\ filters' = f
  /\ Request(f)
  /\ UNCHANGED <<server, shown, dialog>>

\* Whatever is chosen by now, the totals of the answer are shown.
Listed(l) ==
  /\ shown' = l.filters
  /\ state' = "ready"
  /\ loads' = loads \ {l}
  /\ UNCHANGED <<server, filters, loaded, dialog>>

ListFails(l) ==
  /\ state' = "error"
  /\ loads' = loads \ {l}
  /\ UNCHANGED <<server, filters, shown, loaded, dialog>>

\* The button of the error.
Retry ==
  /\ state = "error" /\ key = None /\ loaded < MaxLoads
  /\ Request(filters)
  /\ UNCHANGED <<server, filters, shown, dialog>>

-----------------------------------------------------------------------------
(* The dialog.                                                             *)

\* Bug: the key is made once.
KeyOfOpeningOnce == 1

\* openExecute
KeyOfOpening == keys + 1

OpenExecute ==
  /\ key = None /\ keys < MaxOpenings
  /\ keys' = keys + 1
  /\ key' = KeyOfOpening
  /\ result' = None
  /\ UNCHANGED <<server, list, busy, settles>>

\* The dialog may be closed while it is busy.
CloseExecute ==
  /\ key # None
  /\ key' = None
  /\ UNCHANGED <<server, list, result, busy, settles, keys>>

\* runSettle, with the filters that are applied.
RunSettle ==
  /\ key # None /\ ~busy /\ loaded < MaxLoads
  /\ busy' = TRUE
  /\ settles' = settles \cup
       {[key |-> key, filters |-> filters, settled |-> None, awaits |-> None,
         seen |-> IF state = "ready" THEN shown ELSE filters]}
  /\ UNCHANGED <<server, list, key, result, keys>>

\* The result is shown in whatever dialog is open, and the list is loaded.
Settled(s) ==
  /\ s.settled # None /\ s.awaits = None
  /\ result' = s.settled
  /\ settles' = (settles \ {s}) \cup {[s EXCEPT !.awaits = loaded + 1]}
  /\ Request(s.filters)
  /\ UNCHANGED <<server, filters, shown, key, busy, keys>>

\* Bug: only a success gives the button back.
BusyAfterFailureKept == busy

BusyAfterFailure == FALSE

Finished(s) ==
  /\ s.awaits # None
  /\ ~\E l \in loads : l.n = s.awaits
  /\ settles' = settles \ {s}
  /\ busy' = FALSE
  /\ UNCHANGED <<server, list, key, result, keys>>

\* The server refuses, or the request or its answer is lost.
SettleFails(s) ==
  /\ s.awaits = None
  /\ settles' = settles \ {s}
  /\ busy' = BusyAfterFailure
  /\ UNCHANGED <<server, list, key, result, keys>>

-----------------------------------------------------------------------------
Next ==
  \/ \E l \in loads : Listed(l) \/ ListFails(l)
  \/ \E f \in BranchFilter : Apply(f)
  \/ Retry \/ OpenExecute \/ CloseExecute \/ RunSettle
  \/ \E s \in settles : Settle(s) \/ Settled(s) \/ Finished(s) \/ SettleFails(s)

\* The page goes on with what is answered or fails.
Spec ==
  /\ Init /\ [][Next]_vars
  /\ WF_vars(\E l \in loads : Listed(l) \/ ListFails(l))
  /\ WF_vars(\E s \in settles : Settled(s) \/ Finished(s) \/ SettleFails(s))

-----------------------------------------------------------------------------
(* Properties.                                                             *)

\* A key stands for one filter, through closed dialogs, lost answers and second
\* attempts, so that the server may answer with what the key did before.
OneFilterPerKey ==
  \A s \in settles : answers[s.key] # None =>
    answers[s.key] \subseteq {r \in Residual : s.filters \in {All, branch[r]}}

\* The button comes back after every attempt.
BusyEnds == busy ~> ~busy

\* SettlementTab.tsx: "open items within the current filters will be settled (the
\* totals above are the server's)".  A settlement is of the filter of the totals
\* that stand above it.
SettlesWhatIsShown == \A s \in settles : s.seen = s.filters
=============================================================================
