----------------------------- MODULE PeriodDesk -----------------------------
(***************************************************************************)
(* The tab of accounting periods                                           *)
(* (apps/admin/src/pages/accounting/components/PeriodsTab.tsx): a period   *)
(* is locked after a preview of the residuals that are still open in it,   *)
(* and locked ones are opened again.  The settlement that locks is left to *)
(* Settlement.                                                             *)
(***************************************************************************)
EXTENDS Naturals, FiniteSets

CONSTANTS
  Range,     \* pairs of dates that the admin enters
  None,
  MaxSteps   \* bound: previews, locks and openings sent

PeriodAssumption == MaxSteps \in Nat /\ None \notin Range

VARIABLES
  locked,   \* the server's locked periods
  known,    \* the server's periods
  state,    \* loading, ready or error
  periods,  \* the periods on the screen, and which are locked
  range,    \* startsOn and endsOn
  preview,  \* lockPreview, with the range it was asked for
  target,   \* openTarget
  busy,
  requests, \* previews, locks, openings and lists under way
  steps,
  refused   \* history: the dates that a lock has failed for while they stood there

server == <<locked, known>>
screen == <<state, periods, range, preview, target, busy, refused>>
vars == <<server, screen, requests, steps>>

NoPeriods == [known |-> {}, locked |-> {}]

Request(what, n, r) == [do |-> what, n |-> n, of |-> r, step |-> "sent", got |-> NoPeriods]

Init ==
  /\ known \in SUBSET Range
  /\ locked \in SUBSET known
  /\ state = "loading" /\ periods = NoPeriods
  /\ range = None /\ preview = None /\ target = None /\ busy = FALSE
  /\ requests = {Request("list", 0, None)}
  /\ steps = 0
  /\ refused = None

Uncovered == preview = None /\ target = None

Send(what, r) ==
  /\ steps < MaxSteps /\ steps' = steps + 1
  /\ busy' = TRUE
  /\ requests' = requests \cup {Request(what, steps + 1, r)}

-----------------------------------------------------------------------------
(* What the admin does.                                                    *)

\* The dates are free while a preview is under way.
Enter(r) ==
  /\ state = "ready" /\ Uncovered
  /\ r # range
  /\ range' = r
  /\ refused' = None
  /\ UNCHANGED <<server, state, periods, preview, target, busy, requests, steps>>

\* previewLock
PreviewLock ==
  /\ state = "ready" /\ Uncovered
  /\ ~busy /\ range # None
  /\ Send("preview", range)
  /\ UNCHANGED <<server, state, periods, range, preview, target, refused>>

\* runLock, of the dates as they are now.
RunLock ==
  /\ state = "ready" /\ preview # None
  /\ ~busy
  /\ Send("lock", range)
  /\ UNCHANGED <<server, state, periods, range, preview, target, refused>>

ChooseTarget(p) ==
  /\ state = "ready" /\ Uncovered
  /\ p \in periods.locked
  /\ target' = p
  /\ UNCHANGED <<server, state, periods, range, preview, busy, refused, requests, steps>>

\* runOpen; nothing holds back a second click.
RunOpen ==
  /\ state = "ready" /\ target # None
  /\ Send("open", target)
  /\ UNCHANGED <<server, state, periods, range, preview, target, refused>>

Cancel ==
  /\ state = "ready" /\ ~Uncovered
  /\ preview' = None /\ target' = None
  /\ UNCHANGED <<server, state, periods, range, busy, refused, requests, steps>>

-----------------------------------------------------------------------------
(* The server, and its answers.                                            *)

Answer(q, with, rows) ==
  (requests \ {q}) \cup {[q EXCEPT !.step = with, !.got = rows]}

\* An opening looks at the status before it writes, so that of two at once both
\* may go well.
Serve(q) ==
  /\ q.step = "sent"
  /\ q.do # "preview"
  /\ CASE q.do = "lock" -> locked' = locked \cup {q.of} /\ known' = known \cup {q.of}
       [] q.do = "open" -> locked' = locked \ {q.of} /\ UNCHANGED known
       [] q.do = "list" -> UNCHANGED server
  /\ requests' = Answer(q, "done",
       IF q.do = "list" THEN [known |-> known, locked |-> locked] ELSE NoPeriods)
  /\ UNCHANGED <<screen, steps>>

\* The preview appears over whatever dates stand there now.
Previewed(q) ==
  /\ q.do = "preview"
  /\ preview' = q.of
  /\ busy' = FALSE
  /\ requests' = requests \ {q}
  /\ UNCHANGED <<server, state, periods, range, target, refused, steps>>

\* load after a write: the write awaits it.
Reload(q) ==
  /\ state' = "loading"
  /\ requests' = Answer(q, "loading", NoPeriods) \cup {Request("list", q.n, None)}

\* Bug: the dates are cleared whether the lock went well or not.
RangeAfterFailureCleared(q) == IF q.do = "lock" THEN None ELSE range

RangeAfterFailure(q) == range

\* A lock went well: dialog and dates are cleared.
Locked(q) ==
  /\ q.do = "lock" /\ q.step = "done"
  /\ preview' = None /\ range' = None /\ refused' = None
  /\ Reload(q)
  /\ UNCHANGED <<server, periods, target, busy, steps>>

\* An opening went well: its dialog is closed.
Opened(q) ==
  /\ q.do = "open" /\ q.step = "done"
  /\ target' = None
  /\ Reload(q)
  /\ UNCHANGED <<server, periods, range, preview, busy, refused, steps>>

\* Bug: the buttons wait for a list that is ready.
BusyAfterListed == IF state = "ready" THEN FALSE ELSE busy

BusyAfter == FALSE

\* The list was loaded, or failed to.
Finished(q) ==
  /\ q.step = "loading"
  /\ ~\E l \in requests : l.do = "list" /\ l.n = q.n
  /\ busy' = BusyAfter
  /\ requests' = requests \ {q}
  /\ UNCHANGED <<server, state, periods, range, preview, target, refused, steps>>

Listed(q) ==
  /\ q.do = "list" /\ q.step = "done"
  /\ periods' = q.got
  /\ state' = "ready"
  /\ requests' = requests \ {q}
  /\ UNCHANGED <<server, range, preview, target, busy, refused, steps>>

ListFails(q) ==
  /\ q.do = "list"
  /\ state' = "error"
  /\ requests' = requests \ {q}
  /\ UNCHANGED <<server, periods, range, preview, target, busy, refused, steps>>

\* A preview, a lock or an opening is refused or lost, or its answer is.
Fails(q) ==
  /\ q.do # "list" /\ q.step # "loading"
  /\ busy' = BusyAfter
  /\ range' = RangeAfterFailure(q)
  /\ refused' = IF q.do = "lock" /\ q.of = range THEN range ELSE refused
  /\ requests' = requests \ {q}
  /\ UNCHANGED <<server, state, periods, preview, target, steps>>

\* The button of the error.
Retry ==
  /\ state = "error"
  /\ state' = "loading"
  /\ requests' = requests \cup {Request("list", 0, None)}
  /\ UNCHANGED <<server, periods, range, preview, target, busy, refused, steps>>

-----------------------------------------------------------------------------
Next ==
  \/ \E r \in Range : Enter(r) \/ ChooseTarget(r)
  \/ PreviewLock \/ RunLock \/ RunOpen \/ Cancel \/ Retry
  \/ \E q \in requests :
       \/ Serve(q) \/ Previewed(q) \/ Locked(q) \/ Opened(q)
       \/ Finished(q) \/ Listed(q) \/ ListFails(q) \/ Fails(q)

\* The page goes on with what is answered or fails, with each list on its own.
Spec ==
  /\ Init /\ [][Next]_vars
  /\ \A n \in 0..MaxSteps :
       WF_vars(\E q \in requests : q.n = n /\ (Listed(q) \/ ListFails(q)))
  /\ WF_vars(\E q \in requests :
       Previewed(q) \/ Locked(q) \/ Opened(q) \/ Finished(q) \/ Fails(q))

-----------------------------------------------------------------------------
(* Properties.                                                             *)

\* A lock that failed, or whose answer was lost, can be tried again: its dates
\* are still there, unless the admin changed them or another lock went well, which
\* an opening that ended meanwhile made way for.
FailedLockKeepsDates == refused # None => range = refused

\* The buttons come back after every request, whatever the list does.
BusyEnds == busy ~> ~busy

\* PeriodsTab.tsx: "before the lock the open residuals of the range are shown".
\* What is locked is what was previewed.
LocksPreviewed == [][\A q \in requests' \ requests :
                       q.do = "lock" /\ q.step = "sent" => q.of = preview]_vars
=============================================================================
