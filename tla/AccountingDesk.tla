--------------------------- MODULE AccountingDesk ---------------------------
(***************************************************************************)
(* The drawers of the accounting page                                      *)
(* (apps/admin/src/pages/accounting/AccountingPage.tsx): an event is shown *)
(* and retried or given up, a journal entry is shown and reversed, each    *)
(* opens the other.  The tabs of events and of entries are mounted one at  *)
(* a time, so that one drawer stands for both.  Posting is left to         *)
(* FinancialOutbox and reversal to Settlement: here an event is posted or  *)
(* fails, and an entry is reversed, in one step each.                      *)
(***************************************************************************)
EXTENDS Naturals

CONSTANTS
  Event,
  None,
  MaxSteps,  \* bound: drawers and tabs the admin opens, and writes
  MaxPosts   \* bound: events the server posts or fails to post

DeskAssumption ==
  /\ {MaxSteps, MaxPosts} \subseteq Nat
  /\ None \notin Event \cup Event \X {"entry", "reversal"}

VARIABLES
  status,   \* the server's events
  entries,  \* the server's journal
  posts,
  tab,
  mount,    \* how often a tab was mounted; answers to an earlier one are lost
  open,     \* openId
  detail,   \* what the drawer shows, with its id
  dialog,   \* confirmRetry, markDeadOpen, reverseOpen
  busy,
  loads,    \* fetchEvent and fetchJournal under way
  writes,   \* retry, mark-dead and reverse under way, with the load they await
  steps,    \* numbers what the admin does
  asked     \* history: what was open when the dialog was opened

server == <<status, entries, posts>>
drawer == <<open, detail, dialog, busy, asked>>
requests == <<loads, writes, steps>>
vars == <<server, tab, mount, drawer, requests>>

Entry == Event \X {"entry", "reversal"}
Id == Event \cup Entry
Writes == {"retry", "dead", "reverse"}

Init ==
  /\ status \in [Event -> {"pending", "failed"}]
  /\ entries = {}
  /\ posts = 0
  /\ tab = "other" /\ mount = 0
  /\ open = None /\ detail = None /\ dialog = None /\ busy = FALSE
  /\ loads = {} /\ writes = {} /\ steps = 0
  /\ asked = None

-----------------------------------------------------------------------------
(* The server.                                                             *)

\* A process request posts the event, or fails to.
Process(e) ==
  /\ posts < MaxPosts /\ posts' = posts + 1
  /\ status[e] = "pending"
  /\ \/ /\ status' = [status EXCEPT ![e] = "posted"]
        /\ entries' = entries \cup {<<e, "entry">>}
     \/ /\ status' = [status EXCEPT ![e] = "failed"]
        /\ UNCHANGED entries
  /\ UNCHANGED <<tab, mount, drawer, requests>>

\* GET /financial-events/:id: the event with its status and its entry.
EventDetail(e) == [id |-> e, can |->
  CASE status[e] = "failed" -> {"retry", "dead"}
    [] status[e] = "dead" -> {"retry"}
    [] status[e] = "pending" -> {"dead"}
    [] OTHER -> {}]

\* GET /journals/:id: the entry, and the one that reverses it.
EntryDetail(j) == [id |-> j, can |->
  IF j[2] = "entry" /\ <<j[1], "reversal">> \notin entries THEN {"reverse"} ELSE {}]

Detail(id) == IF id \in Event THEN EventDetail(id) ELSE EntryDetail(id)

-----------------------------------------------------------------------------
(* Tabs and drawers.                                                       *)

\* load of one opening; the drawer asks for nothing when it is closed.
Load(id, n) ==
  IF id = None THEN {} ELSE {[id |-> id, n |-> n, mount |-> mount, answer |-> None]}

\* Bug: a dialog that was opened stays.
OpenKeepingDialog(id) ==
  /\ open' = id
  /\ detail' = None
  /\ UNCHANGED <<dialog, asked>>

\* openId changes, and the effect of the drawer with it.
Open(id) ==
  /\ open' = id
  /\ detail' = None /\ dialog' = None /\ asked' = None

\* The drawer of a row is opened, or the drawer is closed.
Choose(id) ==
  /\ tab # "other"
  /\ id # open
  /\ id # None => /\ open = None
                  /\ steps < MaxSteps
                  /\ id \in IF tab = "events" THEN Event ELSE entries
  /\ dialog = None
  /\ Open(id)
  /\ steps' = IF id = None THEN steps ELSE steps + 1
  /\ loads' = loads \cup Load(id, steps)
  /\ UNCHANGED <<server, tab, mount, busy, writes>>

\* Another tab of the page, or the way from an event to its entry and back:
\* what was mounted is lost, and the new tab opens id.
GoTo(t, id) ==
  /\ tab' = t
  /\ mount' = mount + 1
  /\ open' = id
  /\ detail' = None /\ dialog' = None /\ asked' = None /\ busy' = FALSE
  /\ steps' = steps + 1
  /\ loads' = loads \cup
       IF id = None THEN {}
       ELSE {[id |-> id, n |-> steps, mount |-> mount + 1, answer |-> None]}

ChooseTab(t) ==
  /\ steps < MaxSteps
  /\ t # tab
  /\ open = None
  /\ GoTo(t, None)
  /\ UNCHANGED <<server, writes>>

\* From the event to its entry, or from the entry to its event.
Follow ==
  /\ steps < MaxSteps
  /\ detail # None /\ dialog = None
  /\ \/ /\ detail.id \in Event /\ detail.can = {}
        /\ GoTo("journals", <<detail.id, "entry">>)
     \/ /\ detail.id \in Event \X {"entry"}
        /\ GoTo("events", detail.id[1])
  /\ UNCHANGED <<server, writes>>

\* Between an entry and its reversal, in the same tab.
FollowReversal ==
  /\ steps < MaxSteps
  /\ detail # None /\ dialog = None
  /\ detail.id \in Entry /\ detail.can = {}
  /\ \E j \in entries \ {detail.id, open} :
       /\ j[1] = detail.id[1]
       /\ Open(j)
       /\ loads' = loads \cup Load(j, steps)
  /\ steps' = steps + 1
  /\ UNCHANGED <<server, tab, mount, busy, writes>>

-----------------------------------------------------------------------------
(* Answers.                                                                *)

\* The server answers a load; how late the page gets it, is open.
LoadRead(l) ==
  /\ l.answer = None
  /\ loads' = (loads \ {l}) \cup {[l EXCEPT !.answer = Detail(l.id)]}
  /\ UNCHANGED <<server, tab, mount, drawer, writes, steps>>

\* Whatever is open, the drawer shows the answer.
LoadAnswered(l) ==
  /\ l.answer # None
  /\ loads' = loads \ {l}
  /\ detail' = IF l.mount = mount THEN l.answer ELSE detail
  /\ UNCHANGED <<server, tab, mount, open, dialog, busy, asked, writes, steps>>

\* A failure leaves what is shown, under a message.
LoadFails(l) ==
  /\ loads' = loads \ {l}
  /\ UNCHANGED <<server, tab, mount, drawer, writes, steps>>

-----------------------------------------------------------------------------
(* Writes.                                                                 *)

\* The buttons of an event.
EventButtons == detail.can \cap {"retry", "dead"}

\* The button of an entry.
EntryButtons == detail.can \cap {"reverse"}

AskFor(w) ==
  /\ open # None /\ detail # None /\ dialog = None /\ ~busy
  /\ w \in EventButtons \cup EntryButtons
  /\ dialog' = w
  /\ asked' = open
  /\ UNCHANGED <<server, tab, mount, open, detail, busy, requests>>

\* The dialog for a retry is not closed to a second click; the others wait.
CancelDialog ==
  /\ dialog # None
  /\ dialog' = None /\ asked' = None
  /\ UNCHANGED <<server, tab, mount, open, detail, busy, requests>>

\* runRetry, runMarkDead and runReverse act on what is shown.
Confirm ==
  /\ dialog # None /\ detail # None
  /\ dialog # "retry" => ~busy
  /\ steps < MaxSteps
  /\ busy' = TRUE
  /\ steps' = steps + 1
  /\ writes' = writes \cup
       {[do |-> dialog, id |-> detail.id, for |-> open, n |-> steps, mount |-> mount,
         step |-> "sent"]}
  /\ UNCHANGED <<server, tab, mount, open, detail, dialog, asked, loads>>

\* retry and mark-dead, of an event in a status for it.
Decide(w) ==
  /\ w.do \in EventDetail(w.id).can
  /\ status' = [status EXCEPT ![w.id] = IF w.do = "retry" THEN "pending" ELSE "dead"]
  /\ UNCHANGED <<entries, posts>>

\* reverse, which answers with the reversal that is there already.
Reverse(w) ==
  /\ w.id[2] = "entry"
  /\ entries' = entries \cup {<<w.id[1], "reversal">>}
  /\ UNCHANGED <<status, posts>>

Serve(w) ==
  /\ w.step = "sent"
  /\ IF w.id \in Event THEN w.do # "reverse" /\ Decide(w) ELSE w.do = "reverse" /\ Reverse(w)
  /\ writes' = (writes \ {w}) \cup {[w EXCEPT !.step = "done"]}
  /\ UNCHANGED <<tab, mount, drawer, loads, steps>>

\* The dialog is closed and the detail of the opening it was confirmed in is
\* loaded again.
Written(w) ==
  /\ w.step = "done"
  /\ IF w.mount = mount THEN dialog' = None /\ asked' = None ELSE UNCHANGED <<dialog, asked>>
  /\ loads' = loads \cup {[id |-> w.for, n |-> w.n, mount |-> w.mount, answer |-> None]}
  /\ writes' = (writes \ {w}) \cup {[w EXCEPT !.step = "loading"]}
  /\ UNCHANGED <<server, tab, mount, open, detail, busy, steps>>

\* Bug: a write that fails keeps the buttons.
BusyAfterKept(w) == busy /\ ~(w.step = "loading" /\ w.mount = mount)

BusyAfter(w) == IF w.mount = mount THEN FALSE ELSE busy

\* That load was answered, or failed; a reversal is opened, wherever the admin is.
Finished(w) ==
  /\ w.step = "loading"
  /\ ~\E l \in loads : l.n = w.n
  /\ writes' = writes \ {w}
  /\ IF w.do = "reverse" /\ tab # "journals"
       THEN GoTo("journals", <<w.id[1], "reversal">>)
       ELSE /\ busy' = BusyAfter(w)
            /\ IF w.do = "reverse" /\ open # <<w.id[1], "reversal">>
                 THEN /\ Open(<<w.id[1], "reversal">>)
                      /\ steps' = steps + 1
                      /\ loads' = loads \cup Load(<<w.id[1], "reversal">>, steps)
                 ELSE UNCHANGED <<open, detail, dialog, asked, steps, loads>>
            /\ UNCHANGED <<tab, mount>>
  /\ UNCHANGED server

\* A refusal, or a lost request or answer, leaves the dialog open.
WriteFails(w) ==
  /\ w.step \in {"sent", "done"}
  /\ writes' = writes \ {w}
  /\ busy' = BusyAfter(w)
  /\ UNCHANGED <<server, tab, mount, open, detail, dialog, asked, loads, steps>>

-----------------------------------------------------------------------------
Next ==
  \/ \E e \in Event : Process(e)
  \/ \E id \in Id \cup {None} : Choose(id)
  \/ \E t \in {"other", "events", "journals"} : ChooseTab(t)
  \/ Follow \/ FollowReversal
  \/ \E l \in loads : LoadRead(l) \/ LoadAnswered(l) \/ LoadFails(l)
  \/ \E w \in Writes : AskFor(w)
  \/ CancelDialog \/ Confirm
  \/ \E w \in writes : Serve(w) \/ Written(w) \/ Finished(w) \/ WriteFails(w)

\* Requests are answered or fail, and the page goes on with the answers.
Spec ==
  /\ Init /\ [][Next]_vars
  /\ WF_vars(\E l \in loads : LoadAnswered(l) \/ LoadFails(l))
  /\ WF_vars(\E w \in writes : Written(w) \/ Finished(w) \/ WriteFails(w))

-----------------------------------------------------------------------------
(* Properties.                                                             *)

\* A dialog asks about what is open: closing a drawer, opening another and
\* following a link take the dialog, and the reason typed into it, with them.
DialogOfOpening == dialog # None => asked = open

\* Whatever is opened, closed or left meanwhile, and whatever fails, the buttons
\* come back after a write.
BusyEnds == busy ~> ~busy

\* AccountingPage.tsx: "refreshes from the server after every write".  What the
\* admin confirms is written to what the drawer was opened for.
ActsOnOpen == \A w \in writes : w.id = w.for
=============================================================================
