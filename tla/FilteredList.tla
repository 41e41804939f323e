---------------------------- MODULE FilteredList ----------------------------
(***************************************************************************)
(* The lists of events and of journal entries on the accounting page       *)
(* (EventsTab and JournalsTab of                                           *)
(* apps/admin/src/pages/accounting/AccountingPage.tsx) with the routes     *)
(* that answer them (apps/api/src/modules/financialEvents.ts,              *)
(* accounting.ts): a filter is applied by a button, further pages are      *)
(* appended, and a write in the drawer loads the list again.  Rows are     *)
(* listed by falling ids, as by time.                                      *)
(***************************************************************************)
EXTENDS Naturals, Sequences, SequencesExt, FiniteSetsExt

CONSTANTS
  MaxId,       \* rows have the ids 1..MaxId
  Filter,      \* what may be applied; one filter is All
  All,
  Limit,       \* rows of a page
  MaxLoads,    \* bound: first pages asked for
  None

FilteredAssumption ==
  /\ {MaxId, MaxLoads} \subseteq Nat \ {0} /\ Limit \in Nat \ {0}
  /\ All \in Filter /\ None \notin Nat

VARIABLES
  last,     \* the server's rows are 1..last
  kind,     \* the one filter, apart from All, that a row passes
  filters,
  state,    \* loading, ready or error
  rows,
  nextCursor,
  loadingMore,
  loads,    \* pages asked for
  asked     \* number of first pages asked for

server == <<last, kind>>
screen == <<filters, state, rows, nextCursor, loadingMore>>
requests == <<loads, asked>>
vars == <<server, screen, requests>>

Id == 1..MaxId

\* The first load starts when the tab is mounted.
Init ==
  /\ last \in 1..MaxId
  /\ kind \in [Id -> Filter \ {All}]
  /\ filters = All
  /\ state = "loading"
  /\ rows = <<>> /\ nextCursor = None /\ loadingMore = FALSE
  /\ loads = {[n |-> 1, filters |-> All, cursor |-> None, answer |-> None]}
  /\ asked = 1

-----------------------------------------------------------------------------
(* The server.                                                             *)

\* An event, or an entry, is made.
Record ==
  /\ last < MaxId
  /\ last' = last + 1
  /\ UNCHANGED <<kind, screen, requests>>

Matching(f) == {i \in 1..last : f = All \/ kind[i] = f}

Falling(S) == CHOOSE q \in SetToSeqs(S) : \A i, j \in DOMAIN q : i < j => q[i] > q[j]

\* Before the cursor, in falling order, one more than the limit.
Page(f, c) ==
  LET found == Falling({i \in Matching(f) : c # None => i < c})
      data == SubSeq(found, 1, Min({Limit, Len(found)}))
  IN [data |-> data, next |-> IF Len(found) > Limit THEN Last(data) ELSE None]

Answer(l) ==
  /\ l.answer = None
  /\ loads' = (loads \ {l}) \cup {[l EXCEPT !.answer = Page(l.filters, l.cursor)]}
  /\ UNCHANGED <<server, screen, asked>>

-----------------------------------------------------------------------------
(* The page.                                                               *)

\* load, with the filters of its render.
Load(f) ==
  /\ asked < MaxLoads
  /\ asked' = asked + 1
  /\ state' = "loading"
  /\ loads' = loads \cup {[n |-> asked + 1, filters |-> f, cursor |-> None, answer |-> None]}
  /\ UNCHANGED <<server, rows, nextCursor, loadingMore>>

\* The button applies the draft.
Apply(f) == f # filters /\ filters' = f /\ Load(f)

\* reloadSignal after a write in the drawer, and the button after an error.
Reload == Load(filters) /\ UNCHANGED filters

\* loadMore; the button is there when the list is, and only once.
LoadMore ==
  /\ state = "ready" /\ nextCursor # None /\ ~loadingMore
  /\ loadingMore' = TRUE
  /\ loads' = loads \cup {[n |-> asked, filters |-> filters, cursor |-> nextCursor, answer |-> None]}
  /\ UNCHANGED <<server, filters, state, rows, nextCursor, asked>>

\* Bug: the cursor of the rows before stays when there is no further page.
CursorAfterKept(l) == IF l.answer.next = None THEN nextCursor ELSE l.answer.next

\* What comes with a page replaces the cursor.
CursorAfter(l) == l.answer.next

Loaded(l) ==
  /\ l.answer # None /\ l.cursor = None
  /\ rows' = l.answer.data
  /\ nextCursor' = CursorAfter(l)
  /\ state' = "ready"
  /\ loads' = loads \ {l}
  /\ UNCHANGED <<server, filters, loadingMore, asked>>

\* The rows of another page are appended to what is shown now.
MoreLoaded(l) ==
  /\ l.answer # None /\ l.cursor # None
  /\ rows' = rows \o l.answer.data
  /\ nextCursor' = CursorAfter(l)
  /\ loadingMore' = FALSE
  /\ loads' = loads \ {l}
  /\ UNCHANGED <<server, filters, state, asked>>

\* Bug: a failure of another page is forgotten.
MoreAfterFailureKept(l) == loadingMore

MoreAfterFailure(l) == IF l.cursor = None THEN loadingMore ELSE FALSE

Fails(l) ==
  /\ loads' = loads \ {l}
  /\ state' = IF l.cursor = None THEN "error" ELSE state
  /\ loadingMore' = MoreAfterFailure(l)
  /\ UNCHANGED <<server, filters, rows, nextCursor, asked>>

-----------------------------------------------------------------------------
Next ==
  \/ Record
  \/ \E f \in Filter : Apply(f)
  \/ Reload \/ LoadMore
  \/ \E l \in loads : Answer(l) \/ Loaded(l) \/ MoreLoaded(l) \/ Fails(l)

\* The page goes on with what is answered or fails.
Spec == Init /\ [][Next]_vars /\ WF_vars(\E l \in loads : Loaded(l) \/ MoreLoaded(l) \/ Fails(l))

-----------------------------------------------------------------------------
(* Properties.                                                             *)

\* In whatever order pages are answered, the next one follows the last row on
\* the screen.
CursorIsLast == nextCursor # None => rows # <<>> /\ nextCursor = Last(rows)

\* "Loading" ends, for the list and for its further pages.
LoadingEnds ==
  /\ state = "loading" ~> state # "loading"
  /\ loadingMore ~> ~loadingMore

\* AccountingPage.tsx: "no matching events".  When the list says so, none matched
\* the applied filter when it was asked for: rows are never deleted, so that one
\* row is enough, if it was there from the start.
NoneWhenNone ==
  (state = "ready" /\ rows = <<>> /\ loads = {}) => 1 \notin Matching(filters)
=============================================================================
