----------------------------- MODULE PagedList ------------------------------
(***************************************************************************)
(* The list of customers: pages by keyset (apps/api/src/lib/cursor.ts and  *)
(* modules/readScope.ts, the same in financialEvents.ts, accounting.ts and *)
(* restaurant.ts) and the page of the browser that puts them together      *)
(* (apps/admin/src/pages/Customers.tsx).                                   *)
(*                                                                         *)
(* A row has one sorting value, which may be null, and a place in the      *)
(* search or not.  A cursor keeps a value in units of Unit: a number, a    *)
(* name or a date exactly (Unit = 1), a time of microseconds in            *)
(* milliseconds.  A request's page is computed when it is sent; how late   *)
(* its answer is, is open.                                                 *)
(***************************************************************************)
EXTENDS Integers, Sequences, SequencesExt, FiniteSets

CONSTANTS
  MaxId,       \* rows are 1..MaxId, in the order of their ids
  MaxValue,    \* sorting values are 0..MaxValue
  Null,
  Absent,
  Found,       \* rows that the search finds
  Unit,
  Limit,       \* rows of a page
  MaxChanges,  \* bound: changes by other people
  MaxQueries   \* bound: changes of the sorting or the search

ListAssumption ==
  /\ {MaxId, MaxValue, MaxChanges, MaxQueries} \subseteq Nat
  /\ Unit \in Nat \ {0} /\ Limit \in Nat \ {0}
  /\ Null \notin Nat /\ Absent \notin Nat /\ Null # Absent
  /\ Null \notin [direction : {"asc", "desc"}, id : 1..MaxId, v : 0..MaxValue \cup {Null}]
  /\ Found \subseteq 1..MaxId

VARIABLES
  value,    \* the server's rows
  changes,  \* how often other people changed them
  query,    \* sort direction and search
  queries,  \* how often they were changed
  timer,    \* the list will be loaded 250 ms after the last change
  loads,    \* requests under way; the latest is the one of requestSeq
  loading,
  error,
  shown,    \* the rows on the screen
  next,     \* nextCursor
  touched   \* history: rows that changed since the first page shown was computed

server == <<value, changes>>
screen == <<loading, error, shown, next, touched>>
vars == <<server, query, queries, timer, loads, screen>>

Id == 1..MaxId
SortValue == 0..MaxValue \cup {Null}
Query == [direction : {"asc", "desc"}, search : BOOLEAN]

Init ==
  /\ value \in [Id -> SortValue \cup {Absent}]
  /\ changes = 0
  /\ query = [direction |-> "desc", search |-> FALSE]
  /\ queries = 0
  /\ timer = TRUE
  /\ loads = {}
  /\ loading = TRUE
  /\ error = FALSE
  /\ shown = <<>>
  /\ next = Null
  /\ touched = {}

-----------------------------------------------------------------------------
(* The server.                                                             *)

\* v before w, without nulls, in a direction.
Before(d, v, w) == IF d = "asc" THEN v < w ELSE v > w

\* order by value nulls last, id.
Precedes(d, i, j) ==
  IF value[i] = value[j]
    THEN Before(d, i, j)
    ELSE value[i] # Null /\ (value[j] = Null \/ Before(d, value[i], value[j]))

Rows(q) == {i \in Id : value[i] # Absent /\ (q.search => i \in Found)}

Sorted(q, rows) ==
  CHOOSE s \in SetToSeqs(rows) : \A m, n \in DOMAIN s : m < n => Precedes(q.direction, s[m], s[n])

\* The cursor of the last row of a page.
Cursor(d, i) ==
  [direction |-> d, id |-> i,
   v |-> IF value[i] = Null THEN Null ELSE (value[i] \div Unit) * Unit]

\* Bug: rows without a value are not after those with one.
BehindIfValued(c, i) ==
  IF c.v = Null
    THEN value[i] = Null /\ Before(c.direction, c.id, i)
    ELSE value[i] # Null /\ (\/ Before(c.direction, c.v, value[i])
                             \/ value[i] = c.v /\ Before(c.direction, c.id, i))

\* What follows the cursor.
Behind(c, i) ==
  IF c.v = Null
    THEN value[i] = Null /\ Before(c.direction, c.id, i)
    ELSE \/ value[i] = Null
         \/ Before(c.direction, c.v, value[i])
         \/ value[i] = c.v /\ Before(c.direction, c.id, i)

\* A cursor is for the direction it was made for.
Refused(q, c) == c # Null /\ c.direction # q.direction

\* One more row than the limit is read, which tells whether there are more.
CursorPage(d, rows) ==
  LET data == SubSeq(rows, 1, IF Len(rows) > Limit THEN Limit ELSE Len(rows))
  IN [data |-> data, next_cursor |-> IF Len(rows) > Limit THEN Cursor(d, Last(data)) ELSE Null]

\* The answer to a request with a cursor, or Null.
Page(q, c) ==
  CursorPage(q.direction, Sorted(q, {i \in Rows(q) : c = Null \/ Behind(c, i)}))

\* A customer is made or changed, or an order changes its figures.
Change(i) ==
  /\ changes < MaxChanges
  /\ changes' = changes + 1
  /\ \E v \in SortValue \ {value[i]} : value' = [value EXCEPT ![i] = v]
  /\ touched' = touched \cup {i}
  /\ loads' = {[l EXCEPT !.touched = @ \cup {i}] : l \in loads}
  /\ UNCHANGED <<query, queries, timer, loading, error, shown, next>>

-----------------------------------------------------------------------------
(* The page of the browser.                                                *)

\* Sorting and search; both delay the load.
ChooseQuery(q) ==
  /\ queries < MaxQueries
  /\ queries' = queries + 1
  /\ q # query
  /\ query' = q
  /\ timer' = TRUE
  /\ UNCHANGED <<server, loads, screen>>

Send(c) ==
  /\ loading' = TRUE
  /\ loads' = {[l EXCEPT !.latest = FALSE] : l \in loads} \cup
       {[latest |-> TRUE, first |-> (c = Null), touched |-> {}, refused |-> Refused(query, c),
         page |-> IF Refused(query, c) THEN Page(query, Null) ELSE Page(query, c)]}

\* loadFirst, when the timer fires.
LoadFirst ==
  /\ timer
  /\ timer' = FALSE
  /\ error' = FALSE
  /\ Send(Null)
  /\ UNCHANGED <<server, query, queries, shown, next, touched>>

\* loadMore, also while the timer runs.
LoadMore ==
  /\ next # Null /\ ~loading
  /\ Send(next)
  /\ UNCHANGED <<server, query, queries, timer, error, shown, next, touched>>

\* Bug: every answer counts.
AnyAnswer(l) == TRUE

\* Only the answer to the last request counts.
Counts(l) == l.latest

\* Bug: the flag is reset by a good answer only.
LoadingUntilGood(failed) == failed

LoadingAfter(failed) == FALSE

\* The answer to a request, or the failure of it.
Answer(l, failed) ==
  /\ l.refused => failed
  /\ loads' = loads \ {l}
  /\ IF ~Counts(l)
       THEN UNCHANGED screen
       ELSE /\ loading' = LoadingAfter(failed)
            /\ IF failed
                 THEN error' = TRUE /\ UNCHANGED <<shown, next, touched>>
                 ELSE /\ shown' = IF l.first THEN l.page.data ELSE shown \o l.page.data
                      /\ touched' = IF l.first THEN l.touched ELSE touched
                      /\ next' = l.page.next_cursor
                      /\ UNCHANGED error
  /\ UNCHANGED <<server, query, queries, timer>>

-----------------------------------------------------------------------------

Next ==
  \/ \E i \in Id : Change(i)
  \/ \E q \in Query : ChooseQuery(q)
  \/ LoadFirst \/ LoadMore
  \/ \E l \in loads, failed \in BOOLEAN : Answer(l, failed)

\* The timer fires, and every request ends.
Fairness ==
  /\ WF_vars(LoadFirst)
  /\ WF_vars(\E l \in loads, failed \in BOOLEAN : Answer(l, failed))

Spec == Init /\ [][Next]_vars /\ Fairness

-----------------------------------------------------------------------------

\* "No rows duplicate or vanish across pages" (ADR-006:41): but for rows that were changed
\* since the first page, the rows on the screen are those the server has for the sorting
\* and search on the screen, in their order, each once, from the first on and, when
\* nothing more can be loaded, to the last.
ListedAsStored ==
  ~timer /\ ~loading /\ ~error =>
    LET stored == Rows(query) \ touched
        listed == {n \in DOMAIN shown : shown[n] \notin touched}
    IN /\ \A n \in listed :
            /\ shown[n] \in stored
            /\ \A m \in listed : m < n => Precedes(query.direction, shown[m], shown[n])
            /\ \A i \in stored : Precedes(query.direction, i, shown[n]) => i \in ToSet(shown)
       /\ next = Null => stored \subseteq ToSet(shown)

\* The page stops loading, whichever answers come in which order and whichever requests
\* fail: "load more" can be pressed again.
LoadingEnds == loading ~> ~loading
=============================================================================
