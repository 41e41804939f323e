---------------------------- MODULE CountSheet ------------------------------
(***************************************************************************)
(* The sheet of a stock count (apps/admin/src/pages/inventory/components/  *)
(* StockCountDialog.tsx): counts are entered, reviewed and sent item by    *)
(* item, each in a transaction of its own (recordStockCount), and those    *)
(* that failed can be retried, while other people move the stock.          *)
(*                                                                         *)
(* One location; choosing it again stands for choosing another one, which  *)
(* empties the sheet in the same way.  The page can be left at any time:   *)
(* what was being sent goes on being sent, and nobody sees its answers.    *)
(***************************************************************************)
EXTENDS Naturals, Sequences, SequencesExt

CONSTANTS
  Item,
  None,
  MaxQuantity,  \* bound: of what is counted and in stock
  MaxSheets,    \* bound: times the dialog is opened
  MaxChoices,   \* bound: times a location is chosen on a sheet
  MaxMoves      \* bound: movements of other people

SheetAssumption ==
  /\ IsFiniteSet(Item)
  /\ {MaxQuantity, MaxSheets, MaxChoices, MaxMoves} \subseteq Nat

VARIABLES
  stock,    \* the server's balances
  counts,   \* inventory_stock_counts
  moves,    \* movements of other people
  page,     \* which mounting of the page this is
  sheet,    \* the number of the opening; 0 before the first
  phase,    \* of the dialog, or "closed"
  located,  \* a location is chosen, and how often it was
  levels,   \* the balances as last loaded
  loading,  \* loads of the balances under way
  inputs,   \* what is entered
  keys,     \* keysRef
  rows,     \* execRows
  senders   \* for each sheet the loop that sends its rows, or the retry, or None

server == <<stock, counts, moves>>
entry == <<located, inputs, keys>>
vars == <<server, page, sheet, phase, levels, loading, entry, rows, senders>>

Quantity == 0..MaxQuantity
Phase == {"closed", "entry", "review", "execute"}
Blank == [i \in Item |-> None]

\* A row of the sheet in its last phase.
Row(q, k, s) == [counted |-> q, key |-> k, status |-> s]

Init ==
  /\ stock \in [Item -> Quantity]
  /\ counts = {}
  /\ moves = 0
  /\ page = 1
  /\ sheet = 0
  /\ phase = "closed"
  /\ located = 0
  /\ levels = Blank
  /\ loading = {}
  /\ inputs = Blank
  /\ keys = Blank
  /\ rows = Blank
  /\ senders = [s \in 1..MaxSheets |-> None]

\* Sales, receipts and consumption.
MoveElsewhere(i) ==
  /\ moves < MaxMoves
  /\ moves' = moves + 1
  /\ \E q \in Quantity \ {stock[i]} : stock' = [stock EXCEPT ![i] = q]
  /\ UNCHANGED <<counts, page, sheet, phase, levels, loading, entry, rows, senders>>

-----------------------------------------------------------------------------
(* Entry and review.                                                       *)

\* What opening the dialog resets; it is done here when it closes, as nobody sees it
\* in between.
Reset ==
  /\ phase' = "closed"
  /\ located' = 0
  /\ inputs' = Blank
  /\ keys' = Blank
  /\ rows' = Blank

\* The balances are loaded again, and the sheet is not shown before they are there.
Open ==
  /\ phase = "closed"
  /\ sheet < MaxSheets
  /\ sheet' = sheet + 1
  /\ phase' = "entry"
  /\ loading' = loading \cup {[page |-> page, view |-> stock]}
  /\ levels' = Blank
  /\ UNCHANGED <<server, page, entry, rows, senders>>

\* The answer to a load, whichever opening asked for it.  Bound: loads do not fail.
LevelsAnswer(l) ==
  /\ loading' = loading \ {l}
  /\ levels' = IF l.page = page THEN l.view ELSE levels
  /\ UNCHANGED <<server, page, sheet, phase, entry, rows, senders>>

ChooseLocation ==
  /\ phase = "entry"
  /\ located < MaxChoices
  /\ located' = located + 1
  /\ inputs' = Blank
  /\ keys' = Blank
  /\ UNCHANGED <<server, page, sheet, phase, levels, loading, rows, senders>>

Enter(i, q) ==
  /\ phase = "entry" /\ located > 0 /\ levels[i] # None
  /\ inputs' = [inputs EXCEPT ![i] = q]
  /\ UNCHANGED <<server, page, sheet, phase, levels, loading, located, keys, rows, senders>>

\* What can be sent: an item that shows nothing in stock has no cost to count it by.
Countable ==
  {i \in Item : inputs[i] # None /\ levels[i] # None /\ ~(levels[i] = 0 /\ inputs[i] > 0)}

\* An item keeps the key that it got in the first review.
EnterReview ==
  /\ phase = "entry" /\ located > 0 /\ Countable # {}
  /\ phase' = "review"
  /\ keys' = [i \in Item |->
                IF i \in Countable /\ keys[i] = None THEN <<sheet, located, i>> ELSE keys[i]]
  /\ UNCHANGED <<server, page, sheet, located, levels, loading, inputs, rows, senders>>

BackToEntry ==
  /\ phase = "review"
  /\ phase' = "entry"
  /\ UNCHANGED <<server, page, sheet, levels, loading, entry, rows, senders>>

-----------------------------------------------------------------------------
(* Sending.                                                                *)

Sender(why, todo, frozen) ==
  [page |-> page, why |-> why, todo |-> todo, rows |-> frozen, waits |-> FALSE]

\* The rows are frozen as they are now, and sent one after the other.  What became
\* countable during the review has no key.
Execute ==
  /\ phase = "review"
  /\ phase' = "execute"
  /\ rows' = [i \in Item |->
                IF i \in Countable THEN Row(inputs[i], keys[i], "pending") ELSE None]
  /\ IF Countable = {}
       THEN UNCHANGED senders
       ELSE \E todo \in SetToSeqs(Countable) :
              senders' = [senders EXCEPT ![sheet] = Sender("all", todo, rows')]
  /\ UNCHANGED <<server, page, sheet, levels, loading, entry>>

\* running
Running == sheet > 0 /\ senders[sheet] # None /\ senders[sheet].page = page

Retry(i) ==
  /\ phase = "execute" /\ ~Running
  /\ rows[i] # None /\ rows[i].status = "failed"
  /\ senders' = [senders EXCEPT ![sheet] = Sender("one", <<i>>, rows)]
  /\ UNCHANGED <<server, page, sheet, phase, levels, loading, entry, rows>>

\* A row of what is on the screen gets a status; it is found by its item.
Marked(s, i, status) ==
  IF senders[s].page = page /\ rows[i] # None
    THEN [rows EXCEPT ![i].status = status]
    ELSE rows

Send(s) ==
  /\ senders[s] # None /\ ~senders[s].waits
  /\ senders' = [senders EXCEPT ![s].waits = TRUE]
  /\ rows' = Marked(s, Head(senders[s].todo), "sending")
  /\ UNCHANGED <<server, page, sheet, phase, levels, loading, entry>>

\* Bug: a retry has a key of its own.
FreshKey(row, why) == IF row.key = None THEN None ELSE <<why, row.key>>

KeySent(row, why) == row.key

\* recordStockCount for a row of sheet s: the balance becomes what was counted, once
\* for each key.  A count into an item without stock is refused, as is a request
\* without a key.
Counted(s, i) ==
  LET row == senders[s].rows[i]
      key == KeySent(row, senders[s].why)
      replay == \E c \in counts : c.key = key
  IN /\ key # None
     /\ \/ replay /\ UNCHANGED <<stock, counts>>
        \/ /\ ~replay
           /\ ~(stock[i] = 0 /\ row.counted > 0)
           /\ stock' = [stock EXCEPT ![i] = row.counted]
           /\ counts' = counts \cup
                {[key |-> key, sheet |-> s, item |-> i, counted |-> row.counted]}

\* After the last row running is FALSE again.
Rest(sender) ==
  IF Len(sender.todo) = 1 THEN None ELSE [sender EXCEPT !.todo = Tail(@), !.waits = FALSE]

\* Bug: the loop ends with a failure, and running is never set back.
StopAtFailure(sender, failed) == IF failed THEN sender ELSE Rest(sender)

\* The loop goes on, whatever came of the row.
After(sender, failed) == Rest(sender)

\* The answer says that it is counted; or it failed, where the count is stored
\* nevertheless if only the answer was lost.
Answer(s, failed) ==
  /\ senders[s] # None /\ senders[s].waits
  /\ LET i == Head(senders[s].todo)
     IN /\ \/ Counted(s, i)
           \/ failed /\ UNCHANGED <<stock, counts>>
        /\ rows' = Marked(s, i, IF failed THEN "failed" ELSE "success")
  /\ senders' = [senders EXCEPT ![s] = After(senders[s], failed)]
  /\ UNCHANGED <<moves, page, sheet, phase, levels, loading, entry>>

-----------------------------------------------------------------------------

\* Bug: the dialog closes while it is sending.
AlwaysClosable == TRUE

Closable == ~Running

Close ==
  /\ phase # "closed" /\ Closable
  /\ Reset
  /\ UNCHANGED <<server, page, sheet, levels, loading, senders>>

\* Another tab of the page and back.  Bound: before there are no sheets left.
Leave ==
  /\ phase # "closed" /\ page < MaxSheets
  /\ page' = page + 1
  /\ Reset
  /\ UNCHANGED <<server, sheet, levels, loading, senders>>

Next ==
  \/ Open \/ ChooseLocation \/ EnterReview \/ BackToEntry \/ Execute
  \/ Close \/ Leave \/ \E l \in loading : LevelsAnswer(l)
  \/ \E s \in 1..MaxSheets :
       Send(s) \/ \E failed \in BOOLEAN : Answer(s, failed)
  \/ \E i \in Item :
       \/ MoveElsewhere(i) \/ Retry(i)
       \/ \E q \in Quantity \cup {None} : Enter(i, q)

\* The loop runs, and every request is answered or its connection ends.
Fairness ==
  \A s \in 1..MaxSheets :
    /\ WF_vars(Send(s))
    /\ WF_vars(\E failed \in BOOLEAN : Answer(s, failed))

Spec == Init /\ [][Next]_vars /\ Fairness

-----------------------------------------------------------------------------

\* A row that says it is done is stored, with the quantity it shows and from the
\* sheet on the screen, however many answers were lost, rows retried and sheets
\* opened before.
DoneIsStored ==
  phase = "execute" =>
    \A i \in Item :
      rows[i] # None /\ rows[i].status = "success" =>
        \E c \in counts : c.item = i /\ c.counted = rows[i].counted /\ c.sheet = sheet

\* A sheet counts an item at most once, also when its count was stored, the answer
\* was lost and the row is retried after the stock has moved.
CountedOnce ==
  \A c, d \in counts : c.item = d.item /\ c.sheet = d.sheet => c = d

=============================================================================
