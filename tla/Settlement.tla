---------------------------- MODULE Settlement ----------------------------
(***************************************************************************)
(* The books of an account: stock movements reach them rounded to minor    *)
(* units, the rounded-off rest of each waits as a residual, settlements    *)
(* journal the residuals, and periods lock what they contain:              *)
(*                                                                         *)
(*   postClaimedFinancialEvent          Post, Record                       *)
(*   POST /reconciliation/settle        Settle                             *)
(*   POST /periods/lock, .../:id/open   LockPeriod, OpenPeriod             *)
(*   POST /journals/:id/reverse         Reverse, Undo                      *)
(*                                                                         *)
(* The guards on locked periods read a snapshot and take no lock, so a     *)
(* post and a reversal have one step up to their guards and one, the       *)
(* commit, in which the conditional updates find the rows as they are by   *)
(* then.  Settlements, which take the account's advisory lock, and locking *)
(* and opening a period are one step each: what another transaction        *)
(* commits inside a lock, between its settlement and its guard on open     *)
(* residuals, makes it fail as a whole.  Claims, failures and retries of   *)
(* events are FinancialOutbox's: here an event that fails is posted again. *)
(* Values are whole parts, Cent of them to the minor unit.                 *)
(***************************************************************************)
EXTENDS Integers, FiniteSets, Functions

CONSTANTS
  Movement,      \* events of stock movements
  Reversal,      \* inventory.reversal events
  Original(_),   \* the movement that a reversal reverses
  Worth(_),      \* total_value of a movement, in parts
  Cent,          \* parts of a minor unit
  Branch,
  BranchOf(_),   \* the branch of a movement and of its reversal
  Date,
  DateOf(_),     \* the day of an event's created_at
  Span,         \* pairs of dates that settlements and locks ask for
  Key,           \* idempotency keys of settlements
  NoKey,
  NoEntry,
  MaxSettlements \* bound: settlement journals of a branch

Event == Movement \cup Reversal
SettlementEntry == Branch \X (1..MaxSettlements)
Entry == Event \cup SettlementEntry

SettlementAssumption ==
  /\ IsFiniteSet(Event) /\ IsFiniteSet(Branch)
  /\ Movement \cap Reversal = {}
  /\ \A e \in Reversal : Original(e) \in Movement
  /\ \A e \in Movement : Worth(e) \in Int
  /\ Cent \in Nat \ {0}
  /\ \A e \in Event : BranchOf(e) \in Branch /\ DateOf(e) \in Date
  /\ \A e \in Reversal : BranchOf(e) = BranchOf(Original(e))
  /\ Date \subseteq Int
  /\ Span \subseteq Date \X Date
  /\ NoKey \notin Key
  /\ NoEntry \notin Entry
  /\ Event \cap SettlementEntry = {}
  /\ MaxSettlements \in Nat

VARIABLES
  status,    \* status[e]: financial_events.status
  journaled, \* events with a journal entry
  row,       \* row[e]: status of the event's reconciliation row
  link,      \* link[e]: settlement_journal_id of that row
  amount,    \* amount[s]: minor units of a settlement journal, 0 before it exists
  key,       \* key[s]: idempotency_key in its meta
  undone,    \* entries with a reversal entry
  period,    \* period[r]: accounting_periods.status
  posting,   \* events whose transaction passed the period guard
  undoing    \* entries whose reversal passed its guards

books == <<journaled, row, link, amount, key, undone>>
vars == <<status, books, period, posting, undoing>>

TypeOK ==
  /\ status \in [Event -> {"pending", "posted", "deferred_rounding", "non_posting", "reconciled"}]
  /\ journaled \subseteq Event
  /\ row \in [Event -> {"none", "open", "settled", "reversed"}]
  /\ link \in [Event -> Entry \cup {NoEntry}]
  /\ amount \in [SettlementEntry -> Int]
  /\ key \in [SettlementEntry -> Key \cup {NoKey}]
  /\ undone \subseteq Entry
  /\ period \in [Span -> {"none", "open", "locked"}]
  /\ posting \subseteq Event
  /\ undoing \subseteq Entry

Init ==
  /\ status = [e \in Event |-> "pending"]
  /\ journaled = {}
  /\ row = [e \in Event |-> "none"]
  /\ link = [e \in Event |-> NoEntry]
  /\ amount = [s \in SettlementEntry |-> 0]
  /\ key = [s \in SettlementEntry |-> NoKey]
  /\ undone = {}
  /\ period = [r \in Span |-> "none"]
  /\ posting = {}
  /\ undoing = {}

-----------------------------------------------------------------------------

\* A total_value: a reversal's negates its movement's.
Value(e) == IF e \in Movement THEN Worth(e) ELSE -Worth(Original(e))

\* toMinorUnits: half a minor unit and more rounds away from zero.
Rounded(v) == IF v < 0 THEN -((2 * (-v) + Cent) \div (2 * Cent))
                       ELSE (2 * v + Cent) \div (2 * Cent)

Residual(e) == Value(e) - Cent * Rounded(Value(e))

Covers(r, d) == r[1] <= d /\ d <= r[2]

\* ykms_guard_accounting_period and the same query in reverseJournalEntry.
Locked(d) == \E r \in Span : period[r] = "locked" /\ Covers(r, d)

HasEvidence(e) == e \in journaled \/ row[e] # "none"

\* The transaction up to its inserts: a movement worth nothing leaves no
\* evidence, a reversal needs its movement's.
Post(e) ==
  /\ status[e] = "pending"
  /\ e \notin posting
  /\ e \in Reversal => HasEvidence(Original(e))
  /\ IF Value(e) = 0
       THEN /\ status' = [status EXCEPT ![e] = "non_posting"]
            /\ posting' = posting
       ELSE /\ ~Locked(DateOf(e))
            /\ posting' = posting \cup {e}
            /\ status' = status
  /\ UNCHANGED <<books, period, undoing>>

RecordMovement(e) ==
  LET entry == Rounded(Value(e)) # 0
  IN /\ status' = [status EXCEPT ![e] = IF entry THEN "posted" ELSE "deferred_rounding"]
     /\ journaled' = IF entry THEN journaled \cup {e} ELSE journaled
     /\ row' = IF Residual(e) = 0 THEN row ELSE [row EXCEPT ![e] = "open"]
     /\ link' = IF Residual(e) # 0 /\ entry THEN [link EXCEPT ![e] = e] ELSE link

\* Bug: the update of the movement's row forgets that it must be open.
ReversibleAlways(m) == TRUE

\* The update of the movement's row finds it open, or there is none to update.
Reversible(m) == row[m] \in {"none", "open"}

RecordReversal(e, m) ==
  LET entry == m \in journaled
  IN /\ Reversible(m)
     /\ status' = [status EXCEPT ![e] = IF entry THEN "posted" ELSE "reconciled",
                                 ![m] = IF entry THEN @ ELSE "reconciled"]
     /\ journaled' = IF entry THEN journaled \cup {e} ELSE journaled
     /\ row' = IF row[m] = "none" THEN row ELSE [row EXCEPT ![e] = "settled", ![m] = "reversed"]
     /\ link' = IF row[m] # "none" /\ entry THEN [link EXCEPT ![e] = e] ELSE link

Record(e) ==
  /\ e \in posting
  /\ posting' = posting \ {e}
  /\ IF e \in Movement THEN RecordMovement(e) ELSE RecordReversal(e, Original(e))
  /\ UNCHANGED <<amount, key, undone, period, undoing>>

\* The transaction fails or is cut off, and the event is posted again.
RollBackPost(e) ==
  /\ e \in posting
  /\ posting' = posting \ {e}
  /\ UNCHANGED <<status, books, period, undoing>>

-----------------------------------------------------------------------------

Entries(b) == {n \in 1..MaxSettlements : amount[<<b, n>>] # 0}

Fresh(b) == <<b, Cardinality(Entries(b)) + 1>>

OpenRows(bs, r) == {e \in Event : row[e] = "open" /\ BranchOf(e) \in bs /\ Covers(r, DateOf(e))}

Sum(rows) == SumFunctionOnSet([e \in Event |-> Residual(e)], rows)

\* Bug: the sum is rounded down and not to the nearest minor unit.
GroupMinorDown(rows) == Sum(rows) \div Cent

\* journalMinor of a group of rows.
GroupMinor(rows) == Rounded(Sum(rows))

\* settleOpenResiduals: one journal dated d for each branch whose residuals in
\* the range do not round to nothing; all of the rows are settled.
SettleRows(bs, r, d, k) ==
  LET rows == OpenRows(bs, r)
      Group(b) == {e \in rows : BranchOf(e) = b}
      journals == {b \in bs : GroupMinor(Group(b)) # 0}
      new == {Fresh(b) : b \in journals}
  IN /\ journals # {} => ~Locked(d)
     /\ \A b \in journals : Cardinality(Entries(b)) < MaxSettlements
     /\ amount' = [s \in SettlementEntry |->
                     IF s \in new THEN GroupMinor(Group(s[1])) ELSE amount[s]]
     /\ key' = [s \in SettlementEntry |-> IF s \in new THEN k ELSE key[s]]
     /\ row' = [e \in Event |-> IF e \in rows THEN "settled" ELSE row[e]]
     /\ link' = [e \in Event |->
                   IF e \notin rows THEN link[e]
                   ELSE IF BranchOf(e) \in journals THEN Fresh(BranchOf(e)) ELSE NoEntry]
     /\ status' = [e \in Event |->
                     IF e \in rows /\ status[e] = "deferred_rounding" THEN "reconciled"
                                                                      ELSE status[e]]

\* A key that a journal carries is answered from that journal.
Settle(bs, r, d, k) ==
  /\ k \in Key => \A s \in SettlementEntry : key[s] # k
  /\ OpenRows(bs, r) # {}
  /\ SettleRows(bs, r, d, k)
  /\ UNCHANGED <<journaled, undone, period, posting, undoing>>

\* Settlement dated at the close and the lock, in one transaction.
LockPeriod(r) ==
  /\ SettleRows(Branch, r, r[2], NoKey)
  /\ period' = [period EXCEPT ![r] = "locked"]
  /\ UNCHANGED <<journaled, undone, posting, undoing>>

OpenPeriod(r) ==
  /\ period[r] = "locked"
  /\ period' = [period EXCEPT ![r] = "open"]
  /\ UNCHANGED <<status, books, posting, undoing>>

-----------------------------------------------------------------------------

\* The rows of a settlement; an entry of an event has none.
RowsOf(x) == {e \in Event : x \in SettlementEntry /\ row[e] = "settled" /\ link[e] = x}

Exists(x) == IF x \in SettlementEntry THEN amount[x] # 0 ELSE x \in journaled

\* Up to the insert of the reversal entry, dated d.  The rows stay locked.
Reverse(x, d) ==
  /\ Exists(x) /\ x \notin undone /\ x \notin undoing
  /\ ~Locked(d)
  /\ \A e \in RowsOf(x) : ~Locked(DateOf(e))
  /\ undoing' = undoing \cup {x}
  /\ UNCHANGED <<status, books, period, posting>>

\* Bug: the reversal of a settlement forgets the events of its rows.
ReopenedWithoutEvents(x) == [e \in Event |-> status[e]]

\* The events of reopened rows wait for the next settlement again.
Reopened(x) == [e \in Event |->
  IF e \in RowsOf(x) /\ status[e] = "reconciled" THEN "deferred_rounding" ELSE status[e]]

Undo(x) ==
  /\ x \in undoing
  /\ undoing' = undoing \ {x}
  /\ undone' = undone \cup {x}
  /\ status' = Reopened(x)
  /\ row' = [e \in Event |-> IF e \in RowsOf(x) THEN "open" ELSE row[e]]
  /\ link' = [e \in Event |-> IF e \in RowsOf(x) THEN NoEntry ELSE link[e]]
  /\ UNCHANGED <<journaled, amount, key, period, posting>>

RollBackReverse(x) ==
  /\ x \in undoing
  /\ undoing' = undoing \ {x}
  /\ UNCHANGED <<status, books, period, posting>>

Next ==
  \/ \E e \in Event : Post(e) \/ Record(e) \/ RollBackPost(e)
  \/ \E bs \in {Branch} \cup {{b} : b \in Branch}, r \in Span, d \in Date,
        k \in Key \cup {NoKey} : Settle(bs, r, d, k)
  \/ \E r \in Span : LockPeriod(r) \/ OpenPeriod(r)
  \/ \E x \in Entry : Undo(x) \/ RollBackReverse(x)
  \/ \E x \in Entry, d \in Date : Reverse(x, d)

Spec == Init /\ [][Next]_vars

-----------------------------------------------------------------------------

Live == {s \in SettlementEntry : amount[s] # 0 /\ s \notin undone}
Recorded == {e \in Event : HasEvidence(e)}
Absorbed == {e \in Movement : row[e] = "settled" /\ link[e] = NoEntry}

\* What stock is worth by its movements is what the books say: the journals of
\* the events, the settlements that stand, the residuals still open and those
\* absorbed without a journal, up to half a minor unit for each settlement,
\* through settling, reversing settlements, settling again and reversing
\* movements in any order.  Journals of events that an accountant reversed
\* count as what they were.
BooksFollowStock ==
  LET stock == SumFunctionOnSet([e \in Event |-> Value(e)], Recorded)
      journals == SumFunctionOnSet([e \in Event |-> Rounded(Value(e))], journaled)
      settlements == SumFunctionOnSet(amount, Live)
      waiting == Sum({e \in Event : row[e] = "open"} \cup Absorbed)
      gap == stock - Cent * (journals + settlements) - waiting
  IN 2 * gap <= Cent * Cardinality(Live) /\ -2 * gap <= Cent * Cardinality(Live)

\* An event is deferred_rounding exactly while its only evidence is an open
\* residual: settlements, reversals of them and reversals of the movement keep
\* the two tables together.
DeferredIsOpen ==
  \A e \in Event : status[e] = "deferred_rounding" <=> row[e] = "open" /\ e \notin journaled

\* Every settlement that stands is the rounded sum of the residuals linked to it.
SettlementBacked == \A s \in Live : amount[s] = GroupMinor(RowsOf(s))

\* A locked period contains no open residual, as the comment in
\* reverseJournalEntry and ADR-004 have it.
LockedPeriodSettled == \A e \in Event : row[e] = "open" => ~Locked(DateOf(e))
=============================================================================
