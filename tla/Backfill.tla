------------------------------ MODULE Backfill ------------------------------
(***************************************************************************)
(* The tool that gives old payments, cash movements and stock movements    *)
(* the financial events they lack                                          *)
(* (apps/api/src/modules/accountingBackfill.ts), run by several people at  *)
(* once while the running system records new ones.  Sources that get no    *)
(* event (unpaid markers, transfers, adjustments by hand) are left out,    *)
(* and so are the dry run, which is the preview alone, the guard that      *)
(* keeps writes to test databases, and the reconciliation, which reads.    *)
(***************************************************************************)
EXTENDS Integers, Sequences, FiniteSets, SequencesExt

CONSTANTS
  Payment, Cash, Movement,  \* sources, numbered in the order of created_at
  Old,                      \* sources from before there were events
  Run,                      \* processes of the tool
  Limit,                    \* sources of one run
  MaxCrashes                \* bound: runs that are stopped

Source == Payment \cup Cash \cup Movement

BackfillAssumption ==
  /\ Source \subseteq Nat /\ Old \subseteq Source /\ IsFiniteSet(Old)
  /\ Limit \in Nat \ {0} /\ MaxCrashes \in Nat

VARIABLES
  present,    \* sources there are
  events,     \* events as pairs of their source and the version in their key
  excessive,  \* payments that exceed what is left of their order's total
  preview,    \* preview[r]: the sources r has found
  at,         \* at[r]: the item r is at, 0 before a run
  missing,    \* missing[r]: r has not found an event with the item's key
  finished,   \* runs that have written their report
  crashes

run == <<preview, at, missing, finished>>
vars == <<present, events, excessive, run, crashes>>

Init ==
  /\ present = Old /\ events = {}
  /\ excessive \in SUBSET (Payment \cap Old)
  /\ preview = [r \in Run |-> <<>>]
  /\ at = [r \in Run |-> 0]
  /\ missing = [r \in Run |-> FALSE]
  /\ finished = {}
  /\ crashes = 0

HasEvent(s) == \E v \in {1, 2} : <<s, v>> \in events

-----------------------------------------------------------------------------

\* The running system stores a source with its event; the keys of its stock
\* movements have another version than those of the tool.
Record(s) ==
  /\ s \notin present
  /\ present' = present \cup {s}
  /\ events' = events \cup {<<s, IF s \in Movement THEN 2 ELSE 1>>}
  /\ UNCHANGED <<excessive, run, crashes>>

\* Bug: the keys of the tool are looked for, not the sources.
LacksEventOfTool(s) == s \in present /\ <<s, 1>> \notin events

LacksEvent(s) == s \in present /\ ~HasEvent(s)

Take(q) == SubSeq(q, 1, IF Len(q) < Limit THEN Len(q) ELSE Limit)

\* In the order of created_at.
Sorted(S) == CHOOSE q \in SetToSeqs(S) : \A i, j \in DOMAIN q : i < j => q[i] < q[j]

Oldest(S) == Take(Sorted({s \in S : LacksEvent(s)}))

\* previewSources: the payments go first, then cash, then stock.
Previewed == Take(Oldest(Payment) \o Oldest(Cash) \o Oldest(Movement))

Preview(r) ==
  /\ at[r] = 0
  /\ preview' = [preview EXCEPT ![r] = Previewed]
  /\ at' = [at EXCEPT ![r] = 1]
  /\ finished' = finished \ {r}
  /\ UNCHANGED <<present, events, excessive, missing, crashes>>

AtItem(r) == at[r] \in DOMAIN preview[r]
Item(r) == preview[r][at[r]]

\* The run goes on with the next item, or throws and ends without a report.
GoOn(r) ==
  /\ at' = [at EXCEPT ![r] = @ + 1]
  /\ missing' = [missing EXCEPT ![r] = FALSE]
  /\ UNCHANGED <<preview, finished>>

Throw(r) ==
  /\ at' = [at EXCEPT ![r] = 0]
  /\ missing' = [missing EXCEPT ![r] = FALSE]
  /\ UNCHANGED <<preview, finished>>

\* captureAllocation adds up the payments of the order; no item is passed over.
Allocate(r) ==
  /\ AtItem(r) /\ ~missing[r]
  /\ Item(r) \in excessive
  /\ Throw(r)
  /\ UNCHANGED <<present, events, excessive, crashes>>

\* enqueueFinancialEvent takes an event that has the key for its own ...
Look(r) ==
  /\ AtItem(r) /\ ~missing[r]
  /\ Item(r) \notin excessive
  /\ \/ /\ <<Item(r), 1>> \in events
        /\ GoOn(r)
     \/ /\ <<Item(r), 1>> \notin events
        /\ missing' = [missing EXCEPT ![r] = TRUE]
        /\ UNCHANGED <<preview, at, finished>>
  /\ UNCHANGED <<present, events, excessive, crashes>>

\* ... or inserts one, unless another run has done so meanwhile.
Insert(r) ==
  /\ AtItem(r) /\ missing[r]
  /\ \/ /\ <<Item(r), 1>> \notin events
        /\ events' = events \cup {<<Item(r), 1>>}
        /\ GoOn(r)
     \/ /\ <<Item(r), 1>> \in events
        /\ Throw(r)
        /\ UNCHANGED events
  /\ UNCHANGED <<present, excessive, crashes>>

\* Bug: the report is written when the last item is at hand.
AllDoneEarly(r) == at[r] >= Len(preview[r])

AllDone(r) == at[r] > Len(preview[r])

Finish(r) ==
  /\ at[r] > 0
  /\ AllDone(r)
  /\ at' = [at EXCEPT ![r] = 0]
  /\ missing' = [missing EXCEPT ![r] = FALSE]
  /\ finished' = finished \cup {r}
  /\ UNCHANGED <<present, events, excessive, preview, crashes>>

Crash(r) ==
  /\ at[r] > 0
  /\ crashes < MaxCrashes /\ crashes' = crashes + 1
  /\ Throw(r)
  /\ UNCHANGED <<present, events, excessive>>

-----------------------------------------------------------------------------
Proceed(r) == Allocate(r) \/ Look(r) \/ Insert(r) \/ Finish(r)

Next ==
  \/ \E s \in Source : Record(s)
  \/ \E r \in Run : Preview(r) \/ Proceed(r) \/ Crash(r)

\* A run goes on, and somebody runs the tool again.
Spec ==
  /\ Init /\ [][Next]_vars
  /\ \A r \in Run : WF_vars(Preview(r)) /\ WF_vars(Proceed(r))

-----------------------------------------------------------------------------
(* Properties.                                                             *)

\* accounting-backfill.test.ts: "creates idempotent pending events".  No source gets
\* two events, one of the system and one of the tool, though their keys differ.
OneEventEach == \A s \in Source : ~({<<s, 1>>, <<s, 2>>} \subseteq events)

\* A run that reports has an event for each source it has found.
ReportComplete ==
  \A r \in finished : \A i \in DOMAIN preview[r] : HasEvent(preview[r][i])

\* Payments are found before cash and cash before stock, each the older first.
Before(s, t) ==
  LET rank(u) == IF u \in Payment THEN 1 ELSE IF u \in Cash THEN 2 ELSE 3
  IN rank(s) < rank(t) \/ (rank(s) = rank(t) /\ s < t)

\* An old source gets its event, however small the limit, whatever runs at the same
\* time and whichever runs are stopped, unless a payment that cannot be allocated
\* is found before it: that one stops every run.
EventComes ==
  <>[](\A s \in Old : (\A t \in excessive : ~Before(t, s) /\ t # s) => HasEvent(s))
=============================================================================
