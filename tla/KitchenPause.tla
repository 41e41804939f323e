---------------------------- MODULE KitchenPause ----------------------------
(***************************************************************************)
(* Pausing one branch's kitchen and submitting orders to it:               *)
(*                                                                         *)
(*   POST  /kitchen/pause, POST /kitchen/resume                            *)
(*   POST  /orders           its pause check, create transaction and the   *)
(*                           write of "submitted" that follows             *)
(*   PATCH /orders/:id/status with "submitted"                             *)
(*                                                                         *)
(* The state row of the branch is created by the first pause.  A pause or  *)
(* resume locks the row, decides, and writes version + 1: the row is read  *)
(* and written in two steps here, with the lock between them.              *)
(***************************************************************************)
EXTENDS Integers, Sequences

CONSTANTS
  Manager,     \* concurrent pause and resume requests
  NoManager,
  Order,       \* orders that clients create
  Key,         \* idempotency keys of pauses and resumes
  NoKey,
  MaxFlips     \* bound: times the branch is paused or resumed

PauseAssumption ==
  /\ NoManager \notin Manager
  /\ NoKey \notin Key
  /\ MaxFlips \in Nat

VARIABLES
  row,     \* the row of kitchen_branch_states; exists is FALSE before it is inserted
  owner,   \* the transaction that locked the row
  pc,      \* pc[m]: "idle", "reading", "inserting", "rereading" or "writing"
  job,     \* job[m]: whether m pauses, and its key
  seen,    \* seen[m]: the row as m read it under the lock
  order,   \* order[o]: "none", "checked", "draft", "submitting", "submitted"
  flips,   \* every pause and resume that was applied, in order
  told     \* pauses and resumes that were answered 200 or 201

vars == <<row, owner, pc, job, seen, order, flips, told>>

Job == [pause : BOOLEAN, key : Key]

BranchState ==
  [exists : BOOLEAN, is_paused : BOOLEAN, version : 0..MaxFlips,
   last_pause_key : Key \cup {NoKey}, last_resume_key : Key \cup {NoKey}]

NoRow == [exists |-> FALSE, is_paused |-> FALSE, version |-> 0,
          last_pause_key |-> NoKey, last_resume_key |-> NoKey]

TypeOK ==
  /\ row \in BranchState
  /\ owner \in Manager \cup {NoManager}
  /\ pc \in [Manager -> {"idle", "reading", "inserting", "rereading", "writing"}]
  /\ job \in [Manager -> Job]
  /\ seen \in [Manager -> BranchState]
  /\ order \in [Order -> {"none", "checked", "draft", "submitting", "submitted"}]
  /\ flips \in Seq(Job)
  /\ told \subseteq Job

Init ==
  /\ row = NoRow
  /\ owner = NoManager
  /\ pc = [m \in Manager |-> "idle"]
  /\ job \in {[m \in Manager |-> j] : j \in Job}
  /\ seen = [m \in Manager |-> NoRow]
  /\ order = [o \in Order |-> "none"]
  /\ flips = <<>>
  /\ told = {}

-----------------------------------------------------------------------------
(* A pause or resume.                                                      *)

Finish(m) ==
  /\ pc' = [pc EXCEPT ![m] = "idle"]
  /\ owner' = IF owner = m THEN NoManager ELSE owner

Ask(m, pause, k) ==
  /\ pc[m] = "idle"
  /\ Len(flips) < MaxFlips
  /\ job' = [job EXCEPT ![m] = [pause |-> pause, key |-> k]]
  /\ pc' = [pc EXCEPT ![m] = "reading"]
  /\ UNCHANGED <<row, owner, seen, order, flips, told>>

\* The first SELECT finds no committed row: a resume is refused, a pause goes on
\* to insert it.
ReadNothing(m) ==
  /\ pc[m] = "reading"
  /\ ~row.exists
  /\ pc' = [pc EXCEPT ![m] = IF job[m].pause THEN "inserting" ELSE "idle"]
  /\ UNCHANGED <<row, owner, job, seen, order, flips, told>>

\* INSERT ... ON CONFLICT DO NOTHING waits for another transaction's insert.
\* The inserted row is locked, and invisible to others until the commit.
Insert(m) ==
  /\ pc[m] = "inserting"
  /\ owner = NoManager
  /\ \/ /\ row.exists
        /\ pc' = [pc EXCEPT ![m] = "rereading"]
        /\ UNCHANGED <<owner, seen>>
     \/ /\ ~row.exists
        /\ pc' = [pc EXCEPT ![m] = "writing"]
        /\ owner' = m
        /\ seen' = [seen EXCEPT ![m] = [row EXCEPT !.exists = TRUE]]
  /\ UNCHANGED <<row, job, order, flips, told>>

\* Bug: whoever asked for it, the state the branch is in counts as done.
IsReplayOfAny(m) == TRUE

\* A request that finds the branch as it would leave it was answered before if
\* the key is that of the last such change, and is refused otherwise.
IsReplay(m) ==
  job[m].key = IF job[m].pause THEN row.last_pause_key ELSE row.last_resume_key

\* Bug: the row is read without FOR UPDATE.
LockFreeAlways == TRUE

LockFree == owner = NoManager

\* SELECT ... FOR UPDATE of an existing row, and what the code decides by it.
ReadLocked(m) ==
  /\ pc[m] \in {"reading", "rereading"}
  /\ row.exists
  /\ LockFree
  /\ \/ /\ row.is_paused = job[m].pause
        /\ told' = IF IsReplay(m) THEN told \cup {job[m]} ELSE told
        /\ Finish(m)
        /\ UNCHANGED seen
     \/ /\ row.is_paused # job[m].pause
        /\ pc' = [pc EXCEPT ![m] = "writing"]
        /\ owner' = m
        /\ seen' = [seen EXCEPT ![m] = row]
        /\ UNCHANGED told
  /\ UNCHANGED <<row, job, order, flips>>

\* Bug: the key of the opposite change is cleared with every change.
WrittenClearingKeys(m) ==
  [seen[m] EXCEPT
     !.is_paused = job[m].pause,
     !.version = @ + 1,
     !.last_pause_key = IF job[m].pause THEN job[m].key ELSE NoKey,
     !.last_resume_key = IF job[m].pause THEN NoKey ELSE job[m].key]

\* The row after the update: the key of the opposite change is not touched.
Written(m) ==
  [seen[m] EXCEPT
     !.is_paused = job[m].pause,
     !.version = @ + 1,
     !.last_pause_key = IF job[m].pause THEN job[m].key ELSE row.last_pause_key,
     !.last_resume_key = IF job[m].pause THEN row.last_resume_key ELSE job[m].key]

\* The update by id, its audit row, and the commit.
Write(m) ==
  /\ pc[m] = "writing"
  /\ Len(flips) < MaxFlips
  /\ row' = Written(m)
  /\ flips' = Append(flips, job[m])
  /\ told' = told \cup {job[m]}
  /\ Finish(m)
  /\ UNCHANGED <<job, seen, order>>

\* The transaction fails or the process stops before the commit.
Abort(m) ==
  /\ pc[m] # "idle"
  /\ Finish(m)
  /\ UNCHANGED <<row, job, seen, order, flips, told>>

-----------------------------------------------------------------------------
(* Orders of the branch.                                                   *)

\* assertKitchenAcceptsOrders, ahead of the create transaction; an order that
\* finds the kitchen paused is refused and leaves nothing.
CheckPause(o) ==
  /\ order[o] = "none"
  /\ ~row.is_paused
  /\ order' = [order EXCEPT ![o] = "checked"]
  /\ UNCHANGED <<row, owner, pc, job, seen, flips, told>>

\* The create transaction; with submit, the write of "submitted" is to follow.
CreateOrder(o, submit) ==
  /\ order[o] = "checked"
  /\ order' = [order EXCEPT ![o] = IF submit THEN "submitting" ELSE "draft"]
  /\ UNCHANGED <<row, owner, pc, job, seen, flips, told>>

\* "submitted" by the creating request, or by a PATCH of the draft, which has
\* no look at the pause.
Submit(o) ==
  /\ order[o] \in {"draft", "submitting"}
  /\ order' = [order EXCEPT ![o] = "submitted"]
  /\ UNCHANGED <<row, owner, pc, job, seen, flips, told>>

Next ==
  \/ \E m \in Manager :
       \/ \E pause \in BOOLEAN, k \in Key : Ask(m, pause, k)
       \/ ReadNothing(m)
       \/ Insert(m)
       \/ ReadLocked(m)
       \/ Write(m)
       \/ Abort(m)
  \/ \E o \in Order :
       \/ CheckPause(o)
       \/ \E submit \in BOOLEAN : CreateOrder(o, submit)
       \/ Submit(o)

Spec == Init /\ [][Next]_vars

-----------------------------------------------------------------------------
(* Properties.                                                             *)

\* Concurrent pauses and resumes are serialised by the row, its first insert
\* included: what is applied is pause, resume, pause, ... and never the same
\* change twice in a row.
FlipsAlternate ==
  \A i \in DOMAIN flips : flips[i].pause = (i % 2 = 1)

\* No change is lost: the version counts every one of them, and the branch is
\* in the state, and remembers the keys, that the last changes left.
RowReflectsFlips ==
  /\ row.version = Len(flips)
  /\ row.is_paused = (Len(flips) % 2 = 1)
  /\ \A i \in DOMAIN flips :
       /\ i >= Len(flips) - 1 /\ flips[i].pause => row.last_pause_key = flips[i].key
       /\ i >= Len(flips) - 1 /\ ~flips[i].pause => row.last_resume_key = flips[i].key

\* A manager who was answered 200 or 201 had the change applied, by this request
\* or by an earlier one with the same key.
AnsweredWasApplied == \A j \in told : \E i \in DOMAIN flips : flips[i] = j

\* What the branch's row and the history of it say at any time.
FlipsStand == FlipsAlternate /\ RowReflectsFlips /\ AnsweredWasApplied

\* Stated by ADR-005 ("backend rejects final order submission ... before any
\* order row ... is created"): no order appears while the kitchen is paused.
PausedRefusesOrders ==
  [][row.is_paused => \A o \in Order :
       order[o] \in {"none", "checked"} => order'[o] \in {"none", "checked"}]_vars

\* Stated by ADR-005 ("retry after timeout: same idempotency_key, replay of
\* stored outcome"): a pause that is sent again is not applied again.
PauseKeyUsedOnce ==
  \A i, j \in DOMAIN flips : (flips[i] = flips[j] /\ flips[i].pause) => i = j

=============================================================================
