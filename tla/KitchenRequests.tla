-------------------------- MODULE KitchenRequests --------------------------
(***************************************************************************)
(* Requests that change an order in the kitchen, down to the pooled        *)
(* database connections and the row lock they need:                        *)
(*                                                                         *)
(*   PATCH /orders/:id/status, PATCH /kitchen/orders/:id/status            *)
(*   POST  /kitchen/orders/:id/hold, POST /kitchen/orders/:id/hold-resume  *)
(*                                                                         *)
(* Each opens a transaction, which holds one connection of the pool to its *)
(* end, and locks the order row.  A transition to ready then asks whether  *)
(* the order is on hold through the pool, not through its transaction: it  *)
(* needs a second connection while it keeps the first and the row lock.    *)
(***************************************************************************)
EXTENDS Integers, Sequences, FiniteSets, OrderStatus

CONSTANTS
  Request,    \* the API's concurrently served requests
  NoRequest,
  Order,
  Key,        \* idempotency keys of holds and resumes
  NoKey,
  PoolSize,   \* pool.max of knex.ts
  NoJob,      \* an idle request
  MaxHolds    \* bound: holds of one order

VARIABLES
  pc,      \* pc[r]: "idle", "connecting", "locking", "checking" or "writing"
  job,     \* job[r]: what r does, to which order, with which key
  owner,   \* owner[o]: the transaction that locked the row of o
  status,  \* status[o]: orders.status
  late,    \* late[o]: the request that created o has not written "submitted" yet
  holds,   \* holds[o]: the rows of kitchen_order_holds for o, oldest first
  told     \* hold and resume requests that were answered 200 or 201

vars == <<pc, job, owner, status, late, holds, told>>

Target == {"in_kitchen", "ready", "completed", "cancelled"}
Kind == Target \cup {"hold", "hold-resume"}

Job == [kind : Kind, order : Order, key : Key \cup {NoKey}]
HoldRow == [hold_key : Key, resume_key : Key \cup {NoKey}]

KitchenAssumption ==
  /\ NoRequest \notin Request
  /\ NoKey \notin Key
  /\ NoJob \notin Job
  /\ PoolSize \in Nat \ {0}
  /\ MaxHolds \in Nat

TypeOK ==
  /\ pc \in [Request -> {"idle", "connecting", "locking", "checking", "writing"}]
  /\ job \in [Request -> Job \cup {NoJob}]
  /\ owner \in [Order -> Request \cup {NoRequest}]
  /\ status \in [Order -> Statuses]
  /\ late \in [Order -> BOOLEAN]
  /\ holds \in [Order -> Seq(HoldRow)]
  /\ told \subseteq Job

Init ==
  /\ pc = [r \in Request |-> "idle"]
  /\ job = [r \in Request |-> NoJob]
  /\ owner = [o \in Order |-> NoRequest]
  /\ status = [o \in Order |-> "submitted"]
  /\ late \in [Order -> BOOLEAN]
  /\ holds = [o \in Order |-> <<>>]
  /\ told = {}

-----------------------------------------------------------------------------

\* The rows getActiveHold can find.
ActiveHolds(o) == {i \in DOMAIN holds[o] : holds[o][i].resume_key = NoKey}

OnHold(o) == ActiveHolds(o) # {}

\* Requests whose transaction keeps a connection.
Busy == {r \in Request : pc[r] \in {"locking", "checking", "writing"}}

\* Bug: the row is read without FOR UPDATE.
RowFreeAlways(o) == TRUE

\* No transaction has locked the row.
RowFree(o) == owner[o] = NoRequest

\* Bound: a hold is asked for only while the order has room for its row.
RoomForHold(o) ==
  Len(holds[o]) + Cardinality({r \in Request : job[r] # NoJob /\ job[r].order = o
                                               /\ job[r].kind = "hold"}) < MaxHolds

ToReady(r) == job[r].kind = "ready"

\* The status check of transitionOrderStatus and of handleCancellation.
MayAdvance(now, to) == to \in TRANSITIONS[now]

\* Bug: an order can be held whatever came after it was sent to the kitchen.
HoldableLoosely(o) == status[o] \notin {"draft", "submitted"} /\ ~OnHold(o)

\* The checks of the hold route: no active hold, and in the kitchen.
Holdable(o) == status[o] = "in_kitchen" /\ ~OnHold(o)

-----------------------------------------------------------------------------
(* The steps of a request.                                                 *)

\* Bug: a refused or finished request keeps its row lock.
FinishKeepingLock(r) ==
  /\ pc' = [pc EXCEPT ![r] = "idle"]
  /\ job' = [job EXCEPT ![r] = NoJob]
  /\ UNCHANGED owner

\* The request ends: COMMIT or ROLLBACK gives back connection and row lock.
\* A request that waits for the row has no lock to give back.
Finish(r) ==
  /\ pc' = [pc EXCEPT ![r] = "idle"]
  /\ job' = [job EXCEPT ![r] = NoJob]
  /\ owner' = [o \in Order |-> IF owner[o] = r THEN NoRequest ELSE owner[o]]

Go(r, step) == pc' = [pc EXCEPT ![r] = step] /\ UNCHANGED job

\* A client asks; with a key used before, it retries.
Ask(r, kind, o, k) ==
  /\ pc[r] = "idle"
  /\ (k = NoKey) <=> (kind \in Target)
  /\ kind = "hold" => RoomForHold(o)
  /\ job' = [job EXCEPT ![r] = [kind |-> kind, order |-> o, key |-> k]]
  /\ pc' = [pc EXCEPT ![r] = "connecting"]
  /\ UNCHANGED <<owner, status, late, holds, told>>

\* BEGIN takes a connection of the pool.
Connect(r) ==
  /\ pc[r] = "connecting"
  /\ Cardinality(Busy) < PoolSize
  /\ Go(r, "locking")
  /\ UNCHANGED <<owner, status, late, holds, told>>

\* SELECT ... FOR UPDATE of the order.  A request that goes on keeps the lock.
Lock(r, accepted, step) ==
  LET o == job[r].order IN
  /\ pc[r] = "locking"
  /\ RowFree(o)
  /\ IF accepted
     THEN Go(r, step) /\ owner' = [owner EXCEPT ![o] = r]
     ELSE Finish(r)
  /\ UNCHANGED <<status, late, holds>>

LockTransition(r) ==
  /\ job[r] # NoJob /\ job[r].kind \in Target
  /\ Lock(r, MayAdvance(status[job[r].order], job[r].kind),
          IF ToReady(r) THEN "checking" ELSE "writing")
  /\ UNCHANGED told

\* Bug: whoever asks to hold an order on hold is told that it was done.
LockHoldForAnyone(r) ==
  /\ job[r] # NoJob /\ job[r].kind = "hold"
  /\ Lock(r, Holdable(job[r].order), "writing")
  /\ told' = IF OnHold(job[r].order) THEN told \cup {job[r]} ELSE told

\* An active hold with the same key is answered again, with another refused.
LockHold(r) ==
  /\ job[r] # NoJob /\ job[r].kind = "hold"
  /\ Lock(r, Holdable(job[r].order), "writing")
  /\ LET o == job[r].order IN
     told' = IF \E i \in ActiveHolds(o) : holds[o][i].hold_key = job[r].key
             THEN told \cup {job[r]} ELSE told

\* Without an active hold, any row resumed with the key is answered again.
LockResume(r) ==
  /\ job[r] # NoJob /\ job[r].kind = "hold-resume"
  /\ Lock(r, OnHold(job[r].order), "writing")
  /\ LET o == job[r].order IN
     told' = IF ~OnHold(o) /\ \E i \in DOMAIN holds[o] : holds[o][i].resume_key = job[r].key
             THEN told \cup {job[r]} ELSE told

\* Bug: the hold is looked for before the row is locked, not after.
CheckNothing(r) ==
  /\ pc[r] = "checking"
  /\ Go(r, "writing")
  /\ UNCHANGED <<owner, status, late, holds, told>>

\* assertNotHeldForReady, on a second connection that it gives back at once.
CheckHold(r) ==
  /\ pc[r] = "checking"
  /\ Cardinality(Busy) < PoolSize
  /\ IF OnHold(job[r].order)
     THEN Finish(r)
     ELSE Go(r, "writing") /\ UNCHANGED owner
  /\ UNCHANGED <<status, late, holds, told>>

WriteTransition(r) ==
  /\ pc[r] = "writing" /\ job[r].kind \in Target
  /\ status' = [status EXCEPT ![job[r].order] = job[r].kind]
  /\ Finish(r)
  /\ UNCHANGED <<late, holds, told>>

WriteHold(r) ==
  /\ pc[r] = "writing" /\ job[r].kind = "hold"
  /\ holds' = [holds EXCEPT ![job[r].order] =
                  Append(@, [hold_key |-> job[r].key, resume_key |-> NoKey])]
  /\ told' = told \cup {job[r]}
  /\ Finish(r)
  /\ UNCHANGED <<status, late>>

WriteResume(r) ==
  /\ pc[r] = "writing" /\ job[r].kind = "hold-resume"
  /\ LET o == job[r].order IN
     holds' = [holds EXCEPT ![o] =
                 [i \in DOMAIN @ |-> IF i \in ActiveHolds(o)
                                     THEN [@[i] EXCEPT !.resume_key = job[r].key] ELSE @[i]]]
  /\ told' = told \cup {job[r]}
  /\ Finish(r)
  /\ UNCHANGED <<status, late>>

\* knex gives up waiting for a connection; the transaction is rolled back.
GiveUp(r) ==
  /\ pc[r] \in {"connecting", "checking"}
  /\ Cardinality(Busy) >= PoolSize
  /\ Finish(r)
  /\ UNCHANGED <<status, late, holds, told>>

\* The second half of the order's creation: one statement, which waits for the
\* row lock like any other but does not look at the status.
MarkSubmitted(o) ==
  /\ late[o]
  /\ RowFree(o)
  /\ late' = [late EXCEPT ![o] = FALSE]
  /\ status' = [status EXCEPT ![o] = "submitted"]
  /\ UNCHANGED <<pc, job, owner, holds, told>>

Serve(r) ==
  \/ Connect(r)
  \/ LockTransition(r) \/ LockHold(r) \/ LockResume(r)
  \/ CheckHold(r)
  \/ WriteTransition(r) \/ WriteHold(r) \/ WriteResume(r)
  \/ GiveUp(r)

Next ==
  \/ \E r \in Request, kind \in Kind, o \in Order, k \in Key \cup {NoKey} : Ask(r, kind, o, k)
  \/ \E r \in Request : Serve(r)
  \/ \E o \in Order : MarkSubmitted(o)

\* PostgreSQL grants a row lock, and the pool a connection, in the order they
\* are asked for: a request that can go on again and again does go on.
Spec == Init /\ [][Next]_vars /\ \A r \in Request : SF_vars(Serve(r))

-----------------------------------------------------------------------------
(* Properties.                                                             *)

\* An order on hold is neither ready nor completed, whichever of the hold and
\* the transition came first, although the transition looks for the hold
\* outside its transaction.
HeldNotReady ==
  \A o \in Order : OnHold(o) => status[o] \notin {"ready", "completed"}

\* An order has at most one hold that was not resumed: the unique index
\* kitchen_order_holds_active_uq never has to refuse an insert.
OneActiveHold == \A o \in Order : Cardinality(ActiveHolds(o)) <= 1

\* A hold or resume that was answered as done, or as done before, is stored
\* under the key the client sent.
AnsweredIsStored ==
  \A j \in told :
    \E i \in DOMAIN holds[j.order] :
      j.key = IF j.kind = "hold" THEN holds[j.order][i].hold_key
                                 ELSE holds[j.order][i].resume_key

\* What the database says of holds at any time, whichever requests are under way.
HoldsStand == HeldNotReady /\ OneActiveHold /\ AnsweredIsStored

\* Every request is answered in the end, also when transitions to ready hold
\* all connections while they wait for another one: the pool gives up on them.
EveryRequestAnswered ==
  \A r \in Request : (pc[r] # "idle") ~> (pc[r] = "idle")

\* Whatever requests do step by step, orders and holds only change the way
\* Holds allows.
Promise == INSTANCE Holds WITH held <- [o \in Order |-> OnHold(o)]

ImplementsHolds == Promise!Spec
=============================================================================
