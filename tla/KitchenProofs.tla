---------------------------- MODULE KitchenProofs ----------------------------
(***************************************************************************)
(* Proofs about the kitchen, for any requests, orders, keys, managers,     *)
(* devices and jobs: what is stored and answered of holds and of pauses,   *)
(* what the screen and the clock of an order show, and what print jobs     *)
(* keep.  The parts of the suite move one at a time, so that every part is *)
(* proved by its own inductive invariant.                                  *)
(***************************************************************************)
EXTENDS MCKitchen, Sums, SequenceTheorems, TLAPS

-----------------------------------------------------------------------------
(* Proofs, for any requests, orders and keys, and a pool of any size: what *)
(* is stored and answered of holds is right, and KitchenRequests           *)
(* implements Holds.                                                       *)

\* A request that is under way has a job, which carries a key if it is a hold's.
JobInv ==
  \A r \in Request :
    IF pc[r] = "idle" THEN job[r] = NoJob
    ELSE job[r] \in Job /\ (job[r].kind \in Target <=> job[r].key = NoKey)

\* The row of an order is locked by the request that checks or writes it.
OwnerInv ==
  \A o \in Order, r \in Request :
    owner[o] = r <=> pc[r] \in {"checking", "writing"} /\ job[r].order = o

\* What a request found under the lock is still so when it writes.
MayWrite(r) ==
  LET o == job[r].order IN
  /\ job[r].kind \in Target =>
       MayAdvance(status[o], job[r].kind) /\ (ToReady(r) => ~OnHold(o))
  /\ job[r].kind = "hold" => Holdable(o)
  /\ job[r].kind = "hold-resume" => OnHold(o)
MayCheck(r) == ToReady(r) /\ MayAdvance(status[job[r].order], "ready")
Checked ==
  \A r \in Request :
    (pc[r] = "writing" => MayWrite(r)) /\ (pc[r] = "checking" => MayCheck(r))

\* Only holds and resumes are remembered as answered, each with its key.
ToldKeys == \A j \in told : j.kind \in {"hold", "hold-resume"} /\ j.key \in Key

IInv == TypeOK /\ JobInv /\ OwnerInv /\ Checked /\ ToldKeys /\ HoldsStand

\* The invariant holds initially.
LEMMA InitInv == ASSUME KitchenAssumption PROVE Init => IInv
<1> SUFFICES ASSUME Init PROVE IInv
  OBVIOUS
<1>1. TypeOK /\ JobInv /\ OwnerInv /\ Checked /\ ToldKeys
  BY DEF Init, TypeOK, JobInv, OwnerInv, Checked, ToldKeys, Statuses, KitchenAssumption
<1>2. \A o \in Order : ActiveHolds(o) = {}
  BY DEF Init, ActiveHolds
<1>3. HeldNotReady /\ AnsweredIsStored
  BY <1>2 DEF Init, HeldNotReady, AnsweredIsStored, OnHold
<1>4. Cardinality({}) = 0
  BY FS_EmptySet
<1>5. OneActiveHold
  BY <1>2, <1>4 DEF OneActiveHold
<1> QED
  BY <1>1, <1>3, <1>5 DEF IInv, HoldsStand

\* The locks and jobs after a request ended, or went on with or without a lock.
LEMMA FinishKeeps ==
  ASSUME KitchenAssumption, TypeOK, JobInv, OwnerInv, NEW r \in Request, Finish(r)
  PROVE  /\ pc' \in [Request -> {"idle", "connecting", "locking", "checking", "writing"}]
         /\ job' \in [Request -> Job \cup {NoJob}]
         /\ owner' \in [Order -> Request \cup {NoRequest}]
         /\ JobInv' /\ OwnerInv'
         /\ pc'[r] = "idle" /\ \A x \in Request \ {r} : pc'[x] = pc[x] /\ job'[x] = job[x]
<1>1. /\ pc' = [pc EXCEPT ![r] = "idle"] /\ job' = [job EXCEPT ![r] = NoJob]
      /\ owner' = [o \in Order |-> IF owner[o] = r THEN NoRequest ELSE owner[o]]
  BY DEF Finish
<1>2. /\ pc'[r] = "idle" /\ job'[r] = NoJob
      /\ \A x \in Request \ {r} : pc'[x] = pc[x] /\ job'[x] = job[x]
  BY <1>1 DEF TypeOK
<1>3. JobInv'
  BY <1>2 DEF JobInv
<1>4. OwnerInv'
  <2> SUFFICES ASSUME NEW o \in Order, NEW x \in Request
               PROVE  owner'[o] = x <=> pc'[x] \in {"checking", "writing"} /\ job'[x].order = o
    BY DEF OwnerInv
  <2>1. owner'[o] = x <=> owner[o] = x /\ x # r
    BY <1>1 DEF KitchenAssumption, TypeOK
  <2> QED
    BY <1>2, <2>1 DEF OwnerInv
<1> QED
  BY <1>1, <1>2, <1>3, <1>4 DEF TypeOK

\* Steps that change neither orders nor holds keep what is said of them.
LEMMA HoldsFrame ==
  ASSUME HoldsStand, UNCHANGED <<status, holds, told>>
  PROVE  HoldsStand'
BY DEF HoldsStand, HeldNotReady, OneActiveHold, AnsweredIsStored, OnHold, ActiveHolds

\* What the others have checked stays so, while orders and holds stay.
LEMMA CheckedFrame ==
  ASSUME Checked, UNCHANGED <<status, holds>>, NEW r \in Request,
         \A x \in Request \ {r} : pc'[x] = pc[x] /\ job'[x] = job[x],
         (pc'[r] = "writing" => MayWrite(r)'), (pc'[r] = "checking" => MayCheck(r)')
  PROVE  Checked'
<1>1. \A x \in Request \ {r} : (MayWrite(x)' <=> MayWrite(x)) /\ (MayCheck(x)' <=> MayCheck(x))
  BY DEF MayWrite, MayCheck, ToReady, Holdable, OnHold, ActiveHolds
<1> QED
  BY <1>1 DEF Checked

\* A request that ends without a write.
LEMMA EndKeeps ==
  ASSUME KitchenAssumption, IInv, NEW r \in Request, Finish(r), UNCHANGED <<status, late, holds>>,
         told' = told \/ (told' = told \cup {job[r]} /\ job[r] \in Job),
         ToldKeys', AnsweredIsStored'
  PROVE  IInv'
<1>1. /\ pc' \in [Request -> {"idle", "connecting", "locking", "checking", "writing"}]
      /\ job' \in [Request -> Job \cup {NoJob}] /\ owner' \in [Order -> Request \cup {NoRequest}]
      /\ JobInv' /\ OwnerInv'
      /\ pc'[r] = "idle" /\ \A x \in Request \ {r} : pc'[x] = pc[x] /\ job'[x] = job[x]
  BY FinishKeeps DEF IInv
<1>2. TypeOK'
  BY <1>1 DEF IInv, TypeOK
<1>3. Checked'
  BY <1>1, CheckedFrame DEF IInv
<1>4. HoldsStand'
  BY DEF IInv, HoldsStand, HeldNotReady, OneActiveHold, OnHold, ActiveHolds
<1> QED
  BY <1>1, <1>2, <1>3, <1>4 DEF IInv

\* A request that takes the next step, with the lock if that is one of checking and writing.
LEMMA GoKeeps ==
  ASSUME KitchenAssumption, IInv, NEW r \in Request, NEW step \in {"locking", "checking", "writing"},
         pc[r] # "idle", Go(r, step), UNCHANGED <<status, late, holds, told>>,
         (step = "locking" /\ pc[r] = "connecting" /\ owner' = owner)
           \/ (step # "locking" /\ owner' = [owner EXCEPT ![job[r].order] = r]
                                /\ owner[job[r].order] \in {NoRequest, r}),
         (step = "writing" => MayWrite(r)), (step = "checking" => MayCheck(r))
  PROVE  IInv'
<1>1. pc' = [pc EXCEPT ![r] = step] /\ job' = job
  BY DEF Go
<1>2. job[r] \in Job /\ job[r].order \in Order
  BY DEF IInv, JobInv, Job
<1>3. TypeOK'
  BY <1>1, <1>2 DEF IInv, TypeOK
<1>4. JobInv'
  BY <1>1 DEF IInv, TypeOK, JobInv
<1>5. OwnerInv'
  BY <1>1, <1>2 DEF IInv, TypeOK, OwnerInv, KitchenAssumption
<1>6. Checked'
  <2>1. (MayWrite(r)' <=> MayWrite(r)) /\ (MayCheck(r)' <=> MayCheck(r))
    BY <1>1 DEF MayWrite, MayCheck, ToReady, Holdable, OnHold, ActiveHolds
  <2>2. pc'[r] = step /\ \A x \in Request \ {r} : pc'[x] = pc[x] /\ job'[x] = job[x]
    BY <1>1 DEF IInv, TypeOK
  <2> QED
    BY <2>1, <2>2, CheckedFrame DEF IInv
<1>7. ToldKeys' /\ HoldsStand'
  BY HoldsFrame DEF IInv, ToldKeys
<1> QED
  BY <1>3, <1>4, <1>5, <1>6, <1>7 DEF IInv

\* A request arrives.
LEMMA AskKeeps ==
  ASSUME KitchenAssumption, IInv, NEW r \in Request, NEW kind \in Kind, NEW o \in Order,
         NEW k \in Key \cup {NoKey}, Ask(r, kind, o, k)
  PROVE  IInv'
<1> DEFINE j == [kind |-> kind, order |-> o, key |-> k]
<1>1. /\ pc[r] = "idle" /\ (k = NoKey <=> kind \in Target)
      /\ job' = [job EXCEPT ![r] = j] /\ pc' = [pc EXCEPT ![r] = "connecting"]
      /\ UNCHANGED <<owner, status, late, holds, told>>
  BY DEF Ask
<1>2. j \in Job /\ pc'[r] = "connecting" /\ job'[r] = j
      /\ \A x \in Request \ {r} : pc'[x] = pc[x] /\ job'[x] = job[x]
  BY <1>1 DEF IInv, TypeOK, Job
<1>3. TypeOK'
  BY <1>1, <1>2 DEF IInv, TypeOK
<1>4. JobInv'
  BY <1>1, <1>2 DEF IInv, JobInv
<1>5. OwnerInv'
  BY <1>1, <1>2 DEF IInv, OwnerInv
<1>6. Checked'
  BY <1>1, <1>2, CheckedFrame DEF IInv
<1>7. ToldKeys' /\ HoldsStand'
  BY <1>1, HoldsFrame DEF IInv, ToldKeys
<1> QED
  BY <1>3, <1>4, <1>5, <1>6, <1>7 DEF IInv

\* A request gets a connection.
LEMMA ConnectKeeps ==
  ASSUME KitchenAssumption, IInv, NEW r \in Request, Connect(r)
  PROVE  IInv'
BY GoKeeps DEF Connect

\* A transition is refused, or locks its order.
LEMMA LockTransitionKeeps ==
  ASSUME KitchenAssumption, IInv, NEW r \in Request, LockTransition(r)
  PROVE  IInv'
<1> DEFINE o == job[r].order
           accepted == MayAdvance(status[o], job[r].kind)
<1>1. /\ job[r].kind \in Target /\ pc[r] = "locking" /\ owner[o] = NoRequest
      /\ UNCHANGED <<status, late, holds, told>>
  BY DEF LockTransition, Lock, RowFree
<1>2. CASE accepted /\ ToReady(r)
  <2>1. Go(r, "checking") /\ owner' = [owner EXCEPT ![o] = r]
    BY <1>2 DEF LockTransition, Lock
  <2>2. MayCheck(r)
    BY <1>2 DEF MayCheck, ToReady
  <2> QED
    BY <1>1, <2>1, <2>2, GoKeeps
<1>3. CASE accepted /\ ~ToReady(r)
  <2>1. Go(r, "writing") /\ owner' = [owner EXCEPT ![o] = r]
    BY <1>3 DEF LockTransition, Lock
  <2>2. MayWrite(r)
    BY <1>1, <1>3 DEF MayWrite, Target
  <2> QED
    BY <1>1, <2>1, <2>2, GoKeeps
<1>4. CASE ~accepted
  <2>1. Finish(r)
    BY <1>4 DEF LockTransition, Lock
  <2>2. ToldKeys' /\ AnsweredIsStored'
    BY <1>1 DEF IInv, ToldKeys, HoldsStand, AnsweredIsStored
  <2> QED
    BY <1>1, <2>1, <2>2, EndKeeps
<1> QED
  BY <1>2, <1>3, <1>4

\* A hold or resume that is refused, or answered because it was done before.
LEMMA RefuseKeeps ==
  ASSUME KitchenAssumption, IInv, NEW r \in Request, Finish(r), UNCHANGED <<status, late, holds>>,
         pc[r] # "idle", job[r].kind \in {"hold", "hold-resume"}, NEW replayed \in BOOLEAN,
         told' = IF replayed THEN told \cup {job[r]} ELSE told,
         replayed => \E i \in DOMAIN holds[job[r].order] :
                       job[r].key = IF job[r].kind = "hold" THEN holds[job[r].order][i].hold_key
                                                            ELSE holds[job[r].order][i].resume_key
  PROVE  IInv'
<1>1. job[r] \in Job /\ job[r].key \in Key
  BY DEF IInv, JobInv, Job, Target
<1>2. ToldKeys'
  BY <1>1 DEF IInv, ToldKeys
<1>3. AnsweredIsStored'
  BY DEF IInv, HoldsStand, AnsweredIsStored
<1> QED
  BY <1>1, <1>2, <1>3, EndKeeps

\* A hold is replayed or refused, or locks its order.
LEMMA LockHoldKeeps ==
  ASSUME KitchenAssumption, IInv, NEW r \in Request, LockHold(r)
  PROVE  IInv'
<1> DEFINE o == job[r].order
           replayed == \E i \in ActiveHolds(o) : holds[o][i].hold_key = job[r].key
<1>1. /\ job[r].kind = "hold" /\ pc[r] = "locking" /\ owner[o] = NoRequest
      /\ UNCHANGED <<status, late, holds>>
      /\ told' = IF replayed THEN told \cup {job[r]} ELSE told
  BY DEF LockHold, Lock, RowFree
<1>2. CASE Holdable(o)
  <2>1. Go(r, "writing") /\ owner' = [owner EXCEPT ![o] = r]
    BY <1>2 DEF LockHold, Lock
  <2>2. told' = told
    BY <1>1, <1>2 DEF Holdable, OnHold
  <2>3. MayWrite(r)
    BY <1>1, <1>2 DEF MayWrite, Target
  <2> QED
    BY <1>1, <2>1, <2>2, <2>3, GoKeeps
<1>3. CASE ~Holdable(o)
  <2>1. Finish(r)
    BY <1>3 DEF LockHold, Lock
  <2>2. replayed => \E i \in DOMAIN holds[o] : job[r].key = holds[o][i].hold_key
    BY DEF ActiveHolds
  <2> QED
    BY <1>1, <2>1, <2>2, RefuseKeeps
<1> QED
  BY <1>2, <1>3

\* A resume is replayed or refused, or locks its order.
LEMMA LockResumeKeeps ==
  ASSUME KitchenAssumption, IInv, NEW r \in Request, LockResume(r)
  PROVE  IInv'
<1> DEFINE o == job[r].order
           replayed == ~OnHold(o) /\ \E i \in DOMAIN holds[o] : holds[o][i].resume_key = job[r].key
<1>1. /\ job[r].kind = "hold-resume" /\ pc[r] = "locking" /\ owner[o] = NoRequest
      /\ UNCHANGED <<status, late, holds>>
      /\ told' = IF replayed THEN told \cup {job[r]} ELSE told
  BY DEF LockResume, Lock, RowFree
<1>2. CASE OnHold(o)
  <2>1. Go(r, "writing") /\ owner' = [owner EXCEPT ![o] = r]
    BY <1>2 DEF LockResume, Lock
  <2>2. told' = told
    BY <1>1, <1>2
  <2>3. MayWrite(r)
    BY <1>1, <1>2 DEF MayWrite, Target
  <2> QED
    BY <1>1, <2>1, <2>2, <2>3, GoKeeps
<1>3. CASE ~OnHold(o)
  <2>1. Finish(r)
    BY <1>3 DEF LockResume, Lock
  <2> QED
    BY <1>1, <2>1, RefuseKeeps
<1> QED
  BY <1>2, <1>3

\* A hold looks for an active one.
LEMMA CheckHoldKeeps ==
  ASSUME KitchenAssumption, IInv, NEW r \in Request, CheckHold(r)
  PROVE  IInv'
<1>1. pc[r] = "checking" /\ UNCHANGED <<status, late, holds, told>>
  BY DEF CheckHold
<1>2. CASE OnHold(job[r].order)
  <2>1. Finish(r)
    BY <1>2 DEF CheckHold
  <2>2. ToldKeys' /\ AnsweredIsStored'
    BY <1>1 DEF IInv, ToldKeys, HoldsStand, AnsweredIsStored
  <2> QED
    BY <1>1, <2>1, <2>2, EndKeeps
<1>3. CASE ~OnHold(job[r].order)
  <2>1. Go(r, "writing") /\ owner' = owner
    BY <1>3 DEF CheckHold
  <2>2. job[r] \in Job /\ job[r].order \in Order /\ owner[job[r].order] = r
    BY <1>1 DEF IInv, JobInv, OwnerInv, Job
  <2>3. owner' = [owner EXCEPT ![job[r].order] = r]
    BY <2>1, <2>2 DEF IInv, TypeOK
  <2>4. MayWrite(r)
    BY <1>1, <1>3 DEF IInv, Checked, MayCheck, MayWrite, ToReady
  <2> QED
    BY <1>1, <2>1, <2>2, <2>3, <2>4, GoKeeps
<1> QED
  BY <1>2, <1>3

\* A write under the lock changes nothing that another request relies on.
LEMMA WriteFrame ==
  ASSUME KitchenAssumption, IInv, NEW r \in Request, pc[r] = "writing", Finish(r),
         \A o \in Order \ {job[r].order} : status'[o] = status[o] /\ holds'[o] = holds[o]
  PROVE  /\ JobInv' /\ OwnerInv' /\ Checked'
         /\ pc' \in [Request -> {"idle", "connecting", "locking", "checking", "writing"}]
         /\ job' \in [Request -> Job \cup {NoJob}] /\ owner' \in [Order -> Request \cup {NoRequest}]
<1>1. /\ pc' \in [Request -> {"idle", "connecting", "locking", "checking", "writing"}]
      /\ job' \in [Request -> Job \cup {NoJob}] /\ owner' \in [Order -> Request \cup {NoRequest}]
      /\ JobInv' /\ OwnerInv'
      /\ pc'[r] = "idle" /\ \A x \in Request \ {r} : pc'[x] = pc[x] /\ job'[x] = job[x]
  BY FinishKeeps DEF IInv
<1>2. ASSUME NEW x \in Request, pc'[x] \in {"checking", "writing"}
      PROVE  (pc'[x] = "writing" => MayWrite(x)') /\ (pc'[x] = "checking" => MayCheck(x)')
  <2>1. x # r /\ pc'[x] = pc[x] /\ job'[x] = job[x]
    BY <1>1, <1>2
  <2>2. job[x].order \in Order /\ job[r].order \in Order
    BY <1>2, <2>1 DEF IInv, JobInv, Job
  <2>3. job[x].order # job[r].order
    BY <1>2, <2>1, <2>2 DEF IInv, OwnerInv
  <2>4. status'[job[x].order] = status[job[x].order] /\ holds'[job[x].order] = holds[job[x].order]
    BY <2>2, <2>3
  <2>5. (MayWrite(x)' <=> MayWrite(x)) /\ (MayCheck(x)' <=> MayCheck(x))
    BY <2>1, <2>4 DEF MayWrite, MayCheck, ToReady, Holdable, OnHold, ActiveHolds
  <2> QED
    BY <2>1, <2>5 DEF IInv, Checked
<1> QED
  BY <1>1, <1>2 DEF Checked

\* A transition writes.
LEMMA WriteTransitionKeeps ==
  ASSUME KitchenAssumption, IInv, NEW r \in Request, WriteTransition(r)
  PROVE  IInv'
<1> DEFINE o == job[r].order
           to == job[r].kind
<1>1. /\ pc[r] = "writing" /\ to \in Target /\ status' = [status EXCEPT ![o] = to]
      /\ Finish(r) /\ UNCHANGED <<late, holds, told>>
  BY DEF WriteTransition
<1>2. o \in Order /\ MayWrite(r)
  BY <1>1 DEF IInv, JobInv, Job, Checked
<1>3. /\ JobInv' /\ OwnerInv' /\ Checked'
      /\ pc' \in [Request -> {"idle", "connecting", "locking", "checking", "writing"}]
      /\ job' \in [Request -> Job \cup {NoJob}] /\ owner' \in [Order -> Request \cup {NoRequest}]
  BY <1>1, WriteFrame DEF IInv, TypeOK
<1>4. TypeOK'
  BY <1>1, <1>2, <1>3 DEF IInv, TypeOK, Target, Statuses
<1>5. HeldNotReady'
  <2> SUFFICES ASSUME NEW x \in Order, OnHold(x)' PROVE status'[x] \notin {"ready", "completed"}
    BY DEF HeldNotReady
  <2>1. OnHold(x) /\ status[x] \notin {"ready", "completed"}
    BY <1>1 DEF OnHold, ActiveHolds, IInv, HoldsStand, HeldNotReady
  <2>2. CASE x = o
    <3>1. status[o] \in Statuses /\ to \in TRANSITIONS[status[o]] /\ to # "ready"
      BY <1>1, <1>2, <2>1, <2>2 DEF MayWrite, MayAdvance, ToReady, IInv, TypeOK
    <3>2. to # "completed"
      BY <2>1, <2>2, <3>1 DEF TRANSITIONS, Statuses
    <3> QED
      BY <1>1, <1>2, <2>2, <3>1, <3>2 DEF IInv, TypeOK
  <2>3. CASE x # o
    BY <1>1, <2>1, <2>3 DEF IInv, TypeOK
  <2> QED
    BY <2>2, <2>3
<1>6. ToldKeys' /\ HoldsStand'
  BY <1>1, <1>5 DEF IInv, ToldKeys, HoldsStand, OneActiveHold, AnsweredIsStored, ActiveHolds
<1> QED
  BY <1>3, <1>4, <1>6 DEF IInv

\* A hold is inserted.
LEMMA WriteHoldKeeps ==
  ASSUME KitchenAssumption, IInv, NEW r \in Request, WriteHold(r),
         NEW o \in Order, o = job[r].order
  PROVE  /\ IInv' /\ OnHold(o)' /\ ~OnHold(o)
         /\ \A x \in Order \ {o} : OnHold(x)' <=> OnHold(x)
<1> DEFINE new == [hold_key |-> job[r].key, resume_key |-> NoKey]
           n == Len(holds[o])
<1>1. /\ pc[r] = "writing" /\ job[r].kind = "hold" /\ Finish(r) /\ UNCHANGED <<status, late>>
      /\ holds' = [holds EXCEPT ![o] = Append(@, new)] /\ told' = told \cup {job[r]}
  BY DEF WriteHold
<1>2. /\ o \in Order /\ job[r] \in Job /\ job[r].key \in Key
      /\ status[o] = "in_kitchen" /\ ActiveHolds(o) = {}
  BY <1>1 DEF IInv, JobInv, Job, Target, Checked, MayWrite, Holdable, OnHold
<1>3. /\ holds[o] \in Seq(HoldRow) /\ new \in HoldRow
      /\ \A x \in Order \ {o} : holds'[x] = holds[x]
      /\ holds'[o] = Append(holds[o], new)
  BY <1>1, <1>2 DEF IInv, TypeOK, HoldRow
<1>4. /\ Len(holds'[o]) = n + 1 /\ DOMAIN holds'[o] = 1..(n + 1) /\ DOMAIN holds[o] = 1..n
      /\ n \in Nat /\ holds'[o][n + 1] = new /\ \A i \in 1..n : holds'[o][i] = holds[o][i]
  BY <1>3
<1>5. /\ JobInv' /\ OwnerInv' /\ Checked'
      /\ pc' \in [Request -> {"idle", "connecting", "locking", "checking", "writing"}]
      /\ job' \in [Request -> Job \cup {NoJob}] /\ owner' \in [Order -> Request \cup {NoRequest}]
  BY <1>1, <1>3, WriteFrame
<1>6. TypeOK'
  <2>1. holds' \in [Order -> Seq(HoldRow)]
    BY <1>1, <1>2, <1>3 DEF IInv, TypeOK
  <2> QED
    BY <1>1, <1>2, <1>5, <2>1 DEF IInv, TypeOK
<1>7. /\ ActiveHolds(o)' = {n + 1}
      /\ \A x \in Order \ {o} : ActiveHolds(x)' = ActiveHolds(x)
  <2>1. \A i \in 1..n : holds[o][i].resume_key # NoKey
    BY <1>2, <1>4 DEF ActiveHolds
  <2>2. \A i \in 1..(n + 1) : holds'[o][i].resume_key = NoKey <=> i = n + 1
    BY <1>4, <2>1
  <2>3. ActiveHolds(o)' = {i \in 1..(n + 1) : holds'[o][i].resume_key = NoKey}
    BY <1>4 DEF ActiveHolds
  <2>4. ActiveHolds(o)' = {n + 1}
    BY <1>4, <2>2, <2>3
  <2> QED
    BY <1>3, <2>4 DEF ActiveHolds
<1>8. HeldNotReady'
  BY <1>1, <1>2, <1>7 DEF IInv, HoldsStand, HeldNotReady, OnHold
<1>9. OneActiveHold'
  <2>1. Cardinality({n + 1}) = 1
    BY FS_Singleton
  <2>2. ASSUME NEW x \in Order PROVE Cardinality(ActiveHolds(x)') <= 1
    BY <1>7, <2>1 DEF IInv, HoldsStand, OneActiveHold
  <2> QED
    BY <2>2 DEF OneActiveHold
<1>10. ToldKeys'
  BY <1>1, <1>2 DEF IInv, ToldKeys
<1>11. AnsweredIsStored'
  <2> SUFFICES ASSUME NEW j \in told'
               PROVE  \E i \in DOMAIN holds'[j.order] :
                        j.key = IF j.kind = "hold" THEN holds'[j.order][i].hold_key
                                                   ELSE holds'[j.order][i].resume_key
    BY DEF AnsweredIsStored
  <2>1. CASE j = job[r]
    BY <1>1, <1>4, <2>1
  <2>2. CASE j \in told
    <3>1. PICK i \in DOMAIN holds[j.order] :
             j.key = IF j.kind = "hold" THEN holds[j.order][i].hold_key
                                        ELSE holds[j.order][i].resume_key
      BY <2>2 DEF IInv, HoldsStand, AnsweredIsStored
    <3>2. j.order \in Order
      BY <2>2 DEF IInv, TypeOK, Job
    <3>3. CASE j.order = o
      <4>1. i \in 1..n
        BY <1>4, <3>1, <3>3
      <4>2. i \in DOMAIN holds'[o] /\ holds'[o][i] = holds[o][i]
        BY <1>4, <4>1
      <4> QED
        BY <3>1, <3>3, <4>2
    <3>4. CASE j.order # o
      BY <1>3, <3>1, <3>2, <3>4
    <3> QED
      BY <3>3, <3>4
  <2> QED
    BY <1>1, <2>1, <2>2
<1> QED
  BY <1>2, <1>5, <1>6, <1>7, <1>8, <1>9, <1>10, <1>11 DEF IInv, HoldsStand, OnHold

\* A hold is released.
LEMMA WriteResumeKeeps ==
  ASSUME KitchenAssumption, IInv, NEW r \in Request, WriteResume(r),
         NEW o \in Order, o = job[r].order
  PROVE  /\ IInv' /\ ~OnHold(o)' /\ OnHold(o)
         /\ \A x \in Order \ {o} : OnHold(x)' <=> OnHold(x)
<1>1. /\ pc[r] = "writing" /\ job[r].kind = "hold-resume" /\ Finish(r) /\ UNCHANGED <<status, late>>
      /\ told' = told \cup {job[r]}
      /\ holds' = [holds EXCEPT ![o] =
                     [i \in DOMAIN @ |-> IF i \in ActiveHolds(o)
                                         THEN [@[i] EXCEPT !.resume_key = job[r].key] ELSE @[i]]]
  BY DEF WriteResume
<1>2. o \in Order /\ job[r] \in Job /\ job[r].key \in Key /\ OnHold(o)
  BY <1>1 DEF IInv, JobInv, Job, Target, Checked, MayWrite
<1>3. /\ holds[o] \in Seq(HoldRow) /\ DOMAIN holds'[o] = DOMAIN holds[o]
      /\ \A x \in Order \ {o} : holds'[x] = holds[x]
      /\ \A i \in DOMAIN holds[o] :
           holds'[o][i] = IF i \in ActiveHolds(o) THEN [holds[o][i] EXCEPT !.resume_key = job[r].key]
                                                  ELSE holds[o][i]
  BY <1>1, <1>2 DEF IInv, TypeOK
<1>4. \A i \in DOMAIN holds[o] : holds[o][i] \in HoldRow
  BY <1>3
<1>5. \A i \in DOMAIN holds[o] :
        /\ holds'[o][i] \in HoldRow /\ holds'[o][i].resume_key # NoKey
        /\ holds'[o][i].hold_key = holds[o][i].hold_key
        /\ holds[o][i].resume_key # NoKey => holds'[o][i].resume_key = holds[o][i].resume_key
  <2> SUFFICES ASSUME NEW i \in DOMAIN holds[o]
               PROVE  /\ holds'[o][i] \in HoldRow /\ holds'[o][i].resume_key # NoKey
                      /\ holds'[o][i].hold_key = holds[o][i].hold_key
                      /\ holds[o][i].resume_key # NoKey => holds'[o][i].resume_key = holds[o][i].resume_key
    OBVIOUS
  <2>1. job[r].key # NoKey /\ holds[o][i] \in HoldRow
    BY <1>2, <1>4 DEF KitchenAssumption
  <2>2. CASE i \in ActiveHolds(o)
    <3>1. holds'[o][i] = [holds[o][i] EXCEPT !.resume_key = job[r].key]
      BY <1>3, <2>2
    <3>2. holds[o][i].resume_key = NoKey
      BY <2>2 DEF ActiveHolds
    <3> QED
      BY <1>2, <2>1, <3>1, <3>2 DEF HoldRow
  <2>3. CASE i \notin ActiveHolds(o)
    BY <1>3, <2>1, <2>3 DEF ActiveHolds
  <2> QED
    BY <2>2, <2>3
<1>6. /\ JobInv' /\ OwnerInv' /\ Checked'
      /\ pc' \in [Request -> {"idle", "connecting", "locking", "checking", "writing"}]
      /\ job' \in [Request -> Job \cup {NoJob}] /\ owner' \in [Order -> Request \cup {NoRequest}]
  BY <1>1, <1>3, WriteFrame
<1>7. TypeOK'
  <2>1. DOMAIN holds[o] = 1..Len(holds[o]) /\ Len(holds[o]) \in Nat
    BY <1>3
  <2>2. holds'[o] \in [1..Len(holds[o]) -> HoldRow]
    <3>1. holds'[o] = [i \in DOMAIN holds[o] |->
                         IF i \in ActiveHolds(o) THEN [holds[o][i] EXCEPT !.resume_key = job[r].key]
                                                 ELSE holds[o][i]]
      BY <1>1, <1>2 DEF IInv, TypeOK
    <3> QED
      BY <1>3, <1>5, <2>1, <3>1
  <2>3. holds'[o] \in Seq(HoldRow)
    BY <2>1, <2>2, SeqDef
  <2>4. holds' \in [Order -> Seq(HoldRow)]
    BY <1>1, <1>3, <2>3 DEF IInv, TypeOK
  <2> QED
    BY <1>1, <1>2, <1>6, <2>4 DEF IInv, TypeOK
<1>8. /\ ActiveHolds(o)' = {}
      /\ \A x \in Order \ {o} : ActiveHolds(x)' = ActiveHolds(x)
  BY <1>3, <1>5 DEF ActiveHolds
<1>9. HeldNotReady' /\ OneActiveHold'
  <2>1. Cardinality({}) = 0
    BY FS_EmptySet
  <2>2. ASSUME NEW x \in Order PROVE Cardinality(ActiveHolds(x)') <= 1
    BY <1>8, <2>1 DEF IInv, HoldsStand, OneActiveHold
  <2>3. HeldNotReady'
    BY <1>1, <1>8 DEF IInv, HoldsStand, HeldNotReady, OnHold
  <2> QED
    BY <2>2, <2>3 DEF OneActiveHold
<1>10. ToldKeys'
  BY <1>1, <1>2 DEF IInv, ToldKeys
<1>11. AnsweredIsStored'
  <2> SUFFICES ASSUME NEW j \in told'
               PROVE  \E i \in DOMAIN holds'[j.order] :
                        j.key = IF j.kind = "hold" THEN holds'[j.order][i].hold_key
                                                   ELSE holds'[j.order][i].resume_key
    BY DEF AnsweredIsStored
  <2>1. CASE j = job[r]
    <3>1. PICK i \in DOMAIN holds[o] : i \in ActiveHolds(o)
      BY <1>2 DEF OnHold, ActiveHolds
    <3>2. holds'[o][i].resume_key = job[r].key
      BY <1>3, <1>4, <3>1 DEF HoldRow
    <3> QED
      BY <1>1, <1>3, <2>1, <3>1, <3>2
  <2>2. CASE j \in told
    <3>1. PICK i \in DOMAIN holds[j.order] :
             j.key = IF j.kind = "hold" THEN holds[j.order][i].hold_key
                                        ELSE holds[j.order][i].resume_key
      BY <2>2 DEF IInv, HoldsStand, AnsweredIsStored
    <3>2. j.order \in Order /\ j.key \in Key /\ j.key # NoKey
      BY <2>2 DEF IInv, TypeOK, Job, ToldKeys, KitchenAssumption
    <3>3. CASE j.order = o
      BY <1>3, <1>5, <3>1, <3>2, <3>3
    <3>4. CASE j.order # o
      BY <1>3, <3>1, <3>2, <3>4
    <3> QED
      BY <3>3, <3>4
  <2> QED
    BY <1>1, <2>1, <2>2
<1> QED
  BY <1>2, <1>6, <1>7, <1>8, <1>9, <1>10, <1>11 DEF IInv, HoldsStand, OnHold

\* A request gives up.
LEMMA GiveUpKeeps ==
  ASSUME KitchenAssumption, IInv, NEW r \in Request, GiveUp(r)
  PROVE  IInv'
<1>1. Finish(r) /\ UNCHANGED <<status, late, holds, told>>
  BY DEF GiveUp
<1>2. ToldKeys' /\ AnsweredIsStored'
  BY <1>1 DEF IInv, ToldKeys, HoldsStand, AnsweredIsStored
<1> QED
  BY <1>1, <1>2, EndKeeps

\* The late write waits for the row, so that nobody relies on the status it overwrites.
LEMMA MarkSubmittedKeeps ==
  ASSUME KitchenAssumption, IInv, NEW o \in Order, MarkSubmitted(o)
  PROVE  IInv'
<1>1. /\ owner[o] = NoRequest /\ late' = [late EXCEPT ![o] = FALSE]
      /\ status' = [status EXCEPT ![o] = "submitted"] /\ UNCHANGED <<pc, job, owner, holds, told>>
  BY DEF MarkSubmitted, RowFree
<1>2. TypeOK'
  BY <1>1 DEF IInv, TypeOK, Statuses
<1>3. JobInv' /\ OwnerInv' /\ ToldKeys'
  BY <1>1 DEF IInv, JobInv, OwnerInv, ToldKeys
<1>4. Checked'
  <2> SUFFICES ASSUME NEW r \in Request, pc[r] \in {"checking", "writing"}
               PROVE  (pc[r] = "writing" => MayWrite(r)') /\ (pc[r] = "checking" => MayCheck(r)')
    BY <1>1 DEF Checked
  <2>1. job[r].order \in Order /\ job[r].order # o
    BY <1>1 DEF IInv, JobInv, Job, OwnerInv, KitchenAssumption
  <2>2. status'[job[r].order] = status[job[r].order]
    BY <1>1, <2>1 DEF IInv, TypeOK
  <2>3. (MayWrite(r)' <=> MayWrite(r)) /\ (MayCheck(r)' <=> MayCheck(r))
    BY <1>1, <2>2 DEF MayWrite, MayCheck, ToReady, Holdable, OnHold, ActiveHolds
  <2> QED
    BY <2>3 DEF IInv, Checked
<1>5. HoldsStand'
  BY <1>1 DEF IInv, TypeOK, HoldsStand, HeldNotReady, OneActiveHold, AnsweredIsStored, OnHold, ActiveHolds
<1> QED
  BY <1>2, <1>3, <1>4, <1>5 DEF IInv

\* Every step keeps it.
LEMMA StepInv == ASSUME KitchenAssumption PROVE IInv /\ [Next]_vars => IInv'
<1> SUFFICES ASSUME IInv, [Next]_vars PROVE IInv'
  OBVIOUS
<1>1. CASE UNCHANGED vars
  <2>1. UNCHANGED <<pc, job, owner, status, late, holds, told>>
    BY <1>1 DEF vars
  <2>2. TypeOK' /\ JobInv' /\ OwnerInv' /\ ToldKeys'
    BY <2>1 DEF IInv, TypeOK, JobInv, OwnerInv, ToldKeys
  <2>3. Checked'
    BY <2>1 DEF IInv, Checked, MayWrite, MayCheck, ToReady, Holdable, OnHold, ActiveHolds
  <2>4. HoldsStand'
    BY <2>1, HoldsFrame DEF IInv
  <2> QED
    BY <2>2, <2>3, <2>4 DEF IInv
<1>2. ASSUME NEW r \in Request, Serve(r) PROVE IInv'
  <2>1. ASSUME WriteHold(r) \/ WriteResume(r) PROVE IInv'
    <3>1. job[r].order \in Order
      BY <2>1 DEF WriteHold, WriteResume, IInv, JobInv, Job
    <3> QED
      BY <2>1, <3>1, WriteHoldKeeps, WriteResumeKeeps
  <2> QED BY <1>2, <2>1, ConnectKeeps, LockTransitionKeeps, LockHoldKeeps, LockResumeKeeps, CheckHoldKeeps,
     WriteTransitionKeeps, GiveUpKeeps DEF Serve
<1> QED
  BY <1>1, <1>2, AskKeeps, MarkSubmittedKeeps DEF Next

\* A held order is neither ready nor completed and has one hold that is not ended, and
\* what was answered as done is stored, whichever requests are under way and however
\* few connections there are (kitchenControl.ts, orderStatus.ts).
THEOREM HoldsAlwaysStand == ASSUME KitchenAssumption PROVE Spec => []HoldsStand
<1>1. IInv => HoldsStand
  BY DEF IInv
<1> QED
  BY InitInv, StepInv, <1>1, PTL DEF Spec

-----------------------------------------------------------------------------
(* KitchenRequests implements Holds.                                       *)

\* The initial states are initial for the promise.
LEMMA InitHolds == Init => Promise!Init
<1> SUFFICES ASSUME Init PROVE Promise!Init
  OBVIOUS
<1>1. \A o \in Order : OnHold(o) = FALSE
  BY DEF Init, OnHold, ActiveHolds
<1>2. [o \in Order |-> OnHold(o)] = [o \in Order |-> FALSE]
  BY <1>1
<1>3. status = [o \in Order |-> "submitted"]
  BY DEF Init
<1> QED
  BY <1>2, <1>3 DEF Promise!Init

\* Every step is one of the promise, or none.
LEMMA StepHolds ==
  ASSUME KitchenAssumption, IInv, [Next]_vars
  PROVE  [Promise!Next]_<<status, [o \in Order |-> OnHold(o)]>>
<1> DEFINE isHeld == [o \in Order |-> OnHold(o)]
<1>1. ASSUME UNCHANGED <<status, holds>> PROVE UNCHANGED <<status, isHeld>>
  BY <1>1 DEF OnHold, ActiveHolds
<1>2. CASE UNCHANGED vars
  BY <1>1, <1>2 DEF vars
<1>3. ASSUME NEW r \in Request, Serve(r) PROVE [Promise!Next]_<<status, isHeld>>
  <2>1. CASE WriteTransition(r)
    <3>1. PICK o \in Order : o = job[r].order
      BY <2>1 DEF WriteTransition, IInv, JobInv, Job
    <3>2. PICK to \in Target : to = job[r].kind
      BY <2>1 DEF WriteTransition
    <3>3. MayAdvance(status[o], to) /\ (to = "ready" => ~OnHold(o))
      BY <2>1, <3>1, <3>2 DEF WriteTransition, IInv, Checked, MayWrite, ToReady
    <3>4. status' = [status EXCEPT ![o] = to] /\ isHeld' = isHeld
      BY <2>1, <3>1, <3>2 DEF WriteTransition, OnHold, ActiveHolds
    <3>5. Promise!Advance(o, to)
      BY <3>3, <3>4 DEF Promise!Advance, MayAdvance, Promise!TRANSITIONS, TRANSITIONS
    <3> QED
      BY <3>5 DEF Promise!Next, Target, Promise!Statuses
  <2>2. CASE WriteHold(r)
    <3>1. PICK o \in Order : o = job[r].order
      BY <2>2 DEF WriteHold, IInv, JobInv, Job
    <3>2. status[o] = "in_kitchen" /\ status' = status
      BY <2>2, <3>1 DEF WriteHold, IInv, Checked, MayWrite, Holdable
    <3>3. OnHold(o)' /\ ~OnHold(o) /\ \A x \in Order \ {o} : OnHold(x)' <=> OnHold(x)
      BY <2>2, <3>1, WriteHoldKeeps
    <3>4. isHeld' = [isHeld EXCEPT ![o] = TRUE]
      BY <3>3 DEF OnHold
    <3> QED
      BY <3>2, <3>3, <3>4 DEF Promise!Next, Promise!Hold
  <2>3. CASE WriteResume(r)
    <3>1. PICK o \in Order : o = job[r].order
      BY <2>3 DEF WriteResume, IInv, JobInv, Job
    <3>2. status' = status
      BY <2>3 DEF WriteResume
    <3>3. ~OnHold(o)' /\ OnHold(o) /\ \A x \in Order \ {o} : OnHold(x)' <=> OnHold(x)
      BY <2>3, <3>1, WriteResumeKeeps
    <3>4. isHeld' = [isHeld EXCEPT ![o] = FALSE]
      BY <3>3 DEF OnHold
    <3> QED
      BY <3>2, <3>3, <3>4 DEF Promise!Next, Promise!Resume
  <2>4. CASE Connect(r) \/ LockTransition(r) \/ LockHold(r) \/ LockResume(r) \/ CheckHold(r) \/ GiveUp(r)
    BY <1>1, <2>4 DEF Connect, LockTransition, LockHold, LockResume, Lock, CheckHold, GiveUp
  <2> QED
    BY <1>3, <2>1, <2>2, <2>3, <2>4 DEF Serve
<1>4. ASSUME NEW r \in Request, NEW kind \in Kind, NEW o \in Order, NEW k \in Key \cup {NoKey},
             Ask(r, kind, o, k)
      PROVE  [Promise!Next]_<<status, isHeld>>
  BY <1>1, <1>4 DEF Ask
<1>5. ASSUME NEW o \in Order, MarkSubmitted(o) PROVE [Promise!Next]_<<status, isHeld>>
  <2>1. status' = [status EXCEPT ![o] = "submitted"] /\ isHeld' = isHeld
    BY <1>5 DEF MarkSubmitted, OnHold, ActiveHolds
  <2> QED
    BY <2>1 DEF Promise!Next, Promise!Resubmit
<1> QED
  BY <1>2, <1>3, <1>4, <1>5 DEF Next

\* Requests interleaved at their locks and connections change orders and holds only as
\* the plain rules of Holds do: the check for a hold outside the transaction loses no
\* hold, because the row is locked before it (orderStatus.ts, kitchenControl.ts).
THEOREM HoldsImplemented == ASSUME KitchenAssumption PROVE Spec => ImplementsHolds
<1>1. IInv /\ [Next]_vars => [Promise!Next]_<<status, [o \in Order |-> OnHold(o)]>>
  BY StepHolds
<1> QED
  BY InitInv, StepInv, InitHolds, <1>1, PTL DEF Spec, ImplementsHolds, Promise!Spec

-----------------------------------------------------------------------------
(* Proofs of what pauses and resumes of a branch leave in its row and in   *)
(* the answers that were given, for any number of managers, keys and       *)
(* changes.                                                                *)

\* What is assumed of the constants.
LEMMA PauseConstants == NoManager \notin Manager /\ NoKey \notin Key /\ MaxFlips \in Nat
BY SuiteAssumption DEF Pausing!PauseAssumption

\* The transaction that locked the row is the one that is about to write it.
OwnerWrites == \A m \in Manager : rowOwner = m <=> pausePc[m] = "writing"

\* Only a pause inserts the row, and before the first change there is none.
InsertsPause == \A m \in Manager : pausePc[m] \in {"inserting", "rereading"} => flip[m].pause
RowAfterFlip == IF row.exists THEN flips # <<>> ELSE row = Pausing!NoRow /\ flips = <<>>

\* What a writer has seen is the row as it still is, in the other state than it wants.
SeenIsRow ==
  \A m \in Manager : pausePc[m] = "writing" =>
    seen[m] = [row EXCEPT !.exists = TRUE] /\ flip[m].pause # row.is_paused

PauseInv == Pausing!TypeOK /\ OwnerWrites /\ InsertsPause /\ RowAfterFlip /\ SeenIsRow /\ Pausing!FlipsStand

\* The invariant holds initially.
LEMMA PauseInitInv == Pausing!Init => PauseInv
<1> SUFFICES ASSUME Pausing!Init PROVE PauseInv
  OBVIOUS
<1>1. PICK j \in Pausing!Job : flip = [m \in Manager |-> j]
  BY DEF Pausing!Init
<1>2. Pausing!TypeOK
  BY <1>1, PauseConstants DEF Pausing!Init, Pausing!TypeOK, Pausing!NoRow, Pausing!BranchState
<1>3. OwnerWrites /\ InsertsPause /\ RowAfterFlip /\ SeenIsRow
  BY PauseConstants DEF Pausing!Init, OwnerWrites, InsertsPause, RowAfterFlip, SeenIsRow, Pausing!NoRow
<1>4. Pausing!FlipsStand
  <2>1. Len(flips) = 0 /\ DOMAIN flips = {} /\ ~(0 % 2 = 1)
    BY DEF Pausing!Init
  <2>2. row.version = 0 /\ row.is_paused = FALSE /\ toldFlips = {}
    BY DEF Pausing!Init, Pausing!NoRow
  <2> QED
    BY <2>1, <2>2 DEF Pausing!FlipsStand, Pausing!FlipsAlternate, Pausing!RowReflectsFlips, Pausing!AnsweredWasApplied
<1> QED
  BY <1>2, <1>3, <1>4 DEF PauseInv

\* A transaction that ends leaves its lock, and others keep theirs.
LEMMA PauseFinished ==
  ASSUME Pausing!TypeOK, OwnerWrites, NEW m \in Manager, Pausing!Finish(m)
  PROVE  /\ pausePc' \in [Manager -> {"idle", "reading", "inserting", "rereading", "writing"}]
         /\ rowOwner' \in Manager \cup {NoManager}
         /\ OwnerWrites'
         /\ pausePc'[m] = "idle" /\ \A x \in Manager \ {m} : pausePc'[x] = pausePc[x]
BY PauseConstants DEF Pausing!TypeOK, OwnerWrites, Pausing!Finish

\* A request arrives.
LEMMA PauseAskKeeps ==
  ASSUME PauseInv, NEW m \in Manager, NEW pause \in BOOLEAN, NEW k \in Key, Pausing!Ask(m, pause, k)
  PROVE  PauseInv'
<1>1. Pausing!TypeOK' /\ OwnerWrites' /\ InsertsPause' /\ RowAfterFlip' /\ SeenIsRow'
  BY PauseConstants DEF PauseInv, Pausing!TypeOK, OwnerWrites, InsertsPause, RowAfterFlip, SeenIsRow, Pausing!Ask, Pausing!Job, Pausing!NoRow
<1>2. Pausing!FlipsStand'
  BY DEF PauseInv, Pausing!FlipsStand, Pausing!FlipsAlternate, Pausing!RowReflectsFlips, Pausing!AnsweredWasApplied, Pausing!Ask
<1> QED
  BY <1>1, <1>2 DEF PauseInv

\* A request finds no row.
LEMMA PauseReadNothingKeeps ==
  ASSUME PauseInv, NEW m \in Manager, Pausing!ReadNothing(m)
  PROVE  PauseInv'
<1>1. Pausing!TypeOK' /\ OwnerWrites' /\ InsertsPause' /\ RowAfterFlip' /\ SeenIsRow'
  BY PauseConstants DEF PauseInv, Pausing!TypeOK, OwnerWrites, InsertsPause, RowAfterFlip, SeenIsRow, Pausing!ReadNothing, Pausing!NoRow
<1>2. Pausing!FlipsStand'
  BY DEF PauseInv, Pausing!FlipsStand, Pausing!FlipsAlternate, Pausing!RowReflectsFlips, Pausing!AnsweredWasApplied, Pausing!ReadNothing
<1> QED
  BY <1>1, <1>2 DEF PauseInv

\* The first row is inserted.
LEMMA PauseInsertKeeps ==
  ASSUME PauseInv, NEW m \in Manager, Pausing!Insert(m)
  PROVE  PauseInv'
<1>1. Pausing!TypeOK'
  <2>1. [row EXCEPT !.exists = TRUE] \in Pausing!BranchState
    BY DEF PauseInv, Pausing!TypeOK, Pausing!BranchState
  <2>2. seen' \in [Manager -> Pausing!BranchState]
    BY <2>1 DEF PauseInv, Pausing!TypeOK, Pausing!Insert
  <2> QED
    BY <2>2 DEF PauseInv, Pausing!TypeOK, Pausing!Insert
<1>2. OwnerWrites'
  BY PauseConstants DEF PauseInv, Pausing!TypeOK, OwnerWrites, Pausing!Insert
<1>3. InsertsPause' /\ RowAfterFlip'
  BY DEF PauseInv, Pausing!TypeOK, InsertsPause, RowAfterFlip, Pausing!Insert, Pausing!NoRow
<1>4. SeenIsRow'
  <2>1. ~row.exists => row = Pausing!NoRow
    BY DEF PauseInv, RowAfterFlip
  <2>2. flip[m].pause
    BY DEF PauseInv, InsertsPause, Pausing!Insert
  <2>3. UNCHANGED <<row, flip>>
    BY DEF Pausing!Insert
  <2>4. ASSUME NEW x \in Manager, pausePc'[x] = "writing"
        PROVE  seen'[x] = [row EXCEPT !.exists = TRUE] /\ flip[x].pause # row.is_paused
    <3>1. CASE x = m
      <4>1. ~row.exists /\ seen'[m] = [row EXCEPT !.exists = TRUE]
        BY <2>4, <3>1 DEF PauseInv, Pausing!TypeOK, Pausing!Insert
      <4>2. flip[m].pause = TRUE /\ row.is_paused = FALSE
        BY <2>1, <2>2, <4>1 DEF PauseInv, Pausing!TypeOK, Pausing!Job, Pausing!NoRow
      <4> QED
        BY <3>1, <4>1, <4>2
    <3>2. CASE x # m
      <4>1. seen'[x] = seen[x] /\ pausePc[x] = "writing"
        BY <2>4, <3>2 DEF PauseInv, Pausing!TypeOK, Pausing!Insert
      <4> QED
        BY <4>1 DEF PauseInv, SeenIsRow
    <3> QED
      BY <3>1, <3>2
  <2> QED
    BY <2>3, <2>4 DEF SeenIsRow
<1>5. Pausing!FlipsStand'
  BY DEF PauseInv, Pausing!FlipsStand, Pausing!FlipsAlternate, Pausing!RowReflectsFlips, Pausing!AnsweredWasApplied, Pausing!Insert
<1> QED
  BY <1>1, <1>2, <1>3, <1>4, <1>5 DEF PauseInv

\* A request that is answered as done before was applied: the key is that of the last
\* change, which went the same way.
LEMMA PauseReplayWasApplied ==
  ASSUME PauseInv, NEW m \in Manager, row.exists,
         row.is_paused = flip[m].pause, Pausing!IsReplay(m)
  PROVE  \E i \in DOMAIN flips : flips[i] = flip[m]
<1> DEFINE n == Len(flips)
<1>1. flips \in Seq(Pausing!Job) /\ n \in Nat \ {0} /\ n \in DOMAIN flips /\ flips[n] \in Pausing!Job
  BY DEF PauseInv, Pausing!TypeOK, RowAfterFlip
<1>2. flips[n].pause = (n % 2 = 1) /\ row.is_paused = (n % 2 = 1)
  BY <1>1 DEF PauseInv, Pausing!FlipsStand, Pausing!FlipsAlternate, Pausing!RowReflectsFlips
<1>3. flips[n].pause = flip[m].pause
  BY <1>2
<1>4. flips[n].key = flip[m].key
  <2>1. flips[n].pause => row.last_pause_key = flips[n].key
    BY <1>1 DEF PauseInv, Pausing!FlipsStand, Pausing!RowReflectsFlips
  <2>2. ~flips[n].pause => row.last_resume_key = flips[n].key
    BY <1>1 DEF PauseInv, Pausing!FlipsStand, Pausing!RowReflectsFlips
  <2> QED
    BY <1>3, <2>1, <2>2 DEF Pausing!IsReplay
<1>5. flips[n] = flip[m]
  BY <1>1, <1>3, <1>4 DEF PauseInv, Pausing!TypeOK, Pausing!Job
<1> QED
  BY <1>1, <1>5

\* A request locks and reads the row.
LEMMA PauseReadLockedKeeps ==
  ASSUME PauseInv, NEW m \in Manager, Pausing!ReadLocked(m)
  PROVE  PauseInv'
<1>1. rowOwner = NoManager /\ row.exists /\ UNCHANGED <<row, flip, order, flips>>
  BY DEF Pausing!ReadLocked, Pausing!LockFree
<1>2. CASE row.is_paused = flip[m].pause
  <2>1. Pausing!Finish(m) /\ UNCHANGED seen /\ toldFlips' = IF Pausing!IsReplay(m) THEN toldFlips \cup {flip[m]} ELSE toldFlips
    BY <1>2 DEF Pausing!ReadLocked
  <2>2. Pausing!TypeOK' /\ OwnerWrites'
    BY <1>1, <2>1, PauseFinished DEF PauseInv, Pausing!TypeOK
  <2>3. InsertsPause' /\ RowAfterFlip' /\ SeenIsRow'
    BY <1>1, <2>1, PauseFinished DEF PauseInv, InsertsPause, RowAfterFlip, SeenIsRow, Pausing!NoRow
  <2>4. Pausing!AnsweredWasApplied'
    BY <1>1, <1>2, <2>1, PauseReplayWasApplied DEF PauseInv, Pausing!FlipsStand, Pausing!AnsweredWasApplied
  <2>5. Pausing!FlipsStand'
    BY <1>1, <2>4 DEF PauseInv, Pausing!FlipsStand, Pausing!FlipsAlternate, Pausing!RowReflectsFlips
  <2> QED
    BY <2>2, <2>3, <2>5 DEF PauseInv
<1>3. CASE row.is_paused # flip[m].pause
  <2>1. /\ pausePc' = [pausePc EXCEPT ![m] = "writing"] /\ rowOwner' = m
        /\ seen' = [seen EXCEPT ![m] = row] /\ UNCHANGED toldFlips
    BY <1>3 DEF Pausing!ReadLocked
  <2>2. Pausing!TypeOK' /\ OwnerWrites'
    BY <1>1, <2>1, PauseConstants DEF PauseInv, Pausing!TypeOK, OwnerWrites
  <2>3. row = [row EXCEPT !.exists = TRUE]
    BY <1>1 DEF PauseInv, Pausing!TypeOK, Pausing!BranchState
  <2>4. InsertsPause' /\ RowAfterFlip' /\ SeenIsRow'
    BY <1>1, <1>3, <2>1, <2>3, PauseConstants DEF PauseInv, Pausing!TypeOK, OwnerWrites, InsertsPause, RowAfterFlip, SeenIsRow, Pausing!NoRow
  <2>5. Pausing!FlipsStand'
    BY <1>1, <2>1 DEF PauseInv, Pausing!FlipsStand, Pausing!FlipsAlternate, Pausing!RowReflectsFlips, Pausing!AnsweredWasApplied
  <2> QED
    BY <2>2, <2>4, <2>5 DEF PauseInv
<1> QED
  BY <1>2, <1>3

\* A request writes the row.
LEMMA PauseWriteKeeps ==
  ASSUME PauseInv, NEW m \in Manager, Pausing!Write(m)
  PROVE  PauseInv'
<1> DEFINE n == Len(flips)
<1>1. /\ pausePc[m] = "writing" /\ n < MaxFlips /\ Pausing!Finish(m) /\ UNCHANGED <<flip, seen, order>>
      /\ row' = Pausing!Written(m) /\ flips' = Append(flips, flip[m]) /\ toldFlips' = toldFlips \cup {flip[m]}
  BY DEF Pausing!Write
<1>2. flips \in Seq(Pausing!Job) /\ flip[m] \in Pausing!Job /\ n \in Nat /\ row \in Pausing!BranchState
  BY DEF PauseInv, Pausing!TypeOK
<1>3. row.version = n /\ row.is_paused = (n % 2 = 1)
  BY DEF PauseInv, Pausing!FlipsStand, Pausing!RowReflectsFlips
<1>4. seen[m] = [row EXCEPT !.exists = TRUE] /\ flip[m].pause # row.is_paused
  BY <1>1 DEF PauseInv, SeenIsRow
<1>5. /\ row' \in [exists : BOOLEAN, is_paused : BOOLEAN, version : 0..MaxFlips,
                   last_pause_key : Key \cup {NoKey}, last_resume_key : Key \cup {NoKey}]
      /\ row'.exists /\ row'.is_paused = flip[m].pause /\ row'.version = n + 1
      /\ row'.last_pause_key = IF flip[m].pause THEN flip[m].key ELSE row.last_pause_key
      /\ row'.last_resume_key = IF flip[m].pause THEN row.last_resume_key ELSE flip[m].key
  <2>1. row' = [[row EXCEPT !.exists = TRUE] EXCEPT
                  !.is_paused = flip[m].pause,
                  !.version = @ + 1,
                  !.last_pause_key = IF flip[m].pause THEN flip[m].key ELSE row.last_pause_key,
                  !.last_resume_key = IF flip[m].pause THEN row.last_resume_key ELSE flip[m].key]
    BY <1>1, <1>4 DEF Pausing!Written
  <2>2. flip[m].pause \in BOOLEAN /\ flip[m].key \in Key /\ n + 1 \in 0..MaxFlips
    BY <1>1, <1>2, PauseConstants DEF Pausing!Job
  <2> QED
    BY <1>2, <1>3, <2>1, <2>2 DEF Pausing!BranchState
<1>6. /\ flips' \in Seq(Pausing!Job) /\ Len(flips') = n + 1 /\ flips'[n + 1] = flip[m]
      /\ DOMAIN flips' = 1..(n + 1) /\ DOMAIN flips = 1..n
      /\ \A i \in 1..n : flips'[i] = flips[i]
  BY <1>1, <1>2
<1>7. flip[m].pause = ((n + 1) % 2 = 1)
  <2>1. flip[m].pause \in BOOLEAN /\ row.is_paused \in BOOLEAN
    BY <1>2 DEF Pausing!Job, Pausing!BranchState
  <2>2. (n % 2 = 1) <=> ~((n + 1) % 2 = 1)
    BY <1>2
  <2> QED
    BY <1>3, <1>4, <2>1, <2>2
<1>8. Pausing!TypeOK' /\ OwnerWrites'
  BY <1>1, <1>2, <1>5, <1>6, PauseFinished DEF PauseInv, Pausing!TypeOK, Pausing!BranchState
<1>9. InsertsPause'
  BY <1>1, PauseFinished DEF PauseInv, InsertsPause
<1>10. RowAfterFlip'
  BY <1>5, <1>6 DEF RowAfterFlip
<1>11. SeenIsRow'
  <2>1. \A x \in Manager : pausePc'[x] # "writing"
    BY <1>1, PauseFinished DEF PauseInv, OwnerWrites
  <2> QED
    BY <2>1 DEF SeenIsRow
<1>12. Pausing!FlipsAlternate'
  BY <1>6, <1>7 DEF PauseInv, Pausing!FlipsStand, Pausing!FlipsAlternate
<1>13. Pausing!RowReflectsFlips'
  <2>1. row'.version = Len(flips') /\ row'.is_paused = (Len(flips') % 2 = 1)
    BY <1>5, <1>6, <1>7
  <2>2. ASSUME NEW i \in 1..(n + 1), i >= n
        PROVE  /\ flips'[i].pause => row'.last_pause_key = flips'[i].key
               /\ ~flips'[i].pause => row'.last_resume_key = flips'[i].key
    <3>1. CASE i = n + 1
      BY <1>5, <1>6, <3>1
    <3>2. CASE i = n
      <4>1. i \in DOMAIN flips /\ flips'[i] = flips[i] /\ flips[i].pause = row.is_paused
        BY <1>2, <1>3, <1>6, <3>2 DEF PauseInv, Pausing!FlipsStand, Pausing!FlipsAlternate
      <4>2. /\ flips[i].pause => row.last_pause_key = flips[i].key
            /\ ~flips[i].pause => row.last_resume_key = flips[i].key
        BY <1>2, <3>2, <4>1 DEF PauseInv, Pausing!FlipsStand, Pausing!RowReflectsFlips
      <4>3. flip[m].pause \in BOOLEAN /\ flips[i].pause \in BOOLEAN
        <5>1. flips[i] \in Pausing!Job
          BY <1>2, <4>1
        <5> QED
          BY <1>2, <5>1 DEF Pausing!Job
      <4> QED
        BY <1>4, <1>5, <4>1, <4>2, <4>3
    <3> QED
      BY <1>2, <2>2, <3>1, <3>2
  <2> QED
    BY <1>2, <1>6, <2>1, <2>2 DEF Pausing!RowReflectsFlips
<1>14. Pausing!AnsweredWasApplied'
  BY <1>1, <1>2, <1>6 DEF PauseInv, Pausing!FlipsStand, Pausing!AnsweredWasApplied
<1> QED
  BY <1>8, <1>9, <1>10, <1>11, <1>12, <1>13, <1>14 DEF PauseInv, Pausing!FlipsStand

\* A request is aborted.
LEMMA PauseAbortKeeps ==
  ASSUME PauseInv, NEW m \in Manager, Pausing!Abort(m)
  PROVE  PauseInv'
<1>1. Pausing!Finish(m) /\ UNCHANGED <<row, flip, seen, order, flips, toldFlips>>
  BY DEF Pausing!Abort
<1>2. Pausing!TypeOK' /\ OwnerWrites'
  BY <1>1, PauseFinished DEF PauseInv, Pausing!TypeOK
<1>3. InsertsPause' /\ RowAfterFlip' /\ SeenIsRow'
  BY <1>1, PauseFinished DEF PauseInv, InsertsPause, RowAfterFlip, SeenIsRow, Pausing!NoRow
<1>4. Pausing!FlipsStand'
  BY <1>1 DEF PauseInv, Pausing!FlipsStand, Pausing!FlipsAlternate, Pausing!RowReflectsFlips, Pausing!AnsweredWasApplied
<1> QED
  BY <1>2, <1>3, <1>4 DEF PauseInv

\* Orders neither lock nor write the branch's row.
LEMMA PauseOrderKeeps ==
  ASSUME PauseInv, NEW o \in Order, Pausing!CheckPause(o) \/ (\E submit \in BOOLEAN : Pausing!CreateOrder(o, submit)) \/ Pausing!Submit(o)
  PROVE  PauseInv'
<1>1. /\ order' \in [Order -> {"none", "checked", "draft", "submitting", "submitted"}]
      /\ UNCHANGED <<row, rowOwner, pausePc, flip, seen, flips, toldFlips>>
  BY DEF PauseInv, Pausing!TypeOK, Pausing!CheckPause, Pausing!CreateOrder, Pausing!Submit
<1> QED
  BY <1>1 DEF PauseInv, Pausing!TypeOK, OwnerWrites, InsertsPause, RowAfterFlip, SeenIsRow, Pausing!FlipsStand,
     Pausing!FlipsAlternate, Pausing!RowReflectsFlips, Pausing!AnsweredWasApplied, Pausing!NoRow

\* Every step keeps it.
LEMMA PauseStepInv == PauseInv /\ [Pausing!Next]_(Pausing!vars) => PauseInv'
<1> SUFFICES ASSUME PauseInv, [Pausing!Next]_(Pausing!vars) PROVE PauseInv'
  OBVIOUS
<1>1. CASE UNCHANGED Pausing!vars
  BY <1>1 DEF Pausing!vars, PauseInv, Pausing!TypeOK, OwnerWrites, InsertsPause, RowAfterFlip, SeenIsRow,
     Pausing!FlipsStand, Pausing!FlipsAlternate, Pausing!RowReflectsFlips, Pausing!AnsweredWasApplied, Pausing!NoRow
<1>2. ASSUME NEW m \in Manager, NEW pause \in BOOLEAN, NEW k \in Key, Pausing!Ask(m, pause, k) PROVE PauseInv'
  BY <1>2, PauseAskKeeps
<1> QED
  BY <1>1, <1>2, PauseReadNothingKeeps, PauseInsertKeeps, PauseReadLockedKeeps, PauseWriteKeeps, PauseAbortKeeps, PauseOrderKeeps DEF Pausing!Next

\* Pauses and resumes of a branch alternate, its row says what the last one said, and
\* who was answered had the change applied, by this request or by an earlier one with
\* its key, whichever requests cross (kitchen.ts).
THEOREM PausesStand == SuiteSpec => []FlipsStand
<1>1. SuiteInit => PauseInv
  BY PauseInitInv DEF SuiteInit
<1>2. PauseInv /\ [SuiteNext]_suiteVars => PauseInv'
  <2> SUFFICES ASSUME PauseInv, [SuiteNext]_suiteVars PROVE PauseInv'
    OBVIOUS
  <2>1. Pausing!Next \/ UNCHANGED pauseVars
    BY DEF SuiteNext, suiteVars
  <2>2. [Pausing!Next]_(Pausing!vars)
    BY <2>1 DEF pauseVars, Pausing!vars
  <2> QED
    BY <2>2, PauseStepInv
<1>3. PauseInv => FlipsStand
  BY DEF PauseInv, FlipsStand
<1> QED
  BY <1>1, <1>2, <1>3, PTL DEF SuiteSpec

-----------------------------------------------------------------------------
(* The budget of attempts of print jobs, and that what ended stays, for    *)
(* any jobs, devices, size of a poll and number of attempts.               *)

\* What is assumed of the constants.
LEMMA PrintConstants ==
  NoDevice \notin Device /\ Batch \in Nat \ {0} /\ MaxAttempts \in Nat \ {0}
BY SuiteAssumption DEF Printing!PrintQueueAssumption

\* The claims of a job that the bridge still holds.
InHand(j) == {w \in work : w.job = j}

\* What came out, and what may still come out, was claimed; a claim is of an attempt
\* that was made.
CopiesClaimed ==
  \A j \in Ticket : IsFiniteSet(InHand(j)) /\ copies[j] + Cardinality(InHand(j)) <= attempts[j]
ClaimsPast == \A w \in work : w.attempt <= attempts[w.job]

\* A report of success follows paper, and what a handler has read was so.
ReportsTrue ==
  /\ \A m \in sent : m.ok => copies[m.job] > 0
  /\ \A h \in handling : (h.ok => copies[h.job] > 0) /\ h.attempts <= attempts[h.job]

\* Where a job stands tells how often it was claimed.
StatusTells ==
  \A j \in Ticket :
    /\ ticketStatus[j] = "printing" => attempts[j] > 0
    /\ ticketStatus[j] = "printed" => copies[j] > 0
    /\ ticketStatus[j] = "dead" => attempts[j] = MaxAttempts

PrintInv == Printing!TypeOK /\ CopiesClaimed /\ ClaimsPast /\ ReportsTrue /\ StatusTells

\* The invariant holds initially.
LEMMA PrintInitInv == Printing!Init => PrintInv
<1> SUFFICES ASSUME Printing!Init PROVE PrintInv
  OBVIOUS
<1>1. Printing!TypeOK
  BY PrintConstants DEF Printing!Init, Printing!TypeOK
<1>2. \A j \in Ticket : InHand(j) = {}
  BY DEF Printing!Init, InHand
<1>3. CopiesClaimed
  BY <1>2, FS_EmptySet DEF Printing!Init, CopiesClaimed
<1> QED
  BY <1>1, <1>3 DEF Printing!Init, PrintInv, ClaimsPast, ReportsTrue, StatusTells

\* A poll claims pending jobs that have an attempt left.
LEMMA PrintClaimedMayBe ==
  ASSUME Printing!TypeOK, NEW d \in Device, NEW j \in Printing!Claimed(d)
  PROVE  j \in Ticket /\ ticketStatus[j] = "pending" /\ attempts[j] < MaxAttempts
<1>1. PICK i \in Printing!Claimable(d) : j = created[i]
  BY DEF Printing!Claimed
<1> QED
  BY <1>1 DEF Printing!Claimable, Printing!TypeOK

\* A job is created.
LEMMA PrintCreateKeeps ==
  ASSUME PrintInv, NEW j \in Ticket, NEW d \in Device \cup {NoDevice}, Printing!Create(j, d)
  PROVE  PrintInv'
<1>1. Printing!TypeOK'
  BY DEF PrintInv, Printing!TypeOK, Printing!Create
<1>2. UNCHANGED <<attempts, work, copies, sent, handling>>
  BY DEF Printing!Create
<1>3. CopiesClaimed' /\ ClaimsPast' /\ ReportsTrue'
  BY <1>2 DEF PrintInv, CopiesClaimed, InHand, ClaimsPast, ReportsTrue
<1>4. StatusTells'
  BY <1>2 DEF PrintInv, Printing!TypeOK, StatusTells, Printing!Create
<1> QED
  BY <1>1, <1>3, <1>4 DEF PrintInv

\* A poll claims jobs.
LEMMA PrintClaimKeeps ==
  ASSUME PrintInv, NEW d \in Device, Printing!Claim(d)
  PROVE  PrintInv'
<1> DEFINE New == {[job |-> j, attempt |-> attempts[j] + 1] : j \in Printing!Claimed(d)}
<1>1. /\ ticketStatus' = [j \in Ticket |-> IF j \in Printing!Claimed(d) THEN "printing" ELSE ticketStatus[j]]
      /\ attempts' = [j \in Ticket |-> IF j \in Printing!Claimed(d) THEN attempts[j] + 1 ELSE attempts[j]]
      /\ work' = work \cup New \/ work' = work
      /\ UNCHANGED <<created, device, copies, sent, handling>>
  BY DEF Printing!Claim
<1>2. Printing!TypeOK
  BY DEF PrintInv
<1>3. \A j \in Printing!Claimed(d) : j \in Ticket /\ ticketStatus[j] = "pending" /\ attempts[j] < MaxAttempts
  BY <1>2, PrintClaimedMayBe
<1>4. attempts \in [Ticket -> 0..MaxAttempts] /\ MaxAttempts \in Nat
  BY <1>2, PrintConstants DEF Printing!TypeOK
<1>5. Printing!TypeOK'
  <2>1. attempts' \in [Ticket -> 0..MaxAttempts]
    BY <1>1, <1>3, <1>4
  <2>2. New \subseteq [job : Ticket, attempt : 1..MaxAttempts]
    BY <1>3, <1>4
  <2>3. work' \subseteq [job : Ticket, attempt : 1..MaxAttempts]
    BY <1>1, <1>2, <2>2 DEF Printing!TypeOK
  <2>4. ticketStatus' \in [Ticket -> {"none", "pending", "printing", "printed", "dead"}]
    BY <1>1, <1>2 DEF Printing!TypeOK
  <2> QED
    BY <1>1, <1>2, <2>1, <2>3, <2>4 DEF Printing!TypeOK
<1>6. \A j \in Ticket : attempts[j] <= attempts'[j]
  BY <1>1, <1>4
<1>7. CopiesClaimed'
  <2> SUFFICES ASSUME NEW j \in Ticket
               PROVE  IsFiniteSet(InHand(j)') /\ copies[j] + Cardinality(InHand(j)') <= attempts'[j]
    BY <1>1 DEF CopiesClaimed
  <2> DEFINE claim == [job |-> j, attempt |-> attempts[j] + 1]
  <2>1. IsFiniteSet(InHand(j)) /\ copies[j] + Cardinality(InHand(j)) <= attempts[j]
    BY DEF PrintInv, CopiesClaimed
  <2>2. Cardinality(InHand(j)) \in Nat /\ copies[j] \in Nat
    BY <1>2, <2>1, FS_CardinalityType DEF Printing!TypeOK
  <2>3. CASE work' = work
    <3>1. InHand(j)' = InHand(j)
      BY <2>3 DEF InHand
    <3> QED
      BY <1>4, <1>5, <1>6, <2>1, <2>2, <3>1 DEF Printing!TypeOK
  <2>4. CASE work' = work \cup New /\ j \notin Printing!Claimed(d)
    <3>1. InHand(j)' = InHand(j)
      BY <2>4 DEF InHand
    <3> QED
      BY <1>4, <1>5, <1>6, <2>1, <2>2, <3>1 DEF Printing!TypeOK
  <2>5. CASE work' = work \cup New /\ j \in Printing!Claimed(d)
    <3>1. InHand(j)' = InHand(j) \cup {claim}
      BY <2>5 DEF InHand
    <3>2. attempts'[j] = attempts[j] + 1
      BY <1>1, <2>5
    <3>3. IsFiniteSet(InHand(j)') /\ Cardinality(InHand(j)') <= Cardinality(InHand(j)) + 1
      <4>1. /\ IsFiniteSet(InHand(j) \cup {claim})
            /\ Cardinality(InHand(j) \cup {claim}) =
                 IF claim \in InHand(j) THEN Cardinality(InHand(j)) ELSE Cardinality(InHand(j)) + 1
        BY <2>1, FS_AddElement
      <4> HIDE DEF claim
      <4> QED
        BY <2>2, <3>1, <4>1
    <3>4. Cardinality(InHand(j)') \in Nat
      BY <3>3, FS_CardinalityType
    <3> QED
      BY <1>4, <2>1, <2>2, <3>2, <3>3, <3>4
  <2> QED
    BY <1>1, <2>3, <2>4, <2>5
<1>8. ClaimsPast'
  <2> SUFFICES ASSUME NEW w \in work' PROVE w.attempt <= attempts'[w.job]
    BY DEF ClaimsPast
  <2>1. CASE w \in work
    BY <1>2, <1>4, <1>5, <1>6, <2>1 DEF PrintInv, Printing!TypeOK, ClaimsPast
  <2>2. CASE w \in New
    BY <1>1, <1>3, <1>4, <2>2
  <2> QED
    BY <1>1, <2>1, <2>2
<1>9. ReportsTrue'
  <2>1. \A h \in handling : h.attempts <= attempts'[h.job]
    BY <1>2, <1>4, <1>5, <1>6 DEF PrintInv, Printing!TypeOK, ReportsTrue
  <2> QED
    BY <1>1, <2>1 DEF PrintInv, ReportsTrue
<1>10. StatusTells'
  BY <1>1, <1>3, <1>4 DEF PrintInv, StatusTells
<1> QED
  BY <1>5, <1>7, <1>8, <1>9, <1>10 DEF PrintInv

\* A claim that leaves the bridge's hands made at most one copy.
LEMMA PrintHandedKeeps ==
  ASSUME PrintInv, NEW w \in work, NEW paper \in BOOLEAN,
         work' = work \ {w},
         copies' = [copies EXCEPT ![w.job] = IF paper THEN @ + 1 ELSE @],
         UNCHANGED <<Printing!queue, handling>>
  PROVE  /\ CopiesClaimed' /\ ClaimsPast' /\ StatusTells' /\ copies' \in [Ticket -> Nat]
         /\ \A j \in Ticket : copies[j] <= copies'[j]
         /\ paper => copies'[w.job] > 0
<1>1. /\ w \in [job : Ticket, attempt : 1..MaxAttempts] /\ copies \in [Ticket -> Nat]
      /\ attempts \in [Ticket -> 0..MaxAttempts] /\ attempts' = attempts /\ ticketStatus' = ticketStatus
  BY DEF PrintInv, Printing!TypeOK, Printing!queue
<1>2. copies' \in [Ticket -> Nat] /\ (paper => copies'[w.job] > 0) /\ \A j \in Ticket : copies[j] <= copies'[j]
  BY <1>1
<1>3. CopiesClaimed'
  <2> SUFFICES ASSUME NEW j \in Ticket
               PROVE  IsFiniteSet(InHand(j)') /\ copies'[j] + Cardinality(InHand(j)') <= attempts[j]
    BY <1>1 DEF CopiesClaimed
  <2>1. IsFiniteSet(InHand(j)) /\ copies[j] + Cardinality(InHand(j)) <= attempts[j]
    BY DEF PrintInv, CopiesClaimed
  <2>2. Cardinality(InHand(j)) \in Nat /\ attempts[j] \in Int
    BY <1>1, <2>1, FS_CardinalityType
  <2>3. CASE j # w.job
    <3>1. InHand(j)' = InHand(j) /\ copies'[j] = copies[j]
      BY <1>1, <2>3 DEF InHand
    <3> QED
      BY <2>1, <3>1
  <2>4. CASE j = w.job
    <3>1. InHand(j)' = InHand(j) \ {w} /\ w \in InHand(j)
      BY <2>4 DEF InHand
    <3>2. IsFiniteSet(InHand(j)') /\ Cardinality(InHand(j)') = Cardinality(InHand(j)) - 1
      BY <2>1, <3>1, FS_RemoveElement
    <3>3. copies'[j] <= copies[j] + 1
      BY <1>1, <2>4
    <3> QED
      BY <1>1, <1>2, <2>1, <2>2, <3>2, <3>3
  <2> QED
    BY <2>3, <2>4
<1>4. ClaimsPast'
  BY <1>1 DEF PrintInv, ClaimsPast
<1>5. StatusTells'
  BY <1>1, <1>2 DEF PrintInv, StatusTells
<1> QED
  BY <1>2, <1>3, <1>4, <1>5

\* The bridge prints a job.
LEMMA PrintJobKeeps ==
  ASSUME PrintInv, NEW w \in work, NEW paper \in BOOLEAN, NEW ok \in BOOLEAN, Printing!PrintJob(w, paper, ok)
  PROVE  PrintInv'
<1> DEFINE m == [job |-> w.job, ok |-> ok]
<1>1. /\ ok => paper
      /\ work' = work \ {w} /\ sent' = sent \cup {m} /\ UNCHANGED <<Printing!queue, handling>>
      /\ copies' = [copies EXCEPT ![w.job] = IF paper THEN @ + 1 ELSE @]
  BY DEF Printing!PrintJob
<1>2. /\ CopiesClaimed' /\ ClaimsPast' /\ StatusTells' /\ copies' \in [Ticket -> Nat]
      /\ \A j \in Ticket : copies[j] <= copies'[j]
      /\ paper => copies'[w.job] > 0
  BY <1>1, PrintHandedKeeps
<1>3. Printing!TypeOK'
  BY <1>1, <1>2 DEF PrintInv, Printing!TypeOK, Printing!queue, Printing!Report
<1>4. ReportsTrue'
  <2>1. \A j \in Ticket : copies[j] > 0 => copies'[j] > 0
    BY <1>2 DEF PrintInv, Printing!TypeOK
  <2>2. \A x \in sent \cup handling : x.job \in Ticket
    BY DEF PrintInv, Printing!TypeOK, Printing!Report
  <2> QED
    BY <1>1, <1>2, <2>1, <2>2 DEF PrintInv, ReportsTrue, Printing!queue
<1> QED
  BY <1>2, <1>3, <1>4 DEF PrintInv

\* The bridge drops a job, before or after paper.
LEMMA PrintStopKeeps ==
  ASSUME PrintInv, NEW w \in work, NEW paper \in BOOLEAN, Printing!Stop(w, paper)
  PROVE  PrintInv'
<1>1. /\ work' = work \ {w} /\ UNCHANGED <<Printing!queue, sent, handling>>
      /\ copies' = [copies EXCEPT ![w.job] = IF paper THEN @ + 1 ELSE @]
  BY DEF Printing!Stop
<1>2. /\ CopiesClaimed' /\ ClaimsPast' /\ StatusTells' /\ copies' \in [Ticket -> Nat]
      /\ \A j \in Ticket : copies[j] <= copies'[j]
  BY <1>1, PrintHandedKeeps
<1>3. Printing!TypeOK'
  BY <1>1, <1>2 DEF PrintInv, Printing!TypeOK, Printing!queue
<1>4. ReportsTrue'
  <2>1. \A j \in Ticket : copies[j] > 0 => copies'[j] > 0
    BY <1>2 DEF PrintInv, Printing!TypeOK
  <2>2. \A x \in sent \cup handling : x.job \in Ticket
    BY DEF PrintInv, Printing!TypeOK, Printing!Report
  <2> QED
    BY <1>1, <2>1, <2>2 DEF PrintInv, ReportsTrue, Printing!queue
<1> QED
  BY <1>2, <1>3, <1>4 DEF PrintInv

\* Reports that are lost, read or given up touch no job.
LEMMA PrintReportKeeps ==
  ASSUME PrintInv,
         \/ \E m \in sent : Printing!Lose(m) \/ Printing!ReadJob(m)
         \/ \E h \in handling : Printing!DropResult(h)
  PROVE  PrintInv'
<1>1. UNCHANGED <<Printing!queue, work, copies>>
  BY DEF Printing!Lose, Printing!ReadJob, Printing!DropResult
<1>2. /\ sent' \subseteq sent
      /\ \A h \in handling' \ handling :
           \E m \in sent : /\ ticketStatus[m.job] = "printing"
                           /\ h = [job |-> m.job, ok |-> m.ok, attempts |-> attempts[m.job]]
  BY DEF Printing!Lose, Printing!ReadJob, Printing!DropResult
<1>3. \A h \in handling' \ handling :
        /\ h \in [job : Ticket, ok : BOOLEAN, attempts : 1..MaxAttempts]
        /\ (h.ok => copies[h.job] > 0) /\ h.attempts <= attempts[h.job]
  BY <1>2 DEF PrintInv, Printing!TypeOK, Printing!Report, ReportsTrue, StatusTells
<1>4. Printing!TypeOK'
  BY <1>1, <1>2, <1>3 DEF PrintInv, Printing!TypeOK, Printing!queue
<1>5. CopiesClaimed' /\ ClaimsPast' /\ StatusTells'
  BY <1>1 DEF PrintInv, CopiesClaimed, InHand, ClaimsPast, StatusTells, Printing!queue
<1>6. ReportsTrue'
  BY <1>1, <1>2, <1>3 DEF PrintInv, ReportsTrue, Printing!queue
<1> QED
  BY <1>4, <1>5, <1>6 DEF PrintInv

\* A handler writes what was reported.
LEMMA PrintWriteResultKeeps ==
  ASSUME PrintInv, NEW h \in handling, Printing!WriteResult(h)
  PROVE  PrintInv'
<1>1. /\ handling' = handling \ {h} /\ UNCHANGED <<created, device, attempts, work, copies, sent>>
      /\ ticketStatus' = IF Printing!Writable(h.job) THEN [ticketStatus EXCEPT ![h.job] = Printing!NextStatus(h)] ELSE ticketStatus
  BY DEF Printing!WriteResult
<1>2. h \in [job : Ticket, ok : BOOLEAN, attempts : 1..MaxAttempts] /\ h.attempts <= attempts[h.job]
      /\ (h.ok => copies[h.job] > 0)
  BY DEF PrintInv, Printing!TypeOK, ReportsTrue
<1>3. Printing!TypeOK'
  BY <1>1, <1>2 DEF PrintInv, Printing!TypeOK, Printing!NextStatus
<1>4. CopiesClaimed' /\ ClaimsPast' /\ ReportsTrue'
  BY <1>1 DEF PrintInv, CopiesClaimed, InHand, ClaimsPast, ReportsTrue
<1>5. StatusTells'
  <2>1. Printing!NextStatus(h) = "dead" => attempts[h.job] = MaxAttempts
    BY <1>2, PrintConstants DEF PrintInv, Printing!TypeOK, Printing!NextStatus
  <2>2. Printing!NextStatus(h) = "printed" => copies[h.job] > 0
    BY <1>2 DEF Printing!NextStatus
  <2>3. Printing!NextStatus(h) # "printing"
    BY DEF Printing!NextStatus
  <2> QED
    BY <1>1, <1>2, <2>1, <2>2, <2>3 DEF PrintInv, Printing!TypeOK, StatusTells
<1> QED
  BY <1>3, <1>4, <1>5 DEF PrintInv

\* Stuck jobs are swept.
LEMMA PrintSweepKeeps ==
  ASSUME PrintInv, NEW stuck \in SUBSET Ticket, Printing!Sweep(stuck)
  PROVE  PrintInv'
<1>1. /\ ticketStatus' = [j \in Ticket |-> IF j \in stuck THEN Printing!Swept(j) ELSE ticketStatus[j]]
      /\ UNCHANGED <<created, device, attempts, work, copies, sent, handling>>
  BY DEF Printing!Sweep
<1>2. Printing!TypeOK' /\ StatusTells'
  BY <1>1, PrintConstants DEF PrintInv, Printing!TypeOK, StatusTells, Printing!Swept
<1>3. CopiesClaimed' /\ ClaimsPast' /\ ReportsTrue'
  BY <1>1 DEF PrintInv, CopiesClaimed, InHand, ClaimsPast, ReportsTrue
<1> QED
  BY <1>2, <1>3 DEF PrintInv

\* Every step keeps it.
LEMMA PrintStepInv == PrintInv /\ [Printing!Next]_(Printing!vars) => PrintInv'
<1> SUFFICES ASSUME PrintInv, [Printing!Next]_(Printing!vars) PROVE PrintInv'
  OBVIOUS
<1>1. CASE UNCHANGED Printing!vars
  BY <1>1 DEF Printing!vars, Printing!queue, PrintInv, Printing!TypeOK, CopiesClaimed, InHand, ClaimsPast, ReportsTrue, StatusTells
<1> QED
  BY <1>1, PrintCreateKeeps, PrintClaimKeeps, PrintJobKeeps, PrintStopKeeps, PrintReportKeeps, PrintWriteResultKeeps, PrintSweepKeeps DEF Printing!Next

\* The print queue moves when its part does.
LEMMA PrintSuiteInit == SuiteInit => PrintInv
BY PrintInitInv DEF SuiteInit

LEMMA PrintSuiteMove == [SuiteNext]_suiteVars => [Printing!Next]_(Printing!vars)
<1> SUFFICES ASSUME [SuiteNext]_suiteVars PROVE [Printing!Next]_(Printing!vars)
  OBVIOUS
<1>1. Printing!Next \/ UNCHANGED printVars
  BY DEF SuiteNext, suiteVars
<1> QED
  BY <1>1 DEF printVars, Printing!vars, Printing!queue

LEMMA PrintSuiteStep == PrintInv /\ [SuiteNext]_suiteVars => PrintInv'
BY PrintSuiteMove, PrintStepInv

\* The budget of attempts holds for every job: one that counts as printed came out, one
\* that was given up had all its attempts, and none comes out more often than it was
\* claimed, whatever is lost, late or repeated (bridge.ts, printJobs.ts).
THEOREM BudgetIsKept == SuiteSpec => []BudgetHolds
<1>1. PrintInv => BudgetHolds
  <2> SUFFICES ASSUME PrintInv, NEW j \in Ticket
               PROVE  /\ ticketStatus[j] = "printed" => copies[j] > 0
                      /\ ticketStatus[j] = "dead" => attempts[j] = MaxAttempts
                      /\ copies[j] <= attempts[j]
    BY DEF BudgetHolds, Printing!BudgetHolds
  <2>1. IsFiniteSet(InHand(j)) /\ copies[j] + Cardinality(InHand(j)) <= attempts[j]
    BY DEF PrintInv, CopiesClaimed
  <2>2. Cardinality(InHand(j)) \in Nat /\ copies[j] \in Nat /\ attempts[j] \in Nat
    BY <2>1, FS_CardinalityType DEF PrintInv, Printing!TypeOK
  <2> QED
    BY <2>1, <2>2 DEF PrintInv, StatusTells
<1> QED
  BY PrintSuiteInit, PrintSuiteStep, <1>1, PTL DEF SuiteSpec

\* No claim, report or sweep, however late, moves a job that was printed or given up.
THEOREM EndedIsFinal == SuiteSpec => EndedStays
<1> DEFINE Stays == \A j \in Ticket : ticketStatus[j] \in {"printed", "dead"} => ticketStatus'[j] = ticketStatus[j]
<1>1. ASSUME PrintInv, [Printing!Next]_(Printing!vars) PROVE [Stays]_(Printing!vars)
  <2>1. CASE UNCHANGED Printing!vars
    BY <2>1
  <2>2. ASSUME NEW j \in Ticket, NEW d \in Device \cup {NoDevice}, Printing!Create(j, d) PROVE Stays
    BY <2>2 DEF PrintInv, Printing!TypeOK, Printing!Create
  <2>3. ASSUME NEW d \in Device, Printing!Claim(d) PROVE Stays
    BY <1>1, <2>3, PrintClaimedMayBe DEF PrintInv, Printing!Claim
  <2>4. ASSUME NEW h \in handling, Printing!WriteResult(h) PROVE Stays
    BY <1>1, <2>4 DEF PrintInv, Printing!TypeOK, Printing!WriteResult, Printing!Writable
  <2>5. ASSUME NEW stuck \in SUBSET Ticket, Printing!Sweep(stuck) PROVE Stays
    BY <2>5 DEF Printing!Sweep
  <2>6. ASSUME \/ \E w \in work, paper \in BOOLEAN : Printing!Stop(w, paper) \/ \E ok \in BOOLEAN : Printing!PrintJob(w, paper, ok)
               \/ \E m \in sent : Printing!Lose(m) \/ Printing!ReadJob(m)
               \/ \E h \in handling : Printing!DropResult(h)
        PROVE  Stays
    BY <2>6 DEF Printing!Stop, Printing!PrintJob, Printing!Lose, Printing!ReadJob, Printing!DropResult, Printing!queue
  <2> QED
    BY <1>1, <2>1, <2>2, <2>3, <2>4, <2>5, <2>6 DEF Printing!Next
<1>2. PrintInv /\ [SuiteNext]_suiteVars => [Stays]_(Printing!vars)
  BY <1>1, PrintSuiteMove
<1> QED
  BY PrintSuiteInit, PrintSuiteStep, <1>2, PTL DEF SuiteSpec, EndedStays, Printing!EndedStays

-----------------------------------------------------------------------------
(* The screen.  What a card, an answer on its way or a button that was     *)
(* tapped says of an order is never ahead of the order: nothing takes an   *)
(* order back out of the kitchen.                                          *)

InKitchen(o) == boardStatus[o] \notin {"draft", "submitted"}
KitchenCard == {"in_kitchen", "held", "ready"}

BoardInv ==
  /\ boardStatus \in [Order -> Board!Statuses]
  /\ shown \in [Order -> Board!Card]
  /\ loads \in SUBSET [why : {"poll", "open", "tap"}, view : [Order -> Board!Card]]
  /\ taps \in SUBSET [kind : Board!Kind, order : Order, seen : Board!Card]
  /\ alerts \in [Order -> 0..1]
  /\ \A o \in Order : alerts[o] = 1 => o \in known
  /\ \A o \in Order : shown[o] \in KitchenCard => InKitchen(o)
  /\ \A l \in loads, o \in Order : l.view[o] \in KitchenCard => InKitchen(o)
  /\ \A t \in taps : t.seen \in KitchenCard => InKitchen(t.order)
  /\ \A t \in taps : t.kind = "status" => t.seen \in {"submitted", "in_kitchen", "ready"}

\* What is on the screen and on its way to it.
ScreenInv ==
  /\ shown \in [Order -> Board!Card]
  /\ loads \in SUBSET [why : {"poll", "open", "tap"}, view : [Order -> Board!Card]]
  /\ \A o \in Order : shown[o] \in KitchenCard => InKitchen(o)
  /\ \A l \in loads, o \in Order : l.view[o] \in KitchenCard => InKitchen(o)

LEMMA BoardInitInv == Board!Init => BoardInv
<1> SUFFICES ASSUME Board!Init PROVE BoardInv
  OBVIOUS
<1>1. boardStatus \in [Order -> Board!Statuses]
  BY DEF Board!Init, Board!Statuses, Board!Kitchen!Statuses
<1>2. shown = [o \in Order |-> "absent"] /\ loads = {} /\ taps = {} /\ alerts = [o \in Order |-> 0]
  BY DEF Board!Init
<1> QED
  BY <1>1, <1>2 DEF BoardInv, Board!Card, KitchenCard

LEMMA ScreenHas == ASSUME BoardInv PROVE ScreenInv
BY DEF BoardInv, ScreenInv

\* A step that leaves the orders, the buttons and the sounds.
LEMMA ScreenKeeps ==
  ASSUME BoardInv, ScreenInv', boardStatus' = boardStatus, taps' = taps, alerts' = alerts, known' = known
  PROVE  BoardInv'
BY DEF BoardInv, ScreenInv, InKitchen

\* What the kitchen shows of an order is what the order is.
LEMMA ViewShows ==
  ASSUME BoardInv
  PROVE  Board!View \in [Order -> Board!Card] /\ \A o \in Order : Board!View[o] \in KitchenCard => InKitchen(o)
BY DEF Board!View, Board!Card, KitchenCard, InKitchen

LEMMA StartLoadKeeps ==
  ASSUME BoardInv, NEW why \in {"poll", "open", "tap"}, NEW s, Board!StartLoad(why, s), boardStatus' = boardStatus
  PROVE  ScreenInv'
<1>1. CASE Board!Off(s)
  <2>1. shown' = [o \in Order |-> "absent"] /\ loads' = loads
    BY <1>1 DEF Board!StartLoad, Board!NoCards
  <2> QED
    BY <2>1 DEF BoardInv, ScreenInv, InKitchen, Board!Card, KitchenCard
<1>2. CASE ~Board!Off(s)
  <2> DEFINE l == [why |-> why, view |-> Board!View]
  <2>1. loads' = loads \cup {l} /\ shown' = shown
    BY <1>2 DEF Board!StartLoad
  <2>2. /\ l \in [why : {"poll", "open", "tap"}, view : [Order -> Board!Card]]
        /\ \A o \in Order : l.view[o] \in KitchenCard => InKitchen(o)
    BY ViewShows
  <2> HIDE DEF l
  <2> QED
    BY <2>1, <2>2 DEF BoardInv, ScreenInv, InKitchen
<1> QED
  BY <1>1, <1>2

\* Orders move on, and do not leave the kitchen but for good.
LEMMA AdvanceOn ==
  ASSUME BoardInv, NEW o \in Order, NEW to, Board!Kitchen!Advance(o, to)
  PROVE  /\ boardStatus' \in [Order -> Board!Statuses]
         /\ \A x \in Order : InKitchen(x) => InKitchen(x)'
<1>1. boardStatus \in [Order -> Board!Statuses] /\ boardStatus[o] \in Board!Statuses
  BY DEF BoardInv
<1>2. boardStatus' = [boardStatus EXCEPT ![o] = to] /\ to \in Board!Kitchen!TRANSITIONS[boardStatus[o]]
  BY DEF Board!Kitchen!Advance
<1>3. to \in Board!Statuses /\ (InKitchen(o) => to \notin {"draft", "submitted"})
  BY <1>1, <1>2 DEF Board!Kitchen!TRANSITIONS, Board!Statuses, Board!Kitchen!Statuses, InKitchen
<1> QED
  BY <1>1, <1>2, <1>3 DEF InKitchen

\* A step of the server leaves the screen, and what it took for a fact.
LEMMA ServerKeeps ==
  ASSUME BoardInv, boardStatus' \in [Order -> Board!Statuses],
         \A x \in Order : InKitchen(x) => InKitchen(x)',
         taps' \subseteq taps, shown' = shown, loads' = loads, alerts' = alerts, known' = known
  PROVE  BoardInv'
<1>1. \A t \in taps' : t.order \in Order /\ t \in taps
  BY DEF BoardInv
<1> QED
  BY <1>1 DEF BoardInv

LEMMA ElsewhereKeeps ==
  ASSUME BoardInv, NEW o \in Order, Board!Elsewhere(o)
  PROVE  BoardInv'
<1>1. taps' = taps /\ shown' = shown /\ loads' = loads /\ alerts' = alerts /\ known' = known
  BY DEF Board!Elsewhere, Board!board, Board!requests
<1>2. /\ boardStatus' \in [Order -> Board!Statuses]
      /\ \A x \in Order : InKitchen(x) => InKitchen(x)'
  <2>1. CASE \E to \in Board!Statuses : Board!Kitchen!Advance(o, to)
    BY <2>1, AdvanceOn
  <2>2. CASE Board!Kitchen!Hold(o) \/ Board!Kitchen!Resume(o)
    BY <2>2 DEF Board!Kitchen!Hold, Board!Kitchen!Resume, BoardInv, InKitchen
  <2> QED
    BY <2>1, <2>2 DEF Board!Elsewhere
<1> QED
  BY <1>1, <1>2, ServerKeeps

LEMMA ServeKeeps ==
  ASSUME BoardInv, NEW t \in taps, Board!Serve(t)
  PROVE  BoardInv'
<1>1. taps' = taps \ {t} /\ shown' = shown /\ loads' = loads /\ alerts' = alerts /\ known' = known
  BY DEF Board!Serve, Board!board
<1>2. t.order \in Order
  BY DEF BoardInv
<1>3. /\ boardStatus' \in [Order -> Board!Statuses]
      /\ \A x \in Order : InKitchen(x) => InKitchen(x)'
  <2>1. CASE Board!Kitchen!Advance(t.order, Board!NEXT[t.seen])
    BY <1>2, <2>1, AdvanceOn
  <2>2. CASE Board!Kitchen!Hold(t.order) \/ Board!Kitchen!Resume(t.order) \/ boardStatus' = boardStatus
    BY <2>2 DEF Board!Kitchen!Hold, Board!Kitchen!Resume, BoardInv, InKitchen
  <2> QED
    BY <2>1, <2>2 DEF Board!Serve
<1> QED
  BY <1>1, <1>3, ServerKeeps

LEMMA LoadAnswerKeeps ==
  ASSUME BoardInv, NEW l \in loads, Board!LoadAnswer(l)
  PROVE  BoardInv'
<1> DEFINE seenNow == Board!Visible(l.view)
<1>1. /\ loads' = loads \ {l} /\ taps' = taps /\ boardStatus' = boardStatus
      /\ known' = known \cup seenNow
      /\ shown' = [o \in Order |-> IF o \in seenNow THEN l.view[o] ELSE "absent"]
      /\ alerts' = [o \in Order |->
                      IF l.why = "poll" /\ o \in seenNow \ known /\ alerts[o] < 2 THEN alerts[o] + 1 ELSE alerts[o]]
  BY DEF Board!LoadAnswer, Board!ShownAfter, Board!KnownAfter, Board!server
<1> HIDE DEF seenNow
<1>2. alerts' \in [Order -> 0..1] /\ \A o \in Order : alerts'[o] = 1 => o \in known'
  <2>1. alerts \in [Order -> 0..1] /\ \A o \in Order : alerts[o] = 1 => o \in known
    BY DEF BoardInv
  <2>2. \A o \in Order : o \notin known => alerts[o] = 0
    BY <2>1
  <2> QED
    BY <1>1, <2>1, <2>2
<1>3. l.view \in [Order -> Board!Card]
  BY DEF BoardInv
<1>4. shown' \in [Order -> Board!Card] /\ \A o \in Order : shown'[o] \in KitchenCard => InKitchen(o)
  BY <1>1, <1>3 DEF BoardInv, Board!Card, KitchenCard
<1> QED
  BY <1>1, <1>2, <1>4 DEF BoardInv, InKitchen

LEMMA TapKeeps ==
  ASSUME BoardInv, NEW o \in Order, NEW kind \in Board!Kind, Board!Tap(o, kind)
  PROVE  BoardInv'
<1> DEFINE t == [kind |-> kind, order |-> o, seen |-> shown[o]]
<1>1. /\ taps' = taps \cup {t} /\ shown' = shown /\ loads' = loads /\ alerts' = alerts /\ known' = known
      /\ boardStatus' = boardStatus /\ kind \in Board!Buttons(shown[o])
  BY DEF Board!Tap, Board!board, Board!server
<1>2. shown[o] \in Board!Card /\ (shown[o] \in KitchenCard => InKitchen(o))
  BY DEF BoardInv
<1>3. kind = "status" => shown[o] \in {"submitted", "in_kitchen", "ready"}
  BY <1>1 DEF Board!Buttons, Board!NEXT
<1>4. /\ t \in [kind : Board!Kind, order : Order, seen : Board!Card]
      /\ t.order = o /\ t.kind = kind /\ t.seen = shown[o]
  BY <1>2
<1> HIDE DEF t
<1> QED
  BY <1>1, <1>2, <1>3, <1>4 DEF BoardInv, InKitchen

LEMMA BoardNextInv ==
  ASSUME BoardInv, Board!Next
  PROVE  BoardInv'
<1>1. ASSUME NEW o \in Order, Board!Elsewhere(o) \/ Board!Age(o)
      PROVE  BoardInv'
  <2>1. CASE Board!Age(o)
    BY <2>1, ScreenHas, ScreenKeeps DEF Board!Age, Board!board, Board!requests, ScreenInv, InKitchen
  <2> QED
    BY <1>1, <2>1, ElsewhereKeeps
<1>2. ASSUME NEW c \in Board!Config, Board!Configure(c)
      PROVE  BoardInv'
  BY <1>2, ScreenHas, ScreenKeeps DEF Board!Configure, Board!board, Board!requests, ScreenInv, InKitchen
<1>3. ASSUME Board!Poll
      PROVE  BoardInv'
  <2>1. /\ boardStatus' = boardStatus /\ taps' = taps /\ alerts' = alerts /\ known' = known
        /\ Board!StartLoad("poll", settings)
    BY <1>3 DEF Board!Poll, Board!server
  <2> QED
    BY <2>1, StartLoadKeeps, ScreenKeeps
<1>4. ASSUME Board!SettingsAnswer
      PROVE  BoardInv'
  <2>1. boardStatus' = boardStatus /\ taps' = taps /\ alerts' = alerts /\ known' = known
    BY <1>4 DEF Board!SettingsAnswer, Board!server
  <2>2. Board!StartLoad("open", config) \/ (shown' = shown /\ loads' = loads)
    BY <1>4 DEF Board!SettingsAnswer
  <2>3. ScreenInv'
    <3>1. CASE Board!StartLoad("open", config)
      BY <2>1, <3>1, StartLoadKeeps
    <3>2. CASE shown' = shown /\ loads' = loads
      BY <2>1, <3>2, ScreenHas DEF ScreenInv, InKitchen
    <3> QED
      BY <2>2, <3>1, <3>2
  <2> QED
    BY <2>1, <2>3, ScreenKeeps
<1>5. ASSUME Board!LoadFails
      PROVE  BoardInv'
  <2>1. /\ boardStatus' = boardStatus /\ taps' = taps /\ alerts' = alerts /\ known' = known
        /\ shown' = shown /\ loads' \subseteq loads
    BY <1>5 DEF Board!LoadFails, Board!server, Board!board
  <2>2. ScreenInv'
    BY <2>1, ScreenHas DEF ScreenInv, InKitchen
  <2> QED
    BY <2>1, <2>2, ScreenKeeps
<1>6. ASSUME NEW lost \in BOOLEAN, Board!TapAnswer(lost)
      PROVE  BoardInv'
  <2>1. boardStatus' = boardStatus /\ taps' = taps /\ alerts' = alerts /\ known' = known
    BY <1>6 DEF Board!TapAnswer, Board!server
  <2>2. Board!StartLoad("tap", settings) \/ (shown' = shown /\ loads' = loads)
    BY <1>6 DEF Board!TapAnswer
  <2>3. ScreenInv'
    <3>1. CASE Board!StartLoad("tap", settings)
      BY <2>1, <3>1, StartLoadKeeps
    <3>2. CASE shown' = shown /\ loads' = loads
      BY <2>1, <3>2, ScreenHas DEF ScreenInv, InKitchen
    <3> QED
      BY <2>2, <3>1, <3>2
  <2> QED
    BY <2>1, <2>3, ScreenKeeps
<1> QED
  BY <1>1, <1>2, <1>3, <1>4, <1>5, <1>6, LoadAnswerKeeps, TapKeeps, ServeKeeps DEF Board!Next

LEMMA BoardStep == BoardInv /\ [SuiteNext]_suiteVars => BoardInv'
<1> SUFFICES ASSUME BoardInv, [SuiteNext]_suiteVars
             PROVE  BoardInv'
  OBVIOUS
<1>1. CASE Board!Next
  BY <1>1, BoardNextInv
<1>2. CASE UNCHANGED boardVars
  BY <1>2 DEF boardVars, BoardInv, InKitchen
<1> QED
  BY <1>1, <1>2 DEF SuiteNext, suiteVars

LEMMA BoardAlways == SuiteSpec => []BoardInv
<1>1. SuiteInit => BoardInv
  BY BoardInitInv DEF SuiteInit
<1> QED
  BY <1>1, BoardStep, PTL DEF SuiteSpec

\* A button moves its order from the stage that was seen: an order that was seen in the
\* kitchen is in the kitchen or past it.
LEMMA TapMovesAsSeen ==
  ASSUME BoardInv, Board!Next, NEW t \in taps \ taps', t.kind = "status",
         boardStatus'[t.order] # boardStatus[t.order]
  PROVE  boardStatus[t.order] = t.seen
<1>1. PICK u \in taps : Board!Serve(u)
  BY DEF Board!Next, Board!Elsewhere, Board!Age, Board!Configure, Board!Poll, Board!LoadAnswer, Board!SettingsAnswer,
         Board!LoadFails, Board!Tap, Board!TapAnswer, Board!requests
<1>2. t = u
  BY <1>1 DEF Board!Serve
<1>3. /\ t.order \in Order /\ t.seen \in {"submitted", "in_kitchen", "ready"}
      /\ boardStatus[t.order] \in Board!Statuses
      /\ (t.seen \in KitchenCard => InKitchen(t.order))
  BY DEF BoardInv
<1>4. Board!Kitchen!Advance(t.order, Board!NEXT[t.seen])
  BY <1>1, <1>2 DEF Board!Serve
<1>5. Board!NEXT[t.seen] \in Board!Kitchen!TRANSITIONS[boardStatus[t.order]]
  BY <1>4 DEF Board!Kitchen!Advance
<1> QED
  BY <1>3, <1>5 DEF Board!NEXT, Board!Kitchen!TRANSITIONS, Board!Statuses, Board!Kitchen!Statuses, KitchenCard, InKitchen

-----------------------------------------------------------------------------
(* The time on a card.  While the order is not ready, the clock up to the  *)
(* hold that is on, less the holds that have ended in whole seconds, is    *)
(* the time that was worked, up to half a second for each of those.        *)

HoldRecord == [held_at : 0..MaxTime, resumed_at : 0..MaxTime \cup {Clock!Never}]

\* holdSummaryForOrders, of any holds.
SecondsOf(h) == IF h.resumed_at = Clock!Never THEN 0 ELSE Clock!Seconds(h)
TotalOf(hs) == SumFunctionOnSet([i \in DOMAIN hs |-> SecondsOf(hs[i])], DOMAIN hs)
IsActive(hs) == hs # <<>> /\ hs[Len(hs)].resumed_at = Clock!Never
EndedOf(hs) == IF IsActive(hs) THEN Len(hs) - 1 ELSE Len(hs)
BaseOf(hs, t) == IF IsActive(hs) THEN hs[Len(hs)].held_at ELSE t

WithinHalf(w, base, total, ended) ==
  /\ 2 * (base - w) - 2 * (Second * total) <= Second * ended
  /\ 2 * (Second * total) - 2 * (base - w) <= Second * ended

ClockInv ==
  /\ now \in 0..MaxTime
  /\ worked \in Nat
  /\ times.submitted_at = 0
  /\ orderHolds \in Seq(HoldRecord)
  /\ \A i \in DOMAIN orderHolds : orderHolds[i].held_at <= now
  /\ card.held_total_seconds \in Int /\ card.held_at \in 0..MaxTime \cup {Clock!Never}
  /\ orderStatus # "ready" =>
       WithinHalf(worked, BaseOf(orderHolds, now), TotalOf(orderHolds), EndedOf(orderHolds))

LEMMA ClockConstants ==
  /\ Second \in Nat \ {0} /\ MaxTime \in Nat
  /\ Clock!Never = MaxTime + 1 /\ Clock!Never \notin 0..MaxTime
<1>1. Second \in Nat \ {0} /\ MaxTime \in Nat
  BY SuiteAssumption DEF Clock!ClockAssumption
<1> QED
  BY <1>1 DEF Clock!Never

LEMMA QuotientFits ==
  ASSUME NEW a \in Int, NEW b \in Nat \ {0}
  PROVE  a \div b \in Int /\ b * (a \div b) <= a /\ a < b * (a \div b) + b
OBVIOUS

\* A hold in whole seconds is half a second off at most.
LEMMA SecondsRound ==
  ASSUME NEW h, h.held_at \in Int, h.resumed_at \in Int
  PROVE  LET d == h.resumed_at - h.held_at
             n == Clock!Seconds(h)
         IN n \in Int /\ 2 * (Second * n) <= 2 * d + Second /\ 2 * d <= 2 * (Second * n) + Second
<1> DEFINE d == h.resumed_at - h.held_at
           a == 2 * d + Second
           b == 2 * Second
           n == a \div b
<1>1. Second \in Nat \ {0} /\ d \in Int
  BY ClockConstants
<1>2. a \in Int /\ b \in Nat \ {0}
  BY <1>1
<1>3. n \in Int /\ b * n <= a /\ a < b * n + b
  BY <1>2, QuotientFits
<1>4. Second * n \in Int /\ b * n = 2 * (Second * n)
  BY <1>1, <1>3
<1>5. Clock!Seconds(h) = n
  BY DEF Clock!Seconds
<1> HIDE DEF n
<1>6. 2 * (Second * n) <= 2 * d + Second /\ 2 * d <= 2 * (Second * n) + Second
  <2> DEFINE x == Second * n
  <2>1. x \in Int /\ 2 * x <= 2 * d + Second /\ 2 * d + Second < 2 * x + 2 * Second
    BY <1>3, <1>4
  <2> HIDE DEF x, d
  <2>2. 2 * x <= 2 * d + Second /\ 2 * d <= 2 * x + Second
    BY <1>1, <2>1
  <2> QED
    BY <2>2 DEF x
<1> QED
  BY <1>3, <1>5, <1>6

LEMMA HoldTypes ==
  ASSUME NEW hs \in Seq(HoldRecord)
  PROVE  /\ DOMAIN hs = 1..Len(hs) /\ Len(hs) \in Nat /\ IsFiniteSet(DOMAIN hs)
         /\ \A i \in DOMAIN hs : SecondsOf(hs[i]) \in Int /\ hs[i].held_at \in 0..MaxTime
<1>1. DOMAIN hs = 1..Len(hs) /\ Len(hs) \in Nat
  OBVIOUS
<1>2. IsFiniteSet(DOMAIN hs)
  BY <1>1, FS_Interval
<1>3. ASSUME NEW i \in DOMAIN hs
      PROVE SecondsOf(hs[i]) \in Int /\ hs[i].held_at \in 0..MaxTime
  <2>1. hs[i] \in HoldRecord
    BY <1>3
  <2>2. hs[i].held_at \in 0..MaxTime /\ hs[i].resumed_at \in Int
    BY <2>1, ClockConstants DEF HoldRecord
  <2>3. hs[i].held_at \in Int
    BY <2>2, ClockConstants
  <2>4. Clock!Seconds(hs[i]) \in Int
    BY <2>2, <2>3, SecondsRound
  <2> QED
    BY <2>2, <2>4 DEF SecondsOf
<1> QED
  BY <1>1, <1>2, <1>3

LEMMA TotalType ==
  ASSUME NEW hs \in Seq(HoldRecord)
  PROVE  TotalOf(hs) \in Int
<1> DEFINE g == [i \in DOMAIN hs |-> SecondsOf(hs[i])]
<1>1. IsFiniteSet(DOMAIN hs) /\ \A i \in DOMAIN hs : g[i] \in Int
  BY HoldTypes
<1> HIDE DEF g
<1>2. SumFunctionOnSet(g, DOMAIN hs) \in Int
  BY <1>1, SumType
<1> QED
  BY <1>2 DEF TotalOf, g

\* A hold that has just begun counts nothing yet.
LEMMA TotalBegins ==
  ASSUME NEW hs \in Seq(HoldRecord), NEW r \in HoldRecord, r.resumed_at = Clock!Never
  PROVE  TotalOf(Append(hs, r)) = TotalOf(hs)
<1> DEFINE ks == Append(hs, r)
           n == Len(hs) + 1
           f == [i \in DOMAIN hs |-> SecondsOf(hs[i])]
           g == [i \in DOMAIN ks |-> SecondsOf(ks[i])]
           D == DOMAIN ks
           rest == D \ {n}
<1>1. /\ ks \in Seq(HoldRecord) /\ DOMAIN ks = DOMAIN hs \cup {n} /\ n \notin DOMAIN hs
      /\ ks[n] = r /\ \A i \in DOMAIN hs : ks[i] = hs[i]
  OBVIOUS
<1> HIDE DEF ks, n
<1>2. IsFiniteSet(D) /\ IsFiniteSet(DOMAIN hs) /\ \A i \in D : g[i] \in Int
  BY <1>1, HoldTypes
<1>3. n \in D /\ g[n] = 0 /\ rest = DOMAIN hs
  BY <1>1 DEF SecondsOf
<1>4. \A i \in DOMAIN hs : g[i] = f[i]
  BY <1>1
<1>5. TotalOf(hs) = SumFunctionOnSet(f, DOMAIN hs) /\ TotalOf(ks) = SumFunctionOnSet(g, D)
  BY DEF TotalOf
<1>6. TotalOf(hs) \in Int
  BY TotalType
<1> HIDE DEF f, g, D
<1>7. SumFunctionOnSet(g, D) = g[n] + SumFunctionOnSet(g, rest)
  BY <1>2, <1>3, SumTakeOut
<1>8. SumFunctionOnSet(g, rest) = SumFunctionOnSet(g, DOMAIN hs)
  BY <1>3, Zenon
<1>9. SumFunctionOnSet(g, DOMAIN hs) = SumFunctionOnSet(f, DOMAIN hs)
  BY <1>2, <1>4, SumSame
<1> HIDE DEF rest
<1> QED
  BY <1>3, <1>5, <1>6, <1>7, <1>8, <1>9 DEF ks

\* A hold that ends counts from now on.
EndedAt(hs, t) == [hs EXCEPT ![Len(hs)].resumed_at = t]

EndsWell(hs, ks, t) ==
  /\ ks \in Seq(HoldRecord) /\ Len(ks) = Len(hs) /\ ~IsActive(ks)
  /\ DOMAIN ks = DOMAIN hs /\ \A i \in DOMAIN hs : ks[i].held_at = hs[i].held_at
  /\ ks[Len(hs)].held_at = hs[Len(hs)].held_at /\ ks[Len(hs)].resumed_at = t
  /\ TotalOf(ks) = TotalOf(hs) + Clock!Seconds(ks[Len(hs)])

LEMMA TotalEnds ==
  ASSUME NEW hs \in Seq(HoldRecord), IsActive(hs), NEW t \in 0..MaxTime
  PROVE  EndsWell(hs, EndedAt(hs, t), t)
<1> DEFINE ks == EndedAt(hs, t)
           n == Len(hs)
           D == DOMAIN hs
           f == [i \in DOMAIN hs |-> SecondsOf(hs[i])]
           g == [i \in DOMAIN ks |-> SecondsOf(ks[i])]
           rest == D \ {n}
           new == [hs[n] EXCEPT !.resumed_at = t]
<1>1. n \in D /\ n \in Nat /\ hs[n] \in HoldRecord /\ hs[n].resumed_at = Clock!Never /\ hs # <<>>
  BY DEF IsActive
<1>2. new \in HoldRecord /\ new.held_at = hs[n].held_at /\ new.resumed_at = t
  BY <1>1 DEF HoldRecord
<1>3. ks = [hs EXCEPT ![n] = new]
  BY DEF EndedAt
<1> HIDE DEF new, ks
<1>4. /\ ks \in Seq(HoldRecord) /\ Len(ks) = n /\ DOMAIN ks = D /\ ks[n] = new
      /\ \A i \in D : i # n => ks[i] = hs[i]
  BY <1>1, <1>2, <1>3
<1>5. t # Clock!Never
  BY ClockConstants
<1>6. ~IsActive(ks)
  BY <1>2, <1>4, <1>5 DEF IsActive
<1>7. IsFiniteSet(D) /\ IsFiniteSet(rest) /\ \A i \in D : f[i] \in Int /\ g[i] \in Int
  BY <1>4, HoldTypes, FS_Subset
<1>8. f[n] = 0 /\ g[n] = Clock!Seconds(new)
  BY <1>1, <1>2, <1>4, <1>5 DEF SecondsOf
<1>9. \A i \in rest : g[i] = f[i]
  BY <1>4
<1>10. TotalOf(hs) = SumFunctionOnSet(f, D) /\ TotalOf(ks) = SumFunctionOnSet(g, D)
  BY <1>4 DEF TotalOf
<1>11. TotalOf(hs) \in Int /\ g[n] \in Int
  BY <1>1, <1>7, TotalType
<1> HIDE DEF f, g, D, n, rest
<1>12. SumFunctionOnSet(g, D) = g[n] + SumFunctionOnSet(g, rest) /\ SumFunctionOnSet(f, D) = f[n] + SumFunctionOnSet(f, rest)
  BY <1>1, <1>7, SumTakeOut DEF rest
<1>13. SumFunctionOnSet(g, rest) = SumFunctionOnSet(f, rest) /\ SumFunctionOnSet(f, rest) \in Int
  <2>1. \A i \in rest : f[i] \in Int
    BY <1>7 DEF rest
  <2> QED
    BY <1>7, <1>9, <2>1, SumSame, SumType
<1>14. TotalOf(ks) = TotalOf(hs) + Clock!Seconds(new)
  BY <1>8, <1>10, <1>11, <1>12, <1>13
<1> QED
  BY <1>2, <1>4, <1>6, <1>14 DEF n, D, EndsWell, ks

\* The sum that the model takes is this one.
LEMMA SummaryIs ==
  /\ Clock!Summary.held_total_seconds = TotalOf(orderHolds)
  /\ Clock!Summary.held_at = IF IsActive(orderHolds) THEN orderHolds[Len(orderHolds)].held_at ELSE Clock!Never
  /\ Clock!Active <=> IsActive(orderHolds)
<1>1. \A g, S : Clock!SumFunctionOnSet(g, S) = SumFunctionOnSet(g, S)
  BY DEF SumFunctionOnSet, FoldFunctionOnSet, MapThenFoldSet, Clock!SumFunctionOnSet,
     Clock!FoldFunctionOnSet, Clock!MapThenFoldSet
<1>2. Clock!Active <=> IsActive(orderHolds)
  BY DEF Clock!Active, IsActive
<1>3. Clock!Summary.held_total_seconds = TotalOf(orderHolds)
  BY <1>1 DEF Clock!Summary, TotalOf, SecondsOf
<1> QED
  BY <1>2, <1>3 DEF Clock!Summary

LEMMA SummaryType ==
  ASSUME NEW hs \in Seq(HoldRecord)
  PROVE  (IF IsActive(hs) THEN hs[Len(hs)].held_at ELSE Clock!Never) \in 0..MaxTime \cup {Clock!Never}
<1>1. IsActive(hs) => Len(hs) \in DOMAIN hs
  BY DEF IsActive
<1> QED
  BY <1>1, HoldTypes

LEMMA ClockInitInv == Clock!Init => ClockInv
<1> SUFFICES ASSUME Clock!Init PROVE ClockInv
  OBVIOUS
<1>1. now = 0 /\ worked = 0 /\ times.submitted_at = 0 /\ orderHolds = <<>> /\ card = Clock!Summary
  BY DEF Clock!Init
<1>2. orderHolds \in Seq(HoldRecord) /\ ~IsActive(orderHolds) /\ DOMAIN orderHolds = {} /\ Len(orderHolds) = 0
  BY <1>1 DEF IsActive
<1>3. TotalOf(orderHolds) = 0
  BY <1>2, SumOfNone DEF TotalOf
<1>4. card.held_total_seconds = 0 /\ card.held_at = Clock!Never
  BY <1>1, <1>2, <1>3, SummaryIs
<1>5. WithinHalf(worked, BaseOf(orderHolds, now), TotalOf(orderHolds), EndedOf(orderHolds))
  BY <1>1, <1>2, <1>3, ClockConstants DEF WithinHalf, BaseOf, EndedOf
<1>6. now \in 0..MaxTime /\ worked \in Nat
  BY <1>1, ClockConstants
<1> QED
  BY <1>1, <1>2, <1>4, <1>5, <1>6 DEF ClockInv

LEMMA TickKeeps ==
  ASSUME ClockInv, Clock!Tick
  PROVE  ClockInv'
<1> DEFINE total == TotalOf(orderHolds)
           ended == EndedOf(orderHolds)
           base == BaseOf(orderHolds, now)
<1>1. /\ now \in 0..MaxTime /\ now < MaxTime /\ now' = now + 1 /\ worked \in Nat
      /\ worked' = IF IsActive(orderHolds) \/ orderStatus = "ready" THEN worked ELSE worked + 1
      /\ orderStatus' = orderStatus /\ orderHolds' = orderHolds /\ times' = times /\ card' = card
      /\ orderHolds \in Seq(HoldRecord)
  BY SummaryIs DEF ClockInv, Clock!Tick
<1>2. now' \in 0..MaxTime /\ worked' \in Nat /\ \A i \in DOMAIN orderHolds : orderHolds[i].held_at <= now'
  BY <1>1, HoldTypes, ClockConstants DEF ClockInv
<1>3. ASSUME orderStatus # "ready"
      PROVE  WithinHalf(worked', BaseOf(orderHolds, now'), total, ended)
  <2>1. WithinHalf(worked, base, total, ended)
    BY <1>3 DEF ClockInv
  <2>2. CASE IsActive(orderHolds)
    <3>1. BaseOf(orderHolds, now') = base /\ worked' = worked
      BY <1>1, <2>2 DEF BaseOf
    <3> QED
      BY <2>1, <3>1
  <2>3. CASE ~IsActive(orderHolds)
    <3>1. BaseOf(orderHolds, now') = now + 1 /\ base = now /\ worked' = worked + 1
      BY <1>1, <1>3, <2>3 DEF BaseOf
    <3>2. (now + 1) - (worked + 1) = now - worked
      BY <1>1
    <3> HIDE DEF total, ended
    <3> QED
      BY <2>1, <3>1, <3>2 DEF WithinHalf
  <2> QED
    BY <2>2, <2>3
<1> QED
  BY <1>1, <1>2, <1>3 DEF ClockInv

LEMMA ClockHoldKeeps ==
  ASSUME ClockInv, Clock!Hold
  PROVE  ClockInv'
<1> DEFINE r == [held_at |-> now, resumed_at |-> Clock!Never]
           hs == orderHolds
           ks == Append(hs, r)
<1>1. /\ hs \in Seq(HoldRecord) /\ ~IsActive(hs) /\ orderHolds' = ks /\ now \in 0..MaxTime
      /\ now' = now /\ worked' = worked /\ orderStatus' = orderStatus /\ times' = times /\ card' = card
      /\ \A i \in DOMAIN hs : hs[i].held_at <= now
  BY SummaryIs DEF ClockInv, Clock!Hold
<1>2. r \in HoldRecord /\ r.resumed_at = Clock!Never /\ r.held_at = now
  BY <1>1 DEF HoldRecord
<1> HIDE DEF r
<1>3. /\ ks \in Seq(HoldRecord) /\ Len(ks) = Len(hs) + 1 /\ Len(hs) \in Nat /\ ks[Len(ks)] = r /\ ks # <<>>
      /\ \A i \in DOMAIN ks : ks[i] = r \/ (i \in DOMAIN hs /\ ks[i] = hs[i])
  BY <1>1, <1>2
<1>4. TotalOf(ks) = TotalOf(hs)
  BY <1>1, <1>2, TotalBegins
<1> HIDE DEF ks, hs
<1>5. IsActive(ks) /\ BaseOf(ks, now) = BaseOf(hs, now) /\ EndedOf(ks) = EndedOf(hs)
  BY <1>1, <1>2, <1>3 DEF IsActive, BaseOf, EndedOf
<1>6. \A i \in DOMAIN ks : ks[i].held_at <= now
  BY <1>1, <1>2, <1>3, ClockConstants
<1> QED
  BY <1>1, <1>3, <1>4, <1>5, <1>6 DEF ClockInv, hs

LEMMA ClockResumeKeeps ==
  ASSUME ClockInv, Clock!Resume
  PROVE  ClockInv'
<1> DEFINE hs == orderHolds
           n == Len(hs)
           ks == [hs EXCEPT ![n].resumed_at = now]
           x == Clock!Seconds(ks[n])
<1>1. /\ hs \in Seq(HoldRecord) /\ IsActive(hs) /\ orderHolds' = ks /\ now \in 0..MaxTime /\ worked \in Nat
      /\ now' = now /\ worked' = worked /\ orderStatus' = orderStatus /\ times' = times /\ card' = card
      /\ \A i \in DOMAIN hs : hs[i].held_at <= now
  BY SummaryIs DEF ClockInv, Clock!Resume
<1>2. n \in DOMAIN hs /\ n \in Nat /\ n > 0 /\ hs[n].held_at \in 0..MaxTime
  <2>1. n \in DOMAIN hs
    BY <1>1 DEF IsActive
  <2> QED
    BY <1>1, <2>1, HoldTypes
<1>3. /\ ks \in Seq(HoldRecord) /\ Len(ks) = n /\ ~IsActive(ks)
      /\ DOMAIN ks = DOMAIN hs /\ \A i \in DOMAIN hs : ks[i].held_at = hs[i].held_at
      /\ ks[n].held_at = hs[n].held_at /\ ks[n].resumed_at = now
      /\ TotalOf(ks) = TotalOf(hs) + x
  <2>1. EndsWell(hs, EndedAt(hs, now), now)
    BY <1>1, TotalEnds
  <2> QED
    BY <2>1 DEF EndedAt, EndsWell
<1> HIDE DEF ks, x
<1>4. /\ x \in Int
      /\ 2 * (Second * x) <= 2 * (now - hs[n].held_at) + Second
      /\ 2 * (now - hs[n].held_at) <= 2 * (Second * x) + Second
  <2>1. ks[n].held_at \in Int /\ ks[n].resumed_at \in Int
    BY <1>1, <1>2, <1>3, ClockConstants
  <2> QED
    BY <1>3, <2>1, SecondsRound DEF x
<1>5. ASSUME orderStatus # "ready"
      PROVE  WithinHalf(worked, BaseOf(ks, now), TotalOf(ks), EndedOf(ks))
  <2> DEFINE total == TotalOf(hs)
             start == hs[n].held_at
             p == Second * total
             y == Second * x
             e == Second * (n - 1)
  <2>1. WithinHalf(worked, BaseOf(hs, now), total, EndedOf(hs))
    BY <1>5 DEF ClockInv
  <2>2. BaseOf(hs, now) = start /\ EndedOf(hs) = n - 1 /\ BaseOf(ks, now) = now /\ EndedOf(ks) = n
    BY <1>1, <1>3 DEF BaseOf, EndedOf
  <2>3. total \in Int /\ Second \in Nat /\ start \in Int /\ now \in Int
    BY <1>1, <1>2, TotalType, ClockConstants
  <2> HIDE DEF total, start, hs, n
  <2>4. p \in Int /\ y \in Int /\ e \in Int
    BY <1>2, <1>4, <2>3
  <2>5. Second * (total + x) = p + y /\ Second * n = e + Second
    BY <1>2, <1>4, <2>3
  <2>6. 2 * (start - worked) - 2 * p <= e /\ 2 * p - 2 * (start - worked) <= e
    BY <2>1, <2>2 DEF WithinHalf
  <2>7. 2 * y <= 2 * (now - start) + Second /\ 2 * (now - start) <= 2 * y + Second
    BY <1>4 DEF start
  <2> HIDE DEF p, y, e
  <2>8. 2 * (now - worked) - 2 * (p + y) <= e + Second /\ 2 * (p + y) - 2 * (now - worked) <= e + Second
    BY <1>1, <2>3, <2>4, <2>6, <2>7
  <2>9. WithinHalf(worked, now, total + x, n)
    BY <2>5, <2>8 DEF WithinHalf
  <2> QED
    BY <1>3, <2>2, <2>9 DEF total
<1>6. \A i \in DOMAIN ks : ks[i].held_at <= now
  BY <1>1, <1>3
<1> QED
  BY <1>1, <1>3, <1>5, <1>6 DEF ClockInv

LEMMA ClockOthersKeep ==
  ASSUME ClockInv, Clock!Start \/ Clock!MakeReady \/ Clock!Load
  PROVE  ClockInv'
<1>1. now' = now /\ worked' = worked /\ orderHolds' = orderHolds
  BY DEF Clock!Start, Clock!MakeReady, Clock!Load
<1>2. times'.submitted_at = 0
  <2>1. CASE Clock!MakeReady
    BY <2>1 DEF ClockInv, Clock!MakeReady
  <2> QED
    BY <2>1 DEF ClockInv, Clock!Start, Clock!Load
<1>3. card'.held_total_seconds \in Int /\ card'.held_at \in 0..MaxTime \cup {Clock!Never}
  <2>1. CASE card' = card
    BY <2>1 DEF ClockInv
  <2>2. CASE card' = Clock!Summary
    <3>1. orderHolds \in Seq(HoldRecord)
      BY DEF ClockInv
    <3>2. TotalOf(orderHolds) \in Int
      BY <3>1, TotalType
    <3>3. Clock!Summary.held_at \in 0..MaxTime \cup {Clock!Never}
      BY <3>1, SummaryType, SummaryIs
    <3> QED
      BY <2>2, <3>2, <3>3, SummaryIs
  <2> QED
    BY <2>1, <2>2 DEF Clock!Start, Clock!MakeReady, Clock!Load
<1>4. orderStatus' # "ready" => orderStatus # "ready"
  BY DEF Clock!Start, Clock!MakeReady, Clock!Load
<1> QED
  BY <1>1, <1>2, <1>3, <1>4 DEF ClockInv

LEMMA ClockStep == ClockInv /\ [SuiteNext]_suiteVars => ClockInv'
<1> SUFFICES ASSUME ClockInv, [SuiteNext]_suiteVars
             PROVE  ClockInv'
  OBVIOUS
<1>1. CASE Clock!Next
  BY <1>1, TickKeeps, ClockHoldKeeps, ClockResumeKeeps, ClockOthersKeep DEF Clock!Next
<1>2. CASE UNCHANGED clockVars
  BY <1>2 DEF clockVars, ClockInv
<1> QED
  BY <1>1, <1>2 DEF SuiteNext, suiteVars

LEMMA ClockAlways == SuiteSpec => []ClockInv
<1>1. SuiteInit => ClockInv
  BY ClockInitInv DEF SuiteInit
<1> QED
  BY <1>1, ClockStep, PTL DEF SuiteSpec

\* A card that was just loaded is half a second off for each hold, at most.
LEMMA ClockInvExcludes == ClockInv => Clock!HoldsExcluded
<1> SUFFICES ASSUME ClockInv, orderStatus # "ready", card = Clock!Summary
             PROVE  /\ 2 * Clock!Elapsed(card) <= 2 * worked + Second * Len(orderHolds)
                    /\ 2 * worked <= 2 * Clock!Elapsed(card) + Second * Len(orderHolds)
  BY DEF Clock!HoldsExcluded
<1> DEFINE total == TotalOf(orderHolds)
           base == BaseOf(orderHolds, now)
           ended == EndedOf(orderHolds)
           n == Len(orderHolds)
           p == Second * total
           e == Second * ended
           all == Second * n
           shows == Clock!Elapsed(card)
<1>1. /\ now \in 0..MaxTime /\ worked \in Nat /\ times.submitted_at = 0 /\ orderHolds \in Seq(HoldRecord)
      /\ WithinHalf(worked, base, total, ended)
  BY DEF ClockInv
<1>2. /\ total \in Int /\ n \in Nat /\ Second \in Nat /\ now \in Int
      /\ base \in Int /\ ended \in Int /\ ended <= n /\ (ended = n \/ ended = n - 1)
  <2>1. IsActive(orderHolds) => orderHolds[n].held_at \in 0..MaxTime
    <3>1. IsActive(orderHolds) => n \in DOMAIN orderHolds
      BY <1>1 DEF IsActive
    <3> QED
      BY <1>1, <3>1, HoldTypes
  <2> QED
    BY <1>1, <2>1, TotalType, ClockConstants DEF BaseOf, EndedOf
<1>3. card.held_total_seconds = total
  BY SummaryIs
<1>4. Clock!Held(card) = p + (now - base)
  <2>1. CASE IsActive(orderHolds)
    <3>1. card.held_at = base /\ base \in 0..MaxTime
      <4>1. n \in DOMAIN orderHolds
        BY <1>1, <2>1 DEF IsActive
      <4> QED
        BY <1>1, <2>1, <4>1, SummaryIs, HoldTypes DEF BaseOf
    <3>2. card.held_at # Clock!Never
      BY <3>1, ClockConstants
    <3> HIDE DEF total, base
    <3> QED
      BY <1>2, <1>3, <3>1, <3>2 DEF Clock!Held
  <2>2. CASE ~IsActive(orderHolds)
    <3>1. card.held_at = Clock!Never /\ base = now
      BY <2>2, SummaryIs DEF BaseOf
    <3> HIDE DEF total, base
    <3> QED
      BY <1>2, <1>3, <3>1 DEF Clock!Held
  <2> QED
    BY <2>1, <2>2
<1>5. p \in Int /\ e \in Int /\ all \in Int /\ e <= all
  <2> HIDE DEF total, ended, n
  <2>1. p \in Int /\ e \in Int /\ all \in Int
    BY <1>2
  <2>2. ended = n - 1 => all = e + Second
    BY <1>2
  <2> QED
    BY <1>2, <2>1, <2>2
<1>6. 2 * (base - worked) - 2 * p <= e /\ 2 * p - 2 * (base - worked) <= e
  BY <1>1 DEF WithinHalf
<1> HIDE DEF total, base, ended, p, e, n, all
<1>7. shows = IF p + (now - base) > now THEN 0 ELSE now - (p + (now - base))
  BY <1>1, <1>2, <1>4 DEF Clock!Elapsed
<1> HIDE DEF shows
<1>8. 2 * shows <= 2 * worked + all /\ 2 * worked <= 2 * shows + all
  <2>1. CASE p > base
    <3>1. shows = 0
      BY <1>2, <1>5, <1>7, <2>1
    <3> QED
      BY <1>1, <1>2, <1>5, <1>6, <2>1, <3>1
  <2>2. CASE ~(p > base)
    <3>1. shows = base - p
      BY <1>2, <1>5, <1>7, <2>2
    <3> QED
      BY <1>1, <1>2, <1>5, <1>6, <3>1
  <2> QED
    BY <2>1, <2>2
<1> QED
  BY <1>8 DEF shows, all, n

\* While the card is on hold, the clock and the time on hold advance together.
LEMMA CardStandsStill ==
  ASSUME ClockInv, Clock!Next, card' = card, card.held_at # Clock!Never
  PROVE  Clock!Elapsed(card)' = Clock!Elapsed(card)
<1> DEFINE p == card.held_total_seconds * Second
<1>1. /\ p \in Int /\ card.held_at \in Int /\ now \in Int
      /\ times.submitted_at = 0
  BY ClockConstants DEF ClockInv
<1>2. times'.submitted_at = 0
  <2>1. ClockInv'
    BY TickKeeps, ClockHoldKeeps, ClockResumeKeeps, ClockOthersKeep DEF Clock!Next
  <2> QED
    BY <2>1 DEF ClockInv
<1>3. now' = now \/ now' = now + 1
  BY DEF Clock!Next, Clock!Tick, Clock!Start, Clock!Hold, Clock!Resume, Clock!MakeReady, Clock!Load
<1>4. /\ Clock!Held(card) = p + (now - card.held_at)
      /\ Clock!Held(card)' = p + (now' - card.held_at)
  BY DEF Clock!Held
<1>5. /\ Clock!Elapsed(card) = IF Clock!Held(card) > now - 0 THEN 0 ELSE (now - 0) - Clock!Held(card)
      /\ Clock!Elapsed(card)' = IF Clock!Held(card)' > now' - 0 THEN 0 ELSE (now' - 0) - Clock!Held(card)'
  BY <1>1, <1>2 DEF Clock!Elapsed
<1> HIDE DEF p
<1> QED
  BY <1>1, <1>3, <1>4, <1>5

-----------------------------------------------------------------------------

\* For any orders, loads and buttons, no order is announced twice, and a card that was just
\* loaded shows the time in the kitchen without the holds, however many (Kitchen.tsx).
THEOREM ScreenAlwaysStands == SuiteSpec => []ScreenStands
<1>1. BoardInv => Board!SoundsOnce
  BY DEF BoardInv, Board!SoundsOnce
<1>2. BoardInv /\ ClockInv => ScreenStands
  BY <1>1, ClockInvExcludes DEF ScreenStands
<1> QED
  BY <1>2, BoardAlways, ClockAlways, PTL

\* A button moves an order from the stage on its card only, and the time on a card that is
\* on hold stands still (Kitchen.tsx).
THEOREM CardsAlwaysHold == SuiteSpec => CardsHold
<1> DEFINE Moves == \A t \in taps \ taps' :
                      t.kind = "status" /\ boardStatus'[t.order] # boardStatus[t.order]
                        => boardStatus[t.order] = t.seen
           Frozen == card' = card /\ card.held_at # Clock!Never
                       => Clock!Elapsed(card)' = Clock!Elapsed(card)
<1>1. BoardInv /\ [SuiteNext]_suiteVars => [Moves]_(Board!vars)
  <2> SUFFICES ASSUME BoardInv, [SuiteNext]_suiteVars
               PROVE  [Moves]_(Board!vars)
    OBVIOUS
  <2>1. CASE Board!Next
    BY <2>1, TapMovesAsSeen
  <2>2. CASE UNCHANGED boardVars
    BY <2>2 DEF boardVars, Board!vars, Board!server, Board!board, Board!requests
  <2> QED
    BY <2>1, <2>2 DEF SuiteNext, suiteVars
<1>2. ClockInv /\ [SuiteNext]_suiteVars => [Frozen]_(Clock!vars)
  <2> SUFFICES ASSUME ClockInv, [SuiteNext]_suiteVars
               PROVE  [Frozen]_(Clock!vars)
    OBVIOUS
  <2>1. CASE Clock!Next
    BY <2>1, CardStandsStill
  <2>2. CASE UNCHANGED clockVars
    BY <2>2 DEF clockVars, Clock!vars
  <2> QED
    BY <2>1, <2>2 DEF SuiteNext, suiteVars
<1>3. SuiteSpec => [][Moves]_(Board!vars)
  <2> HIDE DEF Moves
  <2> QED
    BY <1>1, BoardAlways, PTL DEF SuiteSpec
<1>4. SuiteSpec => [][Frozen]_(Clock!vars)
  <2> HIDE DEF Frozen
  <2> QED
    BY <1>2, ClockAlways, PTL DEF SuiteSpec
<1> QED
  BY <1>3, <1>4 DEF CardsHold, Board!MovesAsShown, Clock!FrozenOnHold
=============================================================================
