-------------------------- MODULE FinancialOutbox --------------------------
(***************************************************************************)
(* The financial events of an account on their way to the journal:         *)
(*                                                                         *)
(*   enqueueFinancialEvent      Enqueue, in the payment's or movement's    *)
(*                              own transaction                            *)
(*   POST /accounting/events/process                                       *)
(*                              Claim, then for each claimed event Post,   *)
(*                              or GiveUpOn and WriteFailure               *)
(*   POST /financial-events/:id/retry, .../mark-dead                       *)
(*                              Decide, then WriteDecision                 *)
(*                                                                         *)
(* Each action is a transaction or an autocommitted statement.  The two    *)
(* updates by id that do not repeat the condition they were decided on,    *)
(* WriteFailure and WriteDecision, are steps of their own.  Nothing but    *)
(* the process request claims or posts, each under a worker id of its own, *)
(* and a claim that its request does not bring to an end stays: no code    *)
(* of the running system calls recoverStaleFinancialEvents.                *)
(***************************************************************************)
EXTENDS Integers, FiniteSets

CONSTANTS
  Event,       \* events, numbered in the order of created_at
  Payment,     \* payment.captured: journal
  Refund,      \* refund.posted: journal, once the original payment has one
  Adjustment,  \* a movement with a sub-cent part: journal and residual
  SubCent,     \* a movement worth less than a cent: residual only
  Zero,        \* a movement worth nothing: no evidence
  Original(_), \* the payment that a refund refunds
  Worker,      \* process requests
  NoWorker,
  Admin,       \* retry and mark-dead requests
  Limit,       \* events one process request claims
  MaxAttempts, \* claims after which a failing event is dead
  MaxClaims    \* bound: claims of one event

ASSUME OutboxAssumption ==
  /\ Event \subseteq Nat /\ IsFiniteSet(Event)
  /\ Event = Payment \cup Refund \cup Adjustment \cup SubCent \cup Zero
  /\ \A e \in Payment \cup Refund \cup Adjustment : e \notin SubCent \cup Zero
  /\ SubCent \cap Zero = {}
  /\ \A e \in Refund : Original(e) \in Payment
  /\ NoWorker \notin Worker
  /\ Limit \in Nat /\ MaxAttempts \in Nat /\ MaxClaims \in Nat

\* A value of Original for a run with one payment.
OnlyPayment(e) == CHOOSE p \in Payment : TRUE

VARIABLES
  status,    \* status[e]: financial_events.status, "none" before the event exists
  attempts,  \* attempts[e]: how often e was claimed
  claimed,   \* claimed[e]: claimed_by
  journal,   \* events with a journal entry
  residual,  \* events with a reconciliation row
  todo,      \* todo[w]: claimed events the request has not dealt with
  failing,   \* failing[w]: the failure w is about to write, at most one
  decision   \* decision[a]: the update a is about to write, at most one

event == <<status, attempts, claimed>>
evidence == <<journal, residual>>
vars == <<status, attempts, claimed, journal, residual, todo, failing, decision>>

EventStatus == {"pending", "processing", "posted", "failed", "dead",
                "deferred_rounding", "non_posting"}

Journaled == Payment \cup Refund \cup Adjustment
Deferred == Adjustment \cup SubCent

TypeOK ==
  /\ status \in [Event -> EventStatus \cup {"none"}]
  /\ attempts \in [Event -> 0..MaxClaims]
  /\ claimed \in [Event -> Worker \cup {NoWorker}]
  /\ journal \subseteq Journaled
  /\ residual \subseteq Deferred
  /\ todo \in [Worker -> SUBSET Event]
  /\ failing \in [Worker -> SUBSET (Event \X {"failed", "dead"})]
  /\ decision \in [Admin -> SUBSET (Event \X {"pending", "dead"})]

Init ==
  /\ status = [e \in Event |-> "none"]
  /\ attempts = [e \in Event |-> 0]
  /\ claimed = [e \in Event |-> NoWorker]
  /\ journal = {}
  /\ residual = {}
  /\ todo = [w \in Worker |-> {}]
  /\ failing = [w \in Worker |-> {}]
  /\ decision = [a \in Admin |-> {}]

-----------------------------------------------------------------------------

\* Events are enqueued in the order of their numbers.
Enqueue(e) ==
  /\ status[e] = "none"
  /\ \A d \in Event : d < e => status[d] # "none"
  /\ status' = [status EXCEPT ![e] = "pending"]
  /\ UNCHANGED <<attempts, claimed, evidence, todo, failing, decision>>

Claimable == {e \in Event : status[e] \in {"pending", "failed"}}

\* The oldest claimable events, as many as the limit allows.
Batch == {e \in Claimable : Cardinality({d \in Claimable : d < e}) < Limit}

\* FOR UPDATE SKIP LOCKED and the update to processing, in one transaction.
Claim(w) ==
  /\ todo[w] = {}
  /\ failing[w] = {}
  /\ Batch # {}
  /\ \A e \in Batch : attempts[e] < MaxClaims
  /\ status' = [e \in Event |-> IF e \in Batch THEN "processing" ELSE status[e]]
  /\ attempts' = [e \in Event |-> IF e \in Batch THEN attempts[e] + 1 ELSE attempts[e]]
  /\ claimed' = [e \in Event |-> IF e \in Batch THEN w ELSE claimed[e]]
  /\ todo' = [todo EXCEPT ![w] = Batch]
  /\ UNCHANGED <<evidence, failing, decision>>

Owns(w, e) == status[e] = "processing" /\ claimed[e] = w

\* Bug: a refund is drafted without looking for the payment's journal.
DraftableInAnyOrder(e) == e \notin residual

\* buildDraft and the inserts succeed: a refund finds the original's journal, and
\* the reconciliation row does not exist.
Draftable(e) ==
  /\ e \notin residual
  /\ e \in Refund => Original(e) \in journal

\* Bug: whatever was recorded for it, the event is called posted.
StatusWhenPostedAlways(e) == "posted"

StatusWhenPosted(e) ==
  CASE e \in Journaled -> "posted"
    [] e \in SubCent   -> "deferred_rounding"
    [] e \in Zero      -> "non_posting"

\* postClaimedFinancialEvent.  An event that has a journal already is only marked.
Post(w, e) ==
  /\ e \in todo[w]
  /\ failing[w] = {}
  /\ Owns(w, e)
  /\ \/ /\ e \in journal
        /\ UNCHANGED evidence
     \/ /\ e \notin journal
        /\ Draftable(e)
        /\ journal' = IF e \in Journaled THEN journal \cup {e} ELSE journal
        /\ residual' = IF e \in Deferred THEN residual \cup {e} ELSE residual
  /\ status' = [status EXCEPT ![e] = StatusWhenPosted(e)]
  /\ claimed' = [claimed EXCEPT ![e] = NoWorker]
  /\ todo' = [todo EXCEPT ![w] = @ \ {e}]
  /\ UNCHANGED <<attempts, failing, decision>>

\* Posting threw, for whatever reason (no mapping, a locked period, no original,
\* a duplicate), and was rolled back.  failFinancialEvent reads the event.
GiveUpOn(w, e) ==
  /\ e \in todo[w]
  /\ failing[w] = {}
  /\ Owns(w, e)
  /\ failing' = [failing EXCEPT ![w] =
                   {<<e, IF attempts[e] >= MaxAttempts THEN "dead" ELSE "failed">>}]
  /\ UNCHANGED <<event, evidence, todo, decision>>

\* Bug: the request waits for the event to come back.
AbortNever(w) == FALSE

\* The event was taken away: the conflict ends the whole request, with whatever
\* else it had claimed.
AbortRequest(w) ==
  /\ failing[w] = {}
  /\ \E e \in todo[w] : ~Owns(w, e)
  /\ todo' = [todo EXCEPT ![w] = {}]
  /\ UNCHANGED <<event, evidence, failing, decision>>

\* ... and then writes by id, whatever became of the event.
WriteFailure(w) ==
  \E f \in failing[w] :
    /\ status' = [status EXCEPT ![f[1]] = f[2]]
    /\ claimed' = [claimed EXCEPT ![f[1]] = NoWorker]
    /\ failing' = [failing EXCEPT ![w] = {}]
    /\ todo' = [todo EXCEPT ![w] = @ \ {f[1]}]
    /\ UNCHANGED <<attempts, evidence, decision>>

\* The process stops in the middle of a process request.
Crash(w) ==
  /\ todo[w] # {}
  /\ todo' = [todo EXCEPT ![w] = {}]
  /\ failing' = [failing EXCEPT ![w] = {}]
  /\ UNCHANGED <<event, evidence, decision>>

\* retry and mark-dead read the event and check its status ...
Decide(a, e, to) ==
  /\ decision[a] = {}
  /\ status[e] \in IF to = "pending" THEN {"failed", "dead"} ELSE {"pending", "failed"}
  /\ decision' = [decision EXCEPT ![a] = {<<e, to>>}]
  /\ UNCHANGED <<event, evidence, todo, failing>>

\* ... and then write by id.
WriteDecision(a) ==
  \E d \in decision[a] :
    /\ status' = [status EXCEPT ![d[1]] = d[2]]
    /\ claimed' = [claimed EXCEPT ![d[1]] = NoWorker]
    /\ decision' = [decision EXCEPT ![a] = {}]
    /\ UNCHANGED <<attempts, evidence, todo, failing>>

\* A process request goes on with one of its events.
Proceed(w) ==
  \/ \E e \in todo[w] : Post(w, e) \/ GiveUpOn(w, e)
  \/ AbortRequest(w)
  \/ WriteFailure(w)

Next ==
  \/ \E e \in Event : Enqueue(e)
  \/ \E w \in Worker : Claim(w) \/ Proceed(w) \/ Crash(w)
  \/ \E a \in Admin :
       \/ \E e \in Event, to \in {"pending", "dead"} : Decide(a, e, to)
       \/ WriteDecision(a)

\* A request that runs goes on, and process requests keep coming.
Spec ==
  /\ Init /\ [][Next]_vars
  /\ \A w \in Worker : WF_vars(Proceed(w)) /\ WF_vars(Claim(w))

-----------------------------------------------------------------------------
(* Properties.                                                             *)

\* An event that is settled for the reader of the list has the evidence for it,
\* although stale failures and decisions may have been written to it before.
SettledHasEvidence ==
  \A e \in Event :
    /\ status[e] = "posted" => e \in journal
    /\ status[e] = "deferred_rounding" => e \in residual
    /\ status[e] = "non_posting" => e \in Zero

\* Evidence appears the way Ledger allows, in spite of claims that are taken
\* away, repeated posts and requests that stop: once, whole, and for a refund
\* after its payment.
Promise == INSTANCE Ledger

ImplementsLedger == Promise!Spec

\* A process request ends, whatever happens to the events it claimed.
ProcessRequestEnds ==
  \A w \in Worker : (todo[w] # {}) ~> (todo[w] = {})

\* Stated by INVENTORY_ACCOUNTING_EXECUTION_STATUS.md ("stale claims are
\* recoverable"): an event does not stay claimed for ever.
ClaimsEnd ==
  \A e \in Event : (status[e] = "processing") ~> (status[e] # "processing")
=============================================================================
