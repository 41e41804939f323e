----------------------------- MODULE PrintQueue -----------------------------
(***************************************************************************)
(* Print jobs and the bridge that prints them on a device's printers:      *)
(*                                                                         *)
(*   POST /print-jobs, and jobs of orders,                                 *)
(*     payments and shift reports            Create                        *)
(*   GET  /bridge/print-jobs                 Claim                         *)
(*   POST /bridge/print-jobs/:id/result      ReadJob, WriteResult          *)
(*   POST /print-jobs/requeue-stuck          Sweep                         *)
(*                                                                         *)
(* The bridge is not in the repository; by its contract it polls, prints   *)
(* what a poll answers and reports each job (PrintJob).  It may stop, and  *)
(* answers and reports may be lost, late or delivered twice.  A report     *)
(* names the job and not the attempt; the handler reads the job and then   *)
(* writes it if it is printing, which may be another attempt by then.      *)
(***************************************************************************)
EXTENDS Integers, Sequences, FiniteSets

CONSTANTS
  Job,
  Device,
  NoDevice,    \* endpoints that no device hosts have device_id null
  Batch,       \* jobs a poll claims: 20
  MaxAttempts  \* maxPrintAttempts

PrintQueueAssumption ==
  /\ NoDevice \notin Device
  /\ Batch \in Nat \ {0}
  /\ MaxAttempts \in Nat \ {0}

VARIABLES
  created,   \* jobs in created_at order
  device,    \* device[j]: device_id, copied from the endpoint
  status,    \* status[j], "none" before it is created
  attempts,
  work,      \* claims the bridge holds: records of job and attempt
  copies,    \* copies[j]: times the job came out of the printer
  sent,      \* reports that may still arrive: records of job and ok
  handling   \* reports between read and write: job, ok and the attempts read

queue == <<created, device, status, attempts>>
vars == <<queue, work, copies, sent, handling>>

Report == [job : Job, ok : BOOLEAN]

TypeOK ==
  /\ created \in Seq(Job)
  /\ device \in [Job -> Device \cup {NoDevice}]
  /\ status \in [Job -> {"none", "pending", "printing", "printed", "dead"}]
  /\ attempts \in [Job -> 0..MaxAttempts]
  /\ work \subseteq [job : Job, attempt : 1..MaxAttempts]
  /\ copies \in [Job -> Nat]
  /\ sent \subseteq Report
  /\ handling \subseteq [job : Job, ok : BOOLEAN, attempts : 1..MaxAttempts]

Init ==
  /\ created = <<>>
  /\ device = [j \in Job |-> NoDevice]
  /\ status = [j \in Job |-> "none"]
  /\ attempts = [j \in Job |-> 0]
  /\ work = {}
  /\ copies = [j \in Job |-> 0]
  /\ sent = {}
  /\ handling = {}

-----------------------------------------------------------------------------

Create(j, d) ==
  /\ status[j] = "none"
  /\ created' = Append(created, j)
  /\ device' = [device EXCEPT ![j] = d]
  /\ status' = [status EXCEPT ![j] = "pending"]
  /\ UNCHANGED <<attempts, work, copies, sent, handling>>

\* The places in created of the jobs that a poll may claim.
Claimable(d) ==
  {i \in DOMAIN created :
     LET j == created[i]
     IN  device[j] = d /\ status[j] = "pending" /\ attempts[j] < MaxAttempts}

\* What a poll claims: the oldest.
Claimed(d) ==
  {created[i] : i \in {i \in Claimable(d) : Cardinality({k \in Claimable(d) : k < i}) < Batch}}

Claim(d) ==
  /\ Claimed(d) # {}
  /\ status' = [j \in Job |-> IF j \in Claimed(d) THEN "printing" ELSE status[j]]
  /\ attempts' = [j \in Job |-> IF j \in Claimed(d) THEN attempts[j] + 1 ELSE attempts[j]]
  /\ \/ work' = work \cup {[job |-> j, attempt |-> attempts[j] + 1] : j \in Claimed(d)}
     \/ work' = work  \* the answer is lost
  /\ UNCHANGED <<created, device, copies, sent, handling>>

\* A job is reported printed when it is; a failure may come after the paper.
PrintJob(w, paper, ok) ==
  /\ w \in work
  /\ ok => paper
  /\ work' = work \ {w}
  /\ copies' = [copies EXCEPT ![w.job] = IF paper THEN @ + 1 ELSE @]
  /\ sent' = sent \cup {[job |-> w.job, ok |-> ok]}
  /\ UNCHANGED <<queue, handling>>

\* The bridge stops with a job in hand, before or after the paper.
Stop(w, paper) ==
  /\ w \in work
  /\ work' = work \ {w}
  /\ copies' = [copies EXCEPT ![w.job] = IF paper THEN @ + 1 ELSE @]
  /\ UNCHANGED <<queue, sent, handling>>

Lose(m) ==
  /\ m \in sent
  /\ sent' = sent \ {m}
  /\ UNCHANGED <<queue, work, copies, handling>>

-----------------------------------------------------------------------------

\* A report that arrives stays in sent: the bridge may send it again.
ReadJob(m) ==
  /\ m \in sent
  /\ status[m.job] = "printing"
  /\ handling' = handling \cup {[job |-> m.job, ok |-> m.ok, attempts |-> attempts[m.job]]}
  /\ UNCHANGED <<queue, work, copies, sent>>

\* Bug: a job may die one attempt early.
NextStatusEarly(h) ==
  IF h.ok THEN "printed" ELSE IF h.attempts + 1 < MaxAttempts THEN "pending" ELSE "dead"

NextStatus(h) ==
  IF h.ok THEN "printed" ELSE IF h.attempts < MaxAttempts THEN "pending" ELSE "dead"

\* Bug: the update does not ask for a job that is printing.
WritableAlways(j) == TRUE

Writable(j) == status[j] = "printing"

\* The update finds no row when the job is not printing any more: 409.
WriteResult(h) ==
  /\ h \in handling
  /\ handling' = handling \ {h}
  /\ status' = IF Writable(h.job) THEN [status EXCEPT ![h.job] = NextStatus(h)] ELSE status
  /\ UNCHANGED <<created, device, attempts, work, copies, sent>>

\* The handler's process stops.
DropResult(h) ==
  /\ h \in handling
  /\ handling' = handling \ {h}
  /\ UNCHANGED <<queue, work, copies, sent>>

\* Bug: the sweep forgets the jobs that are out of attempts.
SweptPendingOnly(j) == IF attempts[j] < MaxAttempts THEN "pending" ELSE status[j]

Swept(j) == IF attempts[j] < MaxAttempts THEN "pending" ELSE "dead"

\* The jobs that are printing and not written for printStuckMinutes, which may
\* be any of them.
Sweep(stuck) ==
  /\ stuck # {}
  /\ \A j \in stuck : status[j] = "printing"
  /\ status' = [j \in Job |-> IF j \in stuck THEN Swept(j) ELSE status[j]]
  /\ UNCHANGED <<created, device, attempts, work, copies, sent, handling>>

Next ==
  \/ \E j \in Job, d \in Device \cup {NoDevice} : Create(j, d)
  \/ \E d \in Device : Claim(d)
  \/ \E w \in work, paper \in BOOLEAN : Stop(w, paper) \/ \E ok \in BOOLEAN : PrintJob(w, paper, ok)
  \/ \E m \in sent : Lose(m) \/ ReadJob(m)
  \/ \E h \in handling : WriteResult(h) \/ DropResult(h)
  \/ \E stuck \in SUBSET Job : Sweep(stuck)

\* The bridge of a device polls every POLL_INTERVAL_MS; somebody with
\* print_jobs.manage sweeps again and again, and finds what was left printing.
Fairness ==
  /\ \A d \in Device : WF_vars(Claim(d))
  /\ \A j \in Job : WF_vars(\E stuck \in SUBSET Job : j \in stuck /\ Sweep(stuck))

Spec == Init /\ [][Next]_vars /\ Fairness

-----------------------------------------------------------------------------

\* A job that counts as printed came out at least once, one that was given up
\* had the whole budget of attempts, and no job comes out more often than it was
\* claimed, whichever reports were lost, late or taken for another attempt.
BudgetHolds ==
  \A j \in Job :
    /\ status[j] = "printed" => copies[j] > 0
    /\ status[j] = "dead" => attempts[j] = MaxAttempts
    /\ copies[j] <= attempts[j]

\* Late and repeated reports, and sweeps, do not bring back a job that ended.
EndedStays ==
  [][\A j \in Job : status[j] \in {"printed", "dead"} => status'[j] = status[j]]_vars

\* Out of attempts, but pending: a failure was written with the attempts of an
\* attempt that was swept and claimed again meanwhile.  No poll, no report and
\* no sweep ever moves it.
Stranded(j) == status[j] = "pending" /\ attempts[j] = MaxAttempts

\* Polls and sweeps end every job that a device hosts, except when stranded.
JobEnds ==
  \A j \in Job :
    (status[j] = "pending" /\ device[j] # NoDevice)
      ~> (status[j] \in {"printed", "dead"} \/ Stranded(j))

\* Stated by the route ("Failed jobs return to pending until the retry budget is
\* exhausted"): no pending job is out of attempts.
PendingHasAttempts == \A j \in Job : ~Stranded(j)

=============================================================================
