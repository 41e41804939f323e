------------------------------- MODULE Access -------------------------------
(***************************************************************************)
(* Logging in, with lockout and rate limit:                                *)
(*                                                                         *)
(*   POST /auth/login      Refuse, or Login and then Fail or Finalize      *)
(*   POST /auth/pin-login  Refuse, or PinLogin and then Finalize           *)
(*   PATCH /users/:id      SetActive                                       *)
(*                                                                         *)
(* A login reads the user, compares the password, and then counts the      *)
(* failure or resets the count in a transaction that locks the user's row  *)
(* and looks at the lock again; in between other requests fail or succeed. *)
(* The token that follows a reset reads the user once more; it changes     *)
(* nothing here.  The rate limit lives in the memory of the process.       *)
(***************************************************************************)
EXTENDS Integers

CONSTANTS
  User,
  Request,    \* logins that run at a time
  Threshold,  \* AUTH_LOCKOUT_THRESHOLD
  RateMax     \* AUTH_RATE_LIMIT_MAX

AccessAssumption == Threshold \in Nat \ {0} /\ RateMax \in Nat \ {0}

\* Keys of rateBuckets: of a login its address and email, of a PIN its address
\* and branch; here there is one address and one branch.
Bucket == User \cup {"pin"}

VARIABLES
  active,  \* active[u]: users.is_active
  failed,  \* failed[u]: failed_login_count
  lock,    \* lock[u]: locked_until is null, ahead or past
  bucket,  \* bucket[k]: failures in the current window, up to RateMax
  login    \* login[r]: step, user and bucket of a request, <<>> when idle

vars == <<active, failed, lock, bucket, login>>

Init ==
  /\ active = [u \in User |-> TRUE]
  /\ failed = [u \in User |-> 0]
  /\ lock = [u \in User |-> "none"]
  /\ bucket = [k \in Bucket |-> 0]
  /\ login = [r \in Request |-> <<>>]

-----------------------------------------------------------------------------

\* retryAfterMs: a full bucket refuses until its window has passed.
Begin(r, step, u, k) ==
  /\ login[r] = <<>>
  /\ bucket[k] < RateMax
  /\ active[u]
  /\ login' = [login EXCEPT ![r] = [step |-> step, user |-> u, bucket |-> k]]
  /\ UNCHANGED <<active, failed, lock, bucket>>

At(r, step) == login[r] # <<>> /\ login[r].step = step

Answer(r) == login' = [login EXCEPT ![r] = <<>>]

\* noteRateFailure.
Note(k) == bucket' = [bucket EXCEPT ![k] = IF @ < RateMax THEN @ + 1 ELSE @]

\* An unknown email or PIN, or a user who is locked: only the rate is noted.
Refuse(k) ==
  /\ bucket[k] < RateMax
  /\ Note(k)
  /\ UNCHANGED <<active, failed, lock, login>>

\* The password was compared, and matched or not.
Login(r, u, matched) ==
  /\ lock[u] # "ahead"
  /\ Begin(r, IF matched THEN "finalize" ELSE "fail", u, u)

\* A PIN that matches nobody's fails nobody: it is a Refuse.
PinLogin(r, u) == Begin(r, "finalize", u, "pin")

\* Bug: the count goes on after a lock that is past.
BaseCountKept(u) == failed[u]

BaseCount(u) == IF lock[u] = "past" THEN 0 ELSE failed[u]

\* recordUserFailure.
Fail(r) ==
  /\ At(r, "fail")
  /\ LET u == login[r].user
     IN /\ IF active[u] /\ lock[u] # "ahead"
             THEN /\ failed' = [failed EXCEPT ![u] = BaseCount(u) + 1]
                  /\ lock' = [lock EXCEPT ![u] = IF BaseCount(u) + 1 >= Threshold THEN "ahead" ELSE "none"]
             ELSE UNCHANGED <<failed, lock>>
        /\ Note(login[r].bucket)
  /\ Answer(r)
  /\ UNCHANGED active

\* Bug: the transaction relies on the look at the lock before it.
LockSeenBefore(u) == FALSE

LockedNow(u) == lock[u] = "ahead"

\* finalizeSuccessfulLogin: a lock that was set meanwhile refuses the right
\* password, a user who was deactivated meanwhile gets no token.
Finalize(r) ==
  /\ At(r, "finalize")
  /\ LET u == login[r].user
     IN IF active[u] /\ LockedNow(u)
          THEN Note(login[r].bucket) /\ UNCHANGED <<failed, lock>>
          ELSE /\ bucket' = [bucket EXCEPT ![login[r].bucket] = 0]
               /\ failed' = IF active[u] THEN [failed EXCEPT ![u] = 0] ELSE failed
               /\ lock' = IF active[u] THEN [lock EXCEPT ![u] = "none"] ELSE lock
  /\ Answer(r)
  /\ UNCHANGED active

\* AUTH_LOCKOUT_MS pass.
LockPasses(u) ==
  /\ lock[u] = "ahead"
  /\ lock' = [lock EXCEPT ![u] = "past"]
  /\ UNCHANGED <<active, failed, bucket, login>>

\* AUTH_RATE_LIMIT_WINDOW_MS pass.
WindowPasses(k) ==
  /\ bucket[k] > 0
  /\ bucket' = [bucket EXCEPT ![k] = 0]
  /\ UNCHANGED <<active, failed, lock, login>>

\* An edit of the user: it neither lifts a lock nor resets the count, not even
\* with a new password.
SetActive(u, b) ==
  /\ active[u] # b
  /\ active' = [active EXCEPT ![u] = b]
  /\ UNCHANGED <<failed, lock, bucket, login>>

\* The process stops, with its requests and its memory.
Restart ==
  /\ login' = [r \in Request |-> <<>>]
  /\ bucket' = [k \in Bucket |-> 0]
  /\ UNCHANGED <<active, failed, lock>>

Next ==
  \/ \E r \in Request, u \in User : PinLogin(r, u) \/ \E matched \in BOOLEAN : Login(r, u, matched)
  \/ \E r \in Request : Fail(r) \/ Finalize(r)
  \/ \E k \in Bucket : Refuse(k) \/ WindowPasses(k)
  \/ \E u \in User : LockPasses(u) \/ \E b \in BOOLEAN : SetActive(u, b)
  \/ Restart

Spec == Init /\ [][Next]_vars

-----------------------------------------------------------------------------

\* However many wrong passwords are compared at the same time, the count stops
\* at the threshold, and there is a lock, ahead or past, exactly from then on.
LockAtThreshold ==
  \A u \in User : failed[u] <= Threshold /\ (lock[u] # "none" <=> failed[u] = Threshold)

\* A lock ends by time alone: no login that passed its checks before the lock,
\* by password or PIN, lifts or prolongs it.
LockHolds ==
  [][\A u \in User : lock[u] = "ahead" =>
       lock'[u] \in {"ahead", "past"} /\ failed'[u] = failed[u]]_vars
=============================================================================
