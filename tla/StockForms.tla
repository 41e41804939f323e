---------------------------- MODULE StockForms ------------------------------
(***************************************************************************)
(* A dialog of the inventory page that moves stock (apps/admin/src/pages/  *)
(* inventory: receipt, issue, waste, adjustment, transfer), and the        *)
(* service that stores a movement once for an idempotency key.             *)
(*                                                                         *)
(* The dialog draws a key when it is opened and sends it with every        *)
(* attempt.  It can be closed while an attempt is under way; the hook that *)
(* waits for the answer lives on.  A request whose connection is lost may  *)
(* still be carried out.                                                   *)
(***************************************************************************)
EXTENDS Naturals, FiniteSets

CONSTANTS
  Content,      \* what can be entered: place, item, quantity
  None,
  Leg,          \* the movements of a request: one, or the two of a transfer
  MaxOpenings,  \* bound: openings of the dialog
  MaxAttempts   \* bound: requests

FormsAssumption ==
  /\ None \notin Content
  /\ Leg # {}
  /\ MaxOpenings \in Nat /\ MaxAttempts \in Nat

VARIABLES
  open,      \* the dialog is shown
  opening,   \* the number of times it was opened
  content,   \* its fields
  busy,      \* the attempt that useInventoryMutation waits for, or None
  attempts,  \* the requests, in the order they were sent
  movements, \* stock_movements
  declared   \* history: the attempts that a success was declared for

form == <<open, opening, content>>
vars == <<form, busy, attempts, movements, declared>>

Opening == 1..MaxOpenings
Attempt == 1..MaxAttempts
Phase == {"unsent", "sent", "looked up", "done", "failed"}

Unsent == [phase |-> "unsent", opening |-> 0, key |-> 0, content |-> None]

TypeOK ==
  /\ open \in BOOLEAN
  /\ opening \in 0..MaxOpenings
  /\ content \in Content \cup {None}
  /\ busy \in Attempt \cup {None}
  /\ attempts \in [Attempt -> [phase : Phase, opening : 0..MaxOpenings,
                               key : Nat, content : Content \cup {None}]]
  /\ movements \subseteq [attempt : Attempt, leg : Leg]
  /\ declared \subseteq Attempt

Init ==
  /\ open = FALSE
  /\ opening = 0
  /\ content = None
  /\ busy = None
  /\ attempts = [a \in Attempt |-> Unsent]
  /\ movements = {}
  /\ declared = {}

-----------------------------------------------------------------------------
(* The dialog.                                                             *)

\* The fields are empty and there is a new key: the number of the opening.
Open ==
  /\ ~open
  /\ opening < MaxOpenings
  /\ open' = TRUE
  /\ opening' = opening + 1
  /\ content' = None
  /\ UNCHANGED <<busy, attempts, movements, declared>>

\* The fields can be changed at any time, also while an attempt is under way.
Enter(c) ==
  /\ open
  /\ content' = c
  /\ UNCHANGED <<open, opening, busy, attempts, movements, declared>>

\* Cancel, also while an attempt is under way.
Close ==
  /\ open' = FALSE
  /\ UNCHANGED <<opening, content, busy, attempts, movements, declared>>

\* Bug: each attempt has a key of its own.
KeyOfAttempt(a) == a

SentKey(a) == opening

\* submit: one attempt at a time.
Submit(a) ==
  /\ open /\ content # None
  /\ busy = None
  /\ attempts[a].phase = "unsent"
  /\ \A b \in 1..(a - 1) : attempts[b].phase # "unsent"
  /\ attempts' = [attempts EXCEPT ![a] =
       [phase |-> "sent", opening |-> opening, key |-> SentKey(a), content |-> content]]
  /\ busy' = a
  /\ UNCHANGED <<form, movements, declared>>

\* The answer.  A success is declared and closes the dialog, whichever opening it
\* is by now.
Answer ==
  /\ busy # None
  /\ \/ /\ attempts[busy].phase = "done"
        /\ declared' = declared \cup {busy}
        /\ open' = FALSE
     \/ /\ attempts[busy].phase = "failed"
        /\ UNCHANGED <<declared, open>>
  /\ busy' = None
  /\ UNCHANGED <<opening, content, attempts, movements>>

\* The connection is lost, and what was sent may or may not get through.
Lose ==
  /\ busy # None
  /\ busy' = None
  /\ \/ UNCHANGED attempts
     \/ /\ attempts[busy].phase = "sent"
        /\ attempts' = [attempts EXCEPT ![busy].phase = "failed"]
  /\ UNCHANGED <<form, movements, declared>>

-----------------------------------------------------------------------------
(* The service.                                                            *)

\* The movements stored under the key of attempt a.
Stored(a) == {m \in movements : attempts[m.attempt].key = attempts[a].key}

\* The lookup of the key: what is there is the answer, whatever the request says.
LookUp(a) ==
  /\ attempts[a].phase = "sent"
  /\ attempts' = [attempts EXCEPT ![a].phase =
                    IF Stored(a) # {} THEN "done" ELSE "looked up"]
  /\ UNCHANGED <<form, busy, movements, declared>>

\* The unique index on the key.
StoredByNow(a) == Stored(a)

\* The transaction stores all its legs, or stock or the key make it fail.
Store(a) ==
  /\ attempts[a].phase = "looked up"
  /\ \/ /\ StoredByNow(a) = {}
        /\ movements' = movements \cup [attempt : {a}, leg : Leg]
        /\ attempts' = [attempts EXCEPT ![a].phase = "done"]
     \/ /\ attempts' = [attempts EXCEPT ![a].phase = "failed"]
        /\ UNCHANGED movements
  /\ UNCHANGED <<form, busy, declared>>

-----------------------------------------------------------------------------

Next ==
  \/ Open \/ Close \/ \E c \in Content : Enter(c)
  \/ \E a \in Attempt : Submit(a) \/ LookUp(a) \/ Store(a)
  \/ Answer \/ Lose

Spec == Init /\ [][Next]_vars

-----------------------------------------------------------------------------

\* An opening of the dialog moves stock once, however often it is submitted, whatever
\* connections are lost and which requests overlap; a transfer has both its legs.
MovedOnce ==
  \A m, n \in movements :
    /\ attempts[m.attempt].opening = attempts[n.attempt].opening => m.attempt = n.attempt
    /\ \E o \in movements : o.attempt = m.attempt /\ o.leg = n.leg

\* "Success is declared ONLY after server confirmation" (IssueMovementDialog.tsx:15):
\* what is said to be recorded is what was entered.
DeclaredIsStored ==
  \A a \in declared : \A m \in Stored(a) : attempts[m.attempt].content = attempts[a].content
=============================================================================
