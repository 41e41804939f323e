------------------------------- MODULE Holds -------------------------------
(***************************************************************************)
(* What the kitchen promises of a held order, with no requests, locks or   *)
(* connections: an order in the kitchen may be put on hold, at most once   *)
(* at a time, and does not become ready, nor therefore completed, until    *)
(* it is resumed.  KitchenRequests implements this.                        *)
(***************************************************************************)
EXTENDS OrderStatus

CONSTANT Order

VARIABLES
  status,  \* orders.status
  held     \* whether the order has a hold that was not resumed

Init ==
  /\ status = [o \in Order |-> "submitted"]
  /\ held = [o \in Order |-> FALSE]

Hold(o) ==
  /\ status[o] = "in_kitchen"
  /\ ~held[o]
  /\ held' = [held EXCEPT ![o] = TRUE]
  /\ UNCHANGED status

Resume(o) ==
  /\ held[o]
  /\ held' = [held EXCEPT ![o] = FALSE]
  /\ UNCHANGED status

Advance(o, to) ==
  /\ to \in TRANSITIONS[status[o]]
  /\ to = "ready" => ~held[o]
  /\ status' = [status EXCEPT ![o] = to]
  /\ UNCHANGED held

\* The request that created the order may write "submitted" late.
Resubmit(o) ==
  /\ status' = [status EXCEPT ![o] = "submitted"]
  /\ UNCHANGED held

Next ==
  \E o \in Order :
    \/ Hold(o)
    \/ Resume(o)
    \/ \E to \in Statuses : Advance(o, to)
    \/ Resubmit(o)

Spec == Init /\ [][Next]_<<status, held>>
=============================================================================
