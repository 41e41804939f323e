----------------------------- MODULE OrderStatus -----------------------------
(***************************************************************************)
(* The life of an order row, as orderStatus.ts and financialReliability.ts *)
(* define it: the transition table, the statuses a cancellation may start  *)
(* from, and what a transition does to the dining table the order is       *)
(* seated at.  Shared by every module that has an order's status.          *)
(***************************************************************************)

\* From each status, the statuses transitionOrderStatus lets an order move to.
TRANSITIONS ==
  [draft      |-> {"submitted", "cancelled"},
   submitted  |-> {"in_kitchen", "ready", "cancelled"},
   in_kitchen |-> {"ready", "cancelled"},
   ready      |-> {"completed", "cancelled"},
   completed  |-> {},
   cancelled  |-> {}]

Statuses == {"draft", "submitted", "in_kitchen", "ready", "completed", "cancelled"}

\* Statuses with nothing after them.
Final == {"completed", "cancelled"}

\* Bug: a completed order can be cancelled too.
CANCEL_FROM_ANY == {"draft", "submitted", "in_kitchen", "ready", "completed"}

\* handleCancellation re-reads the locked row and cancels only from these.
CANCEL_FROM_STATUSES == {"draft", "submitted", "in_kitchen", "ready"}

\* dining_tables.status after an order seated there moves to status `to`;
\* `now` when the transition leaves the table alone.
TableAfter(now, to) ==
  CASE to \in {"submitted", "in_kitchen"} -> "occupied"
    [] to \in {"completed", "cancelled"}  -> "cleaning"
    [] OTHER                              -> now
=============================================================================
