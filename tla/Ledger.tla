------------------------------- MODULE Ledger -------------------------------
(***************************************************************************)
(* What accounting promises of financial events, with no queue, claims or  *)
(* workers: an event leaves its evidence, a journal or an open residual or *)
(* both, at once and once, and a refund after the payment it refunds.      *)
(***************************************************************************)
CONSTANTS Journaled, Deferred, Refund, Original(_)

VARIABLES
  journal,  \* events with a journal entry
  residual  \* events with a reconciliation row

Init == journal = {} /\ residual = {}

Record(e) ==
  /\ e \notin journal \cup residual
  /\ e \in Refund => Original(e) \in journal
  /\ journal' = IF e \in Journaled THEN journal \cup {e} ELSE journal
  /\ residual' = IF e \in Deferred THEN residual \cup {e} ELSE residual

Next == \E e \in Journaled \cup Deferred : Record(e)

Spec == Init /\ [][Next]_<<journal, residual>>
=============================================================================
