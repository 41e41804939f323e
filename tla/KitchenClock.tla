--------------------------- MODULE KitchenClock -----------------------------
(***************************************************************************)
(* The time an order spends in the kitchen: what its card shows            *)
(* (apps/admin/src/pages/Kitchen.tsx) from the holds that the server sums  *)
(* up (kitchenControl.ts), and what the kitchen's metrics count            *)
(* (orders.ts).  ADR-005 takes the time on hold out of both.               *)
(*                                                                         *)
(* One order, on time from its submission to ready.  Time is in ticks,     *)
(* Second of them to a second, as the server rounds a hold to seconds.     *)
(***************************************************************************)
EXTENDS Naturals, Sequences, Functions

CONSTANTS
  Second,     \* ticks
  LateAfter,  \* ticks: the setting kds_late_minutes
  MaxTime,    \* bound: of the clock
  MaxHolds    \* bound: holds of the order

ClockAssumption == Second \in Nat \ {0} /\ LateAfter \in Nat /\ MaxTime \in Nat /\ MaxHolds \in Nat

VARIABLES
  now,
  status,
  times,   \* submitted_at and ready_at
  holds,   \* kitchen_order_holds: those of the order, in the order they were made
  card,    \* what the board loaded last
  worked   \* history: ticks on which the order was not on hold, up to ready

vars == <<now, status, times, holds, card, worked>>

Never == MaxTime + 1

Active == holds # <<>> /\ holds[Len(holds)].resumed_at = Never

\* Math.round of a hold's length in seconds.
Seconds(hold) == (2 * (hold.resumed_at - hold.held_at) + Second) \div (2 * Second)

\* holdSummaryForOrders: whole seconds of the holds that have ended, and the start of
\* the one that has not.
Summary ==
  [held_total_seconds |->
     SumFunctionOnSet([i \in DOMAIN holds |-> IF holds[i].resumed_at = Never THEN 0 ELSE Seconds(holds[i])],
                      DOMAIN holds),
   held_at |-> IF Active THEN holds[Len(holds)].held_at ELSE Never]

Init ==
  /\ now = 0
  /\ status = "submitted"
  /\ times = [submitted_at |-> 0, ready_at |-> Never]
  /\ holds = <<>>
  /\ card = Summary
  /\ worked = 0

\* The clock of the browser, which goes with the server's.
Tick ==
  /\ now < MaxTime
  /\ now' = now + 1
  /\ worked' = IF Active \/ status = "ready" THEN worked ELSE worked + 1
  /\ UNCHANGED <<status, times, holds, card>>

Start ==
  /\ status = "submitted"
  /\ status' = "in_kitchen"
  /\ UNCHANGED <<now, times, holds, card, worked>>

Hold ==
  /\ status = "in_kitchen" /\ ~Active
  /\ Len(holds) < MaxHolds
  /\ holds' = Append(holds, [held_at |-> now, resumed_at |-> Never])
  /\ UNCHANGED <<now, status, times, card, worked>>

Resume ==
  /\ Active
  /\ holds' = [holds EXCEPT ![Len(holds)].resumed_at = now]
  /\ UNCHANGED <<now, status, times, card, worked>>

\* Not while it is on hold.
MakeReady ==
  /\ status = "in_kitchen" /\ ~Active
  /\ status' = "ready"
  /\ times' = [times EXCEPT !.ready_at = now]
  /\ UNCHANGED <<now, holds, card, worked>>

\* The board loads the order.
Load ==
  /\ card' = Summary
  /\ UNCHANGED <<now, status, times, holds, worked>>

Next == Tick \/ Start \/ Hold \/ Resume \/ MakeReady \/ Load

Spec == Init /\ [][Next]_vars

-----------------------------------------------------------------------------

\* Bug: the hold that is on does not count yet.
HeldOnceEnded(c) == c.held_total_seconds * Second

\* heldMs.
Held(c) ==
  c.held_total_seconds * Second + (IF c.held_at = Never THEN 0 ELSE now - c.held_at)

\* effectiveElapsedMs: never less than 0.
Elapsed(c) ==
  LET until == now - times.submitted_at
  IN IF Held(c) > until THEN 0 ELSE until - Held(c)

\* GET /kitchen/metrics: the time from submitted to ready.
Duration == times.ready_at - times.submitted_at

LateCompleted == status = "ready" /\ Duration > LateAfter

-----------------------------------------------------------------------------

\* The card of an order in the kitchen that was just loaded shows the time that the
\* kitchen had it without the holds, up to half a second for each that has ended.
HoldsExcluded ==
  status # "ready" /\ card = Summary =>
    /\ 2 * Elapsed(card) <= 2 * worked + Second * Len(holds)
    /\ 2 * worked <= 2 * Elapsed(card) + Second * Len(holds)

\* The timer of a card on hold stands still ("Timer visually freezes while held",
\* ADR-005:143), however long ago the card was loaded.
FrozenOnHold == [][card' = card /\ card.held_at # Never => Elapsed(card)' = Elapsed(card)]_vars

\* ADR-005:39: elapsed kitchen time and SLA exclude the holds.  An order that the
\* kitchen had for no longer than the limit is not counted as late.
MetricsExcludeHolds == LateCompleted => worked > LateAfter
=============================================================================
