------------------------------ MODULE MCKitchen ------------------------------
(***************************************************************************)
(* The kitchen: holds, the screen, the time on a card, pauses of a branch  *)
(* and the print queue.  The modules share no state: a behaviour is one of *)
(* the module named by part, the others rest in an initial state.  Parts   *)
(* are the modules of a run: the print queue is checked in one of its own. *)
(***************************************************************************)
EXTENDS KitchenRequests

CONSTANTS
  Parts,
  None, MaxLoads, MaxTaps,
  Second, LateAfter, MaxTime, MaxClockHolds,
  Manager, NoManager, MaxFlips,
  Ticket, Device, NoDevice, Batch, MaxAttempts

VARIABLES
  part,
  boardStatus, held, aged, config, settings, shown, known, loads, taps, done, alerts,
  now, orderStatus, times, orderHolds, card, worked,
  row, rowOwner, pausePc, flip, seen, order, flips, toldFlips,
  created, device, ticketStatus, attempts, work, copies, sent, handling

Board == INSTANCE KitchenBoard WITH status <- boardStatus
Clock == INSTANCE KitchenClock WITH MaxHolds <- MaxClockHolds, status <- orderStatus, holds <- orderHolds
Pausing == INSTANCE KitchenPause WITH owner <- rowOwner, pc <- pausePc, job <- flip, told <- toldFlips
Printing == INSTANCE PrintQueue WITH Job <- Ticket, status <- ticketStatus

ASSUME SuiteAssumption ==
  /\ Parts \subseteq {"requests", "board", "clock", "pause", "print"}
  /\ KitchenAssumption
  /\ Board!BoardAssumption
  /\ Clock!ClockAssumption
  /\ Pausing!PauseAssumption
  /\ Printing!PrintQueueAssumption

boardVars ==
  <<boardStatus, held, aged, config, settings, shown, known, loads, taps, done, alerts>>
clockVars == <<now, orderStatus, times, orderHolds, card, worked>>
pauseVars == <<row, rowOwner, pausePc, flip, seen, order, flips, toldFlips>>
printVars == <<created, device, ticketStatus, attempts, work, copies, sent, handling>>
suiteVars == <<part, vars, boardVars, clockVars, pauseVars, printVars>>

SuiteInit ==
  /\ part \in Parts
  /\ Init /\ (part = "requests" \/ late = [o \in Order |-> FALSE])
  /\ Board!Init /\ (part # "board" => boardStatus = [o \in Order |-> "draft"] /\ config = "off")
  /\ Clock!Init
  /\ Pausing!Init /\ (part # "pause" => \A m \in Manager : flip[m] = CHOOSE j \in Pausing!Job : TRUE)
  /\ Printing!Init

SuiteNext ==
  \/ /\ part = "requests" /\ Next
     /\ UNCHANGED <<part, boardVars, clockVars, pauseVars, printVars>>
  \/ /\ part = "board" /\ Board!Next
     /\ UNCHANGED <<part, vars, clockVars, pauseVars, printVars>>
  \/ /\ part = "clock" /\ Clock!Next
     /\ UNCHANGED <<part, vars, boardVars, pauseVars, printVars>>
  \/ /\ part = "pause" /\ Pausing!Next
     /\ UNCHANGED <<part, vars, boardVars, clockVars, printVars>>
  \/ /\ part = "print" /\ Printing!Next
     /\ UNCHANGED <<part, vars, boardVars, clockVars, pauseVars>>

\* The fairness of each module, for the part that moves.
SuiteFairness ==
  /\ \A r \in Request : SF_vars(part = "requests" /\ Serve(r))
  /\ WF_boardVars(part = "board" /\ Board!Poll)
  /\ WF_boardVars(part = "board" /\ Board!SettingsAnswer)
  /\ SF_boardVars(part = "board" /\ \E l \in loads : Board!LoadAnswer(l))
  /\ \A d \in Device : WF_printVars(part = "print" /\ Printing!Claim(d))
  /\ \A j \in Ticket :
       WF_printVars(part = "print" /\ \E stuck \in SUBSET Ticket : j \in stuck /\ Printing!Sweep(stuck))

SuiteSpec == SuiteInit /\ [][SuiteNext]_suiteVars /\ SuiteFairness

-----------------------------------------------------------------------------
\* The screen announces an order once, and the timer of a card leaves the holds out, up
\* to half a second for each (Kitchen.tsx, knownIds and KitchenTimer).
ScreenStands == Board!SoundsOnce /\ Clock!HoldsExcluded

\* A button moves an order on only from the stage its card showed, and the timer of a
\* card on hold stands still (Kitchen.tsx).
CardsHold == Board!MovesAsShown /\ Clock!FrozenOnHold

\* Every request of the kitchen is answered, and once nobody changes the orders any
\* more, the board comes to show them as they are (db/knex.ts, Kitchen.tsx).
KitchenSettles ==
  /\ EveryRequestAnswered
  /\ part = "board" => Board!BoardSettles

\* Pauses and resumes of a branch alternate, its row says what the last one said, and
\* who was answered had the change applied (kitchen.ts).
FlipsStand == Pausing!FlipsStand

\* Printed jobs came out, jobs that were given up had their attempts, and none comes out
\* more often than it was claimed (bridge.ts, printJobs.ts).
BudgetHolds == Printing!BudgetHolds

\* Late and repeated reports, and sweeps, do not bring back a job that ended.
EndedStays == Printing!EndedStays

\* Polls and sweeps end every job that a device hosts, except when stranded.
JobEnds == Printing!JobEnds
=============================================================================
