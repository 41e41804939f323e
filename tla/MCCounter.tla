------------------------------ MODULE MCCounter ------------------------------
(***************************************************************************)
(* The counter: shifts with what they sell, logins, and the till in the    *)
(* browser.  The modules share no state: a behaviour is one of the module  *)
(* named by part, the others rest in an initial state.  RunParts are those *)
(* of a run: the till has liveness, which symmetry does not go with.       *)
(***************************************************************************)
EXTENDS Shifts, TLC

CONSTANTS
  RunParts,
  k1, s1, s2, c1, c2, o1, User, Attempt, Threshold, RateMax,
  b1, b2, counter, app, Branches, Sources, Zones, Customers, None, SourcesFor, TypesOf,
  Discounting, MaxQty, MaxMenuCalls

VARIABLES
  part,
  active, failed, lock, bucket, login,
  draft, customer, address, saving, settings, sources, zones, menuLoaded,
  settingsCalls, sourceCalls, zoneCalls, menuCalls, tillQuote, quoteBusy, quoteError,
  asking, sending

\* One order of 3 with a VAT of 1, which no partial payment splits without rounding.
MCSettings ==
  [discounts |-> TRUE, feePercent |-> FALSE, fee |-> 1, vat |-> 50, included |-> TRUE, step |-> 1]
MCQuoteOf == {Quote(MCSettings, 3, 1, 0)}
MCMoves == {-1}

\* Two branches of different settings, and a source for each order type.
MCSourcesFor == [t \in {"takeaway", "delivery"} |-> IF t = "delivery" THEN {app} ELSE {counter}]
MCTypesOf == [b \in Branches |-> IF b = b1 THEN {"takeaway"} ELSE {"takeaway", "delivery"}]

\* The two users bear the names of the two clients, so that one symmetry serves both.
Symmetric == Permutations({c1, c2}) \cup Permutations({s1, s2})

Logins == INSTANCE Access WITH Request <- Attempt
Tills == INSTANCE Till WITH quote <- tillQuote

ASSUME CounterAssumption ==
  /\ RunParts \subseteq {"shifts", "access", "till"}
  /\ Logins!AccessAssumption /\ Tills!TillAssumption

shiftsVars == <<quote, rows, shift, moved, request>>
accessVars == <<active, failed, lock, bucket, login>>
tillVars ==
  <<draft, customer, address, saving, settings, sources, zones, menuLoaded,
    settingsCalls, sourceCalls, zoneCalls, menuCalls, tillQuote, quoteBusy, quoteError,
    asking, sending>>
suiteVars == <<part, shiftsVars, accessVars, tillVars>>

SuiteInit ==
  /\ part \in RunParts
  /\ Init
  /\ Logins!Init
  /\ Tills!Init

SuiteNext ==
  \/ /\ part = "shifts" /\ Next
     /\ UNCHANGED <<part, accessVars, tillVars>>
  \/ /\ part = "access" /\ Logins!Next
     /\ UNCHANGED <<part, shiftsVars, tillVars>>
  \/ /\ part = "till" /\ Tills!Next
     /\ UNCHANGED <<part, shiftsVars, accessVars>>

SuiteSpec == SuiteInit /\ [][SuiteNext]_suiteVars

\* The browser of the till runs timers and ends every quote with an answer or an error.
TillSpec ==
  /\ SuiteSpec
  /\ WF_tillVars(part = "till" /\ Tills!TimerFires)
  /\ WF_tillVars(part = "till" /\ \E ok \in BOOLEAN : Tills!QuoteAnswer(ok))

-----------------------------------------------------------------------------
\* Revenue and VAT of the payments of an order add up to its own, and the sales of a
\* shift never fall below zero, over any order of payments and refunds (payments.ts).
SplitsStand == part = "shifts" => SplitsAddUp /\ ShiftSalesNonNegative

\* The failure that reaches the threshold locks the user, whichever logins are under
\* way (auth.ts).
LockAtThreshold == Logins!LockAtThreshold

\* A closed shift stays what it was counted to be, and a locked user stays out until
\* the lock passes (shifts.ts, auth.ts).
ClosedStays == ClosedStands /\ Logins!LockHolds

\* The source, the zone and the address chosen are among those that are shown, however
\* late the lists of an earlier choice arrive (pos/Pos.tsx).
ChoicesOffered == Tills!ChoicesOffered

\* What is sent is what was quoted (pos/Pos.tsx).
SentAsQuoted == Tills!SentAsQuoted

\* Once draft and settings stay as they are, the total settles (pos/Pos.tsx).
QuoteSettles == Tills!QuoteSettles
=============================================================================
