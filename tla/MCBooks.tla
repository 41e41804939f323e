------------------------------- MODULE MCBooks -------------------------------
(***************************************************************************)
(* Stock and its value in the books: movements and consumption, the forms  *)
(* that move stock, the settlement of their residuals, the chart of        *)
(* accounts.  The modules share no state: a behaviour is one of the module *)
(* named by part, the others rest in an initial state.                     *)
(***************************************************************************)
EXTENDS Consumption, Sequences, TLC

CONSTANTS
  o1, flour, store, cellar, v1, p1, k1, k2, k3, k4,
  Content, NoContent, Leg, MaxOpenings, MaxSubmits,
  m1, m2, m3, b1, b2, Movement, Reversal, Original(_), Worth(_), Cent, Branch,
  BranchOf(_), Date, DateOf(_), Span, SettleKey, NoKey, NoEntry, MaxSettlements,
  Seed, Desk, Moves, Standard, DefaultRules, FirstCharts, OwnCode, None, MaxOwn, MaxEdits,
  MaxPosts

VARIABLES
  part,
  open, opening, content, busy, submits, movements, declared,
  settlementStatus, journaled, row, link, amount, key, undone, period, posting, undoing,
  chart, rules, posted, seed, desk, edits

\* One order of a variant: its recipe has two lines of one item, the variant's own may
\* replace it.
MCVariantOf(o) == v1
MCHomeOf(o) == store
MCQtyOf(o) == 1
MCRecipe ==
  {[family |-> NoVariant, version |-> 1,
    lines |-> <<[item |-> flour, quantity |-> 1], [item |-> flour, quantity |-> 2]>>],
   [family |-> v1, version |-> 1, lines |-> <<[item |-> flour, quantity |-> 1]>>]}

\* Movements meanwhile: two receipts, a transfer and a count.
Manually(kind, k, quantity, cost) ==
  [kind |-> kind, key |-> k, location |-> store, to |-> cellar, item |-> flour,
   quantity |-> quantity, cost |-> cost, of |-> NoMove]
MCManualRequest ==
  {Manually("receipt", k1, 3, 2), Manually("receipt", k2, 2, 5),
   Manually("transfer", k3, 2, NoCost), Manually("count", k4, 3, NoCost)}

OrderEvent == {o1} \X {"consume", "reverse"}
MCProcess == {p1} \cup OrderEvent
MCKey == {k1, k2, k3, k4} \cup (OrderEvent \X {1, 2})

\* Three movements of two days in two branches, one of them reversed.  In eighths of a
\* minor unit: 3, 11 and 6, so that two are rounded down and one up.
MCMovement == {m1, m2, m3}
MCOriginal(e) == m1
MCWorth(e) == CASE e = m2 -> 11 [] e = m3 -> 6 [] OTHER -> 3
MCBranchOf(e) == IF e = m3 THEN b2 ELSE b1
MCDateOf(e) == IF e = m2 THEN 2 ELSE 1
MCSpan == {<<1, 1>>, <<1, 2>>}

\* The chart of the pilot, two of whose accounts move to codes of each other, a new
\* account and a new rule; or a tenant that starts from nothing.
MCMoves == << [key |-> "card", from |-> "1010", to |-> "1050"],
            [key |-> "cash", from |-> "1000", to |-> "1010"] >>
MCStandard == << [code |-> "1010", key |-> "cash"], [code |-> "1050", key |-> "card"],
               [code |-> "4090", key |-> "rounding"] >>
MCDefaultRules == [capture |-> [debit |-> "cash", credit |-> "card"],
                 settle |-> [debit |-> "card", credit |-> "rounding"]]
Account(code, k) == [code |-> code, key |-> k, named |-> "system", active |-> TRUE]
MCFirstCharts ==
  {[chart |-> <<>>, rules |-> [r \in {} |-> 0]],
   [chart |-> << Account("1000", "cash"), Account("1010", "card") >>,
    rules |-> [r \in {"capture"} |-> [debit |-> 1, credit |-> 2]]]}

Symmetric == Permutations(Seed) \cup Permutations(Desk)

Settling == INSTANCE Settlement WITH Key <- SettleKey, status <- settlementStatus
Forms == INSTANCE StockForms WITH
  None <- NoContent, MaxAttempts <- MaxSubmits, attempts <- submits
Accounts == INSTANCE Chart

ASSUME SuiteAssumption ==
  /\ ValuationAssumption
  /\ ConsumptionAssumption
  /\ Settling!SettlementAssumption
  /\ Forms!FormsAssumption
  /\ Accounts!ChartAssumption

formsVars == <<open, opening, content, busy, submits, movements, declared>>
settlementVars ==
  <<settlementStatus, journaled, row, link, amount, key, undone, period, posting, undoing>>
chartVars == <<chart, rules, posted, seed, desk, edits>>
suiteVars == <<part, vars, formsVars, settlementVars, chartVars>>

SuiteInit ==
  /\ part \in {"consumption", "forms", "settlement", "chart"}
  /\ Init
  /\ Forms!Init
  /\ Settling!Init
  /\ Accounts!Init /\ (part # "chart" => chart = <<>>)

SuiteNext ==
  \/ /\ part = "consumption" /\ Next
     /\ UNCHANGED <<part, formsVars, settlementVars, chartVars>>
  \/ /\ part = "forms" /\ Forms!Next
     /\ UNCHANGED <<part, vars, settlementVars, chartVars>>
  \/ /\ part = "settlement" /\ Settling!Next
     /\ UNCHANGED <<part, vars, formsVars, chartVars>>
  \/ /\ part = "chart" /\ Accounts!Next
     /\ UNCHANGED <<part, vars, formsVars, settlementVars>>

SuiteSpec == SuiteInit /\ [][SuiteNext]_suiteVars

-----------------------------------------------------------------------------
\* An opening of a dialog moves stock once, however often it is submitted
\* (useInventoryMutation).
MovedOnce == Forms!MovedOnce

\* Stock is worth what the books say, up to half a minor unit for a settlement that
\* stands; an event is deferred while its residual is open, and a settlement is the sum
\* of its residuals (accountingLedger.ts).
SettledAsStock ==
  part = "settlement" =>
    Settling!BooksFollowStock /\ Settling!DeferredIsOpen /\ Settling!SettlementBacked

\* Seeds get through beside each other and a tenant at work, touch nothing of the
\* tenant's, and lead rules to accounts by key; the trial balance stays balanced
\* (accountingLedger.ts, accounting.ts).
SeedStands ==
  /\ [](Accounts!SeedArrives /\ Accounts!TotalsBalance)
  /\ Accounts!SeedKeepsEdits /\ Accounts!SeededByKey
=============================================================================
