------------------------------ MODULE Reports ------------------------------
(***************************************************************************)
(* The reports of sales (apps/api/src/modules/reports.ts) and the page     *)
(* that asks for several of them at once                                   *)
(* (apps/admin/src/pages/Reports.tsx), while payments and refunds are      *)
(* recorded, days pass and branches are closed.  Reports are split by      *)
(* days of the branch's zone, or of the account's when all branches are    *)
(* asked for.  The top products, which are of orders, and the rest of the  *)
(* summary, which are plain counts, are left out.                          *)
(***************************************************************************)
EXTENDS Integers, FiniteSets, Functions

CONSTANTS
  Branch,
  All,        \* no branch is chosen
  Source,
  Method,     \* of payments
  Unpaid,     \* the method that marks an order as unpaid
  None,       \* an order without a source; a report that is not there
  Period,     \* days that may be asked for
  DayLength,  \* instants of a day
  Offset,     \* of the zone of each branch, and of the account's for All
  MaxTime,    \* bound: instants
  MaxRows,    \* bound: rows of payments
  MaxRuns,    \* bound: runs of the reports
  MaxFails    \* bound: reports of a run that fail though their branch is there

ReportAssumption ==
  /\ Period \subseteq Nat \ {0} /\ \E d \in Period : \A e \in Period : e <= d
  /\ DayLength \in Nat \ {0}
  /\ All \notin Branch /\ Offset \in [Branch \cup {All} -> 0..(DayLength - 1)]
  /\ None \notin Source /\ Unpaid \in Method
  /\ {MaxTime, MaxRows, MaxRuns, MaxFails} \subseteq Nat

VARIABLES
  now,
  payments,  \* rows of payments with the branch and the source of their order
  active,    \* branches
  days,      \* the filters that are applied
  branchId,
  loading,   \* reportsLoading
  asked,     \* reports of the run that are neither answered nor failed yet
  run,       \* the answers of the run so far
  bundle,    \* reports on the screen
  runs,
  calm       \* history: neither the data nor the day changed during the run

server == <<now, payments, active>>
page == <<days, branchId, loading, asked, run, bundle, runs>>
vars == <<server, page, calm>>

Report == {"summary", "trend", "byBranch", "bySource", "methods"}

Empty == [r \in Report |-> None]

\* The page starts with a run.
Init ==
  /\ now = 0 /\ payments = {} /\ active = Branch
  /\ days = CHOOSE d \in Period : \A e \in Period : e <= d
  /\ branchId = All
  /\ loading = TRUE /\ asked = Report /\ run = Empty /\ bundle = Empty
  /\ runs = 1
  /\ calm = TRUE

-----------------------------------------------------------------------------
(* Reports of the server.                                                  *)

\* resolveReportScope: no branch means the active ones.
ScopeOf(b) == IF b = All THEN active ELSE {b}

LocalDay(zone, t) == (t + Offset[zone]) \div DayLength

\* localDayStart
Today(b) == LocalDay(b, now)

\* Bug: one day more.
PeriodStartEarly(b, d) == LocalDay(b, now) - d

\* localPeriodStart: today and the days before it.
PeriodStart(b, d) == LocalDay(b, now) - (d - 1)

\* Bug: a report by source of orders that have one.
CountedOfSource(r, p) == p.method # Unpaid /\ (r = "bySource" => p.source # None)

\* Markers of unpaid orders are left out, refunds are negative rows.
Counted(r, p) == p.method # Unpaid

Rows(r, b, d) ==
  {p \in payments :
     /\ p.branch \in ScopeOf(b)
     /\ LocalDay(b, p.at) >= IF r = "summary" THEN Today(b) ELSE PeriodStart(b, d)
     /\ Counted(r, p)}

Group(r, b, p) ==
  CASE r = "summary" -> "all"
    [] r = "trend" -> LocalDay(b, p.at)
    [] r = "byBranch" -> p.branch
    [] r = "bySource" -> p.source
    [] r = "methods" -> p.method

SumOf(rows) == SumFunctionOnSet([p \in rows |-> p.amount], rows)

\* Each report is one query: rows of groups with their sums.
Answer(r, b, d) ==
  LET rows == Rows(r, b, d)
  IN [filters |-> <<b, d>>, today |-> Today(b),
      rows |-> [g \in {Group(r, b, p) : p \in rows} |->
                  SumOf({p \in rows : Group(r, b, p) = g})]]

-----------------------------------------------------------------------------
(* What happens meanwhile.                                                 *)

\* Bound: one thing happens during a run.
Disturb ==
  /\ loading => calm
  /\ calm' = (calm /\ ~loading)

Tick ==
  /\ now < MaxTime
  /\ now' = now + 1
  /\ Disturb
  /\ UNCHANGED <<payments, active, page>>

\* n tells rows apart that are the same otherwise.
Row(b, s, m, a) ==
  LET row(n) == [branch |-> b, source |-> s, method |-> m, amount |-> a, at |-> now, n |-> n]
  IN row(Cardinality({n \in 1..MaxRows : row(n) \in payments}) + 1)

Insert(row) ==
  /\ Cardinality(payments) < MaxRows
  /\ payments' = payments \cup {row}
  /\ Disturb
  /\ UNCHANGED <<now, active, page>>

\* A payment is captured.
Pay(b, s, m) == Insert(Row(b, s, m, 2))

\* An order is marked as one that is to be paid later, with an amount of zero; its
\* source matters to no report.
MarkUnpaid(b) == Insert(Row(b, None, Unpaid, 0))

\* Half of a captured payment is refunded.
Refund(p) ==
  /\ p.method # Unpaid /\ p.amount > 0
  /\ Insert(Row(p.branch, p.source, p.method, -1))

\* The last branch stays, so that there is something to report.
Deactivate(b) ==
  /\ b \in active /\ active # {b}
  /\ active' = active \ {b}
  /\ Disturb
  /\ UNCHANGED <<now, payments, page>>

-----------------------------------------------------------------------------
(* The page.                                                               *)

\* Bug: the reports of the run before stay until there are new ones.
BundleAtStartKept == bundle

\* loadReports clears the screen.
BundleAtStart == Empty

Start(b, d) ==
  /\ ~loading /\ runs < MaxRuns
  /\ branchId' = b /\ days' = d
  /\ loading' = TRUE /\ runs' = runs + 1
  /\ asked' = Report /\ run' = Empty
  /\ bundle' = BundleAtStart
  /\ calm' = TRUE
  /\ UNCHANGED server

\* applyFilters; its button is disabled while a run is under way.
ApplyFilters == \E b \in Branch \cup {All}, d \in Period : Start(b, d)

\* The button for another run of the same filters, in the head or at a failed report.
Refresh == Start(branchId, days)

ScopeFound == branchId \in active \cup {All}

\* A branch that is closed is not found.
Read(r) ==
  /\ r \in asked /\ ScopeFound
  /\ asked' = asked \ {r}
  /\ run' = [run EXCEPT ![r] = Answer(r, branchId, days)]
  /\ UNCHANGED <<server, days, branchId, loading, bundle, runs, calm>>

Fails(r) ==
  /\ r \in asked
  /\ ScopeFound => Cardinality({q \in Report \ asked : run[q] = None}) < MaxFails
  /\ asked' = asked \ {r}
  /\ UNCHANGED <<server, days, branchId, loading, run, bundle, runs, calm>>

\* Bug: a failed report ends the run without its mark.
LoadingAfterKept == \E r \in Report : run[r] = None

\* Promise.allSettled
LoadingAfter == FALSE

\* All are answered or failed: those that were answered are shown.
Settled ==
  /\ loading
  /\ asked = {}
  /\ bundle' = run
  /\ run' = Empty
  /\ loading' = LoadingAfter
  /\ UNCHANGED <<server, days, branchId, asked, runs, calm>>

-----------------------------------------------------------------------------
Next ==
  \/ Tick
  \/ \E b \in Branch :
       \/ Deactivate(b) \/ MarkUnpaid(b)
       \/ \E s \in Source \cup {None}, m \in Method \ {Unpaid} : Pay(b, s, m)
  \/ \E p \in payments : Refund(p)
  \/ ApplyFilters \/ Refresh
  \/ \E r \in Report : Read(r) \/ Fails(r)
  \/ Settled

\* Requests are answered or fail, and the page goes on.
Spec ==
  /\ Init /\ [][Next]_vars
  /\ WF_vars(Settled) /\ WF_vars(\E r \in Report : Read(r) \/ Fails(r))

-----------------------------------------------------------------------------
(* Properties.                                                             *)

Shown == {r \in Report : bundle[r] # None}
Total(r) == SumFunctionOnSet(bundle[r].rows, DOMAIN bundle[r].rows)

\* Reports.test.tsx: "clears old report data when a new filtered run fails".  What
\* is shown is of the filters that were applied last.
ShownOfFilters == \A r \in Shown : bundle[r].filters = <<branchId, days>>

\* Reports that were read in quiet times agree: the sums by day, branch, source
\* and method are the same, and today's sales are the last day of the trend,
\* whatever the zone.
TotalsAgree ==
  (calm /\ ~loading) =>
    /\ \A r, q \in Shown \ {"summary"} : Total(r) = Total(q)
    /\ {"summary", "trend"} \subseteq Shown =>
         LET trend == bundle["trend"]
         IN Total("summary") =
              IF trend.today \in DOMAIN trend.rows THEN trend.rows[trend.today] ELSE 0

\* The trend has no more days than were asked for, and none to come.
TrendWithinPeriod ==
  "trend" \in Shown =>
    DOMAIN bundle["trend"].rows \subseteq
      (bundle["trend"].today - days + 1)..bundle["trend"].today

\* A run ends, with whatever fails.
LoadingEnds == loading ~> ~loading
=============================================================================
