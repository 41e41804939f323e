------------------------------- MODULE MCPages -------------------------------
(***************************************************************************)
(* The pages of the admin application that list, report, count and set, in *)
(* one run.  The modules share no state: a behaviour is one of the module  *)
(* named by part, the others rest in an initial state.                     *)
(***************************************************************************)
EXTENDS Naturals, Sequences

CONSTANTS
  None, Branch, b2, All, Source, Method, Unpaid, Period, DayLength, MaxTime, MaxRows,
  MaxRuns, MaxFails,
  MaxId, MaxValue, Null, Absent, Found, Unit, Limit, MaxChanges, MaxQueries,
  Request, Nobody, Admin, a1, a2, InBranch, KeyOrder, Value, Default, MaxEdits, MaxReloads,
  Item, flour, MaxQuantity, MaxSheets, MaxChoices, MaxMoves

VARIABLES
  part,
  now, payments, active, days, branchId, reportsLoading, asked, run, bundle, runs, calm,
  value, changes, query, queries, timer, listLoads, listLoading, error, shown, next,
  touched,
  account, branch, settingsPage, saveRequest, reloads, edits, reloaded, latest,
  entered, typed, logoRows, files, lock, logoRequest,
  stock, counts, moves, mounting, sheet, phase, located, levels, loading, inputs, keys,
  execRows, senders

\* The zone of one branch is ahead of the account's.
ZoneOffset == [b \in Branch \cup {All} |-> IF b = b2 THEN 1 ELSE 0]
Removal == [kind |-> "remove", at |-> "new", old |-> Nobody, insert |-> FALSE]

MCKeyOrder == <<"vat_enabled", "allow_discounts">>
MCDefault == [k \in {"vat_enabled", "allow_discounts"} |-> "off"]

Reporting == INSTANCE Reports WITH Offset <- ZoneOffset, loading <- reportsLoading
Listing == INSTANCE PagedList WITH loading <- listLoading, loads <- listLoads
Settings == INSTANCE SettingsPage WITH request <- saveRequest, page <- settingsPage
Counting == INSTANCE CountSheet WITH rows <- execRows, page <- mounting

ASSUME SuiteAssumption ==
  /\ Reporting!ReportAssumption /\ Listing!ListAssumption
  /\ Settings!SettingsAssumption /\ {a1, a2} \subseteq Admin
  /\ Counting!SheetAssumption

logoVars == <<logoRows, files, lock, logoRequest>>
reportsVars ==
  <<now, payments, active, days, branchId, reportsLoading, asked, run, bundle, runs,
    calm>>
listVars ==
  <<value, changes, query, queries, timer, listLoads, listLoading, error, shown, next,
    touched>>
settingsVars ==
  <<account, branch, settingsPage, saveRequest, reloads, edits, reloaded, latest,
    entered, typed>>
sheetVars ==
  <<stock, counts, moves, mounting, sheet, phase, located, levels, loading, inputs,
    keys, execRows, senders>>
\* Bound: sheets with movements by others are of one item.
OneItem == \A i \in Item \ {flour} : stock[i] = 0 /\ inputs[i] = None

suiteVars == <<part, logoVars, reportsVars, listVars, settingsVars, sheetVars>>

SuiteInit ==
  /\ part \in {"logo", "reports", "list", "settings", "sheet", "recount"}
  /\ Settings!LogoInit /\ (part # "logo" => logoRequest = [r \in Request |-> Removal])
  /\ Reporting!Init
  /\ Listing!Init /\ (part # "list" => value = [i \in 1..MaxId |-> Absent])
  /\ Settings!Init
  /\ part # "settings" => account = [k \in Settings!Key |-> {}] /\ branch = [k \in Settings!Key |-> Null]
  /\ Counting!Init
  /\ part = "recount" => OneItem
  /\ part \notin {"sheet", "recount"} => stock = [i \in Item |-> 0]

SuiteNext ==
  \/ /\ part = "logo" /\ Settings!LogoNext
     /\ UNCHANGED <<part, reportsVars, listVars, settingsVars, sheetVars>>
  \/ /\ part = "reports" /\ Reporting!Next
     /\ UNCHANGED <<part, logoVars, listVars, settingsVars, sheetVars>>
  \/ /\ part = "list" /\ Listing!Next
     /\ UNCHANGED <<part, logoVars, reportsVars, settingsVars, sheetVars>>
  \/ /\ part = "settings" /\ Settings!Next
     /\ UNCHANGED <<part, logoVars, reportsVars, listVars, sheetVars>>
  \/ /\ part \in {"sheet", "recount"} /\ Counting!Next
     /\ IF part = "sheet" THEN UNCHANGED moves ELSE OneItem'
     /\ UNCHANGED <<part, logoVars, reportsVars, listVars, settingsVars>>

\* The fairness of each module, for the part that moves.
SuiteFairness ==
  /\ WF_reportsVars(part = "reports" /\ Reporting!Settled)
  /\ WF_reportsVars(part = "reports" /\ \E r \in Reporting!Report : Reporting!Read(r) \/ Reporting!Fails(r))
  /\ WF_listVars(part = "list" /\ Listing!LoadFirst)
  /\ WF_listVars(part = "list" /\ \E l \in listLoads, failed \in BOOLEAN : Listing!Answer(l, failed))
  /\ \A a \in Admin : WF_settingsVars(part = "settings" /\
       (Settings!WriteKey(a) \/ Settings!Reply(a) \/ Settings!SaveAnswer(a) \/ Settings!SaveFails(a)))
  /\ \A s \in 1..MaxSheets :
       /\ WF_sheetVars(part \in {"sheet", "recount"} /\ Counting!Send(s))
       /\ WF_sheetVars(part \in {"sheet", "recount"} /\ \E failed \in BOOLEAN : Counting!Answer(s, failed))

SuiteSpec == SuiteInit /\ [][SuiteNext]_suiteVars /\ SuiteFairness

-----------------------------------------------------------------------------
\* The account has one logo at most, and its file is there, however uploads and removals
\* overlap, fail or stop (settings.ts, POST and DELETE /settings/logo).
LogoStands == Settings!LogoStands

\* Reports are of the filters that were applied last and agree with one another, their
\* trend stays within the days asked for, and a list shows each row once, in the order
\* of the server (reports.ts, Reports.tsx, readScope.ts, Customers.tsx).
ShownAsStored ==
  /\ part = "reports" => Reporting!ShownOfFilters /\ Reporting!TotalsAgree /\ Reporting!TrendWithinPeriod
  /\ part = "list" => Listing!ListedAsStored

\* What is answered as saved is stored in whole, and a count that says done is stored,
\* once for a sheet (settings.ts, StockCountDialog.tsx).
StoredInWhole == Settings!SavedInWhole /\ Counting!DoneIsStored /\ Counting!CountedOnce

Waiting(i) ==
  CASE part = "reports" -> reportsLoading
    [] part = "list" -> listLoading
    [] part = "settings" -> settingsPage[<<a1, a2>>[i]].saving
    [] part \in {"sheet", "recount"} -> senders[i] # None
    [] OTHER -> FALSE

\* A page that loads, saves or sends comes to an end of it, with whatever fails
\* (Reports.tsx, Customers.tsx, shared.tsx, StockCountDialog.tsx).
PagesSettle == \A i \in 1..2 : Waiting(i) ~> ~Waiting(i)
=============================================================================
