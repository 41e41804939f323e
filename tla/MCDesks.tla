------------------------------- MODULE MCDesks -------------------------------
(***************************************************************************)
(* The tabs of the accounting page and the tool that fills in events, in   *)
(* one run.  The modules share no state: a behaviour is one of the module  *)
(* named by part, the others rest in an initial state.  The tab of the     *)
(* chart has a part for each of its dialogs, whose button is then          *)
(* followed.                                                               *)
(***************************************************************************)
EXTENDS Naturals

CONSTANTS
  None, DeskEvent, DeskSteps, MaxPosts, Account, Mapping, MaxValue, MaxSaves, MaxOpens,
  Residual, Branch, a, All, MaxLoads, MaxOpenings, Dates, PeriodSteps, Value, Default,
  PolicyLoads, PolicySaves, MaxId, Filter, PageLimit, ListLoads, OldPayment, Cash,
  Movement, Old, Run, ToolLimit, MaxCrashes

VARIABLES
  part,
  eventStatus, entries, posts, tab, mount, open, detail, dialog, busy, loads, writes, steps,
  asked,
  stored, chartState, listed, chartOpen, form, chartBusy, saves, chartLoads, made,
  opens, lost,
  branch, unsettled, answers, settleFilters, settleState, settleShown, key, result,
  settleBusy, settleLoads, settles, loaded, keys,
  locked, known, periodState, periods, range, lockPreview, target, periodBusy,
  requests, periodSteps, refused,
  policyRows, done, policySaves, policyMade, branchId, policyState, policyForm,
  policyBusy, policyLoads, policyLoaded,
  last, kind, filters, listState, rows, nextCursor, loadingMore, listLoads, listAsked,
  present, events, excessive, preview, at, missing, finished, crashes

Desk == INSTANCE AccountingDesk WITH
  Event <- DeskEvent, MaxSteps <- DeskSteps, status <- eventStatus
Chart == INSTANCE ChartTab WITH
  state <- chartState, open <- chartOpen, busy <- chartBusy, loads <- chartLoads
Settling == INSTANCE SettlementDesk WITH
  filters <- settleFilters, state <- settleState, shown <- settleShown,
  busy <- settleBusy, loads <- settleLoads
Periods == INSTANCE PeriodDesk WITH
  Range <- Dates, MaxSteps <- PeriodSteps, state <- periodState, busy <- periodBusy,
  steps <- periodSteps, preview <- lockPreview
Policy == INSTANCE PolicyDesk WITH
  Branch <- {a}, Account <- All, MaxLoads <- PolicyLoads, MaxSaves <- PolicySaves,
  rows <- policyRows, saves <- policySaves, made <- policyMade, state <- policyState,
  form <- policyForm, busy <- policyBusy, loads <- policyLoads, loaded <- policyLoaded
List == INSTANCE FilteredList WITH
  Limit <- PageLimit, MaxLoads <- ListLoads, asked <- listAsked, loads <- listLoads,
  state <- listState
Tool == INSTANCE Backfill WITH Payment <- OldPayment, Limit <- ToolLimit

ASSUME DesksAssumption ==
  /\ Desk!DeskAssumption /\ Chart!TabAssumption /\ Settling!SettlementAssumption
  /\ Periods!PeriodAssumption /\ Policy!PolicyAssumption
  /\ List!FilteredAssumption /\ Tool!BackfillAssumption

deskVars ==
  <<eventStatus, entries, posts, tab, mount, open, detail, dialog, busy, loads, writes,
    steps, asked>>
chartVars ==
  <<stored, chartState, listed, chartOpen, form, chartBusy, saves, chartLoads, made,
    opens, lost>>
settlementVars ==
  <<branch, unsettled, answers, settleFilters, settleState, settleShown, key, result,
    settleBusy, settleLoads, settles, loaded, keys>>
periodVars ==
  <<locked, known, periodState, periods, range, lockPreview, target, periodBusy,
    requests, periodSteps, refused>>
policyVars ==
  <<policyRows, done, policySaves, policyMade, branchId, policyState, policyForm,
    policyBusy, policyLoads, policyLoaded>>
listVars ==
  <<last, kind, filters, listState, rows, nextCursor, loadingMore, listLoads, listAsked>>
toolVars == <<present, events, excessive, preview, at, missing, finished, crashes>>
suiteVars ==
  <<part, deskVars, chartVars, settlementVars, periodVars, policyVars, listVars,
    toolVars>>

SuiteInit ==
  /\ part \in Chart!Dialog \cup {"desk", "settlement", "period", "policy", "list", "tool"}
  /\ Desk!Init /\ (part # "desk" => eventStatus = [e \in DeskEvent |-> "pending"])
  /\ Chart!Init /\ (part \notin Chart!Dialog => stored = [r \in Chart!Row |-> 0])
  /\ Settling!Init
  /\ part # "settlement" => branch = [r \in Residual |-> a] /\ unsettled = {}
  /\ Periods!Init /\ (part # "period" => known = {})
  /\ Policy!Init /\ (part # "policy" => policyRows = {})
  /\ List!Init /\ (part # "list" => last = 1 /\ kind = [i \in 1..MaxId |-> a])
  /\ Tool!Init /\ (part # "tool" => excessive = {})

SuiteNext ==
  \/ /\ part = "desk" /\ Desk!Next
     /\ UNCHANGED
          <<part, chartVars, settlementVars, periodVars, policyVars, listVars, toolVars>>
  \/ /\ part \in Chart!Dialog /\ Chart!Next
     /\ UNCHANGED
          <<part, deskVars, settlementVars, periodVars, policyVars, listVars, toolVars>>
  \/ /\ part = "settlement" /\ Settling!Next
     /\ UNCHANGED
          <<part, deskVars, chartVars, periodVars, policyVars, listVars, toolVars>>
  \/ /\ part = "period" /\ Periods!Next
     /\ UNCHANGED
          <<part, deskVars, chartVars, settlementVars, policyVars, listVars, toolVars>>
  \/ /\ part = "policy" /\ Policy!Next
     /\ UNCHANGED
          <<part, deskVars, chartVars, settlementVars, periodVars, listVars, toolVars>>
  \/ /\ part = "list" /\ List!Next
     /\ UNCHANGED
          <<part, deskVars, chartVars, settlementVars, periodVars, policyVars, toolVars>>
  \/ /\ part = "tool" /\ Tool!Next
     /\ UNCHANGED
          <<part, deskVars, chartVars, settlementVars, periodVars, policyVars, listVars>>

\* The fairness of each module, for the part that moves.
SuiteFairness ==
  /\ WF_deskVars(part = "desk" /\ \E l \in loads : Desk!LoadAnswered(l) \/ Desk!LoadFails(l))
  /\ WF_deskVars(part = "desk" /\ \E w \in writes : Desk!Written(w) \/ Desk!Finished(w) \/ Desk!WriteFails(w))
  /\ WF_chartVars(part \in Chart!Dialog /\ \E s \in saves : Chart!Saved(s) \/ Chart!SaveFails(s))
  /\ WF_chartVars(part \in Chart!Dialog /\ \E l \in chartLoads : Chart!LoadAnswered(l) \/ Chart!LoadFails(l))
  /\ WF_settlementVars(part = "settlement" /\ \E l \in settleLoads : Settling!Listed(l) \/ Settling!ListFails(l))
  /\ WF_settlementVars(part = "settlement" /\ \E s \in settles :
       Settling!Settled(s) \/ Settling!Finished(s) \/ Settling!SettleFails(s))
  /\ \A n \in 0..PeriodSteps : WF_periodVars(part = "period" /\ \E q \in requests :
       q.n = n /\ (Periods!Listed(q) \/ Periods!ListFails(q)))
  /\ WF_periodVars(part = "period" /\ \E q \in requests :
       \/ Periods!Previewed(q) \/ Periods!Locked(q) \/ Periods!Opened(q)
       \/ Periods!Finished(q) \/ Periods!Fails(q))
  /\ WF_policyVars(part = "policy" /\ \E l \in policyLoads : Policy!Loaded(l) \/ Policy!LoadFails(l))
  /\ WF_policyVars(part = "policy" /\ \E s \in policySaves :
       s.page /\ (Policy!Saved(s) \/ Policy!SaveFails(s)))
  /\ WF_listVars(part = "list" /\ \E l \in listLoads :
       List!Loaded(l) \/ List!MoreLoaded(l) \/ List!Fails(l))
  /\ \A r \in Run : /\ WF_toolVars(part = "tool" /\ Tool!Preview(r))
                   /\ WF_toolVars(part = "tool" /\ Tool!Proceed(r))

SuiteSpec == SuiteInit /\ [][SuiteNext]_suiteVars /\ SuiteFairness

-----------------------------------------------------------------------------
\* What is sent is about what the admin had in front of it: a dialog asks about what is
\* open, fields go to the row they came from, a key settles one filter, a lock that
\* failed keeps its dates, a save replaces what was saved before it, and the next page
\* follows the last row (AccountingPage.tsx and its tabs, accountingSettings.ts).
DesksActOnOwn ==
  /\ Desk!DialogOfOpening /\ Chart!SavedFromOwnRow /\ Settling!OneFilterPerKey
  /\ Periods!FailedLockKeepsDates /\ Policy!LaterReplaces /\ List!CursorIsLast

\* No source gets two events, and a run that reports has one for each source it found
\* (accountingBackfill.ts).
BackfilledOnce == Tool!OneEventEach /\ Tool!ReportComplete

Busy ==
  CASE part = "desk" -> busy
    [] part = "settlement" -> settleBusy
    [] part = "period" -> periodBusy
    [] part = "policy" -> policyBusy
    [] part = "list" -> loadingMore
    [] part \in Chart!Dialog -> chartBusy[part]
    [] OTHER -> FALSE

Loading ==
  \/ part = "policy" /\ policyState = "loading"
  \/ part = "list" /\ listState = "loading"

\* Buttons come back after every request, lists stop loading, and every old source that
\* no unallocatable payment precedes gets its event (AccountingPage.tsx and its tabs,
\* accountingBackfill.ts).
DesksSettle ==
  /\ Busy ~> ~Busy
  /\ Loading ~> ~Loading
  /\ part = "tool" => Tool!EventComes
=============================================================================
