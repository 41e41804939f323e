------------------------------- MODULE Chart -------------------------------
(***************************************************************************)
(* A tenant's chart of accounts, its posting rules and its trial balance   *)
(* (apps/api/src/modules/accounting.ts), with the seed that moves an old   *)
(* chart to the standard codes and fills in what is missing                *)
(* (accountingLedger.ts, ensureAccountingDefaults).                        *)
(*                                                                         *)
(*   seed   Look, Move (each code move), Insert (each standard account),   *)
(*          SeedRule: every statement is a transaction of its own          *)
(*   desk   one request of an accountant: what it reads, then what it      *)
(*          writes                                                         *)
(*                                                                         *)
(* A posting is a debit and a credit of 1 (Settlement.tla and Ledger.tla   *)
(* model posting itself); a rule's VAT leg is treated as the other two and *)
(* left out.  MaxOwn, MaxEdits and MaxPosts bound the accounts a tenant    *)
(* adds, its requests and the postings.                                    *)
(***************************************************************************)
EXTENDS Integers, Sequences, FiniteSets

CONSTANTS Seed, Desk,
  Moves,         \* LEGACY_CODE_MOVES: [key, from, to], in order
  Standard,      \* SYSTEM_ACCOUNTS: [code, key], in order
  DefaultRules,  \* rule name |-> [debit, credit], by key
  FirstCharts,   \* the charts and rules a seed may meet
  OwnCode,       \* codes a tenant may pick for an account of its own
  None,          \* the key of a tenant's own account
  MaxOwn, MaxEdits, MaxPosts

\* A legacy code that is a standard one too is left before it is claimed.
MovesInOrder ==
  \A i, j \in DOMAIN Moves : Moves[i].from = Moves[j].to => i < j

\* The account stands at its standard code or at the legacy one.
AtItsCode(account) ==
  \/ \E n \in DOMAIN Standard : account.key = Standard[n].key /\ account.code = Standard[n].code
  \/ \E j \in DOMAIN Moves : account.key = Moves[j].key /\ account.code = Moves[j].from

ChartAssumption ==
  /\ OwnCode \subseteq STRING
  /\ Moves # <<>> /\ Moves \in Seq([key : STRING, from : STRING, to : STRING])
  /\ Standard # <<>> /\ Standard \in Seq([code : STRING, key : STRING])
  /\ \A n \in DOMAIN Standard : Standard[n].key # None
  /\ \A m, n \in DOMAIN Standard :
       Standard[m].code = Standard[n].code \/ Standard[m].key = Standard[n].key => m = n
  /\ \A j \in DOMAIN Moves : \E n \in DOMAIN Standard :
       Moves[j].key = Standard[n].key /\ Moves[j].to = Standard[n].code
  /\ \A i, j \in DOMAIN Moves : Moves[i].key = Moves[j].key => i = j
  /\ MovesInOrder
  /\ \A first \in FirstCharts :
       /\ first.chart \in Seq([code : STRING, key : STRING \cup {None}, named : {"system", "own"}, active : BOOLEAN])
       /\ \A i \in DOMAIN first.chart : first.chart[i].key # None => AtItsCode(first.chart[i])
       /\ \A i, j \in DOMAIN first.chart :
            (\/ first.chart[i].code = first.chart[j].code
             \/ first.chart[i].key # None /\ first.chart[i].key = first.chart[j].key) => i = j
       /\ first.rules \in [DOMAIN first.rules -> [{"debit", "credit"} -> 1 .. Len(first.chart)]]

VARIABLES
  chart,    \* the accounts, by id: code, key, whose name it bears, active
  rules,    \* rule name |-> the ids it debits and credits
  posted,   \* the ids each posting debits and credits
  seed,     \* where each seed is
  desk,     \* what each request has yet to write
  edits

vars == <<chart, rules, posted, seed, desk, edits>>

Id == 1 .. Len(chart)
Side == {"debit", "credit"}
Rule == DOMAIN DefaultRules

Held(code) == \E i \in Id : chart[i].code = code
KeyOf(key) == {i \in Id : chart[i].key = key}

Init ==
  /\ \E first \in FirstCharts : chart = first.chart /\ rules = first.rules
  /\ posted = <<>>
  /\ seed = [s \in Seed |-> [at |-> "look", i |-> 1]]
  /\ desk = [d \in Desk |-> [doing |-> "nothing"]]
  /\ edits = 0

-----------------------------------------------------------------------------
(* The seed.                                                               *)

\* Bug: cash claims 1010 before the card clearing account has left it.
MoveAtReversed(i) == Moves[Len(Moves) + 1 - i]

MoveAt(i) == Moves[i]

AfterMove(i) == IF i < Len(Moves) THEN [at |-> "look", i |-> i + 1] ELSE [at |-> "insert", i |-> 1]

Look(s) ==
  /\ seed[s].at = "look"
  /\ seed' = [seed EXCEPT ![s] = IF Held(MoveAt(@.i).to) THEN AfterMove(@.i) ELSE [@ EXCEPT !.at = "move"]]
  /\ UNCHANGED <<chart, rules, posted, desk, edits>>

\* Bug: the update does not ask for the legacy code.
MovedOfKey(move) == KeyOf(move.key)

Moved(move) == {i \in KeyOf(move.key) : chart[i].code = move.from}

\* The unique index on the code refuses a code taken since the look.
Move(s) ==
  LET move == MoveAt(seed[s].i) IN
  /\ seed[s].at = "move"
  /\ \/ /\ Moved(move) = {}
        /\ seed' = [seed EXCEPT ![s] = AfterMove(@.i)]
        /\ UNCHANGED chart
     \/ /\ Moved(move) # {}
        /\ \E i \in Id \ Moved(move) : chart[i].code = move.to
        /\ seed' = [seed EXCEPT ![s].at = "failed"]
        /\ UNCHANGED chart
     \/ /\ Moved(move) # {}
        /\ \A i \in Id \ Moved(move) : chart[i].code # move.to
        /\ chart' = [i \in Id |-> IF i \in Moved(move)
                                    THEN [chart[i] EXCEPT !.code = move.to, !.named = "system"]
                                    ELSE chart[i]]
        /\ seed' = [seed EXCEPT ![s] = AfterMove(@.i)]
  /\ UNCHANGED <<rules, posted, desk, edits>>

RuleOrder == CHOOSE order \in [1 .. Cardinality(Rule) -> Rule] : \A r \in Rule : \E i \in DOMAIN order : order[i] = r

\* A taken code is ignored; a key that stands under another code is not, the index on the key refuses it.
Insert(s) ==
  LET standard == Standard[seed[s].i]
      next == IF seed[s].i < Len(Standard) THEN [at |-> "insert", i |-> seed[s].i + 1] ELSE [at |-> "rule", i |-> 1]
  IN
  /\ seed[s].at = "insert"
  /\ IF Held(standard.code)
       THEN seed' = [seed EXCEPT ![s] = next] /\ UNCHANGED chart
       ELSE IF KeyOf(standard.key) # {}
       THEN seed' = [seed EXCEPT ![s].at = "failed"] /\ UNCHANGED chart
       ELSE /\ chart' = Append(chart, [code |-> standard.code, key |-> standard.key, named |-> "system", active |-> TRUE])
            /\ seed' = [seed EXCEPT ![s] = next]
  /\ UNCHANGED <<rules, posted, desk, edits>>

\* Bug: the account a default rule names is looked up by its standard code.
StandingByCode(key) ==
  {i \in Id : \E n \in DOMAIN Standard : Standard[n].key = key /\ chart[i].code = Standard[n].code}

\* The accounts a default rule names: the one that bears the key, under whatever code.
Standing(key) == KeyOf(key)

SeedRule(s) ==
  LET rule == RuleOrder[seed[s].i]
      keys == DefaultRules[rule]
  IN
  /\ seed[s].at = "rule"
  /\ IF rule \notin DOMAIN rules /\ Standing(keys.debit) # {} /\ Standing(keys.credit) # {}
       THEN \E debit \in Standing(keys.debit), credit \in Standing(keys.credit) :
              rules' = [r \in DOMAIN rules \cup {rule} |->
                          IF r = rule THEN [debit |-> debit, credit |-> credit] ELSE rules[r]]
       ELSE UNCHANGED rules
  /\ seed' = [seed EXCEPT ![s] = IF @.i < Cardinality(Rule) THEN [at |-> "rule", i |-> @.i + 1] ELSE [@ EXCEPT !.at = "done"]]
  /\ UNCHANGED <<chart, posted, desk, edits>>

-----------------------------------------------------------------------------
(* The accountants' requests.                                              *)

Ask(d, request) ==
  /\ desk[d].doing = "nothing"
  /\ edits < MaxEdits
  /\ edits' = edits + 1
  /\ desk' = [desk EXCEPT ![d] = request]
  /\ UNCHANGED <<chart, rules, posted, seed>>

Written(d) ==
  /\ desk' = [desk EXCEPT ![d] = [doing |-> "nothing"]]
  /\ UNCHANGED <<posted, seed, edits>>

AskCreate(d, code) ==
  /\ ~Held(code)
  /\ Cardinality(KeyOf(None)) < MaxOwn
  /\ \A e \in Desk : desk[e].doing # "create"
  /\ Ask(d, [doing |-> "create", code |-> code])

Create(d) ==
  /\ desk[d].doing = "create"
  /\ chart' = IF Held(desk[d].code) THEN chart
              ELSE Append(chart, [code |-> desk[d].code, key |-> None, named |-> "own", active |-> TRUE])
  /\ Written(d)
  /\ UNCHANGED rules

Mapped(i) == \E r \in DOMAIN rules : \E leg \in Side : rules[r][leg] = i

\* A new name, or a state; only a deactivation looks at the rules.
AskUpdate(d, i, change) ==
  /\ change = "deactivate" => ~Mapped(i)
  /\ Ask(d, [doing |-> "update", id |-> i, change |-> change])

Update(d) ==
  /\ desk[d].doing = "update"
  /\ chart' = [chart EXCEPT ![desk[d].id] =
                 CASE desk[d].change = "rename" -> [@ EXCEPT !.named = "own"]
                   [] desk[d].change = "activate" -> [@ EXCEPT !.active = TRUE]
                   [] desk[d].change = "deactivate" -> [@ EXCEPT !.active = FALSE]]
  /\ Written(d)
  /\ UNCHANGED rules

\* assertActiveAccounts
Active(ids) == \A i \in ids : chart[i].active

AskRule(d, rule, debit, credit) ==
  /\ rule \notin DOMAIN rules
  /\ Active({debit, credit})
  /\ Ask(d, [doing |-> "add", rule |-> rule, to |-> [debit |-> debit, credit |-> credit]])

\* The unique index keeps the first of two rules for the same event.
AddRule(d) ==
  /\ desk[d].doing = "add"
  /\ rules' = [r \in DOMAIN rules \cup {desk[d].rule} |-> IF r \in DOMAIN rules THEN rules[r] ELSE desk[d].to]
  /\ Written(d)
  /\ UNCHANGED chart

AskSetLeg(d, rule, leg, i) ==
  /\ rule \in DOMAIN rules
  /\ Active({i})
  /\ Ask(d, [doing |-> "set", rule |-> rule, leg |-> leg, id |-> i])

SetLeg(d) ==
  /\ desk[d].doing = "set"
  /\ rules' = [rules EXCEPT ![desk[d].rule][desk[d].leg] = desk[d].id]
  /\ Written(d)
  /\ UNCHANGED chart

\* mappingFor and the insert of the lines: nobody asks whether the accounts are active.
Post(rule) ==
  /\ rule \in DOMAIN rules
  /\ Len(posted) < MaxPosts
  /\ posted' = Append(posted, rules[rule])
  /\ UNCHANGED <<chart, rules, seed, desk, edits>>

Next ==
  \/ \E s \in Seed : Look(s) \/ Move(s) \/ Insert(s) \/ SeedRule(s)
  \/ \E d \in Desk :
       \/ \E code \in OwnCode : AskCreate(d, code)
       \/ \E i \in Id : \E change \in {"rename", "activate", "deactivate"} : AskUpdate(d, i, change)
       \/ \E rule \in Rule : \E debit, credit \in Id : AskRule(d, rule, debit, credit)
       \/ \E rule \in Rule : \E leg \in Side : \E i \in Id : AskSetLeg(d, rule, leg, i)
       \/ Create(d) \/ Update(d) \/ AddRule(d) \/ SetLeg(d)
  \/ \E rule \in Rule : Post(rule)

Spec == Init /\ [][Next]_vars

-----------------------------------------------------------------------------
(* The trial balance.                                                      *)

Sum(ids, leg) == Cardinality({n \in DOMAIN posted : posted[n][leg] \in ids})

\* A row per active account, with what was posted to it.
Shown == {i \in Id : chart[i].active}

\* Bug: the totals are those of the rows, the active accounts.
TotalActive(leg) == Sum(Shown, leg)

\* All the lines, whatever their accounts.
Total(leg) == Sum(Id, leg)

Balanced == Total("debit") = Total("credit")

-----------------------------------------------------------------------------
(* Properties.                                                             *)

\* The totals of the trial balance are equal whatever was renamed, remapped,
\* deactivated or seeded since the postings (accounting.ts:424-426 "debit must
\* equal credit by DB balance guards").
TotalsBalance == Balanced

Own(i) == chart[i].key = None
StandardCode == {Standard[n].code : n \in DOMAIN Standard} \cup {Moves[n].from : n \in DOMAIN Moves}

\* Two seeds at once, a tenant at work, an old chart or a new one: a seed gets
\* through and leaves every standard account at its code, unless the tenant gave
\* a code of the chart to an account of its own (accountingLedger.ts:36-37,
\* "Ordered so clearing accounts evacuate 1010/1020 before cash/bank claim them").
SeedArrives ==
  \A s \in Seed : seed[s].at \in {"failed", "done"} =>
    \/ \E i \in Id : Own(i) /\ chart[i].code \in StandardCode
    \/ /\ seed[s].at = "done"
       /\ \A n \in DOMAIN Standard : \E i \in KeyOf(Standard[n].key) : chart[i].code = Standard[n].code

SeedStep == seed' # seed

\* A seed takes back no name given to an account that already has its standard
\* code (accountingLedger.ts:37-38), closes or opens no account, touches none
\* of the tenant's own, and leaves every rule that exists as it is.
SeedKeepsEdits ==
  [][SeedStep =>
       /\ \A i \in Id : \/ chart'[i] = chart[i]
                        \/ ~Own(i) /\ chart'[i].code # chart[i].code /\ chart'[i].active = chart[i].active
       /\ \A r \in DOMAIN rules : rules'[r] = rules[r]]_vars

\* A rule a seed adds leads to the accounts that bear its keys, never to an
\* account the tenant happened to give a standard code.
SeededByKey ==
  [][SeedStep => \A r \in DOMAIN rules' \ DOMAIN rules : \A leg \in Side :
                   chart[rules'[r][leg]].key = DefaultRules[r][leg]]_vars

\* accounting.ts:64: "Every account referenced by a mapping must exist in the
\* tenant and be active".
MappedIsActive == \A r \in DOMAIN rules : \A leg \in Side : chart[rules[r][leg]].active

\* accounting-ledger.test.ts:185, "keeps the trial balance balanced": the sum
\* of the rows' debits is the sum of their credits.
RowsBalance == Sum(Shown, "debit") = Sum(Shown, "credit")
=============================================================================
