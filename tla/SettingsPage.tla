---------------------------- MODULE SettingsPage ----------------------------
(***************************************************************************)
(* The settings page (apps/admin/src/pages/settings/shared.tsx,            *)
(* LogoUploadField.tsx) over GET and PATCH /settings and POST and DELETE   *)
(* /settings/logo (apps/api/src/modules/settings.ts, readScope.ts,         *)
(* lib/storage.ts).                                                        *)
(*                                                                         *)
(* The rows of the account have no branch_id, and a NULL conflicts with    *)
(* nothing: PATCH adds a row each time, and a read takes any of the rows   *)
(* of a key.  A branch has one row per key, which overrides the account's. *)
(* A read is one query, computed when its request is sent; how late its    *)
(* answer is, is open.  A PATCH is one statement per key, outside a        *)
(* transaction.                                                            *)
(*                                                                         *)
(* The logo is a file in the storage and a row of the settings that points *)
(* at it.  It shares nothing with the other settings, so that LogoNext is  *)
(* apart from Next: a request reads the old logo, stores the file, locks   *)
(* the account (FOR UPDATE), writes, commits and sweeps the old file, and  *)
(* may fail or stop at any time.  A file's name is new for each request.   *)
(* A commit of unknown outcome is left out.                                *)
(***************************************************************************)
EXTENDS Naturals, Sequences, SequencesExt

CONSTANTS
  Admin,      \* people with the page open
  InBranch,   \* those whose user belongs to the branch
  KeyOrder,   \* the keys, as the schema lists them
  Value,
  Default,
  Null,
  MaxEdits,   \* bound: changes of fields
  MaxReloads, \* bound: reloads of the page
  Request,    \* uploads and removals of the logo
  Nobody      \* no request

Key == ToSet(KeyOrder)

SettingsAssumption ==
  /\ InBranch \subseteq Admin
  /\ Default \in [Key -> Value]
  /\ Null \notin Value
  /\ KeyOrder \in Seq(Key)
  /\ MaxEdits \in Nat /\ MaxReloads \in Nat
  /\ Nobody \notin Request

VARIABLES
  account,  \* account[k]: the values of the rows of k without a branch
  branch,   \* branch[k]: the value of the branch's row of k, or Null
  page,     \* page[a]: data, initial, saving
  request,  \* request[a]: the PATCH under way
  reloads,  \* reloads[a]: documents under way to the page
  edits,
  reloaded,
  latest,   \* history: the value written last
  entered,  \* history: values that someone entered
  typed,    \* history: typed[a][k]: entered on the page and not yet sent, or Null
  logoRows, \* the account's logo rows: id and file
  files,    \* files in the storage, each named by its request
  lock,     \* who holds the row of the account
  logoRequest

server == <<account, branch, latest>>
vars == <<server, page, request, reloads, edits, reloaded, entered, typed>>
logoVars == <<logoRows, files, lock, logoRequest>>

Document == [Key -> Value]
Untyped == [k \in Key |-> Null]
NoRequest == [at |-> "none"]

Init ==
  /\ account \in {[k \in Key |-> {}], [k \in Key |-> {Default[k]}]}
  /\ branch \in [Key -> Value \cup {Null}]
  /\ page = [a \in Admin |-> [data |-> Null, initial |-> Null, saving |-> FALSE]]
  /\ request = [a \in Admin |-> NoRequest]
  /\ reloads = [a \in Admin |-> {}]
  /\ edits = 0
  /\ reloaded = 0
  /\ latest = Default
  /\ entered = [k \in Key |-> {Default[k]}]
  /\ typed = [a \in Admin |-> Untyped]

-----------------------------------------------------------------------------
(* The server.                                                             *)

\* What a read may find for the account.
Readable(k) == IF account[k] = {} THEN {Default[k]} ELSE account[k]

\* getSettings without a branch.
AccountDocuments == {d \in Document : \A k \in Key : d[k] \in Readable(k)}

\* GET /settings reads for the user's own branch, if there is one.
Documents(a) ==
  IF a \notin InBranch
    THEN AccountDocuments
    ELSE {d \in Document : \A k \in Key :
            IF branch[k] = Null THEN d[k] \in Readable(k) ELSE d[k] = branch[k]}

\* PATCH /settings?branch_id=...
Override(k, v) ==
  /\ edits < MaxEdits
  /\ edits' = edits + 1
  /\ branch' = [branch EXCEPT ![k] = v]
  /\ UNCHANGED <<account, latest, page, request, reloads, reloaded, entered, typed>>

\* Bug: the last key is forgotten.
AllButLast(order) == Front(order)

ToWrite(order) == order

\* One key of a PATCH.
WriteKey(a) ==
  /\ request[a].at = "writing"
  /\ request[a].left # <<>>
  /\ LET k == Head(request[a].left)  v == request[a].body[k] IN
     /\ account' = [account EXCEPT ![k] = @ \cup {v}]
     /\ latest' = [latest EXCEPT ![k] = v]
  /\ request' = [request EXCEPT ![a].left = Tail(@)]
  /\ UNCHANGED <<branch, page, reloads, edits, reloaded, entered, typed>>

\* The document in the answer, which is the account's.
Reply(a) ==
  /\ request[a].at = "writing"
  /\ request[a].left = <<>>
  /\ \E d \in AccountDocuments :
       request' = [request EXCEPT ![a] = [at |-> "answered", body |-> request[a].body, data |-> d]]
  /\ UNCHANGED <<server, page, reloads, edits, reloaded, entered, typed>>

-----------------------------------------------------------------------------
(* The page.                                                               *)

\* reload: when the page opens, and when the logo has been changed.
Reload(a) ==
  /\ reloaded < MaxReloads
  /\ reloaded' = reloaded + 1
  /\ \E d \in Documents(a) : reloads' = [reloads EXCEPT ![a] = @ \cup {d}]
  /\ UNCHANGED <<server, page, request, edits, entered, typed>>

Show(a, d, saving) == page' = [page EXCEPT ![a] = [data |-> d, initial |-> d, saving |-> saving]]

ReloadAnswer(a, d) ==
  /\ d \in reloads[a]
  /\ reloads' = [reloads EXCEPT ![a] = @ \ {d}]
  /\ Show(a, d, page[a].saving)
  /\ UNCHANGED <<server, request, edits, reloaded, entered, typed>>

ReloadFails(a, d) ==
  /\ d \in reloads[a]
  /\ reloads' = [reloads EXCEPT ![a] = @ \ {d}]
  /\ UNCHANGED <<server, page, request, edits, reloaded, entered, typed>>

Dirty(a) == page[a].data # page[a].initial

\* A field is changed, also while a save is under way.
Edit(a, k, v) ==
  /\ edits < MaxEdits
  /\ edits' = edits + 1
  /\ page[a].data # Null
  /\ page' = [page EXCEPT ![a].data[k] = v]
  /\ entered' = [entered EXCEPT ![k] = @ \cup {v}]
  /\ typed' = [typed EXCEPT ![a][k] = v]
  /\ UNCHANGED <<server, request, reloads, reloaded>>

\* The button that undoes the changes, shown with the bar.
Reset(a) ==
  /\ Dirty(a) \/ page[a].saving
  /\ page' = [page EXCEPT ![a].data = page[a].initial]
  /\ typed' = [typed EXCEPT ![a] = Untyped]
  /\ UNCHANGED <<server, request, reloads, edits, reloaded, entered>>

\* The whole document is sent.
Save(a) ==
  /\ Dirty(a) /\ ~page[a].saving
  /\ page' = [page EXCEPT ![a].saving = TRUE]
  /\ request' = [request EXCEPT ![a] =
       [at |-> "writing", body |-> page[a].data, left |-> ToWrite(KeyOrder)]]
  /\ typed' = [typed EXCEPT ![a] = Untyped]
  /\ UNCHANGED <<server, reloads, edits, reloaded, entered>>

SaveAnswer(a) ==
  /\ request[a].at = "answered"
  /\ Show(a, request[a].data, FALSE)
  /\ request' = [request EXCEPT ![a] = NoRequest]
  /\ UNCHANGED <<server, reloads, edits, reloaded, entered, typed>>

\* Bug: the flag is reset by a good answer only.
SavingUntilGood(a) == TRUE

SavingAfterFailure(a) == FALSE

\* The request fails after some keys, or its answer is lost.
SaveFails(a) ==
  /\ request[a].at \in {"writing", "answered"}
  /\ request' = [request EXCEPT ![a] = NoRequest]
  /\ page' = [page EXCEPT ![a].saving = SavingAfterFailure(a)]
  /\ UNCHANGED <<server, reloads, edits, reloaded, entered, typed>>

-----------------------------------------------------------------------------
(* The logo.                                                               *)

LogoRow == [id : Request, file : Request]

LogoInit ==
  /\ logoRows = {}
  /\ files = {}
  /\ lock = Nobody
  /\ logoRequest \in [Request -> [kind : {"upload", "remove"}, at : {"new"}, old : {Nobody}, insert : {FALSE}]]

At(r, step) == logoRequest[r].at = step
Go(r, step) == logoRequest' = [logoRequest EXCEPT ![r].at = step]

\* getSettings: any of the rows, if there are several; the default has no file.
ReadLogo(r) ==
  /\ At(r, "new")
  /\ \E old \in IF logoRows = {} THEN {Nobody} ELSE {row.file : row \in logoRows} :
       logoRequest' = [logoRequest EXCEPT
         ![r].at = IF logoRequest[r].kind = "upload" THEN "read" ELSE "stored", ![r].old = old]
  /\ UNCHANGED <<logoRows, files, lock>>

StoreFile(r) ==
  /\ At(r, "read")
  /\ files' = files \cup {r}
  /\ Go(r, "stored")
  /\ UNCHANGED <<logoRows, lock>>

\* Bug: the account is read without FOR UPDATE.
LockFreeAlways(r) == TRUE

LockFree(r) == lock = Nobody

LockAccount(r) ==
  /\ At(r, "stored")
  /\ LockFree(r)
  /\ lock' = r
  /\ Go(r, "locked")
  /\ UNCHANGED <<logoRows, files>>

\* setAccountLogo: an UPDATE, and an INSERT when it met no row.
WriteLogoRow(r) ==
  /\ At(r, "locked")
  /\ logoRequest' = [logoRequest EXCEPT ![r].at = "written", ![r].insert = (logoRows = {})]
  /\ UNCHANGED <<logoRows, files, lock>>

Unlocked(r) == IF lock = r THEN Nobody ELSE lock

CommitLogo(r) ==
  /\ At(r, "written")
  /\ logoRows' = IF logoRequest[r].kind = "remove" THEN {}
                 ELSE IF logoRequest[r].insert THEN logoRows \cup {[id |-> r, file |-> r]}
                 ELSE {[row EXCEPT !.file = r] : row \in logoRows}
  /\ lock' = Unlocked(r)
  /\ Go(r, "committed")
  /\ UNCHANGED files

\* Bug: the old file is deleted as soon as the new one is stored.
MaySweepEarly(r) == logoRequest[r].at \in {"stored", "committed"}

MaySweep(r) == At(r, "committed")

\* The old file is deleted, or the deletion fails and is ignored.
SweepLogo(r) ==
  /\ MaySweep(r)
  /\ files' \in {files, files \ {logoRequest[r].old}}
  /\ logoRequest' = [logoRequest EXCEPT
       ![r].at = IF @ = "committed" THEN "done" ELSE @, ![r].old = Nobody]
  /\ UNCHANGED <<logoRows, lock>>

\* An error before the commit: rollback, and the new file is deleted.
LogoFails(r) ==
  /\ logoRequest[r].at \in {"new", "read", "stored", "locked", "written"}
  /\ files' \in {files, files \ {r}}
  /\ lock' = Unlocked(r)
  /\ Go(r, "done")
  /\ UNCHANGED logoRows

\* The process stops: rollback, and the files stay.
LogoStops(r) ==
  /\ logoRequest[r].at # "done"
  /\ lock' = Unlocked(r)
  /\ Go(r, "done")
  /\ UNCHANGED <<logoRows, files>>

LogoNext == \E r \in Request :
  \/ ReadLogo(r) \/ StoreFile(r) \/ LockAccount(r) \/ WriteLogoRow(r)
  \/ CommitLogo(r) \/ SweepLogo(r) \/ LogoFails(r) \/ LogoStops(r)

-----------------------------------------------------------------------------

Next ==
  \/ \E k \in Key, v \in Value : Override(k, v)
  \/ \E a \in Admin :
       \/ WriteKey(a) \/ Reply(a) \/ Reload(a) \/ Reset(a)
       \/ Save(a) \/ SaveAnswer(a) \/ SaveFails(a)
       \/ \E d \in Document : ReloadAnswer(a, d) \/ ReloadFails(a, d)
       \/ \E k \in Key, v \in Value : Edit(a, k, v)

\* A request is worked on and ends.
Fairness == \A a \in Admin : WF_vars(WriteKey(a) \/ Reply(a) \/ SaveAnswer(a) \/ SaveFails(a))

Spec ==
  /\ Init /\ LogoInit
  /\ [][\/ Next /\ UNCHANGED logoVars
        \/ LogoNext /\ UNCHANGED vars]_<<vars, logoVars>>
  /\ Fairness

-----------------------------------------------------------------------------

\* A save that is answered with success has stored the whole document, whoever
\* else saves, and whatever fails, at the same time.
SavedInWhole ==
  \A a \in Admin : request[a].at = "answered" =>
    \A k \in Key : request[a].body[k] \in account[k]

\* The settings never point at a file that is not there, however uploads and removals
\* overlap, fail or stop half-way.
LogoStored == \A row \in logoRows : row.file \in files

\* The unique index does not cover rows without a branch; the lock of the account
\* keeps the logo to one row nevertheless.
OneLogoRow == \A x, y \in logoRows : x = y

\* What holds of the logo at any time.
LogoStands == LogoStored /\ OneLogoRow

\* The page never stays in "saving", in which no save can be started.
SavingEnds == \A a \in Admin : page[a].saving ~> ~page[a].saving

\* "PATCH updates the values" (settings.test.ts:63): a read finds the value that was
\* stored last.
SettingTakesEffect == \A k \in Key : Readable(k) = {latest[k]}

\* "Real dirty state" (shared.tsx:9): what was entered stays on the screen until it is
\* sent or undone.
EditsKept ==
  \A a \in Admin, k \in Key : typed[a][k] # Null => page[a].data[k] = typed[a][k]

\* "defaults <- account-level <- branch-level" (settings.ts:261): the override of a
\* branch does not become the value of the account without somebody entering it.
OverrideStays == \A k \in Key : account[k] \subseteq entered[k]
=============================================================================
