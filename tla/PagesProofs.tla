----------------------------- MODULE PagesProofs -----------------------------
(***************************************************************************)
(* Proofs about the pages that list, report, count and set, for any        *)
(* branches, rows, filters, keys, people and items, and any bounds.  The   *)
(* pages share no state, so that each is proved by an inductive invariant  *)
(* of its own.                                                             *)
(***************************************************************************)
EXTENDS MCPages, Sums, SequenceTheorems, TLAPS

-----------------------------------------------------------------------------
(* The logo.  The invariant says who may still delete which file: the old  *)
(* file of a request is one that was committed, and once the request has   *)
(* committed nothing points at it any more; this needs that whoever writes *)
(* holds the lock, and that a row that is to be inserted finds no other.   *)

LEMMA NobodyIsNone == Nobody \notin Request
BY SuiteAssumption DEF SuiteAssumption, Settings!SettingsAssumption

LogoSteps == {"new", "read", "stored", "locked", "written", "committed", "done"}

LogoType ==
  /\ logoRows \subseteq Settings!LogoRow
  /\ files \subseteq Request
  /\ logoRequest \in [Request -> [kind : {"upload", "remove"}, at : LogoSteps,
                              old : Request \cup {Nobody}, insert : BOOLEAN]]

Over(r) == logoRequest[r].at \in {"committed", "done"}

\* What rows point at, and what requests would delete, was committed.
Settled ==
  /\ \A row \in logoRows : Over(row.file)
  /\ \A r \in Request : logoRequest[r].old \in Request => Over(logoRequest[r].old)

\* A request that has not committed has its file, and only one that has may sweep.
Held ==
  /\ \A r \in Request :
       logoRequest[r].kind = "upload" /\ logoRequest[r].at \in {"stored", "locked", "written"} => r \in files
  /\ \A r \in Request, row \in logoRows : Settings!At(r, "committed") => row.file # logoRequest[r].old

Locked ==
  /\ \A r \in Request : logoRequest[r].at \in {"locked", "written"} => lock = r
  /\ \A r \in Request : Settings!At(r, "written") /\ logoRequest[r].insert => logoRows = {}

LogoInv == LogoType /\ Settled /\ Held /\ Locked /\ Settings!LogoStored /\ Settings!OneLogoRow

\* The invariant holds initially.
LEMMA LogoInitInv == Settings!LogoInit => LogoInv
  BY NobodyIsNone DEF Settings!LogoInit, LogoInv, LogoType, Settled, Held, Locked, Settings!LogoStored, Settings!OneLogoRow, Over, Settings!At, LogoSteps, Settings!LogoRow

\* What a step does to the records of the requests.
OtherRequests(r) == \A q \in Request \ {r} : logoRequest'[q] = logoRequest[q]
SameKind(r) == logoRequest'[r].kind = logoRequest[r].kind

\* Every step keeps it.
LEMMA LogoStepInv == LogoInv /\ [Settings!LogoNext]_logoVars => LogoInv'
<1> SUFFICES ASSUME LogoInv, [Settings!LogoNext]_logoVars PROVE LogoInv'
  OBVIOUS
<1> USE NobodyIsNone
<1>1. ASSUME NEW r \in Request, Settings!ReadLogo(r) PROVE LogoInv'
  <2>1. /\ logoRequest' \in [Request -> [kind : {"upload", "remove"}, at : LogoSteps,
                                   old : Request \cup {Nobody}, insert : BOOLEAN]]
        /\ OtherRequests(r) /\ SameKind(r)
        /\ logoRequest'[r].at \in {"read", "stored"} /\ (logoRequest[r].kind = "upload" => logoRequest'[r].at = "read")
            /\ (logoRequest'[r].old = Nobody \/ \E row \in logoRows : logoRequest'[r].old = row.file)
    <3>1. PICK old \in {Nobody} \cup {row.file : row \in logoRows} :
            logoRequest' = [logoRequest EXCEPT ![r].at = IF logoRequest[r].kind = "upload" THEN "read" ELSE "stored",
                                       ![r].old = old]
      BY <1>1 DEF Settings!ReadLogo
    <3>2. old = Nobody \/ \E row \in logoRows : old = row.file
      OBVIOUS
    <3>3. old \in Request \cup {Nobody}
      BY <3>2 DEF LogoInv, LogoType, Settings!LogoRow
    <3> QED
      BY <3>1, <3>2, <3>3 DEF OtherRequests, SameKind, LogoInv, LogoType, LogoSteps
  <2>2. LogoType'
    BY <1>1, <2>1 DEF Settings!ReadLogo, LogoInv, LogoType, Settings!LogoRow
  <2>3. Settled'
    BY <1>1, <2>1 DEF Settings!ReadLogo, LogoInv, LogoType, Settled, Over, Settings!At, OtherRequests, Settings!LogoRow
  <2>4. Held'
    BY <1>1, <2>1 DEF Settings!ReadLogo, LogoInv, LogoType, Settled, Held, Locked, Over, Settings!At, OtherRequests, SameKind, Settings!LogoRow
  <2>5. Locked'
    BY <1>1, <2>1 DEF Settings!ReadLogo, LogoInv, LogoType, Locked, Settings!At, OtherRequests, Settings!LogoRow
  <2>6. Settings!LogoStored' /\ Settings!OneLogoRow'
    BY <1>1, <2>1 DEF Settings!ReadLogo, LogoInv, LogoType, Settled, Held, Locked, Settings!LogoStored, Settings!OneLogoRow, Over, Settings!At, Settings!LogoRow
  <2> QED
    BY <2>2, <2>3, <2>4, <2>5, <2>6 DEF LogoInv
<1>2. ASSUME NEW r \in Request, Settings!StoreFile(r) PROVE LogoInv'
  <2>1. /\ logoRequest' \in [Request -> [kind : {"upload", "remove"}, at : LogoSteps,
                                   old : Request \cup {Nobody}, insert : BOOLEAN]]
        /\ OtherRequests(r) /\ SameKind(r)
        /\ logoRequest'[r].at = "stored" /\ logoRequest'[r].old = logoRequest[r].old
    BY <1>2 DEF Settings!StoreFile, Settings!Go, OtherRequests, SameKind, LogoInv, LogoType, LogoSteps, Settings!At, Settings!LogoRow
  <2>2. LogoType'
    BY <1>2, <2>1 DEF Settings!StoreFile, Settings!Go, LogoInv, LogoType, Settings!LogoRow
  <2>3. Settled'
    BY <1>2, <2>1 DEF Settings!StoreFile, Settings!Go, LogoInv, LogoType, Settled, Over, Settings!At, OtherRequests, Settings!LogoRow
  <2>4. Held'
    BY <1>2, <2>1 DEF Settings!StoreFile, Settings!Go, LogoInv, LogoType, Settled, Held, Locked, Over, Settings!At, OtherRequests, SameKind, Settings!LogoRow
  <2>5. Locked'
    BY <1>2, <2>1 DEF Settings!StoreFile, Settings!Go, LogoInv, LogoType, Locked, Settings!At, OtherRequests, Settings!LogoRow
  <2>6. Settings!LogoStored' /\ Settings!OneLogoRow'
    BY <1>2, <2>1 DEF Settings!StoreFile, Settings!Go, LogoInv, LogoType, Settled, Held, Locked, Settings!LogoStored, Settings!OneLogoRow, Over, Settings!At, Settings!LogoRow
  <2> QED
    BY <2>2, <2>3, <2>4, <2>5, <2>6 DEF LogoInv
<1>3. ASSUME NEW r \in Request, Settings!LockAccount(r) PROVE LogoInv'
  <2>1. /\ logoRequest' \in [Request -> [kind : {"upload", "remove"}, at : LogoSteps,
                                   old : Request \cup {Nobody}, insert : BOOLEAN]]
        /\ OtherRequests(r) /\ SameKind(r)
        /\ logoRequest'[r].at = "locked" /\ logoRequest'[r].old = logoRequest[r].old
    BY <1>3 DEF Settings!LockAccount, Settings!LockFree, Settings!Go, OtherRequests, SameKind, LogoInv, LogoType, LogoSteps, Settings!At, Settings!LogoRow
  <2>2. LogoType'
    BY <1>3, <2>1 DEF Settings!LockAccount, Settings!LockFree, Settings!Go, LogoInv, LogoType, Settings!LogoRow
  <2>3. Settled'
    BY <1>3, <2>1 DEF Settings!LockAccount, Settings!LockFree, Settings!Go, LogoInv, LogoType, Settled, Over, Settings!At, OtherRequests, Settings!LogoRow
  <2>4. Held'
    BY <1>3, <2>1 DEF Settings!LockAccount, Settings!LockFree, Settings!Go, LogoInv, LogoType, Settled, Held, Locked, Over, Settings!At, OtherRequests, SameKind, Settings!LogoRow
  <2>5. Locked'
    BY <1>3, <2>1 DEF Settings!LockAccount, Settings!LockFree, Settings!Go, LogoInv, LogoType, Locked, Settings!At, OtherRequests, Settings!LogoRow
  <2>6. Settings!LogoStored' /\ Settings!OneLogoRow'
    BY <1>3, <2>1 DEF Settings!LockAccount, Settings!LockFree, Settings!Go, LogoInv, LogoType, Settled, Held, Locked, Settings!LogoStored, Settings!OneLogoRow, Over, Settings!At, Settings!LogoRow
  <2> QED
    BY <2>2, <2>3, <2>4, <2>5, <2>6 DEF LogoInv
<1>4. ASSUME NEW r \in Request, Settings!WriteLogoRow(r) PROVE LogoInv'
  <2>1. /\ logoRequest' \in [Request -> [kind : {"upload", "remove"}, at : LogoSteps,
                                   old : Request \cup {Nobody}, insert : BOOLEAN]]
        /\ OtherRequests(r) /\ SameKind(r)
        /\ logoRequest'[r].at = "written" /\ logoRequest'[r].old = logoRequest[r].old /\ logoRequest'[r].insert = (logoRows = {})
    BY <1>4 DEF Settings!WriteLogoRow, OtherRequests, SameKind, LogoInv, LogoType, LogoSteps, Settings!At, Settings!LogoRow
  <2>2. LogoType'
    BY <1>4, <2>1 DEF Settings!WriteLogoRow, LogoInv, LogoType, Settings!LogoRow
  <2>3. Settled'
    BY <1>4, <2>1 DEF Settings!WriteLogoRow, LogoInv, LogoType, Settled, Over, Settings!At, OtherRequests, Settings!LogoRow
  <2>4. Held'
    BY <1>4, <2>1 DEF Settings!WriteLogoRow, LogoInv, LogoType, Settled, Held, Locked, Over, Settings!At, OtherRequests, SameKind, Settings!LogoRow
  <2>5. Locked'
    BY <1>4, <2>1 DEF Settings!WriteLogoRow, LogoInv, LogoType, Locked, Settings!At, OtherRequests, Settings!LogoRow
  <2>6. Settings!LogoStored' /\ Settings!OneLogoRow'
    BY <1>4, <2>1 DEF Settings!WriteLogoRow, LogoInv, LogoType, Settled, Held, Locked, Settings!LogoStored, Settings!OneLogoRow, Over, Settings!At, Settings!LogoRow
  <2> QED
    BY <2>2, <2>3, <2>4, <2>5, <2>6 DEF LogoInv
<1>5. ASSUME NEW r \in Request, Settings!CommitLogo(r) PROVE LogoInv'
  <2>1. /\ logoRequest' \in [Request -> [kind : {"upload", "remove"}, at : LogoSteps,
                                   old : Request \cup {Nobody}, insert : BOOLEAN]]
        /\ OtherRequests(r) /\ SameKind(r)
        /\ logoRequest'[r].at = "committed" /\ logoRequest'[r].old = logoRequest[r].old
    BY <1>5 DEF Settings!CommitLogo, Settings!Go, Settings!Unlocked, OtherRequests, SameKind, LogoInv, LogoType, LogoSteps, Settings!At, Settings!LogoRow
  <2>2. LogoType'
    BY <1>5, <2>1 DEF Settings!CommitLogo, Settings!Go, Settings!Unlocked, LogoInv, LogoType, Settings!LogoRow
  <2>3. Settled'
    BY <1>5, <2>1 DEF Settings!CommitLogo, Settings!Go, Settings!Unlocked, LogoInv, LogoType, Settled, Over, Settings!At, OtherRequests, Settings!LogoRow
  <2>4. Held'
    BY <1>5, <2>1 DEF Settings!CommitLogo, Settings!Go, Settings!Unlocked, LogoInv, LogoType, Settled, Held, Locked, Over, Settings!At, OtherRequests, SameKind, Settings!LogoRow
  <2>5. Locked'
    BY <1>5, <2>1 DEF Settings!CommitLogo, Settings!Go, Settings!Unlocked, LogoInv, LogoType, Locked, Settings!At, OtherRequests, Settings!LogoRow
  <2>6. Settings!LogoStored' /\ Settings!OneLogoRow'
    <3>1. CASE logoRequest[r].kind = "remove"
      BY <1>5, <3>1 DEF Settings!CommitLogo, Settings!LogoStored, Settings!OneLogoRow
    <3>2. CASE logoRequest[r].kind = "upload"
      <4>1. r \in files /\ files' = files
        BY <1>5, <3>2 DEF Settings!CommitLogo, Settings!At, LogoInv, Held
      <4>2. \A x \in logoRows' : x.file = r /\ (logoRequest[r].insert => x = [id |-> r, file |-> r])
        BY <1>5, <3>2 DEF Settings!CommitLogo, Settings!At, LogoInv, LogoType, Locked, Settings!LogoRow
      <4>3. \A x, y \in logoRows' : x = y
        BY <1>5, <3>2, <4>2 DEF Settings!CommitLogo, Settings!At, LogoInv, Locked, Settings!OneLogoRow
      <4> QED
        BY <4>1, <4>2, <4>3 DEF Settings!LogoStored, Settings!OneLogoRow
    <3> QED
      BY <3>1, <3>2 DEF LogoInv, LogoType
  <2> QED
    BY <2>2, <2>3, <2>4, <2>5, <2>6 DEF LogoInv
<1>6. ASSUME NEW r \in Request, Settings!SweepLogo(r) PROVE LogoInv'
  <2>1. /\ logoRequest' \in [Request -> [kind : {"upload", "remove"}, at : LogoSteps,
                                   old : Request \cup {Nobody}, insert : BOOLEAN]]
        /\ OtherRequests(r) /\ SameKind(r)
        /\ logoRequest'[r].at = "done" /\ logoRequest'[r].old = Nobody
    BY <1>6 DEF Settings!SweepLogo, Settings!MaySweep, OtherRequests, SameKind, LogoInv, LogoType, LogoSteps, Settings!At, Settings!LogoRow
  <2>2. LogoType'
    BY <1>6, <2>1 DEF Settings!SweepLogo, Settings!MaySweep, LogoInv, LogoType, Settings!LogoRow
  <2>3. Settled'
    BY <1>6, <2>1 DEF Settings!SweepLogo, Settings!MaySweep, LogoInv, LogoType, Settled, Over, Settings!At, OtherRequests, Settings!LogoRow
  <2>4. Held'
    BY <1>6, <2>1 DEF Settings!SweepLogo, Settings!MaySweep, LogoInv, LogoType, Settled, Held, Locked, Over, Settings!At, OtherRequests, SameKind, Settings!LogoRow
  <2>5. Locked'
    BY <1>6, <2>1 DEF Settings!SweepLogo, Settings!MaySweep, LogoInv, LogoType, Locked, Settings!At, OtherRequests, Settings!LogoRow
  <2>6. Settings!LogoStored' /\ Settings!OneLogoRow'
    BY <1>6, <2>1 DEF Settings!SweepLogo, Settings!MaySweep, LogoInv, LogoType, Settled, Held, Locked, Settings!LogoStored, Settings!OneLogoRow, Over, Settings!At, Settings!LogoRow
  <2> QED
    BY <2>2, <2>3, <2>4, <2>5, <2>6 DEF LogoInv
<1>7. ASSUME NEW r \in Request, Settings!LogoFails(r) PROVE LogoInv'
  <2>1. /\ logoRequest' \in [Request -> [kind : {"upload", "remove"}, at : LogoSteps,
                                   old : Request \cup {Nobody}, insert : BOOLEAN]]
        /\ OtherRequests(r) /\ SameKind(r)
        /\ logoRequest'[r].at = "done" /\ logoRequest'[r].old = logoRequest[r].old
    BY <1>7 DEF Settings!LogoFails, Settings!Go, Settings!Unlocked, OtherRequests, SameKind, LogoInv, LogoType, LogoSteps, Settings!At, Settings!LogoRow
  <2>2. LogoType'
    BY <1>7, <2>1 DEF Settings!LogoFails, Settings!Go, Settings!Unlocked, LogoInv, LogoType, Settings!LogoRow
  <2>3. Settled'
    BY <1>7, <2>1 DEF Settings!LogoFails, Settings!Go, Settings!Unlocked, LogoInv, LogoType, Settled, Over, Settings!At, OtherRequests, Settings!LogoRow
  <2>4. Held'
    BY <1>7, <2>1 DEF Settings!LogoFails, Settings!Go, Settings!Unlocked, LogoInv, LogoType, Settled, Held, Locked, Over, Settings!At, OtherRequests, SameKind, Settings!LogoRow
  <2>5. Locked'
    BY <1>7, <2>1 DEF Settings!LogoFails, Settings!Go, Settings!Unlocked, LogoInv, LogoType, Locked, Settings!At, OtherRequests, Settings!LogoRow
  <2>6. Settings!LogoStored' /\ Settings!OneLogoRow'
    BY <1>7, <2>1 DEF Settings!LogoFails, Settings!Go, Settings!Unlocked, LogoInv, LogoType, Settled, Held, Locked, Settings!LogoStored, Settings!OneLogoRow, Over, Settings!At, Settings!LogoRow
  <2> QED
    BY <2>2, <2>3, <2>4, <2>5, <2>6 DEF LogoInv
<1>8. ASSUME NEW r \in Request, Settings!LogoStops(r) PROVE LogoInv'
  <2>1. /\ logoRequest' \in [Request -> [kind : {"upload", "remove"}, at : LogoSteps,
                                   old : Request \cup {Nobody}, insert : BOOLEAN]]
        /\ OtherRequests(r) /\ SameKind(r)
        /\ logoRequest'[r].at = "done" /\ logoRequest'[r].old = logoRequest[r].old
    BY <1>8 DEF Settings!LogoStops, Settings!Go, Settings!Unlocked, OtherRequests, SameKind, LogoInv, LogoType, LogoSteps, Settings!At, Settings!LogoRow
  <2>2. LogoType'
    BY <1>8, <2>1 DEF Settings!LogoStops, Settings!Go, Settings!Unlocked, LogoInv, LogoType, Settings!LogoRow
  <2>3. Settled'
    BY <1>8, <2>1 DEF Settings!LogoStops, Settings!Go, Settings!Unlocked, LogoInv, LogoType, Settled, Over, Settings!At, OtherRequests, Settings!LogoRow
  <2>4. Held'
    BY <1>8, <2>1 DEF Settings!LogoStops, Settings!Go, Settings!Unlocked, LogoInv, LogoType, Settled, Held, Locked, Over, Settings!At, OtherRequests, SameKind, Settings!LogoRow
  <2>5. Locked'
    BY <1>8, <2>1 DEF Settings!LogoStops, Settings!Go, Settings!Unlocked, LogoInv, LogoType, Locked, Settings!At, OtherRequests, Settings!LogoRow
  <2>6. Settings!LogoStored' /\ Settings!OneLogoRow'
    BY <1>8, <2>1 DEF Settings!LogoStops, Settings!Go, Settings!Unlocked, LogoInv, LogoType, Settled, Held, Locked, Settings!LogoStored, Settings!OneLogoRow, Over, Settings!At, Settings!LogoRow
  <2> QED
    BY <2>2, <2>3, <2>4, <2>5, <2>6 DEF LogoInv
<1>9. CASE UNCHANGED logoVars
  BY <1>9 DEF logoVars, LogoInv, LogoType, Settled, Held, Locked, Settings!LogoStored, Settings!OneLogoRow, Over, Settings!At
<1> QED
  BY <1>1, <1>2, <1>3, <1>4, <1>5, <1>6, <1>7, <1>8, <1>9 DEF Settings!LogoNext

\* Other parts leave the logo as it is.
LEMMA LogoMovesAlone == [SuiteNext]_suiteVars => [Settings!LogoNext]_logoVars
BY DEF SuiteNext, suiteVars, logoVars

\* The account has at most one logo row, and its file is there, whatever uploads and
\* removals are under way, fail or stop (settings.ts, POST and DELETE /settings/logo).
THEOREM LogoStandsAlways == SuiteSpec => []LogoStands
<1>1. SuiteInit => LogoInv
  BY LogoInitInv DEF SuiteInit
<1>2. LogoInv /\ [SuiteNext]_suiteVars => LogoInv'
  BY LogoMovesAlone, LogoStepInv
<1>3. LogoInv => LogoStands
  BY DEF LogoInv, LogoStands, Settings!LogoStands
<1> QED
  BY <1>1, <1>2, <1>3, PTL DEF SuiteSpec

-----------------------------------------------------------------------------
(* Settings.  A save that has come to a key has written those before it,   *)
(* and nothing removes what was written.                                   *)

\* A save under way: each key is written or still to come.
SaveOn(x, rows) ==
  /\ x = [at |-> "writing", body |-> x.body, left |-> x.left]
  /\ x.left \in Seq(Settings!Key)
  /\ \A k \in Settings!Key : k \in Settings!ToSet(x.left) \/ x.body[k] \in rows[k]

SavedInv ==
  /\ account = [k \in Settings!Key |-> account[k]]
  /\ saveRequest = [a \in Admin |-> saveRequest[a]]
  /\ \A a \in Admin : saveRequest[a].at = "writing" => SaveOn(saveRequest[a], account)
  /\ Settings!SavedInWhole

LEMMA SavedInitInv == Settings!Init => SavedInv
BY DEF Settings!Init, Settings!NoRequest, SavedInv, Settings!SavedInWhole

\* The keys of a sequence that is not empty are its first and those of the rest.
LEMMA HeadOrTail ==
  ASSUME NEW S, NEW s \in Seq(S), s # <<>>
  PROVE  /\ Head(s) \in S /\ Tail(s) \in Seq(S)
         /\ Settings!ToSet(s) = {Head(s)} \cup Settings!ToSet(Tail(s))
<1>1. Head(s) \in S /\ Tail(s) \in Seq(S) /\ Head(s) = s[1] /\ Len(s) \in Nat \ {0}
  OBVIOUS
<1>2. /\ DOMAIN s = 1..Len(s) /\ DOMAIN Tail(s) = 1..(Len(s) - 1)
      /\ \A i \in 1..(Len(s) - 1) : Tail(s)[i] = s[i + 1]
  BY <1>1
<1>3. \A i \in 1..Len(s) : i = 1 \/ (i - 1 \in 1..(Len(s) - 1) /\ s[i] = Tail(s)[i - 1])
  BY <1>1, <1>2
<1>4. \A i \in 1..(Len(s) - 1) : i + 1 \in 1..Len(s)
  BY <1>1
<1>5. Settings!ToSet(s) = {s[i] : i \in 1..Len(s)} /\ Settings!ToSet(Tail(s)) = {Tail(s)[i] : i \in 1..(Len(s) - 1)}
  BY <1>2 DEF Settings!ToSet
<1>6. ASSUME NEW k \in Settings!ToSet(s) PROVE k = Head(s) \/ k \in Settings!ToSet(Tail(s))
  BY <1>1, <1>3, <1>5
<1>7. Head(s) \in Settings!ToSet(s)
  BY <1>1, <1>5
<1>8. Settings!ToSet(Tail(s)) \subseteq Settings!ToSet(s)
  BY <1>2, <1>4, <1>5
<1> QED
  BY <1>1, <1>6, <1>7, <1>8

LEMMA SavedStepInv == SavedInv /\ [Settings!Next]_settingsVars => SavedInv'
<1> SUFFICES ASSUME SavedInv, [Settings!Next]_settingsVars
             PROVE  SavedInv'
  OBVIOUS
<1>1. ASSUME account' = account, saveRequest' = saveRequest
      PROVE  SavedInv'
  BY <1>1 DEF SavedInv, SaveOn, Settings!SavedInWhole
\* The requests of others keep what they have, as values are only added.
<1>2. ASSUME NEW a \in Admin, NEW x, saveRequest' = [saveRequest EXCEPT ![a] = x],
             account' = [k \in Settings!Key |-> account'[k]],
             \A k \in Settings!Key : account[k] \subseteq account'[k],
             x.at = "writing" => SaveOn(x, account'),
             x.at = "answered" => \A k \in Settings!Key : x.body[k] \in account'[k]
      PROVE  SavedInv'
  <2>1. saveRequest' = [b \in Admin |-> saveRequest'[b]] /\ saveRequest'[a] = x
    BY <1>2 DEF SavedInv
  <2>2. \A b \in Admin : b # a => saveRequest'[b] = saveRequest[b]
    BY <1>2 DEF SavedInv
  <2>3. \A b \in Admin : b # a /\ saveRequest[b].at = "writing" => SaveOn(saveRequest[b], account')
    BY <1>2, <2>2 DEF SavedInv, SaveOn
  <2>4. \A b \in Admin : saveRequest'[b].at = "writing" => SaveOn(saveRequest'[b], account')
    BY <1>2, <2>1, <2>2, <2>3 DEF SaveOn
  <2>5. Settings!SavedInWhole'
    BY <1>2, <2>1, <2>2 DEF SavedInv, Settings!SavedInWhole
  <2> QED
    BY <1>2, <2>1, <2>4, <2>5 DEF SavedInv
<1>3. ASSUME NEW a \in Admin, Settings!WriteKey(a)
      PROVE  SavedInv'
  <2> DEFINE x == saveRequest[a]
             k == Head(x.left)
             y == [at |-> "writing", body |-> x.body, left |-> Tail(x.left)]
  <2>1. SaveOn(x, account) /\ x.left # <<>>
    BY <1>3 DEF Settings!WriteKey, SavedInv
  <2>2. k \in Settings!Key /\ Tail(x.left) \in Seq(Settings!Key)
        /\ Settings!ToSet(x.left) = {k} \cup Settings!ToSet(Tail(x.left))
    BY <2>1, HeadOrTail DEF SaveOn
  <2>3. account' = [account EXCEPT ![k] = @ \cup {x.body[k]}]
    BY <1>3 DEF Settings!WriteKey
  <2>4. account' = [j \in Settings!Key |-> account'[j]] /\ \A j \in Settings!Key : account[j] \subseteq account'[j]
    BY <2>2, <2>3 DEF SavedInv
  <2>5. saveRequest' = [saveRequest EXCEPT ![a] = y]
    <3>1. saveRequest' = [saveRequest EXCEPT ![a] = [x EXCEPT !.left = Tail(@)]]
      BY <1>3 DEF Settings!WriteKey
    <3>2. x = [at |-> "writing", body |-> x.body, left |-> x.left]
      BY <2>1 DEF SaveOn
    <3>3. PICK z : z = saveRequest[a]
      OBVIOUS
    <3>4. PICK B, L : z \in [at : {"writing"}, body : B, left : L]
      <4>1. z \in [at : {"writing"}, body : {z.body}, left : {z.left}]
        BY <3>2, <3>3
      <4> QED
        BY <4>1
    <3>5. PICK rest : rest = Tail(z.left)
      OBVIOUS
    <3>6. [z EXCEPT !.left = rest] = [at |-> "writing", body |-> z.body, left |-> rest]
      BY <3>4
    <3> QED
      BY <3>1, <3>3, <3>5, <3>6
  <2>6. x.body[k] \in account'[k]
    BY <2>2, <2>3 DEF SavedInv
  <2>7. SaveOn(y, account')
    BY <2>1, <2>2, <2>4, <2>6 DEF SaveOn
  <2> HIDE DEF y
  <2>8. y.at = "writing"
    BY DEF y
  <2> QED
    BY <1>2, <2>4, <2>5, <2>7, <2>8
<1>4. ASSUME NEW a \in Admin, Settings!Reply(a)
      PROVE  SavedInv'
  <2> DEFINE x == saveRequest[a]
  <2>1. SaveOn(x, account) /\ x.left = <<>> /\ account' = account
    BY <1>4 DEF Settings!Reply, SavedInv, Settings!server
  <2>2. \A k \in Settings!Key : x.body[k] \in account[k]
    BY <2>1 DEF SaveOn, Settings!ToSet
  <2>3. PICK d \in Settings!AccountDocuments :
          saveRequest' = [saveRequest EXCEPT ![a] = [at |-> "answered", body |-> x.body, data |-> d]]
    BY <1>4 DEF Settings!Reply
  <2> QED
    BY <1>2, <2>1, <2>2, <2>3 DEF SavedInv
<1>5. ASSUME NEW a \in Admin, Settings!Save(a)
      PROVE  SavedInv'
  <2> DEFINE y == [at |-> "writing", body |-> settingsPage[a].data, left |-> KeyOrder]
  <2>1. account' = account /\ saveRequest' = [saveRequest EXCEPT ![a] = y]
    BY <1>5 DEF Settings!Save, Settings!ToWrite, Settings!server
  <2>2. SaveOn(y, account')
    BY SuiteAssumption DEF SuiteAssumption, Settings!SettingsAssumption, SaveOn, Settings!Key
  <2> QED
    BY <1>2, <2>1, <2>2 DEF SavedInv
<1>6. ASSUME NEW a \in Admin, Settings!SaveAnswer(a) \/ Settings!SaveFails(a)
      PROVE  SavedInv'
  <2>1. account' = account /\ saveRequest' = [saveRequest EXCEPT ![a] = [at |-> "none"]]
    BY <1>6 DEF Settings!SaveAnswer, Settings!SaveFails, Settings!NoRequest, Settings!server
  <2> QED
    BY <1>2, <2>1 DEF SavedInv
<1>7. ASSUME \/ \E k \in Settings!Key, v \in Value : Settings!Override(k, v)
             \/ \E a \in Admin :
                  \/ Settings!Reload(a) \/ Settings!Reset(a)
                  \/ \E d \in Settings!Document : Settings!ReloadAnswer(a, d) \/ Settings!ReloadFails(a, d)
                  \/ \E k \in Settings!Key, v \in Value : Settings!Edit(a, k, v)
      PROVE  account' = account /\ saveRequest' = saveRequest
  BY <1>7 DEF Settings!Override, Settings!Reload, Settings!Reset, Settings!ReloadAnswer, Settings!ReloadFails,
              Settings!Edit, Settings!server
<1>8. CASE UNCHANGED settingsVars
  BY <1>1, <1>8 DEF settingsVars
<1> QED
  BY <1>1, <1>3, <1>4, <1>5, <1>6, <1>7, <1>8 DEF Settings!Next

LEMMA SettingsMoveAlone == [SuiteNext]_suiteVars => [Settings!Next]_settingsVars
BY DEF SuiteNext, suiteVars, settingsVars

-----------------------------------------------------------------------------
(* The count sheet.  What a sheet has stored agrees with the rows that its *)
(* loop or retry was given, and those agree with the rows on the screen;   *)
(* a key names its sheet and its item.                                     *)

SheetKeys == (Nat \X Nat \X Item) \cup {None}
RowStatus == {"pending", "sending", "failed", "success"}
SheetRows == [counted : Counting!Quantity, key : SheetKeys, status : RowStatus]
SheetSenders ==
  [page : Nat, why : {"all", "one"}, todo : Seq(Item), rows : [Item -> SheetRows \cup {None}], waits : BOOLEAN]
SheetCounts == [key : SheetKeys, sheet : 1..MaxSheets, item : Item, counted : Counting!Quantity]

SheetType ==
  /\ counts \subseteq SheetCounts
  /\ mounting \in Nat /\ sheet \in 0..MaxSheets /\ located \in Nat
  /\ phase \in Counting!Phase
  /\ inputs \in [Item -> Counting!Quantity \cup {None}]
  /\ keys \in [Item -> SheetKeys]
  /\ execRows \in [Item -> SheetRows \cup {None}]
  /\ senders \in [1..MaxSheets -> SheetSenders \cup {None}]

\* A row of item i on sheet s.
RowOf(r, s, i) == r \in SheetRows /\ (r.key # None => r.key[1] = s /\ r.key[3] = i)

SameCount(r, q) == r.counted = q.counted /\ r.key = q.key

\* What is on the screen is of this sheet.
ScreenOfSheet ==
  /\ phase # "closed" => sheet > 0
  /\ phase = "closed" => keys = Counting!Blank
  /\ phase # "execute" => execRows = Counting!Blank
  /\ \A i \in Item : keys[i] # None => keys[i][1] = sheet /\ keys[i][3] = i
  /\ \A i \in Item : execRows[i] # None => RowOf(execRows[i], sheet, i)

\* A loop that is seen is the one of the sheet on the screen.
SendersOfSheets ==
  \A s \in 1..MaxSheets : senders[s] # None =>
    LET x == senders[s]
    IN /\ x \in SheetSenders /\ x.todo # <<>>
       /\ s <= sheet /\ (s = sheet => phase \in {"execute", "closed"})
       /\ x.page <= mounting /\ (x.page = mounting => s = sheet /\ phase = "execute")
       /\ \A n \in 1..Len(x.todo) : RowOf(x.rows[x.todo[n]], s, x.todo[n])

CountsOfSheets ==
  \A c \in counts :
    /\ c.key[1] = c.sheet /\ c.key[3] = c.item
    /\ c.sheet <= sheet /\ (c.sheet = sheet => phase \in {"execute", "closed"})

AgreeWith(frozen, s) ==
  \A c \in counts : c.sheet = s => RowOf(frozen[c.item], s, c.item) /\ SameCount(frozen[c.item], c)

CountsAgree ==
  /\ \A s \in 1..MaxSheets : senders[s] # None => AgreeWith(senders[s].rows, s)
  /\ phase = "execute" => AgreeWith(execRows, sheet)

ScreenAgrees ==
  phase = "execute" /\ senders[sheet] # None =>
    \A i \in Item : RowOf(senders[sheet].rows[i], sheet, i) =>
      RowOf(execRows[i], sheet, i) /\ SameCount(execRows[i], senders[sheet].rows[i])

SheetInv ==
  /\ SheetType /\ ScreenOfSheet /\ SendersOfSheets /\ CountsOfSheets /\ CountsAgree /\ ScreenAgrees
  /\ Counting!DoneIsStored /\ Counting!CountedOnce

LEMMA SheetBounds ==
  MaxQuantity \in Nat /\ MaxSheets \in Nat /\ MaxChoices \in Nat /\ IsFiniteSet(Item)
<1>1. Counting!IsFiniteSet(Item) => IsFiniteSet(Item)
  BY Zenon DEF Counting!IsFiniteSet, IsFiniteSet
<1> QED
  BY <1>1, SuiteAssumption DEF SuiteAssumption, Counting!SheetAssumption

LEMMA SheetInitInv == Counting!Init => SheetInv
BY SheetBounds DEF Counting!Init, SheetInv, SheetType, ScreenOfSheet, SendersOfSheets, CountsOfSheets, CountsAgree,
   ScreenAgrees, Counting!DoneIsStored, Counting!CountedOnce, Counting!Blank, Counting!Phase, SheetKeys

\* Steps that change nothing that was sent, and nothing that is on the screen.
LEMMA SheetRests ==
  ASSUME SheetInv, counts' = counts, mounting' = mounting, sheet' = sheet, phase' = phase, located' = located,
         inputs' = inputs, keys' = keys, execRows' = execRows, senders' = senders
  PROVE  SheetInv'
BY DEF SheetInv, SheetType, ScreenOfSheet, SendersOfSheets, CountsOfSheets, CountsAgree, ScreenAgrees, AgreeWith,
   Counting!DoneIsStored, Counting!CountedOnce, RowOf, SameCount

\* Entry and review: no loop runs for the sheet, and there are no rows.
LEMMA SheetEntered ==
  ASSUME SheetInv, counts' = counts, mounting' = mounting, execRows' = execRows, senders' = senders,
         phase # "execute", phase' \in {"entry", "review"}, phase = "closed" \/ sheet' = sheet,
         phase = "closed" => sheet' = sheet + 1, sheet' \in 1..MaxSheets,
         located' \in Nat, inputs' \in [Item -> Counting!Quantity \cup {None}], keys' \in [Item -> SheetKeys],
         \A i \in Item : keys'[i] # None => keys'[i][1] = sheet' /\ keys'[i][3] = i
  PROVE  SheetInv'
<1> USE SheetBounds
<1>1. SheetType'
  BY DEF SheetInv, SheetType, Counting!Phase
<1>2. ScreenOfSheet'
  BY DEF SheetInv, ScreenOfSheet, Counting!Blank
<1>3. SendersOfSheets'
  BY DEF SheetInv, SheetType, SendersOfSheets, SheetSenders, RowOf
<1>4. CountsOfSheets'
  BY DEF SheetInv, SheetType, CountsOfSheets, SheetCounts
<1>5. CountsAgree' /\ ScreenAgrees'
  BY DEF SheetInv, CountsAgree, ScreenAgrees, AgreeWith, RowOf, SameCount
<1>6. Counting!DoneIsStored' /\ Counting!CountedOnce'
  BY DEF SheetInv, Counting!DoneIsStored, Counting!CountedOnce
<1> QED
  BY <1>1, <1>2, <1>3, <1>4, <1>5, <1>6 DEF SheetInv

\* The sheet is closed, with a page that is left or no loop that is seen.
LEMMA SheetClosed ==
  ASSUME SheetInv, counts' = counts, sheet' = sheet, senders' = senders, phase # "closed", Counting!Reset,
         \/ mounting' = mounting /\ Counting!Closable
         \/ mounting' = mounting + 1
  PROVE  SheetInv'
<1> USE SheetBounds
<1>1. SheetType'
  BY DEF SheetInv, SheetType, Counting!Phase, Counting!Reset, Counting!Blank, SheetKeys
<1>2. ScreenOfSheet'
  BY DEF SheetInv, ScreenOfSheet, Counting!Reset, Counting!Blank
<1>3. \A s \in 1..MaxSheets : senders[s] # None => senders[s].page # mounting' /\ senders[s].page <= mounting'
  BY DEF SheetInv, SheetType, SendersOfSheets, SheetSenders, Counting!Closable, Counting!Running
<1>4. SendersOfSheets'
  BY <1>3 DEF SheetInv, SendersOfSheets, RowOf, Counting!Reset
<1>5. CountsOfSheets'
  BY DEF SheetInv, CountsOfSheets, Counting!Reset
<1>6. CountsAgree' /\ ScreenAgrees'
  BY DEF SheetInv, CountsAgree, ScreenAgrees, AgreeWith, RowOf, SameCount, Counting!Reset
<1>7. Counting!DoneIsStored' /\ Counting!CountedOnce'
  BY DEF SheetInv, Counting!DoneIsStored, Counting!CountedOnce, Counting!Reset
<1> QED
  BY <1>1, <1>2, <1>4, <1>5, <1>6, <1>7 DEF SheetInv

\* A loop or a retry starts with the rows on the screen.
LEMMA SheetStarts ==
  ASSUME SheetInv, counts' = counts, mounting' = mounting, sheet' = sheet, phase' = "execute", located' = located,
         inputs' = inputs, keys' = keys, sheet > 0,
         execRows' \in [Item -> SheetRows \cup {None}],
         \A i \in Item : execRows'[i] # None => RowOf(execRows'[i], sheet, i),
         AgreeWith(execRows', sheet),
         \A i \in Item : execRows'[i] # None /\ execRows'[i].status = "success" => execRows'[i] = execRows[i] /\ phase = "execute",
         NEW why \in {"all", "one"}, NEW todo \in Seq(Item),
         \/ /\ todo # <<>> /\ \A n \in 1..Len(todo) : RowOf(execRows'[todo[n]], sheet, todo[n])
            /\ senders' = [senders EXCEPT ![sheet] = Counting!Sender(why, todo, execRows')]
         \/ senders' = senders /\ senders[sheet] = None
  PROVE  SheetInv'
<1> USE SheetBounds
<1>1. sheet \in 1..MaxSheets
  BY DEF SheetInv, SheetType
<1> DEFINE x == Counting!Sender(why, todo, execRows')
<1>2. x \in SheetSenders /\ x.page = mounting /\ x.todo = todo /\ x.rows = execRows'
  BY DEF SheetInv, SheetType, SheetSenders, Counting!Sender
<1> HIDE DEF x
<1>3. \A s \in 1..MaxSheets : s # sheet => senders'[s] = senders[s]
  BY <1>1 DEF SheetInv, SheetType
<1>4. senders'[sheet] = x \/ senders'[sheet] = None
  BY <1>1 DEF SheetInv, SheetType, x
<1>5. senders'[sheet] = x /\ senders'[sheet] # None =>
        todo # <<>> /\ \A n \in 1..Len(todo) : RowOf(execRows'[todo[n]], sheet, todo[n])
  BY <1>1
<1>6. SheetType'
  <2>1. senders' \in [1..MaxSheets -> SheetSenders \cup {None}]
    BY <1>1, <1>2 DEF SheetInv, SheetType, x
  <2> QED
    BY <2>1 DEF SheetInv, SheetType, Counting!Phase
<1>7. ScreenOfSheet'
  BY <1>1 DEF SheetInv, ScreenOfSheet, RowOf
<1>8. SendersOfSheets'
  <2> SUFFICES ASSUME NEW s \in 1..MaxSheets, senders'[s] # None
               PROVE  LET y == senders'[s]
                      IN /\ y \in SheetSenders /\ y.todo # <<>>
                         /\ s <= sheet
                         /\ y.page <= mounting /\ (y.page = mounting => s = sheet)
                         /\ \A n \in 1..Len(y.todo) : RowOf(y.rows[y.todo[n]], s, y.todo[n])
    BY DEF SendersOfSheets, RowOf
  <2>1. CASE s = sheet
    BY <1>1, <1>2, <1>4, <1>5, <2>1 DEF SheetInv, SheetType
  <2>2. CASE s # sheet
    BY <1>3, <2>2 DEF SheetInv, SendersOfSheets
  <2> QED
    BY <2>1, <2>2
<1>9. CountsOfSheets'
  BY DEF SheetInv, CountsOfSheets
<1>10. CountsAgree'
  <2>1. ASSUME NEW s \in 1..MaxSheets, senders'[s] # None PROVE AgreeWith(senders'[s].rows, s)
    <3>1. CASE s = sheet
      <4>1. senders'[s].rows = execRows'
        BY <1>2, <1>4, <2>1, <3>1
      <4> QED
        BY <3>1, <4>1
    <3>2. CASE s # sheet
      BY <1>3, <2>1, <3>2 DEF SheetInv, CountsAgree
    <3> QED
      BY <3>1, <3>2
  <2> QED
    BY <2>1 DEF CountsAgree, AgreeWith, RowOf, SameCount
<1>11. ScreenAgrees'
  BY <1>2, <1>4 DEF ScreenAgrees, RowOf, SameCount
<1>12. Counting!DoneIsStored' /\ Counting!CountedOnce'
  BY DEF SheetInv, Counting!DoneIsStored, Counting!CountedOnce
<1> QED
  BY <1>6, <1>7, <1>8, <1>9, <1>10, <1>11, <1>12 DEF SheetInv

LEMMA CountableToSend ==
  ASSUME NEW todo \in Counting!SetToSeqs(Counting!Countable), Counting!Countable # {}
  PROVE  /\ todo \in Seq(Item) /\ todo # <<>>
         /\ \A n \in 1..Len(todo) : todo[n] \in Counting!Countable
<1> DEFINE C == Counting!Countable
<1>1. C \subseteq Item
  BY DEF Counting!Countable
<1>2. IsFiniteSet(C)
  BY <1>1, SheetBounds, FS_Subset
<1>3. Cardinality(C) \in Nat \ {0}
  BY <1>2, FS_CardinalityType, FS_EmptySet
<1>4. todo \in [1..Cardinality(C) -> C]
  BY DEF Counting!SetToSeqs, Counting!Cardinality, Cardinality
<1> HIDE DEF C
<1>5. todo \in Seq(C) /\ Len(todo) = Cardinality(C)
  BY <1>3, <1>4
<1>6. todo \in Seq(Item)
  BY <1>1, <1>4, <1>3
<1>7. \A n \in 1..Len(todo) : todo[n] \in C
  BY <1>4, <1>5
<1> QED
  BY <1>3, <1>5, <1>6, <1>7 DEF C

LEMMA SheetExecute == SheetInv /\ Counting!Execute => SheetInv'
<1> SUFFICES ASSUME SheetInv, Counting!Execute PROVE SheetInv'
  OBVIOUS
<1> USE SheetBounds
<1> DEFINE C == Counting!Countable
<1>1. phase = "review" /\ sheet > 0 /\ phase' = "execute" /\ counts' = counts /\ mounting' = mounting
      /\ sheet' = sheet /\ located' = located /\ inputs' = inputs /\ keys' = keys
  BY DEF SheetInv, ScreenOfSheet, Counting!Execute, Counting!server, Counting!entry
<1>2. \A i \in Item : execRows'[i] = IF i \in C THEN Counting!Row(inputs[i], keys[i], "pending") ELSE None
  BY DEF Counting!Execute
<1>3. \A i \in C : i \in Item /\ inputs[i] \in Counting!Quantity
  BY DEF SheetInv, SheetType, Counting!Countable
<1>4. \A i \in C : RowOf(execRows'[i], sheet, i) /\ execRows'[i].status = "pending"
  <2> SUFFICES ASSUME NEW i \in C
               PROVE  RowOf(execRows'[i], sheet, i) /\ execRows'[i].status = "pending"
    OBVIOUS
  <2>1. i \in Item /\ inputs[i] \in Counting!Quantity /\ keys[i] \in SheetKeys
    BY <1>3 DEF SheetInv, SheetType
  <2>2. keys[i] # None => keys[i][1] = sheet /\ keys[i][3] = i
    BY <2>1 DEF SheetInv, ScreenOfSheet
  <2>3. execRows'[i] = [counted |-> inputs[i], key |-> keys[i], status |-> "pending"]
    BY <1>2, <2>1 DEF Counting!Row
  <2>4. execRows'[i] \in SheetRows
    BY <2>1, <2>3 DEF SheetRows, RowStatus
  <2> QED
    BY <2>2, <2>3, <2>4 DEF RowOf
<1>5. execRows' \in [Item -> SheetRows \cup {None}]
  <2>1. execRows' = [i \in Item |-> IF i \in C THEN Counting!Row(inputs[i], keys[i], "pending") ELSE None]
    BY DEF Counting!Execute
  <2> HIDE DEF C
  <2> QED
    BY <1>2, <1>4, <2>1 DEF RowOf
<1>6. \A i \in Item : execRows'[i] # None => i \in C
  BY <1>2
<1>7. AgreeWith(execRows', sheet)
  BY <1>1 DEF SheetInv, CountsOfSheets, AgreeWith
<1>8. senders[sheet] = None
  BY <1>1 DEF SheetInv, SheetType, SendersOfSheets
<1>9. CASE C = {}
  <2>1. senders' = senders /\ <<>> \in Seq(Item)
    BY <1>9 DEF Counting!Execute
  <2> HIDE DEF C
  <2> QED
    BY <1>1, <1>4, <1>5, <1>6, <1>7, <1>8, <2>1, SheetStarts
<1>10. CASE C # {}
  <2>1. PICK todo \in Counting!SetToSeqs(C) : senders' = [senders EXCEPT ![sheet] = Counting!Sender("all", todo, execRows')]
    BY <1>10 DEF Counting!Execute
  <2>2. /\ todo \in Seq(Item) /\ todo # <<>>
        /\ \A n \in 1..Len(todo) : todo[n] \in C
    BY <1>10, CountableToSend
  <2> HIDE DEF C
  <2> QED
    BY <1>1, <1>4, <1>5, <1>6, <1>7, <2>1, <2>2, SheetStarts
<1> QED
  BY <1>9, <1>10

LEMMA SheetRetry ==
  ASSUME SheetInv, NEW i \in Item, Counting!Retry(i)
  PROVE  SheetInv'
<1> USE SheetBounds
<1>1. phase = "execute" /\ execRows[i] # None /\ sheet > 0
  BY DEF SheetInv, ScreenOfSheet, Counting!Retry
<1>2. execRows' = execRows /\ counts' = counts /\ mounting' = mounting /\ phase' = phase
      /\ sheet' = sheet /\ located' = located /\ inputs' = inputs /\ keys' = keys
      /\ senders' = [senders EXCEPT ![sheet] = Counting!Sender("one", <<i>>, execRows)]
  BY DEF Counting!Retry, Counting!server, Counting!entry
<1>3. AgreeWith(execRows, sheet) /\ \A j \in Item : execRows[j] # None => RowOf(execRows[j], sheet, j)
  BY <1>1 DEF SheetInv, CountsAgree, ScreenOfSheet
<1>4. <<i>> \in Seq(Item) /\ <<i>> # <<>> /\ Len(<<i>>) = 1 /\ \A n \in 1..1 : <<i>>[n] = i
  OBVIOUS
<1>5. \A n \in 1..Len(<<i>>) : RowOf(execRows[<<i>>[n]], sheet, <<i>>[n])
  BY <1>1, <1>3, <1>4
<1>6. execRows \in [Item -> SheetRows \cup {None}]
  BY DEF SheetInv, SheetType
<1> QED
  BY <1>1, <1>2, <1>3, <1>4, <1>5, <1>6, SheetStarts

LEMMA RowMarked ==
  ASSUME NEW r \in SheetRows, NEW status \in RowStatus
  PROVE  LET q == [r EXCEPT !.status = status]
         IN q \in SheetRows /\ q.counted = r.counted /\ q.key = r.key /\ q.status = status
BY DEF SheetRows

\* A row that is marked stays the row that it is.
LEMMA SheetMarked ==
  ASSUME SheetInv, NEW s \in 1..MaxSheets, NEW i \in Item, NEW status \in RowStatus,
         execRows' = Counting!Marked(s, i, status)
  PROVE  /\ execRows' \in [Item -> SheetRows \cup {None}]
         /\ \A j \in Item : execRows'[j] # None => execRows[j] # None
         /\ \A j \in Item : execRows'[j] = execRows[j] \/
              (j = i /\ execRows'[j].status = status /\ senders[s].page = mounting)
         /\ \A j \in Item, t \in Nat : RowOf(execRows[j], t, j) =>
              RowOf(execRows'[j], t, j) /\ SameCount(execRows'[j], execRows[j])
<1>1. execRows \in [Item -> SheetRows \cup {None}]
  BY DEF SheetInv, SheetType
<1>2. CASE senders[s].page = mounting /\ execRows[i] # None
  <2> DEFINE q == [execRows[i] EXCEPT !.status = status]
  <2>1. execRows' = [execRows EXCEPT ![i] = q]
    BY <1>2 DEF Counting!Marked
  <2>2. q \in SheetRows /\ q.counted = execRows[i].counted /\ q.key = execRows[i].key /\ q.status = status
    BY <1>1, <1>2, RowMarked
  <2> HIDE DEF q
  <2> QED
    BY <1>1, <1>2, <2>1, <2>2 DEF RowOf, SameCount
<1>3. CASE ~(senders[s].page = mounting /\ execRows[i] # None)
  BY <1>1, <1>3 DEF Counting!Marked, RowOf, SameCount
<1> QED
  BY <1>2, <1>3

LEMMA SenderWaits ==
  ASSUME NEW x \in SheetSenders
  PROVE  LET y == [x EXCEPT !.waits = TRUE]
         IN y \in SheetSenders /\ y.page = x.page /\ y.todo = x.todo /\ y.rows = x.rows
BY DEF SheetSenders

LEMMA SenderRests ==
  ASSUME NEW x \in SheetSenders, x.todo # <<>>
  PROVE  LET y == Counting!Rest(x)
         IN \/ y = None
            \/ /\ y \in SheetSenders /\ y.page = x.page /\ y.rows = x.rows /\ y.todo # <<>>
               /\ \A n \in 1..Len(y.todo) : n + 1 \in 1..Len(x.todo) /\ y.todo[n] = x.todo[n + 1]
<1>1. x.todo \in Seq(Item) /\ Len(x.todo) \in Nat \ {0}
  BY DEF SheetSenders
<1>2. CASE Len(x.todo) = 1
  BY <1>2 DEF Counting!Rest
<1>3. CASE Len(x.todo) # 1
  <2> DEFINE y == [x EXCEPT !.todo = Tail(x.todo), !.waits = FALSE]
  <2>1. /\ Tail(x.todo) \in Seq(Item) /\ Len(Tail(x.todo)) = Len(x.todo) - 1
        /\ \A n \in 1..(Len(x.todo) - 1) : Tail(x.todo)[n] = x.todo[n + 1]
    BY <1>1, <1>3
  <2>2. y \in SheetSenders /\ y.page = x.page /\ y.rows = x.rows /\ y.todo = Tail(x.todo)
    BY <2>1 DEF SheetSenders
  <2>3. Counting!Rest(x) = y
    BY <1>3 DEF Counting!Rest
  <2> HIDE DEF y
  <2>4. y.todo # <<>> /\ \A n \in 1..Len(y.todo) : n + 1 \in 1..Len(x.todo) /\ y.todo[n] = x.todo[n + 1]
    <3>1. Len(y.todo) = Len(x.todo) - 1 /\ Len(y.todo) # 0 /\ Len(<<>>) = 0
      BY <1>1, <1>3, <2>1, <2>2
    <3>2. y.todo # <<>>
      BY <3>1
    <3>3. ASSUME NEW n \in 1..Len(y.todo) PROVE n + 1 \in 1..Len(x.todo) /\ y.todo[n] = x.todo[n + 1]
      <4>1. n \in 1..(Len(x.todo) - 1)
        BY <3>1
      <4>2. n + 1 \in 1..Len(x.todo)
        BY <1>1, <4>1
      <4> QED
        BY <2>1, <2>2, <4>1, <4>2
    <3> QED
      BY <3>2, <3>3
  <2> QED
    BY <2>2, <2>3, <2>4
<1> QED
  BY <1>2, <1>3

\* A loop takes a step: its rows stay, those on the screen may be marked, and a count
\* may be added.
LEMMA SheetSent ==
  ASSUME SheetInv, NEW s \in 1..MaxSheets, senders[s] # None, NEW i \in Item, NEW status \in RowStatus,
         mounting' = mounting, sheet' = sheet, phase' = phase, located' = located, inputs' = inputs, keys' = keys,
         execRows' = Counting!Marked(s, i, status),
         RowOf(senders[s].rows[i], s, i),
         NEW y, senders' = [senders EXCEPT ![s] = y],
         y # None =>
           /\ y \in SheetSenders /\ y.page = senders[s].page /\ y.rows = senders[s].rows /\ y.todo # <<>>
           /\ \A n \in 1..Len(y.todo) : \E m \in 1..Len(senders[s].todo) : y.todo[n] = senders[s].todo[m],
         \/ counts' = counts
         \/ /\ senders[s].rows[i].key # None /\ ~\E c \in counts : c.key = senders[s].rows[i].key
            /\ counts' = counts \cup {[key |-> senders[s].rows[i].key, sheet |-> s, item |-> i,
                                       counted |-> senders[s].rows[i].counted]},
         status = "success" => \E c \in counts' : c.key = senders[s].rows[i].key /\ c.key # None
  PROVE  SheetInv'
<1> USE SheetBounds
<1> DEFINE x == senders[s]
           new == [key |-> x.rows[i].key, sheet |-> s, item |-> i, counted |-> x.rows[i].counted]
<1>1. /\ x \in SheetSenders /\ x.todo # <<>>
      /\ s <= sheet /\ (s = sheet => phase \in {"execute", "closed"})
      /\ x.page <= mounting /\ (x.page = mounting => s = sheet /\ phase = "execute")
      /\ \A n \in 1..Len(x.todo) : RowOf(x.rows[x.todo[n]], s, x.todo[n])
  BY DEF SheetInv, SendersOfSheets
<1>2. new \in SheetCounts /\ new.key = x.rows[i].key /\ new.sheet = s /\ new.item = i /\ new.counted = x.rows[i].counted
  BY DEF RowOf, SheetRows, SheetCounts
<1> HIDE DEF new
<1>3. \/ counts' = counts
      \/ counts' = counts \cup {new} /\ new.key # None /\ \A c \in counts : c.key # new.key
  BY <1>2 DEF new
<1>4. \A t \in 1..MaxSheets : t # s => senders'[t] = senders[t]
  BY DEF SheetInv, SheetType
<1>5. senders'[s] = y
  BY DEF SheetInv, SheetType
<1>6. /\ execRows' \in [Item -> SheetRows \cup {None}]
      /\ \A j \in Item : execRows'[j] # None => execRows[j] # None
      /\ \A j \in Item : execRows'[j] = execRows[j] \/
           (j = i /\ execRows'[j].status = status /\ senders[s].page = mounting)
      /\ \A j \in Item, t \in Nat : RowOf(execRows[j], t, j) =>
           RowOf(execRows'[j], t, j) /\ SameCount(execRows'[j], execRows[j])
  BY SheetMarked
<1>7. SheetType'
  <2>1. senders' \in [1..MaxSheets -> SheetSenders \cup {None}]
    BY DEF SheetInv, SheetType
  <2> QED
    BY <1>2, <1>3, <1>6, <2>1 DEF SheetInv, SheetType
<1>8. sheet \in Nat /\ s \in Nat
  BY DEF SheetInv, SheetType
<1>9. ScreenOfSheet'
  <2>1. phase # "execute" => execRows' = Counting!Blank
    BY <1>1 DEF SheetInv, ScreenOfSheet, Counting!Marked
  <2> QED
    BY <1>6, <1>8, <2>1 DEF SheetInv, ScreenOfSheet
<1>10. SendersOfSheets'
  <2> SUFFICES ASSUME NEW t \in 1..MaxSheets, senders'[t] # None
               PROVE  LET z == senders'[t]
                      IN /\ z \in SheetSenders /\ z.todo # <<>>
                         /\ t <= sheet /\ (t = sheet => phase \in {"execute", "closed"})
                         /\ z.page <= mounting /\ (z.page = mounting => t = sheet /\ phase = "execute")
                         /\ \A n \in 1..Len(z.todo) : RowOf(z.rows[z.todo[n]], t, z.todo[n])
    BY DEF SendersOfSheets, RowOf
  <2>1. CASE t = s
    BY <1>1, <1>5, <2>1
  <2>2. CASE t # s
    BY <1>4, <2>2 DEF SheetInv, SendersOfSheets
  <2> QED
    BY <2>1, <2>2
<1>11. new.key # None => new.key[1] = s /\ new.key[3] = i
  BY <1>2 DEF RowOf
<1>12. CountsOfSheets'
  BY <1>1, <1>2, <1>3, <1>11 DEF SheetInv, CountsOfSheets
\* What is counted for the sheet is what its rows say.
<1>13. AgreeWith(x.rows, s)
  BY DEF SheetInv, CountsAgree
<1>14. ASSUME NEW c \in counts', c.sheet = s
       PROVE  RowOf(x.rows[c.item], s, c.item) /\ SameCount(x.rows[c.item], c)
  BY <1>2, <1>3, <1>13, <1>14 DEF AgreeWith, SameCount
<1>15. phase = "execute" /\ s = sheet => \A j \in Item : RowOf(x.rows[j], s, j) =>
         RowOf(execRows[j], s, j) /\ SameCount(execRows[j], x.rows[j])
  BY DEF SheetInv, ScreenAgrees
<1>16. \A c \in counts' : c.item \in Item
  BY <1>7 DEF SheetType, SheetCounts
<1>17. phase = "execute" => \A c \in counts' : c.sheet = sheet =>
         RowOf(execRows'[c.item], sheet, c.item) /\ SameCount(execRows'[c.item], c)
  <2> SUFFICES ASSUME phase = "execute", NEW c \in counts', c.sheet = sheet
               PROVE  RowOf(execRows'[c.item], sheet, c.item) /\ SameCount(execRows'[c.item], c)
    OBVIOUS
  <2>1. CASE s = sheet
    BY <1>6, <1>8, <1>14, <1>15, <1>16, <2>1 DEF SameCount
  <2>2. CASE s # sheet
    <3>1. c \in counts
      BY <1>2, <1>3, <2>2
    <3>2. RowOf(execRows[c.item], sheet, c.item) /\ SameCount(execRows[c.item], c)
      BY <3>1 DEF SheetInv, CountsAgree, AgreeWith
    <3> QED
      BY <1>6, <1>8, <1>16, <3>2 DEF SameCount
  <2> QED
    BY <2>1, <2>2
<1>18. CountsAgree'
  <2>1. ASSUME NEW t \in 1..MaxSheets, senders'[t] # None, NEW c \in counts', c.sheet = t
        PROVE  RowOf(senders'[t].rows[c.item], t, c.item) /\ SameCount(senders'[t].rows[c.item], c)
    <3>1. CASE t = s
      BY <1>5, <1>14, <2>1, <3>1
    <3>2. CASE t # s
      <4>1. c \in counts
        BY <1>2, <1>3, <2>1, <3>2
      <4> QED
        BY <1>4, <2>1, <3>2, <4>1 DEF SheetInv, CountsAgree, AgreeWith
    <3> QED
      BY <3>1, <3>2
  <2> QED
    BY <1>17, <2>1 DEF CountsAgree, AgreeWith, RowOf, SameCount
<1>19. ScreenAgrees'
  <2> SUFFICES ASSUME phase = "execute", senders'[sheet] # None, NEW j \in Item,
                      RowOf(senders'[sheet].rows[j], sheet, j)
               PROVE  RowOf(execRows'[j], sheet, j) /\ SameCount(execRows'[j], senders'[sheet].rows[j])
    BY DEF ScreenAgrees, RowOf, SameCount
  <2>1. sheet \in 1..MaxSheets
    BY DEF SheetInv, SheetType, ScreenOfSheet
  <2>2. senders[sheet] # None /\ senders'[sheet].rows = senders[sheet].rows
    BY <1>4, <1>5, <2>1
  <2>3. RowOf(execRows[j], sheet, j) /\ SameCount(execRows[j], senders[sheet].rows[j])
    BY <2>2 DEF SheetInv, ScreenAgrees
  <2> QED
    BY <1>6, <1>8, <2>2, <2>3 DEF SameCount
<1>20. Counting!DoneIsStored'
  <2> SUFFICES ASSUME phase = "execute", NEW j \in Item, execRows'[j] # None, execRows'[j].status = "success"
               PROVE  \E c \in counts' : c.item = j /\ c.counted = execRows'[j].counted /\ c.sheet = sheet
    BY DEF Counting!DoneIsStored
  <2>1. CASE execRows'[j] = execRows[j]
    BY <1>3, <2>1 DEF SheetInv, Counting!DoneIsStored
  <2>2. CASE execRows'[j] # execRows[j]
    <3>1. j = i /\ status = "success" /\ s = sheet
      BY <1>1, <1>6, <2>2
    <3>2. PICK c \in counts' : c.key = x.rows[i].key /\ c.key # None
      BY <3>1
    <3>3. c.sheet = s /\ c.item = i
      BY <1>12, <3>2 DEF CountsOfSheets, RowOf
    <3>4. RowOf(execRows'[i], sheet, i) /\ SameCount(execRows'[i], c)
      BY <1>17, <3>1, <3>3
    <3> QED
      BY <3>1, <3>3, <3>4 DEF SameCount
  <2> QED
    BY <2>1, <2>2
<1>21. Counting!CountedOnce'
  <2>1. ASSUME NEW c \in counts, c.item = i, c.sheet = s PROVE c.key = new.key
    BY <1>2, <1>13, <2>1 DEF AgreeWith, SameCount
  <2> QED
    BY <1>2, <1>3, <2>1 DEF SheetInv, Counting!CountedOnce
<1> QED
  BY <1>7, <1>9, <1>10, <1>12, <1>18, <1>19, <1>20, <1>21 DEF SheetInv

LEMMA SheetSend ==
  ASSUME SheetInv, NEW s \in 1..MaxSheets, Counting!Send(s)
  PROVE  SheetInv'
<1> DEFINE x == senders[s]
           i == Head(x.todo)
           y == [x EXCEPT !.waits = TRUE]
<1>1. x # None /\ x \in SheetSenders /\ x.todo # <<>> /\ \A n \in 1..Len(x.todo) : RowOf(x.rows[x.todo[n]], s, x.todo[n])
  BY DEF SheetInv, SendersOfSheets, Counting!Send
<1>2. i = x.todo[1] /\ i \in Item /\ 1 \in 1..Len(x.todo)
  BY <1>1 DEF SheetSenders
<1>3. y \in SheetSenders /\ y.page = x.page /\ y.todo = x.todo /\ y.rows = x.rows
  BY <1>1, SenderWaits
<1>4. senders' = [senders EXCEPT ![s] = y]
  BY DEF Counting!Send
<1>5. execRows' = Counting!Marked(s, i, "sending") /\ counts' = counts /\ mounting' = mounting /\ sheet' = sheet
      /\ phase' = phase /\ located' = located /\ inputs' = inputs /\ keys' = keys
  BY DEF Counting!Send, Counting!server, Counting!entry
<1>6. "sending" \in RowStatus /\ "sending" # "success"
  BY DEF RowStatus
<1>7. RowOf(x.rows[i], s, i)
  BY <1>1, <1>2
<1> HIDE DEF y, i
<1> QED
  BY <1>1, <1>2, <1>3, <1>4, <1>5, <1>6, <1>7, SheetSent

LEMMA SheetAnswer ==
  ASSUME SheetInv, NEW s \in 1..MaxSheets, NEW failed \in BOOLEAN, Counting!Answer(s, failed)
  PROVE  SheetInv'
<1> DEFINE x == senders[s]
           i == Head(x.todo)
           y == Counting!Rest(x)
           status == IF failed THEN "failed" ELSE "success"
<1>1. x # None /\ x \in SheetSenders /\ x.todo # <<>> /\ \A n \in 1..Len(x.todo) : RowOf(x.rows[x.todo[n]], s, x.todo[n])
  BY DEF SheetInv, SendersOfSheets, Counting!Answer
<1>2. i = x.todo[1] /\ i \in Item /\ 1 \in 1..Len(x.todo)
  BY <1>1 DEF SheetSenders
<1>3. y # None =>
        /\ y \in SheetSenders /\ y.page = x.page /\ y.rows = x.rows /\ y.todo # <<>>
        /\ \A n \in 1..Len(y.todo) : \E m \in 1..Len(x.todo) : y.todo[n] = x.todo[m]
  <2>1. \/ y = None
        \/ /\ y \in SheetSenders /\ y.page = x.page /\ y.rows = x.rows /\ y.todo # <<>>
           /\ \A n \in 1..Len(y.todo) : n + 1 \in 1..Len(x.todo) /\ y.todo[n] = x.todo[n + 1]
    BY <1>1, SenderRests
  <2> HIDE DEF y
  <2> QED
    BY <2>1
<1>4. senders' = [senders EXCEPT ![s] = y]
  BY DEF Counting!Answer, Counting!After
<1>5. execRows' = Counting!Marked(s, i, status) /\ mounting' = mounting /\ sheet' = sheet
      /\ phase' = phase /\ located' = located /\ inputs' = inputs /\ keys' = keys
  BY DEF Counting!Answer, Counting!entry
<1>6. status \in RowStatus /\ (status = "success" => ~failed)
  BY DEF RowStatus
<1>7. RowOf(x.rows[i], s, i)
  BY <1>1, <1>2
<1>8. Counting!Counted(s, i) \/ (failed /\ counts' = counts)
  BY DEF Counting!Answer
<1>9. Counting!Counted(s, i) =>
        /\ x.rows[i].key # None
        /\ \/ counts' = counts /\ \E c \in counts : c.key = x.rows[i].key
           \/ /\ ~\E c \in counts : c.key = x.rows[i].key
              /\ counts' = counts \cup {[key |-> x.rows[i].key, sheet |-> s, item |-> i, counted |-> x.rows[i].counted]}
  BY DEF Counting!Counted, Counting!KeySent
<1> HIDE DEF y, i, status
<1>10. status = "success" => \E c \in counts' : c.key = x.rows[i].key /\ c.key # None
  <2> SUFFICES ASSUME ~failed PROVE \E c \in counts' : c.key = x.rows[i].key /\ c.key # None
    BY <1>6
  <2> DEFINE new == [key |-> x.rows[i].key, sheet |-> s, item |-> i, counted |-> x.rows[i].counted]
  <2>1. new.key = x.rows[i].key
    OBVIOUS
  <2> HIDE DEF new
  <2>2. x.rows[i].key # None
        /\ ((counts' = counts /\ \E c \in counts : c.key = x.rows[i].key) \/ new \in counts')
    BY <1>8, <1>9 DEF new
  <2> QED
    BY <2>1, <2>2
<1> QED
  BY <1>1, <1>2, <1>3, <1>4, <1>5, <1>6, <1>7, <1>8, <1>9, <1>10, SheetSent

LEMMA SheetStepInv == SheetInv /\ [Counting!Next]_sheetVars => SheetInv'
<1> SUFFICES ASSUME SheetInv, [Counting!Next]_sheetVars PROVE SheetInv'
  OBVIOUS
<1> USE SheetBounds
<1>1. CASE Counting!Open
  <2>1. sheet' \in 1..MaxSheets
    BY <1>1 DEF SheetInv, SheetType, Counting!Open
  <2> QED
    BY <1>1, <2>1, SheetEntered DEF SheetInv, SheetType, ScreenOfSheet, Counting!Open, Counting!Blank, Counting!server, Counting!entry
<1>2. CASE Counting!ChooseLocation
  <2>1. sheet' \in 1..MaxSheets
    BY <1>2 DEF SheetInv, SheetType, ScreenOfSheet, Counting!ChooseLocation
  <2> QED
    BY <1>2, <2>1, SheetEntered DEF SheetInv, SheetType, ScreenOfSheet, Counting!ChooseLocation, Counting!Blank, Counting!server, SheetKeys
<1>3. CASE Counting!EnterReview
  <2>1. sheet' \in 1..MaxSheets
    BY <1>3 DEF SheetInv, SheetType, ScreenOfSheet, Counting!EnterReview
  <2>2. \A i \in Item : /\ keys'[i] \in SheetKeys
                        /\ keys'[i] # None => keys'[i][1] = sheet /\ keys'[i][3] = i
    BY <1>3, <2>1 DEF SheetInv, SheetType, ScreenOfSheet, Counting!EnterReview, SheetKeys
  <2>3. keys' \in [Item -> SheetKeys]
    BY <1>3, <2>2 DEF Counting!EnterReview
  <2> QED
    BY <1>3, <2>1, <2>2, <2>3, SheetEntered DEF SheetInv, SheetType, Counting!EnterReview, Counting!server
<1>4. CASE Counting!BackToEntry \/ \E i \in Item, q \in Counting!Quantity \cup {None} : Counting!Enter(i, q)
  <2>1. phase \in {"entry", "review"} /\ phase' = "entry" /\ counts' = counts /\ mounting' = mounting /\ sheet' = sheet
        /\ located' = located /\ keys' = keys /\ execRows' = execRows /\ senders' = senders
    BY <1>4 DEF Counting!BackToEntry, Counting!Enter, Counting!server, Counting!entry
  <2>2. inputs' \in [Item -> Counting!Quantity \cup {None}]
    BY <1>4 DEF SheetInv, SheetType, Counting!BackToEntry, Counting!Enter, Counting!entry
  <2>3. sheet' \in 1..MaxSheets
    BY <2>1 DEF SheetInv, SheetType, ScreenOfSheet
  <2> QED
    BY <2>1, <2>2, <2>3, SheetEntered DEF SheetInv, SheetType, ScreenOfSheet
<1>5. CASE Counting!Execute
  BY <1>5, SheetExecute
<1>6. CASE Counting!Close \/ Counting!Leave
  BY <1>6, SheetClosed DEF Counting!Close, Counting!Leave, Counting!server
<1>7. CASE UNCHANGED sheetVars \/ (\E l \in loading : Counting!LevelsAnswer(l)) \/ \E i \in Item : Counting!MoveElsewhere(i)
  BY <1>7, SheetRests DEF sheetVars, Counting!LevelsAnswer, Counting!MoveElsewhere, Counting!server, Counting!entry
<1>8. ASSUME NEW s \in 1..MaxSheets, Counting!Send(s) \/ \E failed \in BOOLEAN : Counting!Answer(s, failed)
      PROVE  SheetInv'
  BY <1>8, SheetSend, SheetAnswer
<1>9. ASSUME NEW i \in Item, Counting!Retry(i)
      PROVE  SheetInv'
  BY <1>9, SheetRetry
<1> QED
  BY <1>1, <1>2, <1>3, <1>4, <1>5, <1>6, <1>7, <1>8, <1>9 DEF Counting!Next

LEMMA SheetMovesAlone == [SuiteNext]_suiteVars => [Counting!Next]_sheetVars
BY DEF SuiteNext, suiteVars, sheetVars

\* Settings that are answered as saved are stored, each of them, and a row of a count
\* that says done is stored, once for its sheet, for any people, keys, items and sheets
\* (settings.ts, PATCH /settings; StockCountDialog.tsx, executeRows and retryRow).
THEOREM StoredInWholeAlways == SuiteSpec => []StoredInWhole
<1>1. SuiteInit => SavedInv /\ SheetInv
  BY SavedInitInv, SheetInitInv DEF SuiteInit
<1>2. SavedInv /\ SheetInv /\ [SuiteNext]_suiteVars => SavedInv' /\ SheetInv'
  BY SettingsMoveAlone, SavedStepInv, SheetMovesAlone, SheetStepInv
<1>3. SavedInv /\ SheetInv => StoredInWhole
  BY DEF SavedInv, SheetInv, StoredInWhole
<1> QED
  BY <1>1, <1>2, <1>3, PTL DEF SuiteSpec

-----------------------------------------------------------------------------
(* Reports.  What is on the screen, or was answered for it, is of the      *)
(* filters that are applied, and what was read in quiet times is what the  *)
(* reports of those filters are now; sums over groups add up to the sum.   *)

Places == Branch \cup {All}
Amounts == [p \in payments |-> p.amount]

ReportsType ==
  /\ now \in Nat
  /\ IsFiniteSet(payments)
  /\ \A p \in payments : p.at \in Nat /\ p.at <= now /\ p.amount \in Int
  /\ days \in Period /\ branchId \in Places
  /\ run = [r \in Reporting!Report |-> run[r]]
  /\ bundle = [r \in Reporting!Report |-> bundle[r]]

\* An answer to the filters.
OfFilters(r, answer, b, d) ==
  answer # None =>
    /\ answer.filters = <<b, d>>
    /\ r = "trend" => DOMAIN answer.rows \subseteq (answer.today - d + 1)..answer.today

AnswersOfNow ==
  \A r \in Reporting!Report : run[r] # None => run[r] = Reporting!Answer(r, branchId, days)

ReportsInv ==
  /\ ReportsType
  /\ ~reportsLoading => asked = {}
  /\ \A r \in Reporting!Report : OfFilters(r, run[r], branchId, days) /\ OfFilters(r, bundle[r], branchId, days)
  /\ calm /\ reportsLoading => AnswersOfNow
  /\ Reporting!TotalsAgree

LEMMA ReportConstants ==
  /\ Period \subseteq Nat \ {0} /\ \E d \in Period : \A e \in Period : e <= d
  /\ DayLength \in Nat \ {0} /\ MaxTime \in Nat
  /\ \A b \in Places : ZoneOffset[b] \in Nat
BY SuiteAssumption DEF SuiteAssumption, Reporting!ReportAssumption, Places

LEMMA SameTotals ==
  ASSUME NEW g, NEW S
  PROVE  Reporting!SumFunctionOnSet(g, S) = SumFunctionOnSet(g, S)
BY DEF SumFunctionOnSet, FoldFunctionOnSet, MapThenFoldSet, Reporting!SumFunctionOnSet,
   Reporting!FoldFunctionOnSet, Reporting!MapThenFoldSet

LEMMA DayQuotient ==
  ASSUME NEW a \in Nat, NEW b \in Nat \ {0}
  PROVE  a \div b \in Nat /\ b * (a \div b) <= a /\ a < b * (a \div b) + b
OBVIOUS

\* Days follow one another as instants do.
LEMMA DaysInOrder ==
  ASSUME NEW b \in Places, NEW t \in Nat, NEW u \in Nat, t <= u
  PROVE  /\ Reporting!LocalDay(b, t) \in Nat /\ Reporting!LocalDay(b, u) \in Nat
         /\ Reporting!LocalDay(b, t) <= Reporting!LocalDay(b, u)
<1> DEFINE v == t + ZoneOffset[b]
           w == u + ZoneOffset[b]
           k == v \div DayLength
           m == w \div DayLength
<1>1. v \in Nat /\ w \in Nat /\ v <= w /\ DayLength \in Nat \ {0}
  BY ReportConstants
<1>2. Reporting!LocalDay(b, t) = k /\ Reporting!LocalDay(b, u) = m
  BY DEF Reporting!LocalDay
<1> HIDE DEF v, w
<1>3. k \in Nat /\ DayLength * k <= v
  BY <1>1, DayQuotient
<1>4. m \in Nat /\ w < DayLength * m + DayLength
  BY <1>1, DayQuotient
<1> HIDE DEF k, m
<1>5. k <= m
  <2> SUFFICES ASSUME k >= m + 1 PROVE FALSE
    BY <1>3, <1>4
  <2>1. DayLength * k >= DayLength * (m + 1)
    BY <1>1, <1>3, <1>4
  <2>2. DayLength * (m + 1) = DayLength * m + DayLength /\ DayLength * m \in Nat /\ DayLength * k \in Nat
    BY <1>1, <1>3, <1>4
  <2> QED
    BY <1>1, <1>3, <1>4, <2>1, <2>2
<1> QED
  BY <1>2, <1>3, <1>4, <1>5

LEMMA RowsFinite ==
  ASSUME ReportsType, NEW r, NEW b, NEW d
  PROVE  /\ Reporting!Rows(r, b, d) \subseteq payments
         /\ IsFiniteSet(Reporting!Rows(r, b, d))
         /\ \A p \in Reporting!Rows(r, b, d) : Amounts[p] = p.amount /\ Amounts[p] \in Int
<1>1. Reporting!Rows(r, b, d) \subseteq payments
  BY DEF Reporting!Rows
<1>2. IsFiniteSet(Reporting!Rows(r, b, d))
  BY <1>1, FS_Subset DEF ReportsType
<1> QED
  BY <1>1, <1>2 DEF ReportsType, Amounts

\* A sum of payments.
LEMMA SumOfRows ==
  ASSUME ReportsType, NEW rows \in SUBSET payments
  PROVE  Reporting!SumOf(rows) = SumFunctionOnSet(Amounts, rows)
<1> DEFINE g == [p \in rows |-> p.amount]
<1>1. IsFiniteSet(rows)
  BY FS_Subset DEF ReportsType
<1>2. \A p \in rows : g[p] = Amounts[p]
  BY DEF Amounts
<1>3. Reporting!SumOf(rows) = SumFunctionOnSet(g, rows)
  BY SameTotals DEF Reporting!SumOf
<1> HIDE DEF g
<1> QED
  BY <1>1, <1>2, <1>3, SumSame

\* The groups of a report add up to the sum of its rows.
LEMMA GroupsAddUp ==
  ASSUME ReportsType, NEW r \in Reporting!Report, NEW b, NEW d
  PROVE  LET rows == Reporting!Answer(r, b, d).rows
         IN SumFunctionOnSet(rows, DOMAIN rows) = SumFunctionOnSet(Amounts, Reporting!Rows(r, b, d))
<1> DEFINE S == Reporting!Rows(r, b, d)
           T == {Reporting!Group(r, b, p) : p \in S}
           f == [p \in S |-> Reporting!Group(r, b, p)]
           group == [t \in T |-> {p \in S : Reporting!Group(r, b, p) = t}]
           h == [t \in T |-> Reporting!SumOf({p \in S : Reporting!Group(r, b, p) = t})]
<1>1. Reporting!Answer(r, b, d).rows = h /\ DOMAIN h = T
  BY DEF Reporting!Answer
<1>2. /\ S \subseteq payments /\ IsFiniteSet(S) /\ \A p \in S : Amounts[p] \in Int
  BY RowsFinite
<1>3. /\ \A p \in S : f[p] \in T /\ f[p] = Reporting!Group(r, b, p)
      /\ f \in Surjection(S, T)
  BY DEF Surjection
<1>4. \A t \in T : \A p : p \in group[t] <=> p \in S /\ f[p] = t
  OBVIOUS
<1>5. \A t \in T : h[t] = Reporting!SumOf(group[t]) /\ group[t] \subseteq S
  OBVIOUS
<1> HIDE DEF f, T, S, h, group
<1>6. IsFiniteSet(T)
  BY <1>2, <1>3, FS_Surjection
<1>7. \A t \in T : h[t] = SumFunctionOnSet(Amounts, group[t])
  BY <1>2, <1>5, SumOfRows
<1>8. SumFunctionOnSet(Amounts, S) = SumFunctionOnSet(h, T)
  BY <1>2, <1>3, <1>4, <1>6, <1>7, SumByGroups
<1> QED
  BY <1>1, <1>8 DEF S

\* Two reports of the period are of the same rows.
LEMMA SameRows ==
  ASSUME NEW r \in Reporting!Report \ {"summary"}, NEW q \in Reporting!Report \ {"summary"}, NEW b, NEW d
  PROVE  Reporting!Rows(r, b, d) = Reporting!Rows(q, b, d)
BY DEF Reporting!Rows, Reporting!Counted

\* What the trend has is within its days.
LEMMA TrendDays ==
  ASSUME ReportsType, NEW b \in Places, NEW d \in Period
  PROVE  LET trend == Reporting!Answer("trend", b, d)
         IN DOMAIN trend.rows \subseteq (trend.today - d + 1)..trend.today
<1> DEFINE S == Reporting!Rows("trend", b, d)
           today == Reporting!Today(b)
<1>1. \A p \in S : Reporting!LocalDay(b, p.at) \in (today - d + 1)..today
  <2> SUFFICES ASSUME NEW p \in S PROVE Reporting!LocalDay(b, p.at) \in (today - d + 1)..today
    OBVIOUS
  <2>1. p.at \in Nat /\ now \in Nat /\ p.at <= now
    BY RowsFinite DEF ReportsType
  <2>2. Reporting!LocalDay(b, p.at) \in Nat /\ today \in Nat /\ Reporting!LocalDay(b, p.at) <= today
    BY <2>1, DaysInOrder DEF Reporting!Today
  <2>3. Reporting!LocalDay(b, p.at) >= today - (d - 1)
    BY DEF Reporting!Rows, Reporting!PeriodStart, Reporting!Today
  <2>4. d \in Nat
    BY ReportConstants
  <2> HIDE DEF today
  <2> QED
    BY <2>2, <2>3, <2>4
<1>2. /\ Reporting!Answer("trend", b, d).today = today
      /\ DOMAIN Reporting!Answer("trend", b, d).rows = {Reporting!LocalDay(b, p.at) : p \in S}
  BY DEF Reporting!Answer, Reporting!Group
<1> HIDE DEF S, today
<1> QED
  BY <1>1, <1>2

\* Today's sales are the last day of the trend.
LEMMA TodayIsLast ==
  ASSUME ReportsType, NEW b \in Places, NEW d \in Period
  PROVE  LET trend == Reporting!Answer("trend", b, d)
         IN SumFunctionOnSet(Amounts, Reporting!Rows("summary", b, d)) =
              IF trend.today \in DOMAIN trend.rows THEN trend.rows[trend.today] ELSE 0
<1> DEFINE S == Reporting!Rows("trend", b, d)
           T == Reporting!Rows("summary", b, d)
           today == Reporting!Today(b)
           U == {p \in S : Reporting!LocalDay(b, p.at) = today}
           trend == Reporting!Answer("trend", b, d)
<1>1. \A p \in payments : Reporting!LocalDay(b, p.at) \in Nat /\ today \in Nat /\ Reporting!LocalDay(b, p.at) <= today
  BY DaysInOrder DEF ReportsType, Reporting!Today
<1>2. \A p \in payments : Reporting!LocalDay(b, p.at) >= today <=> Reporting!LocalDay(b, p.at) = today
  <2> HIDE DEF today
  <2> QED
    BY <1>1
<1>3. d \in Nat \ {0}
  BY ReportConstants
<1>4. \A p \in payments : Reporting!LocalDay(b, p.at) = today => Reporting!LocalDay(b, p.at) >= Reporting!PeriodStart(b, d)
  <2>1. Reporting!PeriodStart(b, d) = today - (d - 1)
    BY DEF Reporting!PeriodStart, Reporting!Today
  <2> HIDE DEF today
  <2> QED
    BY <1>1, <1>3, <2>1
<1>5. T = U
  <2>1. T = {p \in payments : /\ p.branch \in Reporting!ScopeOf(b)
                              /\ Reporting!LocalDay(b, p.at) >= today /\ Reporting!Counted("summary", p)}
    BY DEF Reporting!Rows
  <2>2. S = {p \in payments : /\ p.branch \in Reporting!ScopeOf(b)
                              /\ Reporting!LocalDay(b, p.at) >= Reporting!PeriodStart(b, d) /\ Reporting!Counted("trend", p)}
    BY DEF Reporting!Rows
  <2>3. \A p : Reporting!Counted("summary", p) <=> Reporting!Counted("trend", p)
    BY DEF Reporting!Counted
  <2> HIDE DEF today, S, T
  <2> QED
    BY <1>2, <1>4, <2>1, <2>2, <2>3
<1>6. /\ trend.today = today
      /\ trend.rows = [t \in {Reporting!LocalDay(b, p.at) : p \in S} |->
                         Reporting!SumOf({p \in S : Reporting!LocalDay(b, p.at) = t})]
  BY DEF Reporting!Answer, Reporting!Group
<1>7. U \subseteq payments
  BY RowsFinite
<1> HIDE DEF S, T, today, trend
<1>8. CASE today \in {Reporting!LocalDay(b, p.at) : p \in S}
  <2>1. trend.rows[today] = Reporting!SumOf(U) /\ today \in DOMAIN trend.rows
    BY <1>6, <1>8
  <2>2. Reporting!SumOf(U) = SumFunctionOnSet(Amounts, U)
    BY <1>7, SumOfRows
  <2> QED
    BY <1>5, <1>6, <2>1, <2>2 DEF T, trend
<1>9. CASE today \notin {Reporting!LocalDay(b, p.at) : p \in S}
  <2>1. U = {} /\ today \notin DOMAIN trend.rows
    BY <1>6, <1>9
  <2> QED
    BY <1>5, <1>6, <2>1, SumOfNone DEF T, trend
<1> QED
  BY <1>8, <1>9

LEMMA ReportsInitInv == Reporting!Init => ReportsInv
<1> SUFFICES ASSUME Reporting!Init PROVE ReportsInv
  OBVIOUS
<1>1. days \in Period
  BY ReportConstants DEF Reporting!Init
<1>2. run = [r \in Reporting!Report |-> None] /\ bundle = run
  BY DEF Reporting!Init, Reporting!Empty
<1>3. ReportsType
  BY <1>1, <1>2, FS_EmptySet DEF Reporting!Init, ReportsType, Places
<1>4. Reporting!TotalsAgree
  BY DEF Reporting!Init, Reporting!TotalsAgree
<1> QED
  BY <1>2, <1>3, <1>4 DEF Reporting!Init, ReportsInv, OfFilters, AnswersOfNow

\* The data change, which no report on the screen tells.
LEMMA ReportsDisturbed ==
  ASSUME ReportsInv, Reporting!Disturb, ReportsType',
         days' = days, branchId' = branchId, reportsLoading' = reportsLoading, asked' = asked, run' = run,
         bundle' = bundle
  PROVE  ReportsInv'
BY DEF ReportsInv, OfFilters, Reporting!Disturb, Reporting!TotalsAgree, Reporting!Total, Reporting!Shown

\* A row of now is added.
LEMMA ReportsInserted ==
  ASSUME ReportsInv, NEW row, row.at = now, row.amount \in Int, Reporting!Insert(row)
  PROVE  ReportsInv'
<1>1. payments' = payments \cup {row} /\ now' = now /\ Reporting!Disturb
      /\ days' = days /\ branchId' = branchId /\ reportsLoading' = reportsLoading /\ asked' = asked /\ run' = run
      /\ bundle' = bundle
  BY DEF Reporting!Insert, Reporting!page
<1>2. ReportsType'
  <2>1. IsFiniteSet(payments')
    BY <1>1, FS_AddElement DEF ReportsInv, ReportsType
  <2> QED
    BY <1>1, <2>1 DEF ReportsInv, ReportsType
<1> QED
  BY <1>1, <1>2, ReportsDisturbed

\* The reports that are asked for are fewer.
LEMMA ReportsRest ==
  ASSUME ReportsInv, now' = now, payments' = payments, active' = active, days' = days, branchId' = branchId,
         reportsLoading' = reportsLoading, run' = run, bundle' = bundle, calm' = calm, asked' \subseteq asked
  PROVE  ReportsInv'
<1>1. \A q \in Reporting!Report : Reporting!Answer(q, branchId, days)' = Reporting!Answer(q, branchId, days)
  BY DEF Reporting!Answer, Reporting!Rows, Reporting!ScopeOf, Reporting!LocalDay, Reporting!Today,
         Reporting!PeriodStart, Reporting!Group, Reporting!SumOf
<1>2. AnswersOfNow => AnswersOfNow'
  BY <1>1 DEF AnswersOfNow
<1> QED
  BY <1>2 DEF ReportsInv, ReportsType, OfFilters, Reporting!TotalsAgree, Reporting!Total, Reporting!Shown

LEMMA ReportsStepInv == ReportsInv /\ [Reporting!Next]_reportsVars => ReportsInv'
<1> SUFFICES ASSUME ReportsInv, [Reporting!Next]_reportsVars PROVE ReportsInv'
  OBVIOUS
<1>1. CASE Reporting!Tick
  <2>1. ReportsType'
    BY <1>1 DEF ReportsInv, ReportsType, Reporting!Tick, Reporting!page
  <2> QED
    BY <1>1, <2>1, ReportsDisturbed DEF Reporting!Tick, Reporting!page
<1>2. ASSUME NEW b \in Branch, Reporting!Deactivate(b) PROVE ReportsInv'
  <2>1. ReportsType'
    BY <1>2 DEF ReportsInv, ReportsType, Reporting!Deactivate, Reporting!page
  <2> QED
    BY <1>2, <2>1, ReportsDisturbed DEF Reporting!Deactivate, Reporting!page
<1>3. ASSUME NEW b, NEW s, NEW m, NEW a \in Int, Reporting!Insert(Reporting!Row(b, s, m, a)) PROVE ReportsInv'
  <2>1. Reporting!Row(b, s, m, a).at = now /\ Reporting!Row(b, s, m, a).amount = a
    BY DEF Reporting!Row
  <2> QED
    BY <1>3, <2>1, ReportsInserted
<1>4. CASE \E b \in Branch : \/ Reporting!MarkUnpaid(b)
                           \/ \E s \in Source \cup {None}, m \in Method \ {Unpaid} : Reporting!Pay(b, s, m)
  BY <1>3, <1>4 DEF Reporting!MarkUnpaid, Reporting!Pay
<1>5. CASE \E p \in payments : Reporting!Refund(p)
  <2>1. -1 \in Int
    OBVIOUS
  <2> QED
    BY <1>3, <1>5, <2>1 DEF Reporting!Refund
<1>6. ASSUME NEW b \in Places, NEW d \in Period, Reporting!Start(b, d) PROVE ReportsInv'
  <2>1. /\ days' = d /\ branchId' = b /\ reportsLoading' = TRUE
        /\ run' = [r \in Reporting!Report |-> None] /\ bundle' = [r \in Reporting!Report |-> None]
        /\ now' = now /\ payments' = payments /\ active' = active
    BY <1>6 DEF Reporting!Start, Reporting!Empty, Reporting!BundleAtStart, Reporting!server
  <2>2. ReportsType'
    BY <2>1 DEF ReportsInv, ReportsType
  <2>3. Reporting!TotalsAgree'
    BY <2>1 DEF Reporting!TotalsAgree
  <2> QED
    BY <2>1, <2>2, <2>3 DEF ReportsInv, OfFilters, AnswersOfNow
<1>7. CASE Reporting!ApplyFilters \/ Reporting!Refresh
  BY <1>6, <1>7 DEF ReportsInv, ReportsType, Reporting!ApplyFilters, Reporting!Refresh, Places
<1>8. ASSUME NEW r \in Reporting!Report, Reporting!Read(r) PROVE ReportsInv'
  <2> DEFINE answer == Reporting!Answer(r, branchId, days)
  <2>1. /\ days' = days /\ branchId' = branchId /\ reportsLoading' = reportsLoading /\ reportsLoading
        /\ run' = [run EXCEPT ![r] = answer] /\ bundle' = bundle
        /\ now' = now /\ payments' = payments /\ active' = active /\ calm' = calm
    BY <1>8 DEF Reporting!Read, Reporting!server, ReportsInv
  <2>2. ReportsType'
    BY <2>1 DEF ReportsInv, ReportsType
  <2>3. OfFilters(r, answer, branchId, days)
    <3>1. answer.filters = <<branchId, days>>
      BY DEF Reporting!Answer
    <3>2. r = "trend" => DOMAIN answer.rows \subseteq (answer.today - days + 1)..answer.today
      BY TrendDays DEF ReportsInv, ReportsType
    <3> HIDE DEF answer
    <3> QED
      BY <3>1, <3>2 DEF OfFilters
  <2>4. Reporting!Answer(r, branchId, days)' = answer
    BY <2>1 DEF Reporting!Answer, Reporting!Rows, Reporting!ScopeOf, Reporting!LocalDay, Reporting!Today,
                Reporting!PeriodStart, Reporting!Group, Reporting!SumOf
  <2>5. \A q \in Reporting!Report : Reporting!Answer(q, branchId, days)' = Reporting!Answer(q, branchId, days)
    BY <2>1 DEF Reporting!Answer, Reporting!Rows, Reporting!ScopeOf, Reporting!LocalDay, Reporting!Today,
                Reporting!PeriodStart, Reporting!Group, Reporting!SumOf
  <2> HIDE DEF answer
  <2>6. \A q \in Reporting!Report : run'[q] = run[q] \/ (q = r /\ run'[q] = answer)
    BY <2>1 DEF ReportsInv, ReportsType
  <2>7. Reporting!TotalsAgree'
    BY <2>1 DEF Reporting!TotalsAgree
  <2>8. \A q \in Reporting!Report : OfFilters(q, run'[q], branchId, days) /\ OfFilters(q, bundle[q], branchId, days)
    BY <2>3, <2>6 DEF ReportsInv
  <2>9. calm => AnswersOfNow'
    BY <2>1, <2>4, <2>5, <2>6 DEF ReportsInv, AnswersOfNow
  <2> QED
    BY <2>1, <2>2, <2>7, <2>8, <2>9 DEF ReportsInv, OfFilters
<1>9. ASSUME NEW r \in Reporting!Report, Reporting!Fails(r) PROVE ReportsInv'
  BY <1>9, ReportsRest DEF Reporting!Fails, Reporting!server
<1>10. CASE Reporting!Settled
  <2>1. /\ days' = days /\ branchId' = branchId /\ ~reportsLoading' /\ reportsLoading /\ asked' = {}
        /\ run' = [r \in Reporting!Report |-> None] /\ bundle' = run
        /\ now' = now /\ payments' = payments /\ active' = active /\ calm' = calm
    BY <1>10 DEF Reporting!Settled, Reporting!server, Reporting!Empty, Reporting!LoadingAfter
  <2>2. ReportsType'
    BY <2>1 DEF ReportsInv, ReportsType
  <2>3. Reporting!TotalsAgree'
    <3> SUFFICES ASSUME calm PROVE Reporting!TotalsAgree'
      BY <2>1 DEF Reporting!TotalsAgree
    <3>1. \A r \in Reporting!Report : run[r] # None => run[r] = Reporting!Answer(r, branchId, days)
      BY <2>1 DEF ReportsInv, AnswersOfNow
    <3>2. \A r \in Reporting!Report : run[r] # None =>
            Reporting!Total(r)' = SumFunctionOnSet(Amounts, Reporting!Rows(r, branchId, days))
      BY <2>1, <3>1, GroupsAddUp, SameTotals DEF Reporting!Total, ReportsInv
    <3>3. \A r, q \in Reporting!Report \ {"summary"} : run[r] # None /\ run[q] # None => Reporting!Total(r)' = Reporting!Total(q)'
      BY <3>2, SameRows
    <3>4. run["summary"] # None /\ run["trend"] # None =>
            Reporting!Total("summary")' = IF run["trend"].today \in DOMAIN run["trend"].rows
                                            THEN run["trend"].rows[run["trend"].today] ELSE 0
      BY <3>1, <3>2, TodayIsLast DEF ReportsInv, ReportsType, Reporting!Report
    <3>5. Reporting!Shown' = {r \in Reporting!Report : run[r] # None}
      BY <2>1 DEF Reporting!Shown
    <3> QED
      BY <2>1, <3>3, <3>4, <3>5 DEF Reporting!TotalsAgree
  <2> QED
    BY <2>1, <2>2, <2>3 DEF ReportsInv, OfFilters
<1>11. CASE UNCHANGED reportsVars
  BY <1>11, ReportsRest DEF reportsVars
<1> QED
  BY <1>1, <1>2, <1>4, <1>5, <1>7, <1>8, <1>9, <1>10, <1>11 DEF Reporting!Next

LEMMA ReportsMoveAlone == [SuiteNext]_suiteVars => [Reporting!Next]_reportsVars
BY DEF SuiteNext, suiteVars, reportsVars

LEMMA ReportsShown ==
  ReportsInv => Reporting!ShownOfFilters /\ Reporting!TotalsAgree /\ Reporting!TrendWithinPeriod
BY DEF ReportsInv, OfFilters, Reporting!ShownOfFilters, Reporting!TrendWithinPeriod, Reporting!Shown, Reporting!Report

-----------------------------------------------------------------------------
(* The list of customers.  A page is a part of the rows, from the cursor   *)
(* it was asked with to the one it ends with; what is on the screen is the *)
(* part from the first row on, and a page that is added continues it.      *)
(* Rows that were touched since the first page are left out of account.    *)

Id == Listing!Id
Directions == {"asc", "desc"}
Cursors == [direction : Directions, id : Listing!Id, v : Listing!SortValue]
Pages == [data : Seq(Id), next_cursor : Cursors \cup {Null}]
Loads == [latest : BOOLEAN, first : BOOLEAN, touched : SUBSET Id, refused : BOOLEAN, page : Pages]

Stored == value \in [Id -> Listing!SortValue \cup {Absent}]
There(i) == i \in Id /\ value[i] # Absent

ListType ==
  /\ Stored
  /\ query \in Listing!Query
  /\ listLoads \subseteq Loads
  /\ next \in Cursors \cup {Null}
  /\ shown \in Seq(Id) /\ touched \in SUBSET Id

Follows(from, i) == from = Null \/ Listing!Behind(from, i)
Within(to, i) == to = Null \/ ~Listing!Behind(to, i)

\* seq is what the query q has from one cursor to another, but for the rows of T.
Part(seq, from, to, T, q) ==
  /\ seq \in Seq(Id)
  /\ \A n \in 1..Len(seq) : seq[n] \notin T => seq[n] \in Listing!Rows(q)
  /\ \A m, n \in 1..Len(seq) : m < n /\ seq[m] \notin T /\ seq[n] \notin T =>
       Listing!Precedes(q.direction, seq[m], seq[n])
  /\ to # Null => to \in Cursors /\ to.direction = q.direction
  /\ \A i \in Listing!Rows(q) \ T :
       /\ (\E n \in 1..Len(seq) : seq[n] = i) <=> Follows(from, i) /\ Within(to, i)
       /\ ~Within(to, i) => Follows(from, i)

\* Only the latest load counts, and while it is under way nothing else can be loaded.
OneLatest ==
  /\ \A l \in listLoads : l.latest => listLoading
  /\ \A l, m \in listLoads : l.latest /\ m.latest => l = m

Lists ==
  ~timer /\ ~error =>
    /\ \A l \in listLoads : l.latest /\ l.first =>
         Part(l.page.data, Null, l.page.next_cursor, l.touched, query)
    /\ (\A l \in listLoads : ~(l.latest /\ l.first)) => Part(shown, Null, next, touched, query)
    /\ \A l \in listLoads : l.latest /\ ~l.first /\ ~l.refused =>
         next # Null /\ Part(l.page.data, next, l.page.next_cursor, touched, query)

ListInv == ListType /\ OneLatest /\ Lists

LEMMA ListConstants ==
  /\ MaxId \in Nat /\ MaxValue \in Nat /\ Limit \in Nat \ {0}
  /\ Null \notin Nat /\ Absent \notin Nat /\ Null # Absent /\ Null \notin Cursors
BY SuiteAssumption DEF SuiteAssumption, Listing!ListAssumption, Cursors, Directions, Listing!Id, Listing!SortValue

\* The order of the rows, for numbers and for rows.
LEMMA BeforeOrder ==
  ASSUME NEW d \in Directions, NEW v \in Nat, NEW w \in Nat, NEW x \in Nat
  PROVE  /\ ~Listing!Before(d, v, v)
         /\ Listing!Before(d, v, w) /\ Listing!Before(d, w, x) => Listing!Before(d, v, x)
         /\ v # w => Listing!Before(d, v, w) \/ Listing!Before(d, w, v)
BY DEF Listing!Before, Directions

LEMMA PrecedesOrder ==
  ASSUME Stored, NEW d \in Directions, NEW i, NEW j, NEW k, There(i), There(j), There(k)
  PROVE  /\ ~Listing!Precedes(d, i, i)
         /\ Listing!Precedes(d, i, j) /\ Listing!Precedes(d, j, k) => Listing!Precedes(d, i, k)
         /\ i # j => Listing!Precedes(d, i, j) \/ Listing!Precedes(d, j, i)
<1>1. /\ i \in Nat /\ j \in Nat /\ k \in Nat
      /\ \A n \in {i, j, k} : value[n] = Null \/ value[n] \in Nat
  BY ListConstants DEF Stored, There, Id, Listing!Id, Listing!SortValue
<1>2. Null \notin Nat
  BY ListConstants
<1> QED
  BY <1>1, <1>2, BeforeOrder DEF Listing!Precedes

\* What a cursor precedes is closed under the order.
LEMMA BehindOrder ==
  ASSUME Stored, NEW c \in Cursors, NEW i, NEW j, There(i), There(j)
  PROVE  Listing!Behind(c, i) /\ Listing!Precedes(c.direction, i, j) => Listing!Behind(c, j)
<1>1. /\ i \in Nat /\ j \in Nat /\ c.id \in Nat /\ c.direction \in Directions
      /\ (c.v = Null \/ c.v \in Nat)
      /\ \A n \in {i, j} : value[n] = Null \/ value[n] \in Nat
  BY ListConstants DEF Stored, There, Id, Listing!Id, Listing!SortValue, Cursors
<1>2. Null \notin Nat
  BY ListConstants
<1> QED
  BY <1>1, <1>2, BeforeOrder DEF Listing!Precedes, Listing!Behind

\* The cursor of a row stands for the row, if it keeps the value exactly.
LEMMA CursorOfRow ==
  ASSUME Unit = 1, Stored, NEW d \in Directions, NEW i, There(i)
  PROVE  /\ Listing!Cursor(d, i) \in Cursors /\ Listing!Cursor(d, i) # Null
         /\ Listing!Cursor(d, i).direction = d
         /\ \A j : There(j) => (Listing!Behind(Listing!Cursor(d, i), j) <=> Listing!Precedes(d, i, j))
<1> DEFINE c == Listing!Cursor(d, i)
<1>1. /\ i \in Nat /\ i \in Listing!Id /\ (value[i] = Null \/ value[i] \in Nat) /\ value[i] \in Listing!SortValue
  BY ListConstants DEF Stored, There, Id, Listing!Id, Listing!SortValue
<1>2. value[i] # Null => (value[i] \div Unit) * Unit = value[i]
  BY <1>1
<1>3. c = [direction |-> d, id |-> i, v |-> value[i]]
  BY <1>2 DEF Listing!Cursor
<1> HIDE DEF c
<1>4. c \in Cursors /\ c.direction = d /\ c.id = i /\ c.v = value[i]
  BY <1>1, <1>3 DEF Cursors
<1>5. ASSUME NEW j, There(j) PROVE Listing!Behind(c, j) <=> Listing!Precedes(d, i, j)
  <2>1. j \in Nat /\ (value[j] = Null \/ value[j] \in Nat)
    BY <1>5, ListConstants DEF Stored, There, Id, Listing!Id, Listing!SortValue
  <2> QED
    BY <1>1, <1>4, <2>1, ListConstants, BeforeOrder DEF Listing!Precedes, Listing!Behind
<1> QED
  BY <1>4, <1>5, ListConstants DEF c

\* The rows of a request in order.
LEMMA SortedRows ==
  ASSUME Stored, NEW q \in Listing!Query, NEW rows \in SUBSET Listing!Rows(q)
  PROVE  LET s == Listing!Sorted(q, rows)
         IN /\ s \in Seq(Id)
            /\ \A n \in 1..Len(s) : s[n] \in rows
            /\ \A i \in rows : \E n \in 1..Len(s) : s[n] = i
            /\ \A m, n \in 1..Len(s) : m < n => Listing!Precedes(q.direction, s[m], s[n])
<1> DEFINE d == q.direction
           R == {p \in rows \X rows : Listing!Precedes(d, p[1], p[2])}
           N == Cardinality(rows)
           s == Listing!Sorted(q, rows)
<1>1. d \in Directions /\ \A i \in rows : There(i)
  BY DEF Listing!Query, Directions, Listing!Rows, There, Id
<1>2. rows \subseteq Id /\ IsFiniteSet(rows) /\ N \in Nat
  <2>1. rows \subseteq Id
    BY DEF Listing!Rows, Id
  <2>2. IsFiniteSet(Id)
    BY ListConstants, FS_Interval DEF Id, Listing!Id
  <2> QED
    BY <2>1, <2>2, FS_Subset, FS_CardinalityType
<1>3. \A i, j \in rows : <<i, j>> \in R <=> Listing!Precedes(d, i, j)
  OBVIOUS
<1> HIDE DEF R, d
<1>4. StrictOrder(rows, R)
  BY <1>1, <1>3, PrecedesOrder DEF StrictOrder
<1>5. PICK t \in [1..N -> rows] :
        /\ \A i, j \in 1..N : i # j => t[i] # t[j]
        /\ \A i, j \in 1..N : i < j => <<t[i], t[j]>> \in R
  BY <1>2, <1>4, InOrder
<1>6. Listing!SetToSeqs(rows) = {f \in [1..N -> rows] : \A i, j \in 1..N : i # j => f[i] # f[j]}
  BY DEF Listing!SetToSeqs, Listing!Cardinality, Cardinality
<1> HIDE DEF N
<1>7. t \in Listing!SetToSeqs(rows) /\ \A m, n \in DOMAIN t : m < n => Listing!Precedes(d, t[m], t[n])
  BY <1>3, <1>5, <1>6
<1>8. s \in Listing!SetToSeqs(rows) /\ \A m, n \in DOMAIN s : m < n => Listing!Precedes(d, s[m], s[n])
  BY <1>7 DEF Listing!Sorted, d
<1> HIDE DEF s
<1>9. s \in [1..N -> rows] /\ \A i, j \in 1..N : i # j => s[i] # s[j]
  BY <1>6, <1>8
<1>10. s \in Seq(Id) /\ Len(s) = N
  BY <1>2, <1>9
<1>11. \A i \in rows : \E n \in 1..N : s[n] = i
  <2>1. s \in Injection(1..N, rows)
    BY <1>9 DEF Injection, IsInjective
  <2>2. IsFiniteSet(1..N) /\ Cardinality(1..N) = N
    BY <1>2, FS_Interval
  <2>3. s \in Surjection(1..N, rows)
    BY <1>2, <2>1, <2>2, FS_Injection DEF N
  <2> QED
    BY <2>3 DEF Surjection
<1> QED
  BY <1>8, <1>9, <1>10, <1>11 DEF s, d

\* The answer to a request is the part that follows its cursor.
LEMMA PageIsPart ==
  ASSUME Unit = 1, Stored, NEW q \in Listing!Query, NEW from \in Cursors \cup {Null},
         from # Null => from.direction = q.direction
  PROVE  LET page == Listing!Page(q, from)
         IN page \in Pages /\ Part(page.data, from, page.next_cursor, {}, q)
<1> DEFINE d == q.direction
           rows == {i \in Listing!Rows(q) : Follows(from, i)}
           s == Listing!Sorted(q, rows)
           k == IF Len(s) > Limit THEN Limit ELSE Len(s)
           data == SubSeq(s, 1, k)
           to == IF Len(s) > Limit THEN Listing!Cursor(d, Listing!Last(data)) ELSE Null
           page == Listing!Page(q, from)
<1>1. d \in Directions /\ \A i \in Listing!Rows(q) : There(i)
  BY DEF Listing!Query, Directions, Listing!Rows, There, Id
<1>2. /\ s \in Seq(Id)
      /\ \A n \in 1..Len(s) : s[n] \in rows
      /\ \A i \in rows : \E n \in 1..Len(s) : s[n] = i
      /\ \A m, n \in 1..Len(s) : m < n => Listing!Precedes(d, s[m], s[n])
  BY SortedRows
<1>3. page = [data |-> data, next_cursor |-> to]
  BY DEF Listing!Page, Listing!CursorPage, Follows
<1>4. \A i : i \in rows <=> i \in Listing!Rows(q) /\ Follows(from, i)
  OBVIOUS
<1> HIDE DEF d, rows, s
<1>5. Limit \in Nat \ {0} /\ Len(s) \in Nat /\ k \in Nat /\ k <= Len(s)
  BY <1>2, ListConstants
<1>6. /\ data \in Seq(Id) /\ Len(data) = k
      /\ \A n \in 1..k : data[n] = s[n] /\ n \in 1..Len(s)
  <2> HIDE DEF k
  <2>1. \A n \in 1..k : n \in 1..Len(s)
    BY <1>5
  <2>2. data = [n \in 1..k |-> s[n]]
    BY <1>2, <1>5, <2>1
  <2> QED
    BY <1>2, <1>5, <2>1, <2>2
<1>7. Len(s) > Limit =>
        /\ k = Limit /\ Limit \in 1..Len(s) /\ to = Listing!Cursor(d, s[Limit]) /\ There(s[Limit])
        /\ to \in Cursors /\ to # Null /\ to.direction = d
        /\ \A j : There(j) => (Listing!Behind(to, j) <=> Listing!Precedes(d, s[Limit], j))
  <2> SUFFICES ASSUME Len(s) > Limit
               PROVE  /\ k = Limit /\ Limit \in 1..Len(s) /\ to = Listing!Cursor(d, s[Limit]) /\ There(s[Limit])
                      /\ to \in Cursors /\ to # Null /\ to.direction = d
                      /\ \A j : There(j) => (Listing!Behind(to, j) <=> Listing!Precedes(d, s[Limit], j))
    OBVIOUS
  <2>1. k = Limit /\ Limit \in 1..Len(s)
    BY <1>5
  <2>2. Listing!Last(data) = s[Limit]
    <3> HIDE DEF data, k
    <3> QED
      BY <1>5, <1>6, <2>1 DEF Listing!Last
  <2>3. There(s[Limit])
    BY <1>1, <1>2, <1>4, <2>1
  <2>4. to = Listing!Cursor(d, s[Limit])
    BY <2>2
  <2> HIDE DEF to
  <2> QED
    BY <1>1, <2>1, <2>3, <2>4, CursorOfRow
<1>8. Len(s) <= Limit => k = Len(s) /\ to = Null
  BY <1>5
<1> HIDE DEF k, data, to
<1>9. Len(s) > Limit \/ Len(s) <= Limit
  BY <1>5
<1>10. \A n \in 1..Len(s) : There(s[n]) /\ s[n] \in Listing!Rows(q) /\ Follows(from, s[n])
  BY <1>1, <1>2, <1>4
<1>11. to # Null => to \in Cursors /\ to.direction = d
  BY <1>7, <1>8, <1>9
<1>12. ASSUME NEW i \in Listing!Rows(q)
       PROVE  (\E n \in 1..k : data[n] = i) <=> Follows(from, i) /\ Within(to, i)
  <2>1. ASSUME NEW n \in 1..k, data[n] = i PROVE Follows(from, i) /\ Within(to, i)
    <3>1. n \in 1..Len(s) /\ s[n] = i
      BY <1>6, <2>1
    <3>2. CASE Len(s) > Limit
      <4>1. n <= Limit
        BY <1>5, <1>7, <3>2
      <4>2. ~Listing!Precedes(d, s[Limit], i)
        <5>1. CASE n = Limit
          BY <1>1, <1>10, <3>1, <5>1, PrecedesOrder
        <5>2. CASE n < Limit
          <6>1. Listing!Precedes(d, i, s[Limit])
            BY <1>2, <1>7, <3>1, <3>2, <5>2
          <6> QED
            BY <1>1, <1>7, <3>1, <3>2, <6>1, PrecedesOrder
        <5> QED
          BY <1>5, <4>1, <5>1, <5>2
      <4> QED
        BY <1>1, <1>7, <1>10, <3>1, <3>2, <4>2 DEF Within
    <3>3. CASE Len(s) <= Limit
      BY <1>8, <1>10, <3>1, <3>3 DEF Within
    <3> QED
      BY <1>9, <3>2, <3>3
  <2>2. ASSUME Follows(from, i), Within(to, i) PROVE \E n \in 1..k : data[n] = i
    <3>1. PICK n \in 1..Len(s) : s[n] = i
      BY <1>2, <1>4, <2>2
    <3>2. n \in 1..k
      <4>1. CASE Len(s) > Limit
        <5>1. ~Listing!Precedes(d, s[Limit], i)
          BY <1>1, <1>7, <2>2, <4>1 DEF Within
        <5>2. ~(Limit < n)
          BY <1>2, <1>7, <3>1, <4>1, <5>1
        <5> QED
          BY <1>5, <1>7, <4>1, <5>2
      <4>2. CASE Len(s) <= Limit
        BY <1>8, <4>2
      <4> QED
        BY <1>9, <4>1, <4>2
    <3> QED
      BY <1>6, <3>1, <3>2
  <2> QED
    BY <2>1, <2>2
<1>13. ASSUME NEW i \in Listing!Rows(q), ~Within(to, i) PROVE Follows(from, i)
  <2>1. Len(s) > Limit /\ to # Null /\ Listing!Behind(to, i)
    BY <1>8, <1>9, <1>13 DEF Within
  <2>2. Listing!Precedes(d, s[Limit], i) /\ There(i) /\ There(s[Limit]) /\ Follows(from, s[Limit])
    BY <1>1, <1>7, <1>10, <2>1
  <2>3. CASE from = Null
    BY <2>3 DEF Follows
  <2>4. CASE from # Null
    <3>1. from \in Cursors /\ from.direction = d /\ Listing!Behind(from, s[Limit])
      BY <2>2, <2>4 DEF Follows, d
    <3>2. Listing!Behind(from, i)
      BY <2>2, <3>1, BehindOrder
    <3> QED
      BY <3>2 DEF Follows
  <2> QED
    BY <2>3, <2>4
<1>14. page.data = data /\ page.next_cursor = to /\ page \in Pages
  BY <1>3, <1>6, <1>11 DEF Pages
<1>15. Part(data, from, to, {}, q)
  <2>1. \A n \in 1..k : data[n] \in Listing!Rows(q)
    BY <1>6, <1>10
  <2>2. \A m, n \in 1..k : m < n => Listing!Precedes(d, data[m], data[n])
    BY <1>2, <1>6
  <2> QED
    BY <1>6, <1>11, <1>12, <1>13, <2>1, <2>2 DEF Part, d
<1> HIDE DEF page
<1> QED
  BY <1>14, <1>15 DEF page

\* A row that is changed is left out of account from then on.
LEMMA PartTouched ==
  ASSUME Stored, NEW seq, NEW from, NEW to, NEW T, NEW q, Part(seq, from, to, T, q), NEW S, T \subseteq S,
         \A i \in Id \ S : value'[i] = value[i]
  PROVE  Part(seq, from, to, S, q)'
<1>1. \A i \in Id \ S : i \in Listing!Rows(q)' <=> i \in Listing!Rows(q)
  BY DEF Listing!Rows, Id
<1>2. \A i \in Id \ S : Follows(from, i)' = Follows(from, i) /\ Within(to, i)' = Within(to, i)
  BY DEF Follows, Within, Listing!Behind
<1>3. \A i, j \in Id \ S : Listing!Precedes(q.direction, i, j)' = Listing!Precedes(q.direction, i, j)
  BY DEF Listing!Precedes
<1>4. seq \in Seq(Id) /\ \A n \in 1..Len(seq) : seq[n] \in Id
  BY DEF Part
<1>5. \A n \in 1..Len(seq) : seq[n] \notin S => seq[n] \in Listing!Rows(q)'
  BY <1>1, <1>4 DEF Part
<1>6. \A m, n \in 1..Len(seq) : m < n /\ seq[m] \notin S /\ seq[n] \notin S =>
        Listing!Precedes(q.direction, seq[m], seq[n])'
  BY <1>3, <1>4 DEF Part
<1>7. \A i \in Listing!Rows(q)' \ S :
        /\ (\E n \in 1..Len(seq) : seq[n] = i) <=> Follows(from, i)' /\ Within(to, i)'
        /\ ~Within(to, i)' => Follows(from, i)'
  <2>1. \A i \in Listing!Rows(q)' \ S : i \in Id \ S /\ i \in Listing!Rows(q) \ T
    BY <1>1 DEF Listing!Rows, Id
  <2> QED
    BY <1>2, <2>1 DEF Part
<1>8. to # Null => to \in Cursors /\ to.direction = q.direction
  BY DEF Part
<1> QED
  BY <1>4, <1>5, <1>6, <1>7, <1>8 DEF Part

\* Two parts of which one goes on where the other ends are a part.
LEMMA PartsAdd ==
  ASSUME Stored, NEW q \in Listing!Query, NEW seq, NEW c \in Cursors, c # Null, NEW more, NEW to, NEW T,
         Part(seq, Null, c, T, q), Part(more, c, to, T, q)
  PROVE  Part(seq \o more, Null, to, T, q)
<1> DEFINE d == q.direction
           both == seq \o more
<1>1. d \in Directions /\ \A i \in Listing!Rows(q) : There(i)
  BY DEF Listing!Query, Directions, Listing!Rows, There, Id
<1>2. /\ seq \in Seq(Id) /\ more \in Seq(Id) /\ Len(seq) \in Nat /\ Len(more) \in Nat
      /\ both \in Seq(Id) /\ Len(both) = Len(seq) + Len(more)
      /\ \A n \in 1..Len(seq) : both[n] = seq[n]
      /\ \A n \in 1..Len(more) : both[Len(seq) + n] = more[n]
  BY DEF Part
<1> HIDE DEF both
<1>3. \A n \in 1..Len(both) : \/ n \in 1..Len(seq) /\ both[n] = seq[n]
                              \/ n - Len(seq) \in 1..Len(more) /\ both[n] = more[n - Len(seq)]
  <2> SUFFICES ASSUME NEW n \in 1..Len(both), n \notin 1..Len(seq)
               PROVE  n - Len(seq) \in 1..Len(more) /\ both[n] = more[n - Len(seq)]
    BY <1>2
  <2>1. n - Len(seq) \in 1..Len(more) /\ Len(seq) + (n - Len(seq)) = n
    BY <1>2
  <2> QED
    BY <1>2, <2>1
<1>4. \A n \in 1..Len(seq) : n \in 1..Len(both)
  BY <1>2
<1>5. \A n \in 1..Len(more) : Len(seq) + n \in 1..Len(both)
  BY <1>2
<1>6. \A n \in 1..Len(both) : both[n] \notin T => both[n] \in Listing!Rows(q)
  BY <1>3 DEF Part
\* What the first part has the cursor does not precede.
<1>7. \A n \in 1..Len(seq) : seq[n] \notin T => seq[n] \in Listing!Rows(q) /\ ~Listing!Behind(c, seq[n])
  BY DEF Part, Within
<1>8. \A n \in 1..Len(more) : more[n] \notin T => more[n] \in Listing!Rows(q) /\ Listing!Behind(c, more[n])
  BY DEF Part, Follows
<1>9. c.direction = d
  BY DEF Part
<1>10. ASSUME NEW i, NEW j, i \in Listing!Rows(q), j \in Listing!Rows(q), ~Listing!Behind(c, i), Listing!Behind(c, j)
       PROVE  Listing!Precedes(d, i, j)
  <2>1. There(i) /\ There(j) /\ i # j
    BY <1>1, <1>10
  <2>2. ~Listing!Precedes(d, j, i)
    BY <1>9, <1>10, <2>1, BehindOrder
  <2> QED
    BY <1>1, <2>1, <2>2, PrecedesOrder
<1>11. ASSUME NEW m \in 1..Len(both), NEW n \in 1..Len(both), m < n, both[m] \notin T, both[n] \notin T
       PROVE  Listing!Precedes(d, both[m], both[n])
  <2>1. CASE n \in 1..Len(seq)
    <3>1. m \in 1..Len(seq)
      BY <1>2, <1>11, <2>1
    <3> QED
      BY <1>2, <1>11, <2>1, <3>1 DEF Part
  <2>2. CASE n \notin 1..Len(seq) /\ m \in 1..Len(seq)
    <3>1. n - Len(seq) \in 1..Len(more) /\ both[n] = more[n - Len(seq)]
      BY <1>3, <2>2
    <3> QED
      BY <1>2, <1>7, <1>8, <1>10, <1>11, <2>2, <3>1
  <2>3. CASE n \notin 1..Len(seq) /\ m \notin 1..Len(seq)
    <3>1. /\ n - Len(seq) \in 1..Len(more) /\ both[n] = more[n - Len(seq)]
          /\ m - Len(seq) \in 1..Len(more) /\ both[m] = more[m - Len(seq)]
      BY <1>3, <2>3
    <3>2. m - Len(seq) < n - Len(seq)
      BY <1>2, <1>11
    <3> QED
      BY <1>11, <3>1, <3>2 DEF Part
  <2> QED
    BY <2>1, <2>2, <2>3
<1>12. ASSUME NEW i \in Listing!Rows(q) \ T
       PROVE  (\E n \in 1..Len(both) : both[n] = i) <=> Within(to, i)
  <2>1. (\E n \in 1..Len(seq) : seq[n] = i) <=> ~Listing!Behind(c, i)
    BY DEF Part, Follows, Within
  <2>2. /\ (\E n \in 1..Len(more) : more[n] = i) <=> Listing!Behind(c, i) /\ Within(to, i)
        /\ ~Within(to, i) => Listing!Behind(c, i)
    BY DEF Part, Follows
  <2>3. (\E n \in 1..Len(both) : both[n] = i) <=>
          (\E n \in 1..Len(seq) : seq[n] = i) \/ (\E n \in 1..Len(more) : more[n] = i)
    BY <1>2, <1>3, <1>4, <1>5
  <2> QED
    BY <2>1, <2>2, <2>3
<1>13. to # Null => to \in Cursors /\ to.direction = d
  BY DEF Part
<1> QED
  BY <1>2, <1>6, <1>11, <1>12, <1>13 DEF Part, Follows, both

\* A part is what the page of the browser lists.
LEMMA PartIsListed ==
  ASSUME Stored, query \in Listing!Query, Part(shown, Null, next, touched, query)
  PROVE  Listing!ListedAsStored
<1> DEFINE stored == Listing!Rows(query) \ touched
           listed == {n \in DOMAIN shown : shown[n] \notin touched}
           d == query.direction
<1>1. d \in Directions /\ \A i \in Listing!Rows(query) : There(i)
  BY DEF Listing!Query, Directions, Listing!Rows, There, Id
<1>2. shown \in Seq(Id) /\ DOMAIN shown = 1..Len(shown)
  BY DEF Part
<1>3. \A i : i \in Listing!ToSet(shown) <=> \E n \in 1..Len(shown) : shown[n] = i
  BY <1>2 DEF Listing!ToSet
<1>4. \A n \in listed : shown[n] \in stored
  BY <1>2 DEF Part
<1>5. \A m, n \in listed : m < n => Listing!Precedes(d, shown[m], shown[n])
  BY <1>2 DEF Part
<1>6. \A i \in stored : i \in Listing!ToSet(shown) <=> Within(next, i)
  BY <1>3 DEF Part, Follows
<1>7. ASSUME NEW n \in listed, NEW i \in stored, Listing!Precedes(d, i, shown[n])
      PROVE  i \in Listing!ToSet(shown)
  <2>1. shown[n] \in stored /\ Within(next, shown[n])
    BY <1>2, <1>3, <1>4, <1>6
  <2>2. CASE next = Null
    BY <1>6, <2>2 DEF Within
  <2>3. CASE next # Null
    <3>1. next \in Cursors /\ next.direction = d
      BY <2>3 DEF Part
    <3>2. ~Listing!Behind(next, i)
      BY <1>1, <1>7, <2>1, <2>3, <3>1, BehindOrder DEF Within
    <3> QED
      BY <1>6, <3>2 DEF Within
  <2> QED
    BY <2>2, <2>3
<1>8. next = Null => stored \subseteq Listing!ToSet(shown)
  BY <1>6 DEF Within
<1> QED
  BY <1>4, <1>5, <1>7, <1>8 DEF Listing!ListedAsStored

LEMMA ListInitInv == Listing!Init => ListInv
<1> SUFFICES ASSUME Listing!Init PROVE ListInv
  OBVIOUS
<1>1. query \in Listing!Query
  BY DEF Listing!Init, Listing!Query
<1>2. <<>> \in Seq(Id)
  OBVIOUS
<1>3. ListType
  BY <1>1, <1>2 DEF Listing!Init, ListType, Stored, Id
<1> QED
  BY <1>3 DEF Listing!Init, ListInv, OneLatest, Lists

\* The records of loads.
LEMMA LoadMarked ==
  ASSUME NEW l \in Loads, NEW i \in Id
  PROVE  /\ LET m == [l EXCEPT !.latest = FALSE]
            IN m \in Loads /\ ~m.latest
         /\ LET m == [l EXCEPT !.touched = @ \cup {i}]
            IN /\ m \in Loads /\ m.latest = l.latest /\ m.first = l.first /\ m.refused = l.refused
               /\ m.page = l.page /\ m.touched = l.touched \cup {i}
BY DEF Loads

LEMMA ListChange ==
  ASSUME ListInv, NEW i \in Listing!Id, Listing!Change(i)
  PROVE  ListInv'
<1> DEFINE With(l) == [l EXCEPT !.touched = @ \cup {i}]
<1>1. /\ query' = query /\ timer' = timer /\ listLoading' = listLoading /\ error' = error /\ shown' = shown
      /\ next' = next /\ touched' = touched \cup {i}
      /\ listLoads' = {With(l) : l \in listLoads}
      /\ \E v \in Listing!SortValue : value' = [value EXCEPT ![i] = v]
  BY DEF Listing!Change
<1>2. \A l \in listLoads : LET m == With(l)
                           IN /\ m \in Loads /\ m.latest = l.latest /\ m.first = l.first /\ m.refused = l.refused
                              /\ m.page = l.page /\ m.touched = l.touched \cup {i}
  BY LoadMarked DEF ListInv, ListType, Id
<1> HIDE DEF With
<1>3. /\ Stored' /\ Stored
      /\ \A S : i \in S => \A j \in Id \ S : value'[j] = value[j]
  BY <1>1 DEF ListInv, ListType, Stored, Id
<1>4. ListType'
  BY <1>1, <1>2, <1>3 DEF ListInv, ListType, Id
<1>5. OneLatest'
  BY <1>1, <1>2 DEF ListInv, OneLatest
<1>6. ASSUME NEW seq, NEW from, NEW to, NEW T, NEW q, Part(seq, from, to, T, q)
      PROVE  Part(seq, from, to, T \cup {i}, q)'
  BY <1>3, <1>6, PartTouched
<1>7. ASSUME ~timer, ~error PROVE Lists'
  <2>1. ASSUME NEW m \in listLoads', m.latest, m.first
        PROVE  Part(m.page.data, Null, m.page.next_cursor, m.touched, query)'
    <3>1. PICK l \in listLoads : m = With(l)
      BY <1>1
    <3>2. Part(l.page.data, Null, l.page.next_cursor, l.touched, query)
      BY <1>2, <1>7, <2>1, <3>1 DEF ListInv, Lists
    <3> QED
      BY <1>1, <1>2, <1>6, <3>1, <3>2
  <2>2. ASSUME \A m \in listLoads' : ~(m.latest /\ m.first)
        PROVE  Part(shown, Null, next, touched, query)'
    <3>1. \A l \in listLoads : ~(l.latest /\ l.first)
      BY <1>1, <1>2, <2>2
    <3>2. Part(shown, Null, next, touched, query)
      BY <1>7, <3>1 DEF ListInv, Lists
    <3> QED
      BY <1>1, <1>6, <3>2
  <2>3. ASSUME NEW m \in listLoads', m.latest, ~m.first, ~m.refused
        PROVE  next # Null /\ Part(m.page.data, next, m.page.next_cursor, touched, query)'
    <3>1. PICK l \in listLoads : m = With(l)
      BY <1>1
    <3>2. next # Null /\ Part(l.page.data, next, l.page.next_cursor, touched, query)
      BY <1>2, <1>7, <2>3, <3>1 DEF ListInv, Lists
    <3> QED
      BY <1>1, <1>2, <1>6, <3>1, <3>2
  <2> QED
    BY <1>1, <2>1, <2>2, <2>3 DEF Lists
<1> QED
  BY <1>1, <1>4, <1>5, <1>7 DEF ListInv, Lists

\* A request is sent, and the loads before it count no more.
LEMMA ListSend ==
  ASSUME Unit = 1, ListInv, NEW c \in Cursors \cup {Null}, Listing!Send(c),
         value' = value, query' = query, shown' = shown, next' = next, touched' = touched,
         \/ c = Null /\ ~error'
         \/ c = next /\ c # Null /\ error' = error /\ timer' = timer /\ ~listLoading
  PROVE  ListInv'
<1> DEFINE refused == Listing!Refused(query, c)
           page == IF refused THEN Listing!Page(query, Null) ELSE Listing!Page(query, c)
           new == [latest |-> TRUE, first |-> (c = Null), touched |-> {}, refused |-> refused, page |-> page]
           Old(l) == [l EXCEPT !.latest = FALSE]
<1>1. listLoading' = TRUE /\ listLoads' = {Old(l) : l \in listLoads} \cup {new}
  BY DEF Listing!Send
<1>2. Stored /\ query \in Listing!Query /\ refused \in BOOLEAN /\ (~refused /\ c # Null => c.direction = query.direction)
  BY DEF ListInv, ListType, Listing!Refused
<1>3. page \in Pages /\ (~refused => Part(page.data, c, page.next_cursor, {}, query))
  <2>1. CASE refused
    BY <1>2, <2>1, PageIsPart
  <2>2. CASE ~refused
    BY <1>2, <2>2, PageIsPart
  <2> QED
    BY <2>1, <2>2
<1>4. c = Null => ~refused
  BY DEF Listing!Refused
<1> HIDE DEF page, refused
<1>5. /\ new \in Loads /\ new.latest /\ new.first = (c = Null) /\ new.refused = refused /\ new.page = page
      /\ new.touched = {}
  BY <1>2, <1>3 DEF Loads
<1>6. \A l \in listLoads : Old(l) \in Loads /\ ~Old(l).latest
  BY LoadMarked, ListConstants DEF ListInv, ListType, Loads
<1> HIDE DEF new, Old
<1>7. \A l \in listLoads' : l \in Loads /\ (l.latest => l = new)
  BY <1>1, <1>5, <1>6
<1>8. ListType'
  BY <1>7 DEF ListInv, ListType, Stored
<1>9. OneLatest'
  BY <1>1, <1>7 DEF OneLatest
<1>10. ASSUME NEW seq, NEW from, NEW to, NEW T, NEW q, NEW S, Part(seq, from, to, T, q), T \subseteq S
       PROVE  Part(seq, from, to, S, q)'
  BY <1>2, <1>10, PartTouched
<1>0. PICK p : p = page
  OBVIOUS
<1>11. CASE c = Null
  <2>1. Part(p.data, Null, p.next_cursor, {}, query)'
    <3>1. Part(p.data, Null, p.next_cursor, {}, query)
      BY <1>0, <1>3, <1>4, <1>11
    <3> QED
      BY <1>10, <3>1
  <2>2. \A l \in listLoads' : l.latest => l.first /\ l.page = p /\ l.touched = {}
    BY <1>0, <1>5, <1>7, <1>11
  <2>3. new \in listLoads' /\ new.latest /\ new.first
    BY <1>1, <1>5, <1>11
  <2> QED
    BY <1>8, <1>9, <2>1, <2>2, <2>3 DEF ListInv, Lists
<1>12. CASE c # Null
  <2>1. /\ c = next /\ error' = error /\ timer' = timer /\ \A l \in listLoads : ~l.latest
    BY <1>12 DEF ListInv, OneLatest
  <2>2. \A l \in listLoads' : l.latest => ~l.first /\ l.page = p /\ (l.refused <=> refused)
    BY <1>0, <1>5, <1>7, <1>12
  <2>3. ASSUME ~timer, ~error
        PROVE  Part(shown, Null, next, touched, query)'
    <3>1. Part(shown, Null, next, touched, query)
      BY <2>1, <2>3 DEF ListInv, Lists
    <3> QED
      BY <1>10, <3>1
  <2>4. ASSUME ~refused PROVE Part(p.data, next, p.next_cursor, touched, query)'
    <3>1. Part(p.data, next, p.next_cursor, {}, query)
      BY <1>0, <1>3, <2>1, <2>4
    <3>2. Part(p.data, next, p.next_cursor, touched, query)'
      BY <1>10, <3>1
    <3> QED
      BY <3>2
  <2> QED
    BY <1>8, <1>9, <1>12, <2>1, <2>2, <2>3, <2>4 DEF ListInv, Lists
<1> QED
  BY <1>11, <1>12

\* An answer, or none.
LEMMA ListAnswer ==
  ASSUME ListInv, NEW l \in listLoads, NEW failed \in BOOLEAN, Listing!Answer(l, failed)
  PROVE  ListInv'
<1>1. /\ listLoads' = listLoads \ {l} /\ value' = value /\ query' = query /\ timer' = timer
      /\ l.refused => failed
  BY DEF Listing!Answer, Listing!server
<1>2. Stored /\ query \in Listing!Query /\ l \in Loads
  BY DEF ListInv, ListType
<1>3. ASSUME NEW seq, NEW from, NEW to, NEW T, NEW q, Part(seq, from, to, T, q)
      PROVE  Part(seq, from, to, T, q)'
  BY <1>1, <1>2, <1>3, PartTouched
<1>4. CASE ~l.latest
  <2>1. listLoading' = listLoading /\ error' = error /\ shown' = shown /\ next' = next /\ touched' = touched
    BY <1>4 DEF Listing!Answer, Listing!Counts, Listing!screen
  <2>2. ListType' /\ OneLatest'
    BY <1>1, <2>1 DEF ListInv, ListType, Stored, OneLatest
  <2>3. ASSUME ~timer, ~error PROVE Lists'
    <3>1. \A m \in listLoads : m.latest => m \in listLoads'
      BY <1>1, <1>4
    <3>2. \A m \in listLoads' : m.latest /\ m.first =>
            Part(m.page.data, Null, m.page.next_cursor, m.touched, query)'
      BY <1>1, <1>3, <2>3 DEF ListInv, Lists
    <3>3. ASSUME \A m \in listLoads' : ~(m.latest /\ m.first)
          PROVE  Part(shown, Null, next, touched, query)'
      <4>1. \A m \in listLoads : ~(m.latest /\ m.first)
        BY <3>1, <3>3
      <4>2. Part(shown, Null, next, touched, query)
        BY <2>3, <4>1 DEF ListInv, Lists
      <4>3. Part(shown, Null, next, touched, query)'
        BY <1>1, <1>3, <2>1, <4>2
      <4> QED
        BY <1>1, <4>3
    <3>4. \A m \in listLoads' : m.latest /\ ~m.first /\ ~m.refused =>
            next # Null /\ Part(m.page.data, next, m.page.next_cursor, touched, query)'
      BY <1>1, <1>3, <2>1, <2>3 DEF ListInv, Lists
    <3> QED
      BY <2>1, <3>2, <3>3, <3>4 DEF Lists
  <2> QED
    BY <1>1, <2>1, <2>2, <2>3 DEF ListInv, Lists
<1>5. CASE l.latest
  <2>1. \A m \in listLoads' : ~m.latest
    BY <1>1, <1>5 DEF ListInv, OneLatest
  <2>2. OneLatest'
    BY <2>1 DEF OneLatest
  <2>3. CASE failed
    <3>1. error' = TRUE /\ shown' = shown /\ next' = next /\ touched' = touched
      BY <1>5, <2>3 DEF Listing!Answer, Listing!Counts
    <3> QED
      BY <1>1, <2>2, <3>1 DEF ListInv, ListType, Stored, Lists
  <2>4. CASE ~failed
    <3>1. /\ ~l.refused /\ next' = l.page.next_cursor /\ error' = error
          /\ shown' = IF l.first THEN l.page.data ELSE shown \o l.page.data
          /\ touched' = IF l.first THEN l.touched ELSE touched
      BY <1>5, <2>4 DEF Listing!Answer, Listing!Counts
    <3>2. ListType'
      <4>1. l.page.next_cursor \in Cursors \cup {Null} /\ l.page.data \in Seq(Id) /\ l.touched \in SUBSET Id
        BY <1>2 DEF Loads, Pages
      <4>2. shown' \in Seq(Id)
        BY <3>1, <4>1 DEF ListInv, ListType
      <4> QED
        BY <1>1, <3>1, <4>1, <4>2 DEF ListInv, ListType, Stored
    <3>3. ASSUME ~timer, ~error PROVE Part(shown, Null, next, touched, query)'
      <4>1. CASE l.first
        <5>1. Part(l.page.data, Null, l.page.next_cursor, l.touched, query)
          BY <1>5, <3>3, <4>1 DEF ListInv, Lists
        <5> QED
          BY <1>1, <1>3, <3>1, <4>1, <5>1
      <4>2. CASE ~l.first
        <5>1. next # Null /\ next \in Cursors /\ Part(l.page.data, next, l.page.next_cursor, touched, query)
          BY <1>5, <3>1, <3>3, <4>2 DEF ListInv, Lists, ListType
        <5>2. \A m \in listLoads : ~(m.latest /\ m.first)
          BY <1>5, <4>2 DEF ListInv, OneLatest
        <5>3. Part(shown, Null, next, touched, query)
          BY <3>3, <5>2 DEF ListInv, Lists
        <5>4. Part(shown \o l.page.data, Null, l.page.next_cursor, touched, query)
          BY <1>2, <5>1, <5>3, PartsAdd
        <5> QED
          BY <1>1, <1>3, <3>1, <4>2, <5>4
      <4> QED
        BY <4>1, <4>2
    <3> QED
      BY <1>1, <2>1, <2>2, <3>1, <3>2, <3>3 DEF ListInv, Lists
  <2> QED
    BY <2>3, <2>4
<1> QED
  BY <1>2, <1>4, <1>5 DEF Loads

LEMMA ListStepInv == Unit = 1 /\ ListInv /\ [Listing!Next]_listVars => ListInv'
<1> SUFFICES ASSUME Unit = 1, ListInv, [Listing!Next]_listVars PROVE ListInv'
  OBVIOUS
<1>1. ASSUME NEW i \in Listing!Id, Listing!Change(i) PROVE ListInv'
  BY <1>1, ListChange
<1>2. ASSUME NEW q \in Listing!Query, Listing!ChooseQuery(q) PROVE ListInv'
  BY <1>2 DEF Listing!ChooseQuery, Listing!server, Listing!screen, ListInv, ListType, Stored, OneLatest, Lists
<1>3. CASE Listing!LoadFirst
  BY <1>3, ListSend DEF Listing!LoadFirst, Listing!server
<1>4. CASE Listing!LoadMore
  <2>1. /\ next \in Cursors /\ next # Null /\ ~listLoading /\ Listing!Send(next)
        /\ value' = value /\ query' = query /\ shown' = shown /\ next' = next /\ touched' = touched
        /\ timer' = timer /\ error' = error
    BY <1>4 DEF Listing!LoadMore, Listing!server, ListInv, ListType
  <2> QED
    BY <2>1, ListSend
<1>5. ASSUME NEW l \in listLoads, NEW failed \in BOOLEAN, Listing!Answer(l, failed) PROVE ListInv'
  BY <1>5, ListAnswer
<1>6. CASE UNCHANGED listVars
  <2>1. ASSUME NEW seq, NEW from, NEW to, NEW T, NEW q, Part(seq, from, to, T, q)
        PROVE  Part(seq, from, to, T, q)'
    BY <1>6, <2>1, PartTouched DEF listVars, ListInv, ListType
  <2>2. ListType' /\ OneLatest'
    BY <1>6 DEF listVars, ListInv, ListType, Stored, OneLatest
  <2> QED
    BY <1>6, <2>1, <2>2 DEF listVars, ListInv, Lists
<1> QED
  BY <1>1, <1>2, <1>3, <1>4, <1>5, <1>6 DEF Listing!Next

LEMMA ListMovesAlone == [SuiteNext]_suiteVars => [Listing!Next]_listVars
BY DEF SuiteNext, suiteVars, listVars

LEMMA ListShown == ListInv => Listing!ListedAsStored
<1> SUFFICES ASSUME ListInv, ~timer, ~listLoading, ~error PROVE Listing!ListedAsStored
  BY DEF Listing!ListedAsStored
<1>1. \A l \in listLoads : ~(l.latest /\ l.first)
  BY DEF ListInv, OneLatest
<1> QED
  BY <1>1, PartIsListed DEF ListInv, ListType, Lists

\* The reports on the screen are of the filters that were applied last and agree, and
\* the list shows each row once, in the order of the server, whatever answers come late
\* and whatever changes meanwhile.  The cursor must keep the sorting value exactly: of times,
\* which it keeps in milliseconds, rows of the same millisecond are left out or shown
\* again (Reports.tsx, reports.ts, readScope.ts, cursor.ts, Customers.tsx).
THEOREM ShownAsStoredAlways ==
  ASSUME Unit = 1
  PROVE  SuiteSpec => []ShownAsStored
<1>1. SuiteInit => ReportsInv /\ ListInv
  BY ReportsInitInv, ListInitInv DEF SuiteInit
<1>2. ReportsInv /\ ListInv /\ [SuiteNext]_suiteVars => ReportsInv' /\ ListInv'
  BY ReportsMoveAlone, ReportsStepInv, ListMovesAlone, ListStepInv
<1>3. ReportsInv /\ ListInv => ShownAsStored
  BY ReportsShown, ListShown DEF ShownAsStored
<1> QED
  BY <1>1, <1>2, <1>3, PTL DEF SuiteSpec
=============================================================================
