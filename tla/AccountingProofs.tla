--------------------------- MODULE AccountingProofs ---------------------------
(***************************************************************************)
(* Proofs about the accounting of a tenant, for any events, requests and   *)
(* administrators, rows, filters, dates and limits: financial events on    *)
(* their way to the journal, what the tabs of the accounting page send,    *)
(* and the tool that fills in events.  The tabs share no state, so that    *)
(* each is proved by an inductive invariant of its own.                    *)
(***************************************************************************)
EXTENDS FinancialOutbox, MCDesks, Sums, SequenceTheorems, TLAPS

-----------------------------------------------------------------------------
(* Proofs, for any events, requests and administrators, limits and numbers *)
(* of attempts: FinancialOutbox implements Ledger, and an event that       *)
(* counts as settled has its evidence.                                     *)

IInv == TypeOK /\ SettledHasEvidence

\* The invariant holds initially.
LEMMA InitInv == Init => IInv
BY OutboxAssumption DEF Init, IInv, TypeOK, EventStatus, SettledHasEvidence

\* A post leaves an event with the evidence its new status tells of, and no other event
\* with less.
LEMMA PostKeeps ==
  ASSUME IInv, NEW w \in Worker, NEW e \in todo[w], Post(w, e)
  PROVE  IInv'
<1>1. /\ \/ e \in journal /\ UNCHANGED evidence
         \/ /\ e \notin journal
            /\ journal' = IF e \in Journaled THEN journal \cup {e} ELSE journal
            /\ residual' = IF e \in Deferred THEN residual \cup {e} ELSE residual
      /\ status' = [status EXCEPT ![e] = StatusWhenPosted(e)]
      /\ claimed' = [claimed EXCEPT ![e] = NoWorker]
      /\ todo' = [todo EXCEPT ![w] = @ \ {e}]
      /\ UNCHANGED <<attempts, failing, decision>>
  BY DEF Post
<1>2. TypeOK /\ e \in Event
  BY DEF IInv, TypeOK
<1>3. /\ e \in Journaled => StatusWhenPosted(e) = "posted"
      /\ e \in SubCent => StatusWhenPosted(e) = "deferred_rounding"
      /\ e \in Zero => StatusWhenPosted(e) = "non_posting"
      /\ e \in Journaled \cup SubCent \cup Zero
  BY <1>2, OutboxAssumption DEF StatusWhenPosted, Journaled
<1>4. TypeOK'
  <2>1. status' \in [Event -> EventStatus \cup {"none"}]
    BY <1>1, <1>2, <1>3 DEF TypeOK, EventStatus
  <2>2. journal' \subseteq Journaled /\ residual' \subseteq Deferred
    BY <1>1, <1>2 DEF TypeOK, evidence
  <2> QED
    BY <1>1, <1>2, <2>1, <2>2 DEF TypeOK
<1>5. journal \subseteq journal' /\ residual \subseteq residual'
  BY <1>1 DEF evidence
<1>6. /\ e \in Journaled => e \in journal'
      /\ e \in SubCent => e \in residual'
  BY <1>1, <1>2, OutboxAssumption DEF TypeOK, Journaled, Deferred, evidence
<1>7. SettledHasEvidence'
  <2> SUFFICES ASSUME NEW d \in Event
               PROVE  /\ status'[d] = "posted" => d \in journal'
                      /\ status'[d] = "deferred_rounding" => d \in residual'
                      /\ status'[d] = "non_posting" => d \in Zero
    BY DEF SettledHasEvidence
  <2>1. CASE d = e
    <3>1. status'[d] = StatusWhenPosted(e)
      BY <1>1, <1>2, <2>1 DEF TypeOK
    <3> QED
      BY <1>3, <1>6, <2>1, <3>1
  <2>2. CASE d # e
    <3>1. status'[d] = status[d]
      BY <1>1, <1>2, <2>2 DEF TypeOK
    <3> QED
      BY <1>5, <3>1 DEF IInv, SettledHasEvidence
  <2> QED
    BY <2>1, <2>2
<1> QED
  BY <1>4, <1>7 DEF IInv

\* What is written by id, however stale, calls no event settled.
LEMMA StaleWriteKeeps ==
  ASSUME IInv, (\E w \in Worker : WriteFailure(w)) \/ (\E b \in Admin : WriteDecision(b))
  PROVE  IInv'
<1>1. \E d \in Event, to \in {"failed", "dead", "pending"} :
        /\ status' = [status EXCEPT ![d] = to]
        /\ claimed' = [claimed EXCEPT ![d] = NoWorker]
        /\ UNCHANGED <<attempts, evidence>>
  BY DEF IInv, TypeOK, WriteFailure, WriteDecision
<1>2. /\ todo' \in [Worker -> SUBSET Event]
      /\ failing' \in [Worker -> SUBSET (Event \X {"failed", "dead"})]
      /\ decision' \in [Admin -> SUBSET (Event \X {"pending", "dead"})]
  BY DEF IInv, TypeOK, WriteFailure, WriteDecision
<1>3. TypeOK'
  BY <1>1, <1>2 DEF IInv, TypeOK, EventStatus, evidence
<1>4. SettledHasEvidence'
  BY <1>1 DEF IInv, TypeOK, SettledHasEvidence, evidence
<1> QED
  BY <1>3, <1>4 DEF IInv

\* A worker claims an event.
LEMMA ClaimKeeps ==
  ASSUME IInv, NEW w \in Worker, Claim(w)
  PROVE  IInv'
<1>1. Batch \subseteq Event
  BY DEF Batch, Claimable
<1>2. attempts' \in [Event -> 0..MaxClaims]
  BY <1>1, OutboxAssumption DEF IInv, TypeOK, Claim
<1>3. TypeOK'
  BY <1>1, <1>2 DEF IInv, TypeOK, Claim, EventStatus, evidence
<1>4. SettledHasEvidence'
  BY DEF IInv, SettledHasEvidence, Claim, evidence
<1> QED
  BY <1>3, <1>4 DEF IInv

\* The other steps write no event but a new one.
LEMMA RestKeeps ==
  ASSUME IInv,
         \/ \E e \in Event : Enqueue(e)
         \/ \E w \in Worker : AbortRequest(w) \/ Crash(w) \/ \E e \in todo[w] : GiveUpOn(w, e)
         \/ \E b \in Admin, e \in Event, to \in {"pending", "dead"} : Decide(b, e, to)
  PROVE  IInv'
<1>1. CASE \E e \in Event : Enqueue(e)
  BY <1>1 DEF IInv, TypeOK, SettledHasEvidence, Enqueue, EventStatus, evidence
<1>2. CASE \E w \in Worker : AbortRequest(w) \/ Crash(w)
  BY <1>2 DEF IInv, TypeOK, SettledHasEvidence, AbortRequest, Crash, event, evidence
<1>3. CASE \E w \in Worker : \E e \in todo[w] : GiveUpOn(w, e)
  <2>1. PICK w \in Worker, e \in Event : GiveUpOn(w, e)
    BY <1>3 DEF IInv, TypeOK
  <2>2. {<<e, IF attempts[e] >= MaxAttempts THEN "dead" ELSE "failed">>} \in SUBSET (Event \X {"failed", "dead"})
    OBVIOUS
  <2> QED
    BY <2>1, <2>2 DEF IInv, TypeOK, SettledHasEvidence, GiveUpOn, event, evidence
<1>4. CASE \E b \in Admin, e \in Event, to \in {"pending", "dead"} : Decide(b, e, to)
  BY <1>4 DEF IInv, TypeOK, SettledHasEvidence, Decide, event, evidence
<1> QED
  BY <1>1, <1>2, <1>3, <1>4

\* Every step keeps it.
LEMMA StepInv == IInv /\ [Next]_vars => IInv'
<1> SUFFICES ASSUME IInv, [Next]_vars PROVE IInv'
  OBVIOUS
<1>1. CASE UNCHANGED vars
  BY <1>1 DEF vars, IInv, TypeOK, SettledHasEvidence
<1> QED
  BY <1>1, PostKeeps, StaleWriteKeeps, ClaimKeeps, RestKeeps DEF Next, Proceed

\* An event that the list shows as posted, deferred or non-posting has the evidence for
\* it, whichever stale failures and decisions were written to it (financialOutbox.ts,
\* financialEvents.ts).
THEOREM SettledIsBacked == Spec => []SettledHasEvidence
<1>1. IInv => SettledHasEvidence
  BY DEF IInv
<1> QED
  BY InitInv, StepInv, <1>1, PTL DEF Spec

\* A post records an event as the ledger would, or finds nothing to record.
LEMMA PostRecords ==
  ASSUME IInv, NEW w \in Worker, NEW e \in todo[w], Post(w, e)
  PROVE  Promise!Next \/ UNCHANGED <<journal, residual>>
<1>1. e \in Event
  BY DEF IInv, TypeOK
<1>2. CASE e \in journal
  BY <1>2 DEF Post, evidence
<1>3. CASE e \notin journal /\ e \in Journaled \cup Deferred
  BY <1>3 DEF Post, Draftable, evidence, Promise!Next, Promise!Record
<1>4. CASE e \notin journal /\ e \notin Journaled \cup Deferred
  BY <1>4 DEF Post, evidence
<1> QED
  BY <1>2, <1>3, <1>4

\* Every step is a recording of the promise, or none.
LEMMA StepRecords == IInv /\ [Next]_vars => [Promise!Next]_<<journal, residual>>
<1> SUFFICES ASSUME IInv, [Next]_vars PROVE Promise!Next \/ UNCHANGED <<journal, residual>>
  OBVIOUS
<1>1. CASE UNCHANGED vars
  BY <1>1 DEF vars
<1>2. CASE \E w \in Worker : \E e \in todo[w] : Post(w, e)
  BY <1>2, PostRecords
<1>3. CASE ~\E w \in Worker : \E e \in todo[w] : Post(w, e)
  BY <1>3 DEF Next, vars, evidence, Enqueue, Claim, Proceed, GiveUpOn, AbortRequest, WriteFailure,
     Crash, Decide, WriteDecision
<1> QED
  BY <1>1, <1>2, <1>3

\* Through claims that are taken away, repeated posts and requests that stop, evidence
\* appears as the ledger records it: once, whole, and for a refund after its payment
\* (accountingLedger.ts, postClaimedFinancialEvent).
THEOREM LedgerImplemented == Spec => ImplementsLedger
<1>1. Init => Promise!Init
  BY DEF Init, Promise!Init
<1> QED
  BY InitInv, StepInv, StepRecords, <1>1, PTL DEF Spec, ImplementsLedger, Promise!Spec
-----------------------------------------------------------------------------
(* Sets in order.                                                          *)

\* What the tool finds, and what a list shows, is a sequence of it.
LEMMA SortedIsSequence ==
  ASSUME NEW S, S \subseteq Nat, IsFiniteSet(S)
  PROVE  Tool!Sorted(S) \in Seq(S)
<1> DEFINE R == {p \in S \X S : p[1] < p[2]}
<1>1. StrictOrder(S, R)
  BY DEF StrictOrder
<1>2. \E q \in Tool!SetToSeqs(S) : \A i, j \in DOMAIN q : i < j => q[i] < q[j]
  <2>1. Tool!SetToSeqs(S) = {q \in [1..Cardinality(S) -> S] : \A i, j \in 1..Cardinality(S) : i # j => q[i] # q[j]}
    BY DEF Tool!SetToSeqs, Tool!Cardinality, Cardinality
  <2>2. PICK q \in [1..Cardinality(S) -> S] :
          /\ \A i, j \in 1..Cardinality(S) : i # j => q[i] # q[j]
          /\ \A i, j \in 1..Cardinality(S) : i < j => <<q[i], q[j]>> \in R
    BY <1>1, InOrder
  <2>3. \A i, j \in DOMAIN q : i < j => q[i] < q[j]
    BY <2>2
  <2> QED
    BY <2>1, <2>2, <2>3
<1>3. Tool!Sorted(S) \in Tool!SetToSeqs(S)
  BY <1>2 DEF Tool!Sorted
<1>4. Tool!Sorted(S) \in [1..Cardinality(S) -> S]
  BY <1>3 DEF Tool!SetToSeqs, Tool!Cardinality, Cardinality
<1>5. Cardinality(S) \in Nat
  BY FS_CardinalityType
<1> QED
  BY <1>4, <1>5

LEMMA FallingIsSequence ==
  ASSUME NEW S, S \subseteq Nat, IsFiniteSet(S)
  PROVE  List!Falling(S) \in Seq(S)
<1> DEFINE R == {p \in S \X S : p[1] > p[2]}
<1>1. StrictOrder(S, R)
  BY DEF StrictOrder
<1>2. \E q \in List!SetToSeqs(S) : \A i, j \in DOMAIN q : i < j => q[i] > q[j]
  <2>1. List!SetToSeqs(S) = {q \in [1..Cardinality(S) -> S] : \A i, j \in 1..Cardinality(S) : i # j => q[i] # q[j]}
    BY DEF List!SetToSeqs, List!Cardinality, Cardinality
  <2>2. PICK q \in [1..Cardinality(S) -> S] :
          /\ \A i, j \in 1..Cardinality(S) : i # j => q[i] # q[j]
          /\ \A i, j \in 1..Cardinality(S) : i < j => <<q[i], q[j]>> \in R
    BY <1>1, InOrder
  <2>3. \A i, j \in DOMAIN q : i < j => q[i] > q[j]
    BY <2>2
  <2> QED
    BY <2>1, <2>2, <2>3
<1>3. List!Falling(S) \in List!SetToSeqs(S)
  BY <1>2 DEF List!Falling
<1>4. List!Falling(S) \in [1..Cardinality(S) -> S]
  BY <1>3 DEF List!SetToSeqs, List!Cardinality, Cardinality
<1>5. Cardinality(S) \in Nat
  BY FS_CardinalityType
<1> QED
  BY <1>4, <1>5
-----------------------------------------------------------------------------
(* The tool that fills in events.                                          *)

\* What a run is about to fill in was there before there were events of its own.
ToolType ==
  /\ present \subseteq Tool!Source /\ IsFiniteSet(present)
  /\ events \subseteq present \X {1, 2}
  /\ preview \in [Run -> Seq(present)]
  /\ at \in [Run -> Nat]
  /\ finished \subseteq Run
OldFilledIn == \A r \in Run : \A i \in DOMAIN preview[r] : <<preview[r][i], 2>> \notin events
FilledInSoFar ==
  \A r \in Run : \A i \in DOMAIN preview[r] :
    r \in finished \/ i < at[r] => Tool!HasEvent(preview[r][i])
ToolInv == ToolType /\ OldFilledIn /\ FilledInSoFar /\ Tool!OneEventEach

LEMMA ToolStarts == ASSUME DesksAssumption, Tool!Init PROVE ToolInv
<1> USE DEF Tool!Init
<1>1. ToolType
  <2>1. preview \in [Run -> Seq(present)] /\ at \in [Run -> Nat]
    OBVIOUS
  <2>2. Old \subseteq Tool!Source /\ IsFiniteSet(Old)
    <3>1. Tool!BackfillAssumption
      BY DEF DesksAssumption
    <3>2. Tool!IsFiniteSet(Old) => IsFiniteSet(Old)
      BY Zenon DEF Tool!IsFiniteSet, IsFiniteSet
    <3> QED
      BY <3>1, <3>2 DEF Tool!BackfillAssumption
  <2>3. present = Old /\ events = {} /\ finished = {}
    OBVIOUS
  <2>4. present \subseteq Tool!Source /\ IsFiniteSet(present)
    BY <2>2, <2>3
  <2>5. events \subseteq present \X {1, 2} /\ finished \subseteq Run
    BY <2>3
  <2> QED
    BY <2>1, <2>4, <2>5 DEF ToolType
<1>2. OldFilledIn /\ FilledInSoFar /\ Tool!OneEventEach
  BY DEF OldFilledIn, FilledInSoFar, Tool!OneEventEach
<1> QED
  BY <1>1, <1>2 DEF ToolInv

\* A sequence of members of a set is one of members of a larger set.
LEMMA SequenceGrows ==
  ASSUME NEW S, NEW T, S \subseteq T, NEW q \in Seq(S)
  PROVE  q \in Seq(T)
OBVIOUS

\* A sequence that is cut short keeps its members.
LEMMA TakeIsSequence ==
  ASSUME DesksAssumption, NEW S, NEW q \in Seq(S)
  PROVE  Tool!Take(q) \in Seq(S)
<1>1. Len(q) \in Nat /\ ToolLimit \in Nat
  BY DEF DesksAssumption, Tool!BackfillAssumption
<1>2. (IF Len(q) < ToolLimit THEN Len(q) ELSE ToolLimit) \in 0..Len(q)
  BY <1>1
<1> DEFINE n == IF Len(q) < ToolLimit THEN Len(q) ELSE ToolLimit
<1> HIDE DEF n
<1>3. SubSeq(q, 1, n) \in Seq(S)
  BY <1>2, SubSeqProperties DEF n
<1> QED
  BY <1>3 DEF Tool!Take, n

\* What is previewed lacks an event.
LEMMA PreviewLacks ==
  ASSUME DesksAssumption, ToolType
  PROVE  Tool!Previewed \in Seq({s \in present : ~Tool!HasEvent(s)})
<1> DEFINE L == {s \in present : ~Tool!HasEvent(s)}
           Of(S) == {s \in S : Tool!LacksEvent(s)}
<1>1. \A S : Of(S) \subseteq L
  BY DEF Tool!LacksEvent
<1>2. L \subseteq Nat /\ IsFiniteSet(L)
  BY FS_Subset DEF ToolType, DesksAssumption, Tool!BackfillAssumption
<1>3. ASSUME NEW S PROVE Tool!Oldest(S) \in Seq(L)
  <2>1. Of(S) \subseteq Nat /\ IsFiniteSet(Of(S))
    BY <1>1, <1>2, FS_Subset
  <2>2. Tool!Sorted(Of(S)) \in Seq(Of(S))
    BY <2>1, SortedIsSequence
  <2>3. Tool!Sorted(Of(S)) \in Seq(L)
    BY <1>1, <2>2, SequenceGrows
  <2> QED
    BY <2>3, TakeIsSequence DEF Tool!Oldest
<1> HIDE DEF L
<1>4. Tool!Oldest(OldPayment) \o Tool!Oldest(Cash) \o Tool!Oldest(Movement) \in Seq(L)
  <2>1. Tool!Oldest(OldPayment) \in Seq(L) /\ Tool!Oldest(Cash) \in Seq(L) /\ Tool!Oldest(Movement) \in Seq(L)
    BY <1>3
  <2> QED
    BY <2>1
<1>5. Tool!Previewed \in Seq(L)
  BY <1>4, TakeIsSequence DEF Tool!Previewed
<1> QED
  BY <1>5 DEF L

\* A new source comes with its event, and no run has found it.
LEMMA RecordKeeps ==
  ASSUME ToolInv, NEW s \in Tool!Source, Tool!Record(s)
  PROVE  ToolInv'
<1> DEFINE v == IF s \in Movement THEN 2 ELSE 1
<1>1. /\ s \notin present
      /\ present' = present \cup {s}
      /\ events' = events \cup {<<s, v>>} /\ v \in {1, 2}
      /\ UNCHANGED <<preview, at, finished>>
  BY DEF Tool!Record, Tool!run
<1> HIDE DEF v
<1>2. ToolType /\ OldFilledIn /\ FilledInSoFar /\ Tool!OneEventEach
  BY DEF ToolInv
<1>3. ToolType'
  <2>1. IsFiniteSet(present')
    BY <1>1, <1>2, FS_AddElement DEF ToolType
  <2>2. preview' \in [Run -> Seq(present')]
    BY <1>1, <1>2, SequenceGrows DEF ToolType
  <2>3. events' \subseteq present' \X {1, 2}
    BY <1>1, <1>2 DEF ToolType
  <2> QED
    BY <1>1, <1>2, <2>1, <2>2, <2>3 DEF ToolType
<1>4. \A r \in Run : \A i \in DOMAIN preview[r] : preview[r][i] \in present
  BY <1>2 DEF ToolType
<1>5. OldFilledIn'
  BY <1>1, <1>2, <1>4 DEF OldFilledIn
<1>6. FilledInSoFar'
  BY <1>1, <1>2 DEF FilledInSoFar, Tool!HasEvent
<1>7. Tool!OneEventEach'
  <2> SUFFICES ASSUME NEW t \in Tool!Source, <<t, 1>> \in events', <<t, 2>> \in events' PROVE FALSE
    BY DEF Tool!OneEventEach
  <2>1. CASE t = s
    <3>1. <<t, 1>> \notin events /\ <<t, 2>> \notin events
      BY <1>1, <1>2, <2>1 DEF ToolType
    <3> QED
      BY <1>1, <3>1
  <2>2. CASE t # s
    BY <1>1, <1>2, <2>2 DEF Tool!OneEventEach
  <2> QED
    BY <2>1, <2>2
<1> QED
  BY <1>3, <1>5, <1>6, <1>7 DEF ToolInv

LEMMA PreviewKeeps ==
  ASSUME DesksAssumption, ToolInv, NEW r \in Run, Tool!Preview(r)
  PROVE  ToolInv'
<1>1. /\ at[r] = 0
      /\ preview' = [preview EXCEPT ![r] = Tool!Previewed]
      /\ at' = [at EXCEPT ![r] = 1]
      /\ finished' = finished \ {r}
      /\ UNCHANGED <<present, events>>
  BY DEF Tool!Preview
<1>2. ToolType /\ OldFilledIn /\ FilledInSoFar /\ Tool!OneEventEach
  BY DEF ToolInv
<1>3. Tool!Previewed \in Seq({s \in present : ~Tool!HasEvent(s)})
  BY <1>2, PreviewLacks
<1>4. Tool!Previewed \in Seq(present)
  BY <1>3, SequenceGrows
<1>5. \A i \in DOMAIN Tool!Previewed : i >= 1 /\ <<Tool!Previewed[i], 2>> \notin events
  <2> SUFFICES ASSUME NEW i \in DOMAIN Tool!Previewed
               PROVE  i >= 1 /\ <<Tool!Previewed[i], 2>> \notin events
    OBVIOUS
  <2>1. i \in 1..Len(Tool!Previewed)
    BY <1>3
  <2>2. ~Tool!HasEvent(Tool!Previewed[i])
    BY <1>3, <2>1
  <2> QED
    BY <2>1, <2>2 DEF Tool!HasEvent
<1>6. /\ preview'[r] = Tool!Previewed /\ at'[r] = 1
      /\ \A t \in Run \ {r} : preview'[t] = preview[t] /\ at'[t] = at[t]
  BY <1>1, <1>2 DEF ToolType
<1>7. ToolType'
  BY <1>1, <1>2, <1>4 DEF ToolType
<1>8. OldFilledIn'
  <2> SUFFICES ASSUME NEW t \in Run, NEW i \in DOMAIN preview'[t]
               PROVE  <<preview'[t][i], 2>> \notin events'
    BY DEF OldFilledIn
  <2>1. CASE t = r
    BY <1>1, <1>5, <1>6, <2>1
  <2>2. CASE t # r
    BY <1>1, <1>2, <1>6, <2>2 DEF OldFilledIn
  <2> QED
    BY <2>1, <2>2
<1>9. FilledInSoFar'
  <2> SUFFICES ASSUME NEW t \in Run, NEW i \in DOMAIN preview'[t], t \in finished' \/ i < at'[t]
               PROVE  \E v \in {1, 2} : <<preview'[t][i], v>> \in events'
    BY DEF FilledInSoFar, Tool!HasEvent
  <2>1. CASE t = r
    <3>1. i \in Nat /\ i >= 1
      BY <1>3, <1>6, <2>1
    <3>2. r \notin finished'
      BY <1>1
    <3>3. i < 1
      BY <1>6, <2>1, <3>2
    <3> QED
      BY <3>1, <3>3
  <2>2. CASE t # r
    BY <1>1, <1>2, <1>6, <2>2 DEF FilledInSoFar, Tool!HasEvent
  <2> QED
    BY <2>1, <2>2
<1>10. Tool!OneEventEach'
  BY <1>1, <1>2 DEF Tool!OneEventEach
<1> QED
  BY <1>7, <1>8, <1>9, <1>10 DEF ToolInv

\* A run goes on behind an item that has its event.
LEMMA GoOnKeeps ==
  ASSUME ToolInv, NEW r \in Run, Tool!AtItem(r), Tool!GoOn(r), UNCHANGED present,
         events' = events \cup {<<Tool!Item(r), 1>>}
  PROVE  ToolInv'
<1> DEFINE s == preview[r][at[r]]
<1>1. /\ at[r] \in DOMAIN preview[r]
      /\ at' = [at EXCEPT ![r] = @ + 1]
      /\ UNCHANGED <<preview, finished>>
      /\ events' = events \cup {<<s, 1>>}
  BY DEF Tool!AtItem, Tool!GoOn, Tool!Item
<1>2. ToolType /\ OldFilledIn /\ FilledInSoFar /\ Tool!OneEventEach
  BY DEF ToolInv
<1>3. s \in present /\ <<s, 2>> \notin events
  BY <1>1, <1>2 DEF ToolType, OldFilledIn
<1> HIDE DEF s
<1>4. ToolType'
  BY <1>1, <1>2, <1>3 DEF ToolType
<1>5. OldFilledIn'
  BY <1>1, <1>2 DEF OldFilledIn
<1>6. FilledInSoFar'
  <2> SUFFICES ASSUME NEW t \in Run, NEW i \in DOMAIN preview[t], t \in finished \/ i < at'[t]
               PROVE  Tool!HasEvent(preview[t][i])'
    BY <1>1 DEF FilledInSoFar, Tool!HasEvent
  <2>1. CASE t = r /\ i = at[r]
    BY <1>1, <2>1 DEF s, Tool!HasEvent
  <2>2. CASE ~(t = r /\ i = at[r])
    <3>1. i \in Nat /\ at[t] \in Nat
      BY <1>2 DEF ToolType
    <3>2. t \in finished \/ i < at[t]
      BY <1>1, <1>2, <2>2, <3>1 DEF ToolType
    <3>3. Tool!HasEvent(preview[t][i])
      BY <1>2, <3>2 DEF FilledInSoFar
    <3> QED
      BY <1>1, <3>3 DEF Tool!HasEvent
  <2> QED
    BY <2>1, <2>2
<1>7. Tool!OneEventEach'
  <2> SUFFICES ASSUME NEW t \in Tool!Source, <<t, 1>> \in events', <<t, 2>> \in events' PROVE FALSE
    BY DEF Tool!OneEventEach
  <2>1. <<t, 2>> \in events
    BY <1>1
  <2>2. t # s
    BY <1>3, <2>1
  <2> QED
    BY <1>1, <1>2, <2>1, <2>2 DEF Tool!OneEventEach
<1> QED
  BY <1>4, <1>5, <1>6, <1>7 DEF ToolInv

\* A run that stops, with a report or without, leaves the events.
LEMMA EndKeeps ==
  ASSUME ToolInv, NEW r \in Run, UNCHANGED <<present, events, preview>>,
         at' = [at EXCEPT ![r] = 0],
         finished' = finished \/ (finished' = finished \cup {r} /\ Tool!AllDone(r))
  PROVE  ToolInv'
<1>1. ToolType /\ OldFilledIn /\ FilledInSoFar /\ Tool!OneEventEach
  BY DEF ToolInv
<1>2. ToolType'
  BY <1>1 DEF ToolType
<1>3. FilledInSoFar'
  <2> SUFFICES ASSUME NEW t \in Run, NEW i \in DOMAIN preview[t], t \in finished' \/ i < at'[t]
               PROVE  Tool!HasEvent(preview[t][i])
    BY DEF FilledInSoFar, Tool!HasEvent
  <2>1. preview[t] \in Seq(present) /\ i \in 1..Len(preview[t]) /\ at[t] \in Nat
    BY <1>1 DEF ToolType
  <2>2. t \in finished \/ i < at[t]
    BY <1>1, <2>1 DEF ToolType, Tool!AllDone
  <2> QED
    BY <1>1, <2>2 DEF FilledInSoFar
<1> QED
  BY <1>1, <1>2, <1>3 DEF ToolInv, OldFilledIn, Tool!OneEventEach

LEMMA ToolStep == ASSUME DesksAssumption, ToolInv, [Tool!Next]_toolVars PROVE ToolInv'
<1>1. CASE UNCHANGED toolVars
  BY <1>1 DEF toolVars, ToolInv, ToolType, OldFilledIn, FilledInSoFar, Tool!OneEventEach, Tool!HasEvent
<1>2. CASE \E s \in Tool!Source : Tool!Record(s)
  BY <1>2, RecordKeeps
<1>3. ASSUME NEW r \in Run, Tool!Preview(r) PROVE ToolInv'
  BY <1>3, PreviewKeeps
<1>4. ASSUME NEW r \in Run, Tool!Proceed(r) \/ Tool!Crash(r) PROVE ToolInv'
  <2>1. CASE Tool!Allocate(r) \/ Tool!Crash(r)
    BY <2>1, EndKeeps DEF Tool!Allocate, Tool!Crash, Tool!Throw
  <2>2. CASE Tool!Finish(r)
    BY <2>2, EndKeeps DEF Tool!Finish
  <2>3. CASE Tool!Look(r)
    <3>1. CASE <<Tool!Item(r), 1>> \in events
      <4>1. Tool!AtItem(r) /\ Tool!GoOn(r) /\ UNCHANGED <<present, events>>
        BY <2>3, <3>1 DEF Tool!Look
      <4>2. events' = events \cup {<<Tool!Item(r), 1>>}
        BY <3>1, <4>1
      <4> QED
        BY <4>1, <4>2, GoOnKeeps
    <3>2. CASE <<Tool!Item(r), 1>> \notin events
      BY <2>3, <3>2 DEF Tool!Look, ToolInv, ToolType, OldFilledIn, FilledInSoFar, Tool!OneEventEach, Tool!HasEvent
    <3> QED
      BY <3>1, <3>2
  <2>4. CASE Tool!Insert(r)
    BY <2>4, GoOnKeeps, EndKeeps DEF Tool!Insert, Tool!Throw
  <2> QED
    BY <1>4, <2>1, <2>2, <2>3, <2>4 DEF Tool!Proceed
<1> QED
  BY <1>1, <1>2, <1>3, <1>4 DEF Tool!Next

LEMMA ToolBacked == ToolInv => BackfilledOnce
<1> SUFFICES ASSUME ToolInv PROVE BackfilledOnce
  OBVIOUS
<1>1. Tool!ReportComplete
  BY DEF ToolInv, ToolType, FilledInSoFar, Tool!ReportComplete
<1> QED
  BY <1>1 DEF ToolInv, BackfilledOnce
-----------------------------------------------------------------------------
(* The lists of events and of entries.                                     *)

\* The next cursor of a page is its last row.
ListPage == [data : Seq(List!Id), next : List!Id \cup {None}]
ListLoad ==
  [n : Nat, filters : Filter, cursor : List!Id \cup {None}, answer : ListPage \cup {None}]
NextIsLast(p) == p.next # None => p.data # <<>> /\ p.next = List!Last(p.data)
ListType ==
  /\ last \in List!Id
  /\ filters \in Filter
  /\ nextCursor \in List!Id \cup {None}
  /\ rows \in Seq(List!Id)
  /\ listAsked \in Nat
  /\ listLoads \subseteq ListLoad
PagesEndAtNext == \A l \in listLoads : l.answer # None => NextIsLast(l.answer)
ListInv == ListType /\ PagesEndAtNext /\ List!CursorIsLast

LEMMA ListStarts == ASSUME DesksAssumption, List!Init PROVE ListInv
<1> USE DEF List!Init
<1>1. [n |-> 1, filters |-> All, cursor |-> None, answer |-> None] \in ListLoad
  BY DEF ListLoad, DesksAssumption, List!FilteredAssumption
<1>2. ListType
  BY <1>1 DEF ListType, List!Id, DesksAssumption, List!FilteredAssumption
<1>3. PagesEndAtNext /\ List!CursorIsLast
  BY DEF PagesEndAtNext, List!CursorIsLast
<1> QED
  BY <1>2, <1>3 DEF ListInv

\* The server's page of a filter.
LEMMA PageEndsAtNext ==
  ASSUME DesksAssumption, ListType, NEW f \in Filter, NEW c \in List!Id \cup {None}
  PROVE  List!Page(f, c) \in ListPage /\ NextIsLast(List!Page(f, c))
<1> DEFINE S == {i \in List!Matching(f) : c # None => i < c}
           found == List!Falling(S)
           n == List!Min({PageLimit, Len(found)})
           data == SubSeq(found, 1, n)
<1>1. PageLimit \in Nat \ {0} /\ MaxId \in Nat
  BY DEF DesksAssumption, List!FilteredAssumption
<1>2. S \subseteq List!Id
  BY <1>1 DEF List!Matching, ListType, List!Id
<1>3. List!Id \subseteq Nat /\ IsFiniteSet(List!Id)
  <2>1. IsFiniteSet(1..MaxId)
    BY <1>1, FS_Interval
  <2> QED
    BY <1>1, <2>1 DEF List!Id
<1>4. found \in Seq(List!Id)
  <2>1. IsFiniteSet(S) /\ S \subseteq Nat
    BY <1>2, <1>3, FS_Subset
  <2> HIDE DEF S
  <2>2. found \in Seq(S)
    BY <2>1, FallingIsSequence
  <2> QED
    BY <1>2, <2>2, SequenceGrows
<1>5. List!Page(f, c) = [data |-> data, next |-> IF Len(found) > PageLimit THEN List!Last(data) ELSE None]
  BY DEF List!Page
<1> HIDE DEF found
<1>6. Len(found) \in Nat
  BY <1>4
<1>7. n \in {PageLimit, Len(found)} /\ n <= PageLimit /\ n <= Len(found)
  <2>1. \E x \in {PageLimit, Len(found)} : \A y \in {PageLimit, Len(found)} : x <= y
    BY <1>1, <1>6
  <2> QED
    BY <2>1 DEF List!Min
<1> HIDE DEF n
<1>8. data \in Seq(List!Id) /\ Len(data) = n
  BY <1>4, <1>6, <1>7, <1>1, SubSeqProperties
<1>9. CASE Len(found) > PageLimit
  <2>1. n = PageLimit
    BY <1>1, <1>6, <1>7, <1>9
  <2> HIDE DEF data
  <2>2. data # <<>> /\ List!Last(data) \in List!Id
    BY <1>1, <1>8, <2>1 DEF List!Last
  <2> QED
    BY <1>5, <1>8, <1>9, <2>2 DEF ListPage, NextIsLast
<1>10. CASE ~(Len(found) > PageLimit)
  BY <1>5, <1>8, <1>10 DEF ListPage, NextIsLast
<1> QED
  BY <1>9, <1>10

LEMMA AnswerKeeps ==
  ASSUME DesksAssumption, ListInv, NEW l \in listLoads, List!Answer(l)
  PROVE  ListInv'
<1> DEFINE p == List!Page(l.filters, l.cursor)
<1>1. ListType /\ PagesEndAtNext /\ List!CursorIsLast
  BY DEF ListInv
<1>2. l \in ListLoad
  BY <1>1 DEF ListType
<1>3. p \in ListPage /\ NextIsLast(p)
  BY <1>1, <1>2, PageEndsAtNext DEF ListLoad
<1>4. /\ listLoads' = (listLoads \ {l}) \cup {[l EXCEPT !.answer = p]}
      /\ UNCHANGED <<last, filters, rows, nextCursor, listAsked>>
  BY DEF List!Answer, List!server, List!screen
<1> HIDE DEF p
<1>5. [l EXCEPT !.answer = p] \in ListLoad /\ [l EXCEPT !.answer = p].answer = p
  BY <1>2, <1>3 DEF ListLoad
<1>6. ListType'
  BY <1>1, <1>4, <1>5 DEF ListType
<1>7. PagesEndAtNext'
  BY <1>1, <1>3, <1>4, <1>5 DEF PagesEndAtNext
<1>8. List!CursorIsLast'
  BY <1>1, <1>4 DEF List!CursorIsLast
<1> QED
  BY <1>6, <1>7, <1>8 DEF ListInv

\* A page is asked for.
LEMMA AskKeeps ==
  ASSUME ListInv, NEW l \in ListLoad, l.answer = None, listLoads' = listLoads \cup {l},
         UNCHANGED <<last, rows, nextCursor>>, filters' \in Filter, listAsked' \in Nat
  PROVE  ListInv'
BY DEF ListInv, ListType, PagesEndAtNext, List!CursorIsLast

\* A page is shown, or appended to what is shown.
LEMMA ShowKeeps ==
  ASSUME ListInv, NEW l \in listLoads, l.answer # None, listLoads' = listLoads \ {l},
         UNCHANGED <<last, filters, listAsked>>,
         rows' = l.answer.data \/ rows' = rows \o l.answer.data,
         nextCursor' = l.answer.next
  PROVE  ListInv'
<1>1. ListType /\ PagesEndAtNext /\ List!CursorIsLast
  BY DEF ListInv
<1>2. l.answer \in ListPage /\ NextIsLast(l.answer)
  BY <1>1 DEF ListType, ListLoad, PagesEndAtNext
<1> DEFINE data == l.answer.data
<1>3. data \in Seq(List!Id) /\ l.answer.next \in List!Id \cup {None} /\ rows \in Seq(List!Id)
  BY <1>1, <1>2 DEF ListPage, ListType
<1>4. nextCursor' # None => data # <<>> /\ nextCursor' = data[Len(data)]
  BY <1>2 DEF NextIsLast, List!Last
<1>5. rows' = data \/ rows' = rows \o data
  OBVIOUS
<1> HIDE DEF data
<1>6. rows' \in Seq(List!Id)
  <2>1. rows \o data \in Seq(List!Id)
    BY <1>3, ConcatProperties
  <2> QED
    BY <1>3, <1>5, <2>1
<1>7. data # <<>> => rows' # <<>> /\ rows'[Len(rows')] = data[Len(data)]
  <2>1. CASE rows' = data
    BY <2>1
  <2>2. CASE rows' = rows \o data
    <3>1. Len(rows) \in Nat /\ Len(data) \in Nat /\ (data # <<>> => Len(data) # 0)
      BY <1>3
    <3>2. Len(rows') = Len(rows) + Len(data)
      BY <1>3, <2>2
    <3>3. data # <<>> => rows'[Len(rows) + Len(data)] = data[Len(data)]
      BY <1>3, <2>2, <3>1
    <3> QED
      BY <1>6, <3>1, <3>2, <3>3
  <2> QED
    BY <1>5, <2>1, <2>2
<1>8. ListType'
  BY <1>1, <1>3, <1>6 DEF ListType
<1>9. PagesEndAtNext'
  BY <1>1 DEF PagesEndAtNext
<1>10. List!CursorIsLast'
  BY <1>4, <1>7 DEF List!CursorIsLast, List!Last
<1> QED
  BY <1>8, <1>9, <1>10 DEF ListInv

LEMMA ListStep == ASSUME DesksAssumption, ListInv, [List!Next]_listVars PROVE ListInv'
<1> USE DEF List!server, List!screen, List!requests
<1>1. ListType
  BY DEF ListInv
<1>2. CASE UNCHANGED listVars
  BY <1>2 DEF listVars, ListInv, ListType, PagesEndAtNext, List!CursorIsLast
<1>3. CASE List!Record
  <2>1. last' \in List!Id
    BY <1>1, <1>3 DEF List!Record, ListType, List!Id, DesksAssumption, List!FilteredAssumption
  <2> QED
    BY <1>3, <2>1 DEF List!Record, ListInv, ListType, PagesEndAtNext, List!CursorIsLast
<1>4. ASSUME NEW f \in Filter, List!Load(f), filters' \in Filter PROVE ListInv'
  <2> DEFINE l == [n |-> listAsked + 1, filters |-> f, cursor |-> None, answer |-> None]
  <2>1. l \in ListLoad
    BY <1>1 DEF ListLoad, ListType
  <2>2. /\ listAsked' = listAsked + 1 /\ listLoads' = listLoads \cup {l}
        /\ UNCHANGED <<last, rows, nextCursor>>
    BY <1>4 DEF List!Load
  <2> QED
    BY <1>1, <1>4, <2>1, <2>2, AskKeeps DEF ListType
<1>5. CASE List!LoadMore
  <2> DEFINE l == [n |-> listAsked, filters |-> filters, cursor |-> nextCursor, answer |-> None]
  <2>1. l \in ListLoad
    BY <1>1 DEF ListLoad, ListType
  <2>2. listLoads' = listLoads \cup {l} /\ UNCHANGED <<last, rows, nextCursor, filters, listAsked>>
    BY <1>5 DEF List!LoadMore
  <2> QED
    BY <1>1, <2>1, <2>2, AskKeeps DEF ListType
<1>6. ASSUME NEW l \in listLoads, List!Loaded(l) \/ List!MoreLoaded(l) PROVE ListInv'
  BY <1>6, ShowKeeps DEF List!Loaded, List!MoreLoaded, List!CursorAfter
<1>7. ASSUME NEW l \in listLoads, List!Fails(l) PROVE ListInv'
  BY <1>7 DEF List!Fails, ListInv, ListType, PagesEndAtNext, List!CursorIsLast
<1> QED
  BY <1>1, <1>2, <1>3, <1>4, <1>5, <1>6, <1>7, AnswerKeeps
  DEF List!Next, List!Apply, List!Reload, ListType
-----------------------------------------------------------------------------
(* The drawer, and the chart of accounts.                                  *)

LEMMA DeskStarts == Desk!Init => Desk!DialogOfOpening
BY DEF Desk!Init, Desk!DialogOfOpening

LEMMA DeskStep ==
  ASSUME Desk!DialogOfOpening, [Desk!Next]_deskVars
  PROVE  Desk!DialogOfOpening'
<1> USE DEF Desk!DialogOfOpening, Desk!server, Desk!drawer, Desk!requests
<1>1. CASE UNCHANGED deskVars
  BY <1>1 DEF deskVars
<1>2. ASSUME NEW e \in DeskEvent, Desk!Process(e) PROVE Desk!DialogOfOpening'
  BY <1>2 DEF Desk!Process
<1>3. ASSUME NEW id \in Desk!Id \cup {None}, Desk!Choose(id) PROVE Desk!DialogOfOpening'
  BY <1>3 DEF Desk!Choose, Desk!Open
<1>4. ASSUME NEW t \in {"other", "events", "journals"}, Desk!ChooseTab(t) PROVE Desk!DialogOfOpening'
  BY <1>4 DEF Desk!ChooseTab, Desk!GoTo
<1>5. CASE Desk!Follow \/ Desk!FollowReversal
  BY <1>5 DEF Desk!Follow, Desk!FollowReversal, Desk!GoTo, Desk!Open
<1>6. ASSUME NEW l \in loads, Desk!LoadRead(l) \/ Desk!LoadAnswered(l) \/ Desk!LoadFails(l)
      PROVE  Desk!DialogOfOpening'
  BY <1>6 DEF Desk!LoadRead, Desk!LoadAnswered, Desk!LoadFails
<1>7. ASSUME NEW w \in Desk!Writes, Desk!AskFor(w) PROVE Desk!DialogOfOpening'
  BY <1>7 DEF Desk!AskFor
<1>8. CASE Desk!CancelDialog \/ Desk!Confirm
  BY <1>8 DEF Desk!CancelDialog, Desk!Confirm
<1>9. ASSUME NEW w \in writes, Desk!Serve(w) \/ Desk!Written(w) \/ Desk!WriteFails(w)
      PROVE  Desk!DialogOfOpening'
  BY <1>9 DEF Desk!Serve, Desk!Written, Desk!WriteFails
<1>10. ASSUME NEW w \in writes, Desk!Finished(w) PROVE Desk!DialogOfOpening'
  BY <1>10 DEF Desk!Finished, Desk!GoTo, Desk!Open
<1> QED
  BY <1>1, <1>2, <1>3, <1>4, <1>5, <1>6, <1>7, <1>8, <1>9, <1>10 DEF Desk!Next

\* The fields of a dialog are those of the row it is open for.
ChartField == [from : Chart!Row \cup {None}, value : Chart!FieldValue]
ChartSave ==
  [d : Chart!Dialog, id : Chart!Row \cup {None}, fields : ChartField, mounted : BOOLEAN,
   done : BOOLEAN, n : Nat]
ChartType ==
  /\ stored \in [Chart!Row -> Chart!FieldValue]
  /\ listed \in [Chart!Row -> Chart!FieldValue]
  /\ chartOpen \in [Chart!Dialog -> ChartField]
  /\ form \in [Chart!Dialog -> ChartField]
  /\ made \in Nat
  /\ saves \subseteq ChartSave
  /\ chartLoads \subseteq [n : Nat, rows : [Chart!Row -> Chart!FieldValue] \cup {None}]
FormOfRow ==
  chartState = "ready" =>
    \A d \in Chart!Dialog : chartOpen[d] # Chart!Empty => form[d].from = chartOpen[d].from
ChartInv == ChartType /\ FormOfRow /\ Chart!SavedFromOwnRow

LEMMA EmptyIsField == ASSUME DesksAssumption PROVE Chart!Empty \in ChartField
BY DEF DesksAssumption, Chart!TabAssumption, Chart!Empty, ChartField, Chart!FieldValue

LEMMA ChartStarts == ASSUME DesksAssumption, Chart!Init PROVE ChartInv
<1> USE DEF Chart!Init
<1>1. MaxValue \in Nat \ {0}
  BY DEF DesksAssumption, Chart!TabAssumption
<1>2. /\ stored \in [Chart!Row -> Chart!FieldValue]
      /\ listed \in [Chart!Row -> Chart!FieldValue]
  BY <1>1 DEF Chart!FieldValue
<1>3. chartOpen \in [Chart!Dialog -> ChartField] /\ form \in [Chart!Dialog -> ChartField]
  BY EmptyIsField
<1>4. ChartType
  BY <1>2, <1>3 DEF ChartType
<1>5. FormOfRow /\ Chart!SavedFromOwnRow
  BY DEF FormOfRow, Chart!SavedFromOwnRow
<1> QED
  BY <1>4, <1>5 DEF ChartInv

\* A save keeps its fields while it is answered.
LEMMA SaveFields ==
  ASSUME NEW s \in ChartSave, s.fields.from = s.id
  PROVE  /\ [s EXCEPT !.mounted = FALSE] \in ChartSave
         /\ [s EXCEPT !.mounted = FALSE].fields.from = [s EXCEPT !.mounted = FALSE].id
         /\ [s EXCEPT !.done = TRUE] \in ChartSave
         /\ [s EXCEPT !.done = TRUE].fields.from = [s EXCEPT !.done = TRUE].id
BY DEF ChartSave

\* The dialogs are opened, typed into and closed.
LEMMA DialogKeeps ==
  ASSUME ChartInv, NEW d \in Chart!Dialog,
         Chart!OpenDialog(d) \/ Chart!CloseDialog(d) \/ \E v \in Chart!FieldValue : Chart!Type(d, v),
         Chart!Empty \in ChartField
  PROVE  ChartInv'
<1>1. ChartType /\ FormOfRow /\ Chart!SavedFromOwnRow /\ chartState = "ready"
  BY DEF ChartInv, Chart!OpenDialog, Chart!CloseDialog, Chart!Type
<1>2. UNCHANGED <<stored, listed, chartState, saves, made, chartLoads>>
  BY DEF Chart!OpenDialog, Chart!CloseDialog, Chart!Type, Chart!page, Chart!requests
<1>3. /\ chartOpen' \in [Chart!Dialog -> ChartField] /\ form' \in [Chart!Dialog -> ChartField]
      /\ \A e \in Chart!Dialog : chartOpen'[e] # Chart!Empty => form'[e].from = chartOpen'[e].from
  <2>1. CASE Chart!OpenDialog(d)
    <3>1. PICK r \in Chart!Rows(d) :
            /\ chartOpen' = [chartOpen EXCEPT ![d] = [from |-> r, value |-> listed[r]]]
            /\ form' = [form EXCEPT ![d] = [from |-> r, value |-> listed[r]]]
      BY <2>1 DEF Chart!OpenDialog, Chart!Fields
    <3>2. [from |-> r, value |-> listed[r]] \in ChartField
      BY <1>1 DEF Chart!Rows, Chart!Row, ChartType, ChartField
    <3> QED
      BY <1>1, <3>1, <3>2 DEF ChartType, FormOfRow
  <2>2. CASE Chart!CloseDialog(d)
    BY <1>1, <2>2 DEF Chart!CloseDialog, ChartType, FormOfRow
  <2>3. ASSUME NEW v \in Chart!FieldValue, Chart!Type(d, v) PROVE <1>3!:
    <3>1. form' = [form EXCEPT ![d].value = v] /\ UNCHANGED chartOpen
      BY <2>3 DEF Chart!Type
    <3>2. form[d] \in ChartField
      BY <1>1 DEF ChartType
    <3>3. [form[d] EXCEPT !.value = v] \in ChartField /\ [form[d] EXCEPT !.value = v].from = form[d].from
      BY <3>2 DEF ChartField
    <3>4. form' = [form EXCEPT ![d] = [form[d] EXCEPT !.value = v]]
      BY <3>1
    <3> QED
      BY <1>1, <3>1, <3>3, <3>4 DEF ChartType, FormOfRow
  <2> QED
    BY <2>1, <2>2, <2>3
<1>4. ChartType'
  BY <1>1, <1>2, <1>3 DEF ChartType
<1>5. FormOfRow' /\ Chart!SavedFromOwnRow'
  BY <1>1, <1>2, <1>3 DEF FormOfRow, Chart!SavedFromOwnRow
<1> QED
  BY <1>4, <1>5 DEF ChartInv

LEMMA SaveKeeps ==
  ASSUME ChartInv, NEW d \in Chart!Dialog, Chart!Save(d)
  PROVE  ChartInv'
<1> DEFINE s == [d |-> d, id |-> chartOpen[d].from, fields |-> form[d], mounted |-> TRUE,
                 done |-> FALSE, n |-> made]
<1>1. ChartType /\ FormOfRow /\ Chart!SavedFromOwnRow
  BY DEF ChartInv
<1>2. s \in ChartSave /\ s.fields.from = s.id
  BY <1>1 DEF Chart!Save, ChartType, ChartSave, ChartField, FormOfRow
<1>3. /\ saves' = saves \cup {s} /\ made' = made + 1
      /\ UNCHANGED <<stored, chartState, listed, chartOpen, form, chartLoads>>
  BY DEF Chart!Save, Chart!page
<1> HIDE DEF s
<1>4. ChartType'
  BY <1>1, <1>2, <1>3 DEF ChartType
<1>5. FormOfRow' /\ Chart!SavedFromOwnRow'
  BY <1>1, <1>2, <1>3 DEF FormOfRow, Chart!SavedFromOwnRow
<1> QED
  BY <1>4, <1>5 DEF ChartInv

\* What becomes of saves, when their fields stay with them.
LEMMA SavesKept ==
  ASSUME ChartInv, saves' \subseteq ChartSave, \A s \in saves' : s.fields.from = s.id,
         stored' \in [Chart!Row -> Chart!FieldValue], listed' \in [Chart!Row -> Chart!FieldValue],
         chartOpen' \in [Chart!Dialog -> ChartField], form' \in [Chart!Dialog -> ChartField],
         made' = made,
         chartLoads' \subseteq [n : Nat, rows : [Chart!Row -> Chart!FieldValue] \cup {None}],
         chartState' = "ready" =>
           \/ chartState = "ready" /\ UNCHANGED <<chartOpen, form>>
           \/ form' = chartOpen'
  PROVE  ChartInv'
<1>1. ChartType /\ FormOfRow
  BY DEF ChartInv
<1>2. ChartType'
  BY <1>1 DEF ChartType
<1>3. FormOfRow'
  BY <1>1 DEF FormOfRow
<1> QED
  BY <1>2, <1>3 DEF ChartInv, Chart!SavedFromOwnRow

LEMMA ChartStep == ASSUME DesksAssumption, ChartInv, [Chart!Next]_chartVars PROVE ChartInv'
<1> USE DEF Chart!page, Chart!dialogs, Chart!requests
<1> DEFINE Loads == [n : Nat, rows : [Chart!Row -> Chart!FieldValue] \cup {None}]
<1>1. /\ ChartType /\ FormOfRow /\ Chart!Empty \in ChartField
      /\ \A s \in saves : s \in ChartSave /\ s.fields.from = s.id
  BY EmptyIsField DEF ChartInv, ChartType, Chart!SavedFromOwnRow
<1>2. [d \in Chart!Dialog |-> Chart!Empty] \in [Chart!Dialog -> ChartField]
  BY <1>1
<1>3. ASSUME NEW S, S \subseteq saves
      PROVE  \A s \in {[t EXCEPT !.mounted = FALSE] : t \in S} : s \in ChartSave /\ s.fields.from = s.id
  BY <1>1, <1>3, SaveFields
<1>4. CASE UNCHANGED chartVars
  BY <1>4 DEF chartVars, ChartInv, ChartType, FormOfRow, Chart!SavedFromOwnRow
<1>5. ASSUME NEW s \in saves, Chart!Write(s) PROVE ChartInv'
  <2>1. s.fields.value \in Chart!FieldValue
    BY <1>1 DEF ChartSave, ChartField
  <2>2. stored' \in [Chart!Row -> Chart!FieldValue]
    BY <1>1, <1>5, <2>1 DEF Chart!Write, ChartType
  <2>3. \A t \in saves' : t \in ChartSave /\ t.fields.from = t.id
    BY <1>1, <1>5, SaveFields DEF Chart!Write
  <2> QED
    BY <1>1, <1>5, <2>2, <2>3, SavesKept DEF Chart!Write, ChartType
<1>6. ASSUME NEW s \in saves, Chart!Saved(s) PROVE ChartInv'
  <2>1. \A t \in saves' : t \in ChartSave /\ t.fields.from = t.id
    BY <1>3, <1>6 DEF Chart!Saved, Chart!Load
  <2>2. chartLoads' \subseteq Loads
    <3>1. s.n + 1 \in Nat
      BY <1>1 DEF ChartSave
    <3>2. [n |-> s.n + 1, rows |-> None] \in Loads
      BY <3>1
    <3> QED
      BY <1>1, <1>6, <3>2 DEF Chart!Saved, Chart!Load, ChartType
  <2>3. chartOpen' \in [Chart!Dialog -> ChartField]
    BY <1>1, <1>6 DEF Chart!Saved, ChartType
  <2>4. /\ form' \in [Chart!Dialog -> ChartField] /\ chartState' = "loading"
        /\ UNCHANGED <<stored, listed, made>>
    BY <1>2, <1>6 DEF Chart!Saved, Chart!Load
  <2> QED
    BY <1>1, <2>1, <2>2, <2>3, <2>4, SavesKept DEF ChartType
<1>7. ASSUME NEW s \in saves, Chart!SaveFails(s) PROVE ChartInv'
  BY <1>1, <1>7, SavesKept DEF Chart!SaveFails, ChartType
<1>8. ASSUME NEW l \in chartLoads, Chart!LoadRead(l) PROVE ChartInv'
  <2>1. [l EXCEPT !.rows = stored] \in Loads
    BY <1>1 DEF ChartType
  <2> QED
    BY <1>1, <1>8, <2>1, SavesKept DEF Chart!LoadRead, ChartType
<1>9. ASSUME NEW l \in chartLoads, Chart!LoadAnswered(l) PROVE ChartInv'
  <2>1. l.rows \in [Chart!Row -> Chart!FieldValue]
    BY <1>1, <1>9 DEF Chart!LoadAnswered, ChartType
  <2>2. /\ form' \in [Chart!Dialog -> ChartField]
        /\ (chartState = "ready" /\ form' = form) \/ form' = chartOpen
    BY <1>1, <1>9 DEF Chart!LoadAnswered, ChartType
  <2> QED
    BY <1>1, <1>9, <2>1, <2>2, SavesKept DEF Chart!LoadAnswered, ChartType
<1>10. ASSUME NEW l \in chartLoads, Chart!LoadFails(l) PROVE ChartInv'
  <2>1. \A t \in saves' : t \in ChartSave /\ t.fields.from = t.id
    BY <1>3, <1>10 DEF Chart!LoadFails
  <2> QED
    BY <1>1, <1>2, <1>10, <2>1, SavesKept DEF Chart!LoadFails, ChartType
<1>11. CASE Chart!Retry
  <2>1. [n |-> 0, rows |-> None] \in Loads
    OBVIOUS
  <2> QED
    BY <1>1, <1>11, <2>1, SavesKept DEF Chart!Retry, ChartType
<1> QED
  BY <1>1, <1>4, <1>5, <1>6, <1>7, <1>8, <1>9, <1>10, <1>11, DialogKeeps, SaveKeeps DEF Chart!Next
-----------------------------------------------------------------------------
(* The settlement of residuals.                                            *)

\* The requests with a key are of one filter, that of the dialog while it is open.
SettleRequest ==
  [key : Nat, filters : Settling!BranchFilter,
   settled : (SUBSET Residual) \cup {None}, awaits : Nat \cup {None},
   seen : Settling!BranchFilter \cup {None}]
SettleType ==
  /\ unsettled \subseteq Residual
  /\ answers \in [1..MaxOpenings -> (SUBSET Residual) \cup {None}]
  /\ settleFilters \in Settling!BranchFilter
  /\ settleShown \in Settling!BranchFilter \cup {None}
  /\ settleLoads \subseteq [n : Nat, filters : Settling!BranchFilter]
  /\ settles \subseteq SettleRequest
  /\ loaded \in Nat
  /\ keys \in 0..MaxOpenings
InFilter(f) == {r \in Residual : f \in {All, branch[r]}}
KeysInOrder ==
  /\ key # None => key = keys /\ keys # 0
  /\ \A s \in settles : s.key \in 1..keys
  /\ \A k \in 1..MaxOpenings : k > keys => answers[k] = None
FilterOfKey ==
  /\ \A s, t \in settles : s.key = t.key => s.filters = t.filters
  /\ key # None =>
       /\ \A s \in settles : s.key = key => s.filters = settleFilters
       /\ answers[key] # None => answers[key] \subseteq InFilter(settleFilters)
AnswersInFilter ==
  \A s \in settles : answers[s.key] # None => answers[s.key] \subseteq InFilter(s.filters)
SettleInv == SettleType /\ KeysInOrder /\ FilterOfKey /\ AnswersInFilter

LEMMA SettleStarts == ASSUME DesksAssumption, Settling!Init PROVE SettleInv
<1> USE DEF Settling!Init
<1>1. MaxOpenings \in Nat
  BY DEF DesksAssumption, Settling!SettlementAssumption
<1>2. SettleType
  <2>1. answers \in [1..MaxOpenings -> (SUBSET Residual) \cup {None}]
    OBVIOUS
  <2>2. settleLoads \subseteq [n : Nat, filters : Settling!BranchFilter]
    BY DEF Settling!BranchFilter
  <2> QED
    BY <1>1, <2>1, <2>2 DEF SettleType, Settling!BranchFilter
<1>3. KeysInOrder /\ FilterOfKey /\ AnswersInFilter
  BY DEF KeysInOrder, FilterOfKey, AnswersInFilter
<1> QED
  BY <1>2, <1>3 DEF SettleInv

\* The server takes the residuals of a filter, or answers what the key did.
LEMMA SettleKeeps ==
  ASSUME DesksAssumption, SettleInv, NEW s \in settles, Settling!Settle(s)
  PROVE  SettleInv'
<1> DEFINE done1 == IF answers[s.key] = None THEN Settling!Scope(s.filters) ELSE answers[s.key]
           t == [s EXCEPT !.settled = done1]
<1>1. SettleType /\ KeysInOrder /\ FilterOfKey /\ AnswersInFilter
  BY DEF SettleInv
<1>2. /\ answers' = [answers EXCEPT ![s.key] = done1]
      /\ settles' = (settles \ {s}) \cup {t}
      /\ unsettled' \subseteq unsettled
      /\ UNCHANGED <<branch, settleFilters, settleShown, settleLoads, loaded, key, keys>>
  BY DEF Settling!Settle, Settling!list
<1>3. MaxOpenings \in Nat
  BY DEF DesksAssumption, Settling!SettlementAssumption
<1>4. s \in SettleRequest /\ s.key \in 1..keys /\ s.key \in 1..MaxOpenings
  BY <1>1, <1>3 DEF SettleType, KeysInOrder
<1>5. /\ done1 \subseteq InFilter(s.filters) /\ done1 \subseteq Residual
  <2>1. Settling!Scope(s.filters) \subseteq InFilter(s.filters)
    BY <1>1 DEF Settling!Scope, InFilter, SettleType
  <2>2. InFilter(s.filters) \subseteq Residual
    BY DEF InFilter
  <2> QED
    BY <1>1, <2>1, <2>2 DEF AnswersInFilter
<1> HIDE DEF done1
<1>6. t \in SettleRequest /\ t.key = s.key /\ t.filters = s.filters
  BY <1>4, <1>5 DEF SettleRequest
<1> HIDE DEF t
<1>7. /\ answers' \in [1..MaxOpenings -> (SUBSET Residual) \cup {None}]
      /\ answers'[s.key] = done1
      /\ \A k \in 1..MaxOpenings : k # s.key => answers'[k] = answers[k]
  BY <1>1, <1>2, <1>4, <1>5 DEF SettleType
<1>8. \A u \in settles' : \E v \in settles : u.key = v.key /\ u.filters = v.filters
  BY <1>2, <1>6
<1>9. SettleType'
  BY <1>1, <1>2, <1>6, <1>7 DEF SettleType
<1>10. KeysInOrder'
  <2>1. \A u \in settles' : u.key \in 1..keys
    BY <1>1, <1>8 DEF KeysInOrder
  <2>2. \A k \in 1..MaxOpenings : k > keys => k # s.key
    BY <1>1, <1>3, <1>4 DEF SettleType
  <2> QED
    BY <1>1, <1>2, <1>7, <2>1, <2>2 DEF KeysInOrder
<1>11. \A f : InFilter(f)' = InFilter(f)
  BY <1>2 DEF InFilter
<1>12. FilterOfKey'
  <2>1. \A u, v \in settles' : u.key = v.key => u.filters = v.filters
    BY <1>1, <1>8 DEF FilterOfKey
  <2>2. key # None => \A u \in settles' : u.key = key => u.filters = settleFilters
    BY <1>1, <1>8 DEF FilterOfKey
  <2>3. key # None /\ answers'[key] # None => answers'[key] \subseteq InFilter(settleFilters)
    <3>1. CASE key = s.key
      BY <1>1, <1>5, <1>7, <3>1 DEF FilterOfKey
    <3>2. CASE key # s.key
      <4>1. key # None => key \in 1..MaxOpenings
        BY <1>1, <1>3 DEF KeysInOrder, SettleType
      <4> QED
        BY <1>1, <1>7, <3>2, <4>1 DEF FilterOfKey
    <3> QED
      BY <3>1, <3>2
  <2> QED
    BY <1>2, <1>11, <2>1, <2>2, <2>3 DEF FilterOfKey
<1>13. AnswersInFilter'
  <2> SUFFICES ASSUME NEW u \in settles', answers'[u.key] # None
               PROVE  answers'[u.key] \subseteq InFilter(u.filters)
    BY <1>11 DEF AnswersInFilter
  <2>1. PICK v \in settles : u.key = v.key /\ u.filters = v.filters
    BY <1>8
  <2>2. CASE v.key = s.key
    <3>1. v.filters = s.filters
      BY <1>1, <2>2 DEF FilterOfKey
    <3> QED
      BY <1>5, <1>7, <2>1, <2>2, <3>1
  <2>3. CASE v.key # s.key
    <3>1. v.key \in 1..MaxOpenings
      BY <1>1, <1>3 DEF KeysInOrder, SettleType
    <3> QED
      BY <1>1, <1>7, <2>1, <2>3, <3>1 DEF AnswersInFilter
  <2> QED
    BY <2>2, <2>3
<1> QED
  BY <1>9, <1>10, <1>12, <1>13 DEF SettleInv

\* A list that is asked for leaves the keys, and the filters of an open dialog.
LEMMA ListingKeeps ==
  ASSUME SettleInv, NEW f \in Settling!BranchFilter, Settling!Request(f),
         UNCHANGED <<branch, unsettled, answers, settleShown, key, keys>>,
         settles' \subseteq SettleRequest,
         \A u \in settles' : \E v \in settles : u.key = v.key /\ u.filters = v.filters,
         UNCHANGED settleFilters \/ (key = None /\ settleFilters' \in Settling!BranchFilter)
  PROVE  SettleInv'
<1>1. SettleType /\ KeysInOrder /\ FilterOfKey /\ AnswersInFilter
  BY DEF SettleInv
<1>2. SettleType'
  <2>1. loaded' \in Nat /\ [n |-> loaded + 1, filters |-> f] \in [n : Nat, filters : Settling!BranchFilter]
    BY <1>1 DEF Settling!Request, SettleType
  <2> QED
    BY <1>1, <2>1 DEF Settling!Request, SettleType
<1>3. KeysInOrder'
  BY <1>1 DEF KeysInOrder
<1>4. \A g : InFilter(g)' = InFilter(g)
  BY DEF InFilter
<1>5. FilterOfKey' /\ AnswersInFilter'
  BY <1>1, <1>4 DEF FilterOfKey, AnswersInFilter
<1> QED
  BY <1>2, <1>3, <1>5 DEF SettleInv

\* Requests that end leave the others.
LEMMA RequestsEnd ==
  ASSUME SettleInv, settles' \subseteq settles, settleLoads' \subseteq settleLoads,
         UNCHANGED <<branch, unsettled, answers, settleFilters, loaded, keys>>,
         settleShown' \in Settling!BranchFilter \cup {None}, key' \in {key, None}
  PROVE  SettleInv'
<1>1. \A g : InFilter(g)' = InFilter(g)
  BY DEF InFilter
<1> QED
  BY <1>1 DEF SettleInv, SettleType, KeysInOrder, FilterOfKey, AnswersInFilter

LEMMA OpenKeeps == ASSUME DesksAssumption, SettleInv, Settling!OpenExecute PROVE SettleInv'
<1>1. SettleType /\ KeysInOrder /\ FilterOfKey /\ AnswersInFilter
  BY DEF SettleInv
<1>2. /\ keys < MaxOpenings /\ keys' = keys + 1 /\ key' = keys + 1
      /\ UNCHANGED <<branch, unsettled, answers, settleFilters, settleShown, settleLoads, settles, loaded>>
  BY DEF Settling!OpenExecute, Settling!KeyOfOpening, Settling!server, Settling!list
<1>3. MaxOpenings \in Nat /\ keys \in Nat
  BY <1>1 DEF DesksAssumption, Settling!SettlementAssumption, SettleType
<1>4. SettleType'
  BY <1>1, <1>2, <1>3 DEF SettleType
<1>5. KeysInOrder'
  BY <1>1, <1>2, <1>3 DEF KeysInOrder
<1>6. \A g : InFilter(g)' = InFilter(g)
  BY <1>2 DEF InFilter
<1>7. answers[keys + 1] = None /\ \A s \in settles : s.key # keys + 1
  BY <1>1, <1>2, <1>3 DEF KeysInOrder
<1>8. FilterOfKey' /\ AnswersInFilter'
  BY <1>1, <1>2, <1>6, <1>7 DEF FilterOfKey, AnswersInFilter
<1> QED
  BY <1>4, <1>5, <1>8 DEF SettleInv

LEMMA RunKeeps == ASSUME DesksAssumption, SettleInv, Settling!RunSettle PROVE SettleInv'
<1> DEFINE s == [key |-> key, filters |-> settleFilters, settled |-> None, awaits |-> None,
                 seen |-> IF settleState = "ready" THEN settleShown ELSE settleFilters]
<1>1. SettleType /\ KeysInOrder /\ FilterOfKey /\ AnswersInFilter
  BY DEF SettleInv
<1>2. /\ key # None /\ settles' = settles \cup {s}
      /\ UNCHANGED <<branch, unsettled, answers, settleFilters, settleShown, settleLoads, key, keys, loaded>>
  BY DEF Settling!RunSettle, Settling!server, Settling!list
<1>3. MaxOpenings \in Nat /\ keys \in Nat /\ key = keys /\ keys # 0
  BY <1>1, <1>2 DEF DesksAssumption, Settling!SettlementAssumption, SettleType, KeysInOrder
<1>4. s \in SettleRequest /\ s.key = key /\ s.filters = settleFilters
  <2>1. (IF settleState = "ready" THEN settleShown ELSE settleFilters) \in Settling!BranchFilter \cup {None}
    BY <1>1 DEF SettleType
  <2>2. key \in Nat /\ settleFilters \in Settling!BranchFilter
    BY <1>1, <1>3 DEF SettleType
  <2> QED
    BY <2>1, <2>2 DEF SettleRequest
<1> HIDE DEF s
<1>5. SettleType'
  BY <1>1, <1>2, <1>4 DEF SettleType
<1>6. KeysInOrder'
  BY <1>1, <1>2, <1>3, <1>4 DEF KeysInOrder
<1>7. \A g : InFilter(g)' = InFilter(g)
  BY <1>2 DEF InFilter
<1>8. FilterOfKey' /\ AnswersInFilter'
  BY <1>1, <1>2, <1>4, <1>7 DEF FilterOfKey, AnswersInFilter
<1> QED
  BY <1>5, <1>6, <1>8 DEF SettleInv

LEMMA SettleStep == ASSUME DesksAssumption, SettleInv, [Settling!Next]_settlementVars PROVE SettleInv'
<1> USE DEF Settling!server, Settling!list, Settling!dialog
<1>1. SettleType
  BY DEF SettleInv
<1>2. CASE UNCHANGED settlementVars
  BY <1>2, RequestsEnd DEF settlementVars, SettleInv, SettleType
<1>3. ASSUME NEW l \in settleLoads, Settling!Listed(l) \/ Settling!ListFails(l) PROVE SettleInv'
  BY <1>1, <1>3, RequestsEnd DEF Settling!Listed, Settling!ListFails, SettleType
<1>4. ASSUME NEW f \in Settling!BranchFilter, Settling!Apply(f) PROVE SettleInv'
  BY <1>1, <1>4, ListingKeeps DEF Settling!Apply, SettleType
<1>5. CASE Settling!Retry
  BY <1>1, <1>5, ListingKeeps DEF Settling!Retry, SettleType
<1>6. CASE Settling!CloseExecute
  BY <1>1, <1>6, RequestsEnd DEF Settling!CloseExecute, SettleType
<1>7. ASSUME NEW s \in settles, Settling!Settled(s) PROVE SettleInv'
  <2> DEFINE t == [s EXCEPT !.awaits = loaded + 1]
  <2>1. s \in SettleRequest /\ loaded + 1 \in Nat
    BY <1>1 DEF SettleType
  <2>2. t \in SettleRequest /\ t.key = s.key /\ t.filters = s.filters /\ s.filters \in Settling!BranchFilter
    BY <2>1 DEF SettleRequest
  <2>3. settles' = (settles \ {s}) \cup {t}
    BY <1>7 DEF Settling!Settled
  <2> HIDE DEF t
  <2>4. /\ settles' \subseteq SettleRequest
        /\ \A u \in settles' : \E v \in settles : u.key = v.key /\ u.filters = v.filters
    BY <1>1, <2>2, <2>3 DEF SettleType
  <2>5. /\ Settling!Request(s.filters)
        /\ UNCHANGED <<branch, unsettled, answers, settleShown, key, keys, settleFilters>>
    BY <1>7 DEF Settling!Settled
  <2> QED
    BY <2>2, <2>4, <2>5, ListingKeeps
<1>8. ASSUME NEW s \in settles, Settling!Finished(s) \/ Settling!SettleFails(s) PROVE SettleInv'
  BY <1>1, <1>8, RequestsEnd DEF Settling!Finished, Settling!SettleFails, SettleType
<1> QED
  BY <1>2, <1>3, <1>4, <1>5, <1>6, <1>7, <1>8, SettleKeeps, OpenKeeps, RunKeeps DEF Settling!Next

LEMMA SettleBacked == SettleInv => Settling!OneFilterPerKey
BY DEF SettleInv, AnswersInFilter, InFilter, Settling!OneFilterPerKey

-----------------------------------------------------------------------------
(* The periods.                                                            *)

LEMMA PeriodStarts == Periods!Init => Periods!FailedLockKeepsDates
BY DEF Periods!Init, Periods!FailedLockKeepsDates

LEMMA PeriodStep ==
  ASSUME Periods!FailedLockKeepsDates, [Periods!Next]_periodVars
  PROVE  Periods!FailedLockKeepsDates'
<1> USE DEF Periods!FailedLockKeepsDates, Periods!server, Periods!screen
<1>1. CASE UNCHANGED periodVars
  BY <1>1 DEF periodVars
<1>2. ASSUME NEW r \in Dates, Periods!Enter(r) \/ Periods!ChooseTarget(r)
      PROVE  Periods!FailedLockKeepsDates'
  BY <1>2 DEF Periods!Enter, Periods!ChooseTarget
<1>3. CASE Periods!PreviewLock \/ Periods!RunLock \/ Periods!RunOpen \/ Periods!Cancel \/ Periods!Retry
  BY <1>3 DEF Periods!PreviewLock, Periods!RunLock, Periods!RunOpen, Periods!Cancel, Periods!Retry
<1>4. ASSUME NEW q \in requests,
             \/ Periods!Serve(q) \/ Periods!Previewed(q) \/ Periods!Locked(q) \/ Periods!Opened(q)
             \/ Periods!Finished(q) \/ Periods!Listed(q) \/ Periods!ListFails(q)
      PROVE  Periods!FailedLockKeepsDates'
  BY <1>4 DEF Periods!Serve, Periods!Previewed, Periods!Locked, Periods!Opened, Periods!Finished,
     Periods!Listed, Periods!ListFails
<1>5. ASSUME NEW q \in requests, Periods!Fails(q) PROVE Periods!FailedLockKeepsDates'
  BY <1>5 DEF Periods!Fails, Periods!RangeAfterFailure
<1> QED
  BY <1>1, <1>2, <1>3, <1>4, <1>5 DEF Periods!Next
-----------------------------------------------------------------------------
(* The policy.                                                             *)

\* What a started save found done, it found in the rows or replaced.
PolicyValue == Value \cup {Default}
PolicyRow == [scope : Policy!Scope, value : PolicyValue, n : Nat, after : SUBSET Nat]
PolicySave ==
  [n : Nat, scope : Policy!Scope, value : PolicyValue, from : Policy!Scope, page : BOOLEAN,
   step : {"sent", "started", "committed", "replied"}, after : SUBSET Nat,
   sees : SUBSET PolicyRow]
PolicyType ==
  /\ policyRows \subseteq PolicyRow
  /\ done \subseteq Nat
  /\ policySaves \subseteq PolicySave
  /\ {policyMade, policyLoaded} \subseteq Nat
  /\ branchId \in Policy!Scope
  /\ policyForm \in [from : Policy!Scope, value : PolicyValue] \cup {None}
  /\ policyLoads \subseteq [n : Nat, scope : Policy!Scope, answer : PolicyValue \cup {None}]
Uncommitted(s) == s.step \in {"sent", "started"}
SavesNumbered ==
  /\ \A k \in done : k <= policyMade
  /\ \A s \in policySaves : s.n <= policyMade /\ (Uncommitted(s) => s.n \notin done)
  /\ \A s, t \in policySaves : s.n = t.n => s = t
RowsDone == \A r \in policyRows : r.n \in done /\ r.after \subseteq done
SeenReplaced ==
  \A s \in policySaves : s.step = "started" =>
    /\ s.after \subseteq done
    /\ \A q \in policyRows : q.scope = s.scope /\ q.n \in s.after => q \in s.sees
PolicyInv == PolicyType /\ SavesNumbered /\ RowsDone /\ SeenReplaced /\ Policy!LaterReplaces

LEMMA PolicyStarts == ASSUME DesksAssumption, Policy!Init PROVE PolicyInv
<1> USE DEF Policy!Init
<1>1. policyRows \subseteq PolicyRow /\ \A r \in policyRows : r.n = 0 /\ r.after = {}
  BY DEF PolicyRow, PolicyValue
<1>2. done = {0} /\ policySaves = {} /\ policyMade = 0 /\ policyLoaded = 0 /\ branchId = All /\ policyForm = None
  OBVIOUS
<1>3. policyLoads \subseteq [n : Nat, scope : Policy!Scope, answer : PolicyValue \cup {None}]
  BY DEF Policy!Scope
<1> HIDE DEF Policy!Init
<1>4. PolicyType
  BY <1>1, <1>2, <1>3 DEF PolicyType, Policy!Scope
<1>5. SavesNumbered
  BY <1>2 DEF SavesNumbered
<1>6. RowsDone /\ SeenReplaced /\ Policy!LaterReplaces
  BY <1>1, <1>2 DEF RowsDone, SeenReplaced, Policy!LaterReplaces
<1> QED
  BY <1>4, <1>5, <1>6 DEF PolicyInv

\* The rows stay, and no save is started: a save is sent, goes on after its commit, or
\* ends.
LEMMA RowsStay ==
  ASSUME PolicyInv, UNCHANGED <<policyRows, done>>,
         policyMade' \in Nat, policyMade' >= policyMade, policyLoaded' \in Nat, branchId' \in Policy!Scope,
         policyForm' \in [from : Policy!Scope, value : PolicyValue] \cup {None},
         policyLoads' \subseteq [n : Nat, scope : Policy!Scope, answer : PolicyValue \cup {None}],
         policySaves' \subseteq PolicySave,
         \A s, t \in policySaves' : s.n = t.n => s = t,
         \A s \in policySaves' :
           \/ s \in policySaves
           \/ s.n = policyMade + 1 /\ s.n <= policyMade' /\ s.step = "sent"
           \/ s.n <= policyMade /\ s.step \in {"committed", "replied"}
  PROVE  PolicyInv'
<1>1. PolicyType /\ SavesNumbered /\ RowsDone /\ SeenReplaced /\ Policy!LaterReplaces
  BY DEF PolicyInv
<1>2. PolicyType'
  BY <1>1 DEF PolicyType
<1>3. SavesNumbered'
  <2>1. \A k \in done : k <= policyMade' /\ k # policyMade + 1
    BY <1>1 DEF SavesNumbered, PolicyType
  <2>2. ASSUME NEW s \in policySaves' PROVE s.n <= policyMade' /\ (Uncommitted(s) => s.n \notin done)
    <3>1. CASE s \in policySaves
      BY <1>1, <3>1 DEF SavesNumbered, PolicyType, PolicySave
    <3>2. CASE s.n = policyMade + 1 /\ s.n <= policyMade'
      BY <2>1, <3>2
    <3>3. CASE s.n <= policyMade /\ s.step \in {"committed", "replied"}
      <4>1. s.n \in Nat
        BY DEF PolicySave
      <4> QED
        BY <1>1, <3>3, <4>1 DEF PolicyType, Uncommitted
    <3> QED
      BY <3>1, <3>2, <3>3
  <2> QED
    BY <2>1, <2>2 DEF SavesNumbered, Uncommitted
<1>4. RowsDone' /\ Policy!LaterReplaces'
  BY <1>1 DEF RowsDone, Policy!LaterReplaces
<1>5. SeenReplaced'
  BY <1>1 DEF SeenReplaced
<1> QED
  BY <1>2, <1>3, <1>4, <1>5 DEF PolicyInv

\* A save that goes on keeps its number.
LEMMA NumbersStay ==
  ASSUME PolicyInv, NEW s \in policySaves, NEW t \in PolicySave, t.n = s.n,
         policySaves' \in {policySaves \ {s}, (policySaves \ {s}) \cup {t}}
  PROVE  /\ policySaves' \subseteq PolicySave
         /\ \A u, v \in policySaves' : u.n = v.n => u = v
BY DEF PolicyInv, PolicyType, SavesNumbered

\* The transaction of a save sees what is committed when it starts.
LEMMA StartKeeps ==
  ASSUME PolicyInv, NEW s \in policySaves, Policy!Start(s)
  PROVE  PolicyInv'
<1> DEFINE t == [s EXCEPT !.step = "started", !.after = done, !.sees = Policy!Of(s.scope)]
<1>1. PolicyType /\ SavesNumbered /\ RowsDone /\ SeenReplaced /\ Policy!LaterReplaces
  BY DEF PolicyInv
<1>2. /\ s.step = "sent" /\ policySaves' = (policySaves \ {s}) \cup {t}
      /\ UNCHANGED <<policyRows, done, policyMade, policyLoaded, branchId, policyForm, policyLoads>>
  BY DEF Policy!Start, Policy!Change, Policy!server, Policy!tabState
<1>3. s \in PolicySave /\ done \subseteq Nat /\ Policy!Of(s.scope) \subseteq PolicyRow
  BY <1>1 DEF PolicyType, Policy!Of
<1>4. /\ t \in PolicySave /\ t.n = s.n /\ t.scope = s.scope /\ t.step = "started"
      /\ t.after = done /\ t.sees = Policy!Of(s.scope)
  BY <1>3 DEF PolicySave
<1> HIDE DEF t
<1>5. policySaves' \subseteq PolicySave /\ \A u, v \in policySaves' : u.n = v.n => u = v
  BY <1>2, <1>4, NumbersStay
<1>6. PolicyType'
  BY <1>1, <1>2, <1>5 DEF PolicyType
<1>7. SavesNumbered'
  BY <1>1, <1>2, <1>4, <1>5 DEF SavesNumbered, Uncommitted
<1>8. SeenReplaced'
  BY <1>1, <1>2, <1>4 DEF SeenReplaced, Policy!Of
<1>9. RowsDone' /\ Policy!LaterReplaces'
  BY <1>1, <1>2 DEF RowsDone, Policy!LaterReplaces
<1> QED
  BY <1>6, <1>7, <1>8, <1>9 DEF PolicyInv

\* A commit replaces what its transaction saw by a row of its own.
LEMMA CommitKeeps ==
  ASSUME PolicyInv, NEW s \in policySaves, Policy!Commit(s)
  PROVE  PolicyInv'
<1> DEFINE r == [scope |-> s.scope, value |-> s.value, n |-> s.n, after |-> s.after]
           t == [s EXCEPT !.step = "committed", !.sees = {}]
<1>1. PolicyType /\ SavesNumbered /\ RowsDone /\ SeenReplaced /\ Policy!LaterReplaces
  BY DEF PolicyInv
<1>2. /\ s.step = "started"
      /\ policyRows' = (policyRows \ s.sees) \cup {r}
      /\ done' = done \cup {s.n}
      /\ policySaves' \in {policySaves \ {s}, (policySaves \ {s}) \cup {t}}
      /\ UNCHANGED <<policyMade, policyLoaded, branchId, policyForm, policyLoads>>
  BY DEF Policy!Commit, Policy!Replaced, Policy!Change, Policy!tabState
<1>3. s \in PolicySave
  BY <1>1 DEF PolicyType
<1>4. r \in PolicyRow /\ r.scope = s.scope /\ r.n = s.n /\ r.after = s.after
  BY <1>3 DEF PolicySave, PolicyRow
<1>5. t \in PolicySave /\ t.n = s.n /\ t.step = "committed"
  BY <1>3 DEF PolicySave
<1> HIDE DEF r, t
<1>6. /\ s.n \notin done /\ s.n \in Nat /\ s.n <= policyMade /\ s.after \subseteq done
      /\ \A q \in policyRows : q.scope = s.scope /\ q.n \in s.after => q \in s.sees
  BY <1>1, <1>2, <1>3 DEF SavesNumbered, SeenReplaced, Uncommitted, PolicySave
<1>7. policySaves' \subseteq PolicySave /\ \A u, v \in policySaves' : u.n = v.n => u = v
  BY <1>2, <1>5, NumbersStay
<1>8. PolicyType'
  BY <1>1, <1>2, <1>4, <1>6, <1>7 DEF PolicyType
<1>9. \A u \in policySaves' : u = t \/ (u \in policySaves /\ u # s)
  BY <1>2
<1>10. SavesNumbered'
  <2>1. \A u \in policySaves' : u.n <= policyMade
    BY <1>1, <1>5, <1>6, <1>9 DEF SavesNumbered
  <2>2. ASSUME NEW u \in policySaves', Uncommitted(u) PROVE u.n \notin done'
    <3>1. u \in policySaves /\ u # s
      BY <1>5, <1>9, <2>2 DEF Uncommitted
    <3>2. u.n \notin done /\ u.n # s.n
      BY <1>1, <2>2, <3>1 DEF SavesNumbered
    <3> QED
      BY <1>2, <3>2
  <2> QED
    BY <1>1, <1>2, <1>6, <1>7, <2>1, <2>2 DEF SavesNumbered, Uncommitted
<1>11. RowsDone'
  BY <1>1, <1>2, <1>4, <1>6 DEF RowsDone
<1>12. SeenReplaced'
  <2> SUFFICES ASSUME NEW u \in policySaves', u.step = "started"
               PROVE  /\ u.after \subseteq done'
                      /\ \A q \in policyRows' : q.scope = u.scope /\ q.n \in u.after => q \in u.sees
    BY DEF SeenReplaced
  <2>1. u \in policySaves /\ u # s
    BY <1>5, <1>9
  <2>2. /\ u.after \subseteq done
        /\ \A q \in policyRows : q.scope = u.scope /\ q.n \in u.after => q \in u.sees
    BY <1>1, <2>1 DEF SeenReplaced
  <2> QED
    BY <1>2, <1>4, <1>6, <2>2
<1>13. Policy!LaterReplaces'
  <2> SUFFICES ASSUME NEW q \in policyRows', NEW p \in policyRows', q.scope = p.scope
               PROVE  q.n \notin p.after
    BY DEF Policy!LaterReplaces
  <2>1. CASE p = r
    <3>1. CASE q = r
      BY <1>4, <1>6, <2>1, <3>1
    <3>2. CASE q # r
      BY <1>2, <1>4, <1>6, <2>1, <3>2
    <3> QED
      BY <3>1, <3>2
  <2>2. CASE p # r
    <3>1. p \in policyRows
      BY <1>2, <2>2
    <3>2. CASE q = r
      BY <1>1, <1>4, <1>6, <3>1, <3>2 DEF RowsDone
    <3>3. CASE q # r
      BY <1>1, <1>2, <3>1, <3>3 DEF Policy!LaterReplaces
    <3> QED
      BY <3>2, <3>3
  <2> QED
    BY <2>1, <2>2
<1> QED
  BY <1>8, <1>10, <1>11, <1>12, <1>13 DEF PolicyInv

\* What GET answers is a value of a row, or the default.
LEMMA EffectiveIsValue ==
  ASSUME PolicyInv, NEW scope, NEW v \in Policy!Effective(scope)
  PROVE  v \in PolicyValue
BY DEF PolicyInv, PolicyType, PolicyRow, PolicyValue, Policy!Effective, Policy!Of

\* A save is sent.
LEMMA RequestKeeps ==
  ASSUME PolicyInv, NEW scope \in Policy!Scope, NEW v \in PolicyValue, NEW from \in Policy!Scope,
         NEW page \in BOOLEAN, policyMade' = policyMade + 1,
         policySaves' = policySaves \cup {Policy!Request(scope, v, from, page)},
         UNCHANGED <<policyRows, done, policyLoaded, branchId, policyForm, policyLoads>>
  PROVE  PolicyInv'
<1> DEFINE s == Policy!Request(scope, v, from, page)
<1>1. PolicyType /\ SavesNumbered
  BY DEF PolicyInv
<1>2. policyMade \in Nat /\ policyMade' \in Nat /\ policyMade' >= policyMade
  BY <1>1 DEF PolicyType
<1>3. s \in PolicySave /\ s.n = policyMade + 1 /\ s.step = "sent"
  BY <1>2 DEF Policy!Request, PolicySave
<1> HIDE DEF s
<1>4. \A t \in policySaves : t.n # policyMade + 1
  BY <1>1, <1>2 DEF SavesNumbered, PolicyType, PolicySave
<1>5. policySaves' = policySaves \cup {s}
  BY DEF s
<1>6. /\ policySaves' \subseteq PolicySave
      /\ \A t, u \in policySaves' : t.n = u.n => t = u
  BY <1>1, <1>3, <1>4, <1>5 DEF PolicyType, SavesNumbered
<1>7. \A t \in policySaves' : \/ t \in policySaves
                              \/ t.n = policyMade + 1 /\ t.n <= policyMade' /\ t.step = "sent"
  BY <1>2, <1>3, <1>5
<1> QED
  BY <1>1, <1>2, <1>6, <1>7, RowsStay DEF PolicyType

LEMMA PolicyStep == ASSUME DesksAssumption, PolicyInv, [Policy!Next]_policyVars PROVE PolicyInv'
<1> USE DEF Policy!server, Policy!tabState
<1> DEFINE Loads == [n : Nat, scope : Policy!Scope, answer : PolicyValue \cup {None}]
           Forms == [from : Policy!Scope, value : PolicyValue]
<1>1. PolicyType /\ SavesNumbered
  BY DEF PolicyInv
<1>2. /\ policyMade \in Nat /\ policyLoaded \in Nat /\ branchId \in Policy!Scope
      /\ policySaves \subseteq PolicySave /\ policyLoads \subseteq Loads
      /\ policyForm \in Forms \cup {None}
      /\ \A s, t \in policySaves : s.n = t.n => s = t
      /\ \A s \in policySaves : s.n <= policyMade
  BY <1>1 DEF PolicyType, SavesNumbered
<1>3. ASSUME policySaves' \subseteq policySaves, UNCHANGED <<policyRows, done, policyMade>>,
             policyLoaded' \in Nat, branchId' \in Policy!Scope, policyForm' \in Forms \cup {None}, policyLoads' \subseteq Loads
      PROVE  PolicyInv'
  BY <1>2, <1>3, RowsStay
<1>4. CASE UNCHANGED policyVars
  BY <1>2, <1>3, <1>4 DEF policyVars
<1>5. ASSUME NEW scope \in Policy!Scope, Policy!Choose(scope) \/ (Policy!Retry /\ scope = branchId)
      PROVE  PolicyInv'
  <2> DEFINE l == [n |-> policyLoaded + 1, scope |-> scope, answer |-> None]
  <2>1. l \in Loads
    BY <1>2
  <2> QED
    BY <1>2, <1>3, <1>5, <2>1 DEF Policy!Choose, Policy!Retry, Policy!Load
<1>6. ASSUME NEW scope \in Policy!Scope, NEW v \in Value, Policy!OtherSaves(scope, v) PROVE PolicyInv'
  BY <1>6, RequestKeeps DEF Policy!OtherSaves, PolicyValue
<1>7. ASSUME NEW v \in Value, Policy!Type(v) PROVE PolicyInv'
  <2>1. [policyForm EXCEPT !.value = v] \in Forms
    BY <1>2, <1>7 DEF Policy!Type, PolicyValue
  <2> QED
    BY <1>2, <1>3, <1>7, <2>1 DEF Policy!Type
<1>8. CASE Policy!Save
  <2>1. policyForm.value \in PolicyValue /\ policyForm.from \in Policy!Scope
    BY <1>2, <1>8 DEF Policy!Save
  <2> QED
    BY <1>2, <1>8, <2>1, RequestKeeps DEF Policy!Save
<1>9. ASSUME NEW l \in policyLoads, Policy!LoadRead(l) PROVE PolicyInv'
  <2>1. PICK v \in Policy!Effective(l.scope) : policyLoads' = (policyLoads \ {l}) \cup {[l EXCEPT !.answer = v]}
    BY <1>9 DEF Policy!LoadRead
  <2>2. [l EXCEPT !.answer = v] \in Loads
    BY <1>2, EffectiveIsValue
  <2> QED
    BY <1>2, <1>3, <1>9, <2>1, <2>2 DEF Policy!LoadRead
<1>10. ASSUME NEW l \in policyLoads, Policy!Loaded(l) PROVE PolicyInv'
  <2>1. [from |-> l.scope, value |-> l.answer] \in Forms
    BY <1>2, <1>10 DEF Policy!Loaded
  <2> QED
    BY <1>2, <1>3, <1>10, <2>1 DEF Policy!Loaded
<1>11. ASSUME NEW l \in policyLoads, Policy!LoadFails(l) PROVE PolicyInv'
  BY <1>2, <1>3, <1>11 DEF Policy!LoadFails
<1>12. ASSUME NEW s \in policySaves, Policy!Reply(s) PROVE PolicyInv'
  <2>1. PICK v \in Policy!Effective(s.scope) :
          policySaves' = (policySaves \ {s}) \cup {[s EXCEPT !.step = "replied", !.value = v]}
    BY <1>12 DEF Policy!Reply, Policy!Change
  <2> DEFINE t == [s EXCEPT !.step = "replied", !.value = v]
  <2>2. s \in PolicySave /\ v \in PolicyValue
    BY <1>2, EffectiveIsValue
  <2>3. t \in PolicySave /\ t.n = s.n /\ t.step = "replied"
    BY <2>2 DEF PolicySave
  <2> HIDE DEF t
  <2>4. policySaves' = (policySaves \ {s}) \cup {t}
    BY <2>1 DEF t
  <2>5. policySaves' \subseteq PolicySave /\ \A u, w \in policySaves' : u.n = w.n => u = w
    BY <2>3, <2>4, NumbersStay
  <2>6. UNCHANGED <<policyRows, done, policyMade, policyLoaded, branchId, policyForm, policyLoads>>
    BY <1>12 DEF Policy!Reply
  <2> QED
    BY <1>2, <2>3, <2>4, <2>5, <2>6, RowsStay
<1>13. ASSUME NEW s \in policySaves, Policy!Saved(s) PROVE PolicyInv'
  <2>1. [from |-> s.scope, value |-> s.value] \in Forms
    BY <1>2 DEF PolicySave
  <2> QED
    BY <1>2, <1>3, <1>13, <2>1 DEF Policy!Saved
<1>14. ASSUME NEW s \in policySaves, Policy!SaveFails(s) PROVE PolicyInv'
  BY <1>2, <1>3, <1>14 DEF Policy!SaveFails
<1> QED
  BY <1>2, <1>4, <1>5, <1>6, <1>7, <1>8, <1>9, <1>10, <1>11, <1>12, <1>13, <1>14, StartKeeps, CommitKeeps
  DEF Policy!Next
-----------------------------------------------------------------------------
(* The tabs and the tool together.                                         *)

DesksInv ==
  /\ Desk!DialogOfOpening /\ ChartInv /\ SettleInv
  /\ Periods!FailedLockKeepsDates /\ PolicyInv /\ ListInv

LEMMA PartsMoveAlone ==
  [SuiteNext]_suiteVars =>
    /\ [Desk!Next]_deskVars /\ [Chart!Next]_chartVars /\ [Settling!Next]_settlementVars
    /\ [Periods!Next]_periodVars /\ [Policy!Next]_policyVars /\ [List!Next]_listVars
    /\ [Tool!Next]_toolVars
BY DEF SuiteNext, suiteVars

LEMMA DesksStart == SuiteInit => DesksInv
BY DesksAssumption, DeskStarts, ChartStarts, SettleStarts, PeriodStarts, PolicyStarts, ListStarts
DEF SuiteInit, DesksInv

LEMMA DesksStep == DesksInv /\ [SuiteNext]_suiteVars => DesksInv'
<1> SUFFICES ASSUME DesksInv, [SuiteNext]_suiteVars PROVE DesksInv'
  OBVIOUS
<1>1. /\ [Desk!Next]_deskVars /\ [Chart!Next]_chartVars /\ [Settling!Next]_settlementVars
      /\ [Periods!Next]_periodVars /\ [Policy!Next]_policyVars /\ [List!Next]_listVars
  BY PartsMoveAlone
<1>2. Desk!DialogOfOpening' /\ ChartInv' /\ SettleInv'
  BY <1>1, DesksAssumption, DeskStep, ChartStep, SettleStep DEF DesksInv
<1>3. Periods!FailedLockKeepsDates' /\ PolicyInv' /\ ListInv'
  BY <1>1, DesksAssumption, PeriodStep, PolicyStep, ListStep DEF DesksInv
<1> QED
  BY <1>2, <1>3 DEF DesksInv

\* However late answers come, whatever is opened, closed and taken away meanwhile, and
\* whatever fails: dialogs ask about what is open, fields go to the row they were taken
\* from, a key settles one filter, the dates of a failed lock stay, no save survives a
\* later one, and the next page follows the last row (AccountingPage.tsx and its tabs,
\* accountingSettings.ts).
THEOREM DesksStand == SuiteSpec => []DesksActOnOwn
<1>1. DesksInv => DesksActOnOwn
  BY SettleBacked DEF DesksInv, DesksActOnOwn, ChartInv, PolicyInv, ListInv
<1> QED
  BY DesksStart, DesksStep, <1>1, PTL DEF SuiteSpec

LEMMA ToolStart == SuiteInit => ToolInv
BY DesksAssumption, ToolStarts DEF SuiteInit

LEMMA ToolStepInSuite == ToolInv /\ [SuiteNext]_suiteVars => ToolInv'
BY DesksAssumption, PartsMoveAlone, ToolStep

\* However many run the tool at once, beside the running system, and whichever of them
\* are stopped: no source gets two events, and who reports has filled in all it found
\* (accountingBackfill.ts).
THEOREM FilledInOnce == SuiteSpec => []BackfilledOnce
<1> QED
  BY ToolStart, ToolStepInSuite, ToolBacked, PTL DEF SuiteSpec
=============================================================================
