------------------------------ MODULE MenuProofs ------------------------------
(***************************************************************************)
(* What holds of the menu for any constants: orders are numbered without   *)
(* gap or double and keep the rows they were sold with, they are committed *)
(* as the menu offers them, a form without changes shows what was stored,  *)
(* and a new source starts with a whole menu of another.                   *)
(***************************************************************************)
EXTENDS MCMenu, Sums, TLAPS

-----------------------------------------------------------------------------
(* Creation.  An order's number is one above those of its scope because    *)
(* the lock of its key is held to the commit: until then nobody else of    *)
(* that key is numbered.  That the scope of a key does not depend on who   *)
(* asks needs branches of one timezone.                                    *)

OneZone == \A b, c \in Branch : Ahead[b] = Ahead[c]

MenuType ==
  menu \in [product : [Product -> Status], variant : [Product -> Status],
            linked : SUBSET Product, active : BOOLEAN, min : Nat, max : Nat,
            modifiers : SUBSET Modifier, available : [Branch -> SUBSET Product]]

KeyType == [branch : Branch \cup {Account}, day : Int]

\* What is known of a creation, by how far it has come.
NewOrOver == [at : {"new", "refused"}]
AskedOrder == [at : {"asked"}, branch : Branch, item : Items]
QuotedOrder == [at : {"quoted"}, branch : Branch, item : Items, started : Nat]
WaitingOrder == [at : {"waiting"}, branch : Branch, item : Items, started : Nat, key : KeyType]
NumberedOrder ==
  [at : {"numbered", "collided", "stocked", "created"}, branch : Branch, item : Items,
   started : Nat, key : KeyType, number : Nat]

OrderType == NewOrOver \cup AskedOrder \cup QuotedOrder \cup WaitingOrder \cup NumberedOrder

RequestType == request \in [Request -> OrderType]

HasNumber(x) == request[x].at \in {"numbered", "collided", "stocked", "created"}
HasKey(x) == At(x, "waiting") \/ HasNumber(x)

\* A key is of the order's own branch or the account, and of its day or all of them.
KeysOwn ==
  \A x \in Request : HasKey(x) =>
    /\ request[x].key.branch \in {Account, request[x].branch}
    /\ request[x].key.day \in {AllDays, BusinessDay(x)}

\* The orders that a key numbers together with others, and their numbers.
Scope(k) ==
  {x \in Created : k.branch \in {Account, request[x].branch} /\ k.day \in {AllDays, BusinessDay(x)}}

NumbersOf(k) == {request[x].number : x \in Scope(k)}
OneKey(k) == \A x \in Scope(k) : request[x].key = k

\* One creation at a time holds the lock of a key.
OneHolder ==
  \A x, y \in Request : Holder(x) /\ Holder(y) /\ request[x].key = request[y].key => x = y

\* The numbers of a scope, and the number that the holder of its lock will add.
ScopesRunOn ==
  \A k \in KeyType : OneKey(k) => NumbersOf(k) = Starting .. Starting + Cardinality(Scope(k)) - 1

HoldersRunOn ==
  \A x \in Request : Holder(x) /\ OneKey(request[x].key) =>
    request[x].number = Starting + Cardinality(Scope(request[x].key))

NumberInv ==
  /\ RequestType /\ clock \in Nat
  /\ IsFiniteSet(Created)
  /\ KeysOwn /\ OneHolder /\ ScopesRunOn /\ HoldersRunOn
  /\ NeverCollides

\* An order that is stored, or about to be, keeps its rows of the menu.
RowsKept(i) == menu.product[i.product] # "deleted" /\ (i.variant => menu.variant[i.product] # "deleted")

SoldInv ==
  /\ MenuType /\ RequestType /\ clock \in Nat /\ IsFiniteSet(Created)
  /\ \A e \in editing : e.product \in Product
  /\ \A r \in Request : Keeps(r) => RowsKept(request[r].item)

\* What the step that an order is at says about its record.
LEMMA OrderKinds ==
  ASSUME RequestType, NEW x \in Request
  PROVE  /\ At(x, "asked") => request[x] \in AskedOrder
         /\ At(x, "quoted") => request[x] \in QuotedOrder
         /\ At(x, "waiting") => request[x] \in WaitingOrder
         /\ HasNumber(x) => request[x] \in NumberedOrder
<1>1. request[x] \in OrderType
  BY DEF RequestType
<1> QED
  BY <1>1 DEF OrderType, NewOrOver, AskedOrder, QuotedOrder, WaitingOrder, NumberedOrder, At, HasNumber

\* A finite set of numbers that is not empty has a largest one.
LEMMA MaxIs ==
  ASSUME NEW S \in SUBSET Nat, IsFiniteSet(S), S # {}
  PROVE  Max(S) \in S /\ \A y \in S : Max(S) >= y
<1> DEFINE Q == {s \in SUBSET S : s = {} \/ \E x \in s : \A y \in s : x >= y}
<1>1. ASSUME NEW s \in SUBSET S, \A a \in s : s \ {a} \in Q
      PROVE  s \in Q
  <2>1. CASE s = {}
    BY <2>1
  <2>2. CASE s # {}
    <3>1. PICK a \in s : TRUE
      BY <2>2
    <3>2. s \ {a} \in Q
      BY <1>1
    <3>3. CASE s \ {a} = {}
      <4>1. a \in Nat /\ \A y \in s : y = a
        BY <3>3
      <4> QED
        BY <4>1
    <3>4. CASE s \ {a} # {}
      <4>1. PICK x \in s \ {a} : \A y \in s \ {a} : x >= y
        BY <3>2, <3>4
      <4>2. \A y \in s : y \in Nat
        OBVIOUS
      <4>3. CASE x >= a
        BY <4>1, <4>2, <4>3
      <4>4. CASE ~(x >= a)
        <5>1. \A y \in s : a >= y
          BY <4>1, <4>2, <4>4
        <5> QED
          BY <5>1
      <4> QED
        BY <4>3, <4>4
    <3> QED
      BY <3>3, <3>4
  <2> QED
    BY <2>1, <2>2
<1> HIDE DEF Q
<1>2. SUBSET S \subseteq Q
  BY <1>1, SubsetInduction
<1>3. \E x \in S : \A y \in S : x >= y
  BY <1>2 DEF Q
<1> QED
  BY <1>3 DEF Max

\* With one timezone the trigger's scope is that of the key.
LEMMA ScopeIs ==
  ASSUME OneZone, RequestType, NEW r \in Request, HasKey(r)
  PROVE  InScope(r, request[r].key) = Scope(request[r].key)
<1>1. request[r].branch \in Branch
  BY OrderKinds DEF HasKey, WaitingOrder, NumberedOrder
<1>2. ASSUME NEW x \in Created
      PROVE  Day(request[r].branch, request[x].started) = BusinessDay(x)
  <2>1. HasNumber(x) /\ x \in Request
    BY DEF Created, At, HasNumber
  <2>2. request[x].branch \in Branch
    BY <2>1, OrderKinds DEF NumberedOrder
  <2> QED
    BY <1>1, <2>2 DEF OneZone, Day, BusinessDay
<1> QED
  BY <1>2 DEF InScope, Scope

LEMMA ScopeFinite ==
  ASSUME RequestType, IsFiniteSet(Created), NEW k
  PROVE  /\ IsFiniteSet(Scope(k)) /\ Scope(k) \subseteq Created
         /\ Cardinality(Scope(k)) \in Nat
         /\ IsFiniteSet(NumbersOf(k)) /\ NumbersOf(k) \in SUBSET Nat
         /\ (NumbersOf(k) = {} <=> Scope(k) = {})
<1>1. Scope(k) \subseteq Created
  BY DEF Scope
<1>2. IsFiniteSet(Scope(k)) /\ Cardinality(Scope(k)) \in Nat
  BY <1>1, FS_Subset, FS_CardinalityType
<1>3. IsFiniteSet(NumbersOf(k))
  <2> DEFINE f == [x \in Scope(k) |-> request[x].number]
  <2>1. f \in Surjection(Scope(k), NumbersOf(k))
    BY DEF Surjection, NumbersOf
  <2> QED
    BY <1>2, <2>1, FS_Surjection
<1>4. NumbersOf(k) \in SUBSET Nat
  <2>1. ASSUME NEW x \in Scope(k) PROVE request[x].number \in Nat
    <3>1. x \in Request /\ HasNumber(x)
      BY <1>1 DEF Created, At, HasNumber
    <3> QED
      BY <3>1, OrderKinds DEF NumberedOrder
  <2> QED
    BY <2>1 DEF NumbersOf
<1> QED
  BY <1>1, <1>2, <1>3, <1>4 DEF NumbersOf

\* A step of an order that is not stored and that it does not store.
LEMMA CreatedFrame ==
  ASSUME RequestType, NEW r \in Request, ~At(r, "created"),
         NEW to, to.at # "created", request' = [request EXCEPT ![r] = to]
  PROVE  /\ Created' = Created
         /\ \A x \in Request : x # r => request'[x] = request[x]
         /\ \A k : Scope(k)' = Scope(k) /\ NumbersOf(k)' = NumbersOf(k)
                   /\ (OneKey(k)' <=> OneKey(k))
<1>1. request'[r] = to /\ \A x \in Request : x # r => request'[x] = request[x]
  BY DEF RequestType
<1>2. Created' = Created
  BY <1>1 DEF Created, At
<1>3. \A x \in Created : request'[x] = request[x]
  BY <1>1 DEF Created, At
<1>4. ASSUME NEW k PROVE Scope(k)' = Scope(k)
  BY <1>2, <1>3 DEF Scope, BusinessDay
<1>5. ASSUME NEW k PROVE NumbersOf(k)' = NumbersOf(k) /\ (OneKey(k)' <=> OneKey(k))
  <2>1. \A x \in Scope(k) : request'[x] = request[x]
    BY <1>3 DEF Scope
  <2> QED
    BY <1>4, <2>1 DEF NumbersOf, OneKey
<1> QED
  BY <1>1, <1>2, <1>4, <1>5

\* A step of an order that neither stores it nor gives it the lock.
LEMMA StepKeepsNumbers ==
  ASSUME NumberInv, NEW r \in Request, ~At(r, "created"),
         NEW to \in OrderType, to.at \notin {"created", "collided"},
         request' = [request EXCEPT ![r] = to], clock' = clock,
         to.at \in {"waiting", "numbered", "stocked"} =>
           /\ to.key.branch \in {Account, to.branch}
           /\ to.key.day \in {AllDays, Day(to.branch, to.started)},
         to.at \in {"numbered", "stocked"} =>
           Holder(r) /\ to.key = request[r].key /\ to.number = request[r].number
  PROVE  NumberInv'
<1>1. /\ Created' = Created
      /\ \A x \in Request : x # r => request'[x] = request[x]
      /\ \A k : Scope(k)' = Scope(k) /\ NumbersOf(k)' = NumbersOf(k) /\ (OneKey(k)' <=> OneKey(k))
  BY CreatedFrame DEF NumberInv
<1>2. request'[r] = to /\ RequestType'
  BY DEF NumberInv, RequestType
<1>3. KeysOwn'
  BY <1>1, <1>2 DEF NumberInv, KeysOwn, HasKey, HasNumber, At, BusinessDay
<1>4. ASSUME NEW x \in Request, Holder(x)'
      PROVE  Holder(x) /\ request'[x].key = request[x].key /\ request'[x].number = request[x].number
  BY <1>1, <1>2, <1>4 DEF Holder, At
<1>5. OneHolder'
  BY <1>4 DEF NumberInv, OneHolder
<1>6. ScopesRunOn'
  BY <1>1 DEF NumberInv, ScopesRunOn
<1>7. HoldersRunOn'
  BY <1>1, <1>4 DEF NumberInv, HoldersRunOn
<1>8. NeverCollides'
  BY <1>1, <1>2 DEF NumberInv, NeverCollides, At
<1> QED
  BY <1>1, <1>2, <1>3, <1>5, <1>6, <1>7, <1>8 DEF NumberInv

\* The lock is given: the number is above all of the scope, and no other order has it.
LEMMA AwaitTurnKeeps ==
  ASSUME CreationAssumption, OneZone, NumberInv, NEW r \in Request, AwaitTurn(r)
  PROVE  NumberInv'
<1> DEFINE k == request[r].key
           S == Scope(k)
           N == NumbersOf(k)
           n == NextNumber(r, k)
           c == Cardinality(S)
           to == [at |-> "numbered", branch |-> request[r].branch, item |-> request[r].item,
                  started |-> request[r].started, key |-> k, number |-> n]
<1>1. /\ At(r, "waiting") /\ request[r] \in WaitingOrder /\ k \in KeyType /\ Starting \in Nat
      /\ HasKey(r) /\ RequestType /\ IsFiniteSet(Created)
  BY OrderKinds DEF AwaitTurn, NumberInv, WaitingOrder, HasKey, CreationAssumption
<1>2. InScope(r, k) = S
  BY <1>1, ScopeIs
<1>3. /\ IsFiniteSet(S) /\ S \subseteq Created /\ c \in Nat
      /\ IsFiniteSet(N) /\ N \in SUBSET Nat /\ (N = {} <=> S = {})
  BY <1>1, ScopeFinite
<1>4. n = IF N = {} THEN Starting ELSE Max({Max(N) + 1, Starting})
  BY <1>2 DEF NextNumber, NumbersOf
<1>5. /\ n \in Nat /\ \A m \in N : m < n
      /\ OneKey(k) => n = Starting + c
  <2>1. CASE N = {}
    <3>1. c = 0
      BY <1>3, <2>1, FS_EmptySet
    <3> QED
      BY <1>1, <1>4, <2>1, <3>1
  <2>2. CASE N # {}
    <3> DEFINE m == Max(N)
               T == {m + 1, Starting}
    <3>1. m \in N /\ \A y \in N : m >= y
      BY <1>3, <2>2, MaxIs
    <3>2. m \in Nat
      BY <1>3, <3>1
    <3>3. n = Max(T)
      BY <1>4, <2>2
    <3> HIDE DEF m
    <3>4. T \in SUBSET Nat /\ T # {} /\ IsFiniteSet(T)
      <4>1. IsFiniteSet({m + 1}) /\ T = {m + 1} \cup {Starting}
        BY FS_Singleton
      <4>2. IsFiniteSet(T)
        BY <4>1, FS_AddElement
      <4> QED
        BY <1>1, <3>2, <4>2
    <3>5. Max(T) \in T /\ \A y \in T : Max(T) >= y
      BY <3>4, MaxIs
    <3> HIDE DEF n
    <3>6. n \in Nat /\ n >= m + 1 /\ n >= Starting /\ (n = m + 1 \/ n = Starting)
      BY <3>3, <3>4, <3>5
    <3>7. \A y \in N : y \in Nat
      BY <1>3
    <3>8. ASSUME OneKey(k) PROVE n = Starting + c
      <4>1. N = Starting .. Starting + c - 1
        BY <1>1, <3>8 DEF NumberInv, ScopesRunOn
      <4>2. c > 0
        BY <1>1, <1>3, <2>2, <4>1
      <4>3. Starting + c - 1 \in N
        BY <1>1, <1>3, <4>1, <4>2
      <4>4. m = Starting + c - 1
        BY <1>1, <1>3, <3>1, <3>2, <4>1, <4>3
      <4> QED
        BY <1>1, <1>3, <3>2, <3>6, <4>2, <4>4
    <3> QED
      BY <3>1, <3>2, <3>6, <3>7, <3>8
  <2> QED
    BY <2>1, <2>2
<1> HIDE DEF n, N, c
<1>6. \A x \in Request : x # r => ~(Holder(x) /\ request[x].key = k)
  BY DEF AwaitTurn
<1>7. ~Collides(r, n)
  <2> SUFFICES ASSUME NEW x \in Numbered, request[x].key = k, request[x].number = n
               PROVE  FALSE
    BY DEF Collides
  <2>1. x \in Request /\ x # r
    BY <1>1 DEF Numbered, Keeps, At
  <2>2. x \in Created
    BY <1>6, <2>1 DEF Numbered, Keeps, Holder, Created
  <2>3. HasKey(x)
    BY <2>2 DEF HasKey, HasNumber, Created, At
  <2>4. x \in S
    BY <2>1, <2>2, <2>3 DEF Scope, NumberInv, KeysOwn
  <2>5. n \in N
    BY <2>4 DEF N, NumbersOf
  <2> QED
    BY <1>5, <2>5
<1>8. request' = [request EXCEPT ![r] = to] /\ clock' = clock
  BY <1>7 DEF AwaitTurn, Step, n
<1>9. to \in NumberedOrder
  BY <1>1, <1>5 DEF NumberedOrder, WaitingOrder
<1>10. to.at = "numbered" /\ to.key = k /\ to.number = n /\ to.branch = request[r].branch /\ to.started = request[r].started
  OBVIOUS
<1> HIDE DEF to
<1>11. request'[r] = to /\ RequestType'
  BY <1>1, <1>8, <1>9 DEF RequestType, OrderType
<1>12. /\ Created' = Created
       /\ \A x \in Request : x # r => request'[x] = request[x]
       /\ \A q : Scope(q)' = Scope(q) /\ NumbersOf(q)' = NumbersOf(q) /\ (OneKey(q)' <=> OneKey(q))
  BY <1>1, <1>8, <1>10, CreatedFrame DEF At
<1>13. KeysOwn'
  <2>1. k.branch \in {Account, to.branch} /\ k.day \in {AllDays, Day(to.branch, to.started)}
    BY <1>1, <1>10 DEF NumberInv, KeysOwn, BusinessDay
  <2>2. ASSUME NEW x \in Request, x # r, HasKey(x)'
        PROVE  /\ request'[x].key.branch \in {Account, request'[x].branch}
               /\ request'[x].key.day \in {AllDays, BusinessDay(x)'}
    BY <1>12, <2>2 DEF NumberInv, KeysOwn, HasKey, HasNumber, At, BusinessDay
  <2> QED
    BY <1>10, <1>11, <2>1, <2>2 DEF KeysOwn, BusinessDay
<1>14. ASSUME NEW x \in Request, x # r
       PROVE  (Holder(x)' <=> Holder(x)) /\ request'[x].key = request[x].key /\ request'[x].number = request[x].number
  BY <1>12, <1>14 DEF Holder, At
<1>15. OneHolder'
  BY <1>6, <1>10, <1>11, <1>14 DEF NumberInv, OneHolder
<1>16. ScopesRunOn'
  BY <1>12 DEF NumberInv, ScopesRunOn
<1>17. HoldersRunOn'
  BY <1>5, <1>10, <1>11, <1>12, <1>14 DEF NumberInv, HoldersRunOn, c
<1>18. NeverCollides'
  BY <1>10, <1>11, <1>12 DEF NumberInv, NeverCollides, At
<1> QED
  BY <1>8, <1>11, <1>12, <1>13, <1>15, <1>16, <1>17, <1>18 DEF NumberInv

\* The order is stored with the number after the last of its scope.
LEMMA StoredKeeps ==
  ASSUME CreationAssumption, NumberInv, NEW r \in Request, At(r, "stocked"), clock' = clock,
         request' = [request EXCEPT ![r] = [request[r] EXCEPT !.at = "created"]]
  PROVE  NumberInv'
<1> DEFINE to == [request[r] EXCEPT !.at = "created"]
<1>1. request[r] \in NumberedOrder /\ HasKey(r) /\ Holder(r) /\ RequestType /\ Starting \in Nat
  BY OrderKinds DEF NumberInv, HasKey, HasNumber, At, Holder, CreationAssumption
<1>2. to \in NumberedOrder /\ to.at = "created"
      /\ to.key = request[r].key /\ to.number = request[r].number
      /\ to.branch = request[r].branch /\ to.started = request[r].started
  BY <1>1 DEF NumberedOrder
<1>3. request' = [request EXCEPT ![r] = to]
  OBVIOUS
<1> HIDE DEF to
<1>4. request'[r] = to /\ RequestType' /\ \A x \in Request : x # r => request'[x] = request[x]
  BY <1>1, <1>2, <1>3 DEF RequestType, OrderType
<1>5. r \notin Created /\ Created' = Created \cup {r}
  BY <1>2, <1>4 DEF Created, At
<1>6. \A x \in Request : /\ request'[x].key = request[x].key /\ request'[x].number = request[x].number
                         /\ request'[x].branch = request[x].branch /\ request'[x].started = request[x].started
                         /\ BusinessDay(x)' = BusinessDay(x) /\ (HasKey(x)' => HasKey(x))
                         /\ (Holder(x)' => Holder(x) /\ x # r)
  BY <1>1, <1>2, <1>4 DEF BusinessDay, HasKey, HasNumber, At, Holder
<1>7. IsFiniteSet(Created')
  BY <1>5, FS_AddElement DEF NumberInv
<1>8. KeysOwn'
  BY <1>6 DEF NumberInv, KeysOwn
<1>9. OneHolder'
  BY <1>6 DEF NumberInv, OneHolder
<1>10. ASSUME NEW k
       PROVE  /\ r \notin Scope(k)
              /\ Scope(k)' = Scope(k) \/ Scope(k)' = Scope(k) \cup {r}
              /\ OneKey(k)' => OneKey(k)
              /\ r \in Scope(k)' /\ OneKey(k)' => request[r].key = k
              /\ Scope(k)' = Scope(k) => NumbersOf(k)' = NumbersOf(k)
              /\ Scope(k)' = Scope(k) \cup {r} => NumbersOf(k)' = NumbersOf(k) \cup {request[r].number}
  <2>1. Created \subseteq Request
    BY DEF Created
  <2>2. r \notin Scope(k) /\ (Scope(k)' = Scope(k) \/ Scope(k)' = Scope(k) \cup {r})
    BY <1>5, <1>6, <2>1 DEF Scope
  <2>3. Scope(k) \subseteq Request /\ Scope(k)' \subseteq Request
    BY <1>5, <2>1 DEF Scope
  <2>4. OneKey(k)' => OneKey(k)
    BY <1>6, <2>2, <2>3 DEF OneKey
  <2>5. r \in Scope(k)' /\ OneKey(k)' => request[r].key = k
    BY <1>6 DEF OneKey
  <2>6. Scope(k)' = Scope(k) => NumbersOf(k)' = NumbersOf(k)
    BY <1>6, <2>3 DEF NumbersOf
  <2>7. Scope(k)' = Scope(k) \cup {r} => NumbersOf(k)' = NumbersOf(k) \cup {request[r].number}
    BY <1>6, <2>3 DEF NumbersOf
  <2> QED
    BY <2>2, <2>4, <2>5, <2>6, <2>7
<1>11. ScopesRunOn'
  <2> SUFFICES ASSUME NEW k \in KeyType, OneKey(k)'
               PROVE  NumbersOf(k)' = Starting .. Starting + Cardinality(Scope(k)') - 1
    BY DEF ScopesRunOn
  <2> DEFINE c == Cardinality(Scope(k))
  <2>1. NumbersOf(k) = Starting .. Starting + c - 1
    BY <1>10 DEF NumberInv, ScopesRunOn
  <2>2. CASE Scope(k)' = Scope(k)
    BY <1>10, <2>1, <2>2
  <2>3. CASE Scope(k)' = Scope(k) \cup {r}
    <3>1. request[r].key = k /\ r \notin Scope(k)
      BY <1>10, <2>3
    <3>2. request[r].number = Starting + c
      BY <1>1, <1>10, <3>1 DEF NumberInv, HoldersRunOn
    <3>3. IsFiniteSet(Scope(k)) /\ c \in Nat
      BY <1>1, ScopeFinite DEF NumberInv
    <3>4. Cardinality(Scope(k)') = c + 1
      BY <2>3, <3>1, <3>3, FS_AddElement
    <3>5. NumbersOf(k)' = NumbersOf(k) \cup {Starting + c}
      BY <1>10, <2>3, <3>2
    <3> HIDE DEF c
    <3> QED
      BY <1>1, <2>1, <3>3, <3>4, <3>5
  <2> QED
    BY <1>10, <2>2, <2>3
<1>12. HoldersRunOn'
  <2> SUFFICES ASSUME NEW x \in Request, Holder(x)', OneKey(request[x].key)'
               PROVE  request[x].number = Starting + Cardinality(Scope(request[x].key)')
    BY <1>6 DEF HoldersRunOn
  <2>1. Holder(x) /\ x # r
    BY <1>6
  <2>2. request[x].key # request[r].key
    BY <1>1, <2>1 DEF NumberInv, OneHolder
  <2>3. Scope(request[x].key)' = Scope(request[x].key)
    BY <1>10, <2>2
  <2>4. OneKey(request[x].key)
    BY <1>10
  <2> QED
    BY <2>1, <2>3, <2>4 DEF NumberInv, HoldersRunOn
<1>13. NeverCollides'
  BY <1>2, <1>4 DEF NumberInv, NeverCollides, At
<1> QED
  BY <1>4, <1>7, <1>8, <1>9, <1>11, <1>12, <1>13 DEF NumberInv

LEMMA NumberFrame ==
  ASSUME NumberInv, request' = request, clock' \in Nat
  PROVE  NumberInv'
<1>1. Created' = Created /\ \A x : HasKey(x)' = HasKey(x) /\ Holder(x)' = Holder(x) /\ BusinessDay(x)' = BusinessDay(x)
  BY DEF Created, HasKey, HasNumber, At, Holder, BusinessDay
<1>2. \A k : Scope(k)' = Scope(k) /\ NumbersOf(k)' = NumbersOf(k) /\ OneKey(k)' = OneKey(k)
  BY <1>1 DEF Scope, NumbersOf, OneKey
<1> QED
  BY <1>1, <1>2 DEF NumberInv, RequestType, KeysOwn, OneHolder, ScopesRunOn, HoldersRunOn, NeverCollides, At

LEMMA CreateKeepsNumbers ==
  ASSUME CreationAssumption, OneZone, NumberInv, CreateNext
  PROVE  NumberInv'
<1>1. PICK r \in Request :
        \/ \E b \in Branch, i \in Items : Ask(r, b, i)
        \/ Quote(r) \/ InsertOrder(r) \/ AwaitTurn(r) \/ InsertItems(r) \/ Commit(r) \/ Drop(r)
  BY DEF CreateNext
<1>2. RequestType
  BY DEF NumberInv
<1>3. ASSUME ~At(r, "created"), Refuse(r) PROVE NumberInv'
  <2> DEFINE to == [at |-> "refused"]
  <2>1. to \in OrderType /\ to.at = "refused" /\ request' = [request EXCEPT ![r] = to] /\ clock' = clock
    BY <1>3 DEF Refuse, Step, OrderType, NewOrOver
  <2> HIDE DEF to
  <2> QED
    BY <1>3, <2>1, StepKeepsNumbers
<1>4. ASSUME NEW b \in Branch, NEW i \in Items, Ask(r, b, i) PROVE NumberInv'
  <2> DEFINE to == [at |-> "asked", branch |-> b, item |-> i]
  <2>1. to \in OrderType /\ to.at = "asked" /\ request' = [request EXCEPT ![r] = to] /\ clock' = clock
        /\ ~At(r, "created")
    BY <1>4 DEF Ask, Step, OrderType, AskedOrder, At
  <2> HIDE DEF to
  <2> QED
    BY <2>1, StepKeepsNumbers
<1>5. ASSUME Quote(r) PROVE NumberInv'
  <2> DEFINE to == [at |-> "quoted", branch |-> request[r].branch, item |-> request[r].item, started |-> clock]
  <2>1. request[r] \in AskedOrder /\ clock \in Nat /\ ~At(r, "created")
    BY <1>2, <1>5, OrderKinds DEF Quote, At, NumberInv
  <2>2. to \in OrderType /\ to.at = "quoted"
    BY <2>1 DEF OrderType, AskedOrder, QuotedOrder
  <2>3. Refuse(r) \/ (request' = [request EXCEPT ![r] = to] /\ clock' = clock)
    BY <1>5 DEF Quote, Step
  <2> HIDE DEF to
  <2> QED
    BY <1>3, <2>1, <2>2, <2>3, StepKeepsNumbers
<1>6. ASSUME InsertOrder(r) PROVE NumberInv'
  <2>1. PICK specific \in Values(request[r].branch, "branch_specific_numbering"),
             daily \in Values(request[r].branch, "order_daily_reset") :
          Step(r, [at |-> "waiting", branch |-> request[r].branch, item |-> request[r].item,
                   started |-> request[r].started, key |-> NumberingKey(r, specific, daily)])
    BY <1>6 DEF InsertOrder
  <2> DEFINE key == NumberingKey(r, specific, daily)
             to == [at |-> "waiting", branch |-> request[r].branch, item |-> request[r].item,
                    started |-> request[r].started, key |-> key]
  <2>2. request[r] \in QuotedOrder /\ ~At(r, "created")
    BY <1>2, <1>6, OrderKinds DEF InsertOrder, At
  <2>3. BusinessDay(r) \in Int /\ AllDays \in Int
    <3>1. Ahead[request[r].branch] \in Nat /\ request[r].started \in Nat
      BY <2>2 DEF QuotedOrder, CreationAssumption
    <3> QED
      BY <3>1 DEF BusinessDay, Day, AllDays
  <2>4. /\ key.branch \in {Account, request[r].branch} /\ key.day \in {AllDays, BusinessDay(r)}
        /\ key \in KeyType
    BY <2>2, <2>3 DEF NumberingKey, KeyType, QuotedOrder
  <2> HIDE DEF key
  <2>5. /\ to \in OrderType /\ to.at = "waiting" /\ to.key = key
        /\ to.branch = request[r].branch /\ to.started = request[r].started
    BY <2>2, <2>4 DEF OrderType, QuotedOrder, WaitingOrder
  <2>6. request' = [request EXCEPT ![r] = to] /\ clock' = clock
    BY <2>1 DEF Step, key
  <2> HIDE DEF to
  <2> QED
    BY <2>2, <2>4, <2>5, <2>6, StepKeepsNumbers DEF BusinessDay
<1>7. ASSUME InsertItems(r) PROVE NumberInv'
  <2> DEFINE to == [request[r] EXCEPT !.at = "stocked"]
  <2>1. request[r] \in NumberedOrder /\ ~At(r, "created") /\ Holder(r) /\ HasKey(r)
    BY <1>2, <1>7, OrderKinds DEF InsertItems, At, HasNumber, HasKey, Holder
  <2>2. /\ to \in OrderType /\ to.at = "stocked" /\ to.key = request[r].key /\ to.number = request[r].number
        /\ to.branch = request[r].branch /\ to.started = request[r].started
    BY <2>1 DEF OrderType, NumberedOrder
  <2>3. Refuse(r) \/ (request' = [request EXCEPT ![r] = to] /\ clock' = clock)
    BY <1>7 DEF InsertItems, Step
  <2>4. to.key.branch \in {Account, to.branch} /\ to.key.day \in {AllDays, Day(to.branch, to.started)}
    BY <2>1, <2>2 DEF NumberInv, KeysOwn, BusinessDay
  <2> HIDE DEF to
  <2> QED
    BY <1>3, <2>1, <2>2, <2>3, <2>4, StepKeepsNumbers
<1>8. ASSUME Commit(r) PROVE NumberInv'
  <2>1. At(r, "stocked") /\ ~At(r, "created")
    BY <1>8 DEF Commit, At
  <2>2. \/ Refuse(r)
        \/ request' = [request EXCEPT ![r] = [request[r] EXCEPT !.at = "created"]] /\ clock' = clock
    BY <1>8 DEF Commit, Step
  <2> QED
    BY <1>3, <2>1, <2>2, StoredKeeps
<1>9. ASSUME Drop(r) PROVE NumberInv'
  BY <1>3, <1>9 DEF Drop, At, InTransaction
<1> QED
  BY <1>1, <1>4, <1>5, <1>6, <1>7, <1>8, <1>9, AwaitTurnKeeps

LEMMA NumberStep ==
  ASSUME CreationAssumption, OneZone, NumberInv, Next
  PROVE  NumberInv'
<1>1. ASSUME EditNext PROVE request' = request /\ clock' = clock
  BY <1>1 DEF EditNext, Unlink, AskDeleteProduct, AskDeleteVariant, PatchProduct, PatchVariant, Import,
     ImportExcel, PatchGroup, SetAvailable, PatchSetting, Relink, DeleteProduct, DeleteVariant, Abandon,
     Begin, End, Write
<1>2. ASSUME Midday PROVE request' = request /\ clock' \in Nat
  BY <1>2 DEF Midday, NumberInv
<1> QED
  BY <1>1, <1>2, CreateKeepsNumbers, NumberFrame DEF Next, NumberInv

LEMMA NumberInit == ASSUME CreationAssumption, Init PROVE NumberInv
<1>1. /\ request = [r \in Request |-> [at |-> "new"]]
      /\ \A r \in Request : request[r].at = "new"
      /\ clock = 0
  BY DEF Init
<1>2. RequestType
  BY <1>1 DEF RequestType, OrderType, NewOrOver
<1>3. Created = {} /\ \A r \in Request : ~HasKey(r) /\ ~Holder(r)
  BY <1>1 DEF Created, At, HasKey, HasNumber, Holder
<1>4. \A k : Scope(k) = {} /\ NumbersOf(k) = {}
  BY <1>3 DEF Scope, NumbersOf
<1>5. Starting .. Starting + Cardinality({}) - 1 = {}
  BY FS_EmptySet DEF CreationAssumption
<1>6. ScopesRunOn
  BY <1>4, <1>5 DEF ScopesRunOn
<1> QED
  BY <1>1, <1>2, <1>3, <1>6, FS_EmptySet DEF NumberInv, KeysOwn, OneHolder, HoldersRunOn, NeverCollides, At

LEMMA NumbersFollow == ASSUME NumberInv PROVE NumbersRunOn /\ NeverCollides
<1> SUFFICES ASSUME NEW r \in Created,
                    \A x \in Scope(request[r].key) : request[x].key = request[r].key
             PROVE  {request[x].number : x \in Scope(request[r].key)}
                      = Starting .. Starting + Cardinality(Scope(request[r].key)) - 1
  BY DEF NumbersRunOn, NumberInv, Scope
<1>1. request[r].key \in KeyType
  <2>1. r \in Request /\ HasNumber(r)
    BY DEF Created, At, HasNumber
  <2> QED
    BY <2>1, OrderKinds DEF NumberInv, NumberedOrder
<1> QED
  BY <1>1 DEF NumberInv, ScopesRunOn, OneKey, NumbersOf

\* Rows of the menu that orders keep are neither deleted nor ordered after they were.
LEMMA KeptItem ==
  ASSUME CreationAssumption, RequestType, NEW r \in Request, Keeps(r)
  PROVE  request[r].item \in Item /\ request[r].item \in KeptItems(request[r].item.product)
<1>1. request[r] \in NumberedOrder
  BY OrderKinds DEF Keeps, At, HasNumber
<1> QED
  BY <1>1 DEF NumberedOrder, KeptItems, CreationAssumption

\* An edit deletes no row that was there and that orders keep.
Spares ==
  /\ request' = request /\ clock' = clock /\ MenuType'
  /\ \A e \in editing' : e.product \in Product
  /\ \A p \in Product :
       /\ menu'.product[p] = "deleted" => menu.product[p] = "deleted" \/ KeptItems(p) = {}
       /\ menu'.variant[p] = "deleted" => menu.variant[p] = "deleted" \/ ~\E i \in KeptItems(p) : i.variant

LEMMA MenuKeeps ==
  ASSUME CreationAssumption, SoldInv, Spares
  PROVE  SoldInv'
<1>1. RequestType' /\ \A r \in Request : Keeps(r)' => Keeps(r)
  BY DEF SoldInv, RequestType, Keeps, At, Spares
<1>2. ASSUME NEW r \in Request, Keeps(r)
      PROVE  RowsKept(request[r].item)'
  <2>1. RowsKept(request[r].item)
    BY <1>2 DEF SoldInv
  <2>2. request[r].item \in Item /\ request[r].item \in KeptItems(request[r].item.product)
    BY <1>2, KeptItem DEF SoldInv
  <2>3. request[r].item.product \in Product
    BY <2>2 DEF Item
  <2> QED
    BY <2>1, <2>2, <2>3 DEF RowsKept, Spares
<1>3. Created' = Created
  BY DEF Created, At, Spares
<1>4. IsFiniteSet(Created)'
  BY <1>3 DEF SoldInv
<1>5. MenuType' /\ (clock \in Nat)' /\ (\A e \in editing : e.product \in Product)'
  BY DEF SoldInv, Spares
<1> QED
  BY <1>1, <1>2, <1>4, <1>5 DEF SoldInv

LEMMA EditSpares ==
  ASSUME SoldInv, EditNext
  PROVE  Spares
<1>1. MenuType /\ clock \in Nat /\ \A e \in editing : e.product \in Product
  BY DEF SoldInv
<1>2. /\ menu.product \in [Product -> Status] /\ menu.variant \in [Product -> Status]
      /\ menu.linked \in SUBSET Product /\ menu.modifiers \in SUBSET Modifier
      /\ menu.available \in [Branch -> SUBSET Product]
  BY <1>1 DEF MenuType
<1>3. ASSUME menu' = menu, request' = request, clock' = clock, \A e \in editing' : e.product \in Product
      PROVE  Spares
  BY <1>1, <1>3 DEF MenuType, Spares
<1>4. ASSUME NEW p \in Product, Unlink(p) PROVE Spares
  BY <1>1, <1>4 DEF Unlink, Begin, MenuType, Spares
<1>5. ASSUME NEW p \in Product, NEW s \in {"active", "inactive"}, PatchProduct(p, s) PROVE Spares
  BY <1>1, <1>5 DEF PatchProduct, Write, MenuType, Status, Spares
<1>6. ASSUME NEW p \in Product, NEW s \in {"active", "inactive"}, PatchVariant(p, s) PROVE Spares
  BY <1>1, <1>6 DEF PatchVariant, Write, MenuType, Status, Spares
<1>7. ASSUME NEW p \in Product, NEW on \in SUBSET Modifier, Import(p, on) PROVE Spares
  BY <1>1, <1>7 DEF Import, Write, MenuType, Status, Spares
<1>8. ASSUME NEW ps \in SUBSET Product, NEW s \in {"active", "inactive"}, ImportExcel(ps, s) PROVE Spares
  <2> DEFINE f == [p \in Product |-> IF p \in ps /\ menu.product[p] # "deleted" THEN s ELSE menu.product[p]]
  <2>1. f \in [Product -> Status] /\ \A p \in Product : f[p] = "deleted" => menu.product[p] = "deleted"
    BY <1>2 DEF Status
  <2>2. menu' = [menu EXCEPT !.product = f] /\ request' = request /\ clock' = clock /\ editing' = editing
    BY <1>8 DEF ImportExcel, Write
  <2> HIDE DEF f
  <2> QED
    BY <1>1, <2>1, <2>2 DEF MenuType, Spares
<1>9. ASSUME NEW active \in BOOLEAN, NEW min \in 0 .. 1, NEW max \in 1 .. 2, PatchGroup(active, min, max) PROVE Spares
  <2>1. min \in Nat /\ max \in Nat /\ active \in BOOLEAN
    BY <1>9
  <2>2. /\ menu' = [menu EXCEPT !.active = active, !.min = min, !.max = max]
        /\ request' = request /\ clock' = clock /\ editing' = editing
    BY <1>9 DEF PatchGroup, Write
  <2>3. MenuType'
    BY <1>1, <2>1, <2>2 DEF MenuType
  <2>4. menu'.product = menu.product /\ menu'.variant = menu.variant
    BY <1>1, <2>2 DEF MenuType
  <2> QED
    BY <1>1, <2>2, <2>3, <2>4 DEF Spares
<1>10. ASSUME NEW b \in Branch, NEW ps \in SUBSET Product, SetAvailable(b, ps) PROVE Spares
  BY <1>1, <1>10 DEF SetAvailable, Write, MenuType, Spares
<1>11. ASSUME NEW e \in editing, Relink(e) PROVE Spares
  BY <1>1, <1>11 DEF Relink, End, MenuType, Spares
<1>12. ASSUME NEW e \in editing, DeleteProduct(e) PROVE Spares
  BY <1>1, <1>12 DEF DeleteProduct, End, MenuType, Status, Spares
<1>13. ASSUME NEW e \in editing, DeleteVariant(e) PROVE Spares
  <2>1. CASE End(e, [menu EXCEPT !.variant[e.product] = "inactive"])
    BY <1>1, <2>1 DEF End, MenuType, Status, Spares
  <2>2. CASE End(e, [menu EXCEPT !.variant[e.product] = "deleted"]) /\ ~\E i \in KeptItems(e.product) : i.variant
    BY <1>1, <2>2 DEF End, MenuType, Status, Spares
  <2> QED
    BY <1>13, <2>1, <2>2 DEF DeleteVariant
<1>14. ASSUME NEW p \in Product, AskDeleteProduct(p) \/ AskDeleteVariant(p) PROVE Spares
  BY <1>1, <1>3, <1>14 DEF AskDeleteProduct, AskDeleteVariant, Begin
<1>15. ASSUME NEW s, PatchSetting(s) PROVE Spares
  BY <1>1, <1>3, <1>15 DEF PatchSetting
<1>16. ASSUME NEW e \in editing, Abandon(e) PROVE Spares
  BY <1>1, <1>3, <1>16 DEF Abandon, End
<1> QED
  BY <1>4, <1>5, <1>6, <1>7, <1>8, <1>9, <1>10, <1>11, <1>12, <1>13, <1>14, <1>15, <1>16 DEF EditNext

\* A creation adds items of rows that are there.
LEMMA CreateKeepsSold ==
  ASSUME CreationAssumption, SoldInv, RequestType', clock' = clock, IsFiniteSet(Created'), CreateNext
  PROVE  SoldInv'
<1>1. PICK r \in Request :
        \/ \E b \in Branch, i \in Items : Ask(r, b, i)
        \/ Quote(r) \/ InsertOrder(r) \/ AwaitTurn(r) \/ InsertItems(r) \/ Commit(r) \/ Drop(r)
  BY DEF CreateNext
<1>2. menu' = menu /\ editing' = editing
  BY <1>1 DEF Ask, Quote, InsertOrder, AwaitTurn, InsertItems, Commit, Drop, Refuse, Step
<1>3. \A i : RowsKept(i)' <=> RowsKept(i)
  BY <1>2 DEF RowsKept
<1>4. \A x \in Request : x # r => request'[x] = request[x]
  BY <1>1 DEF Ask, Quote, InsertOrder, AwaitTurn, InsertItems, Commit, Drop, Refuse, Step, SoldInv, RequestType
<1>5. ASSUME Keeps(r)' PROVE RowsKept(request'[r].item)
  <2>1. CASE InsertItems(r)
    <3>1. request' = [request EXCEPT ![r] = [request[r] EXCEPT !.at = "stocked"]] /\ RowsKept(request[r].item)
      BY <1>5, <2>1 DEF InsertItems, Refuse, Step, Keeps, At, SoldInv, RequestType, RowsKept
    <3>2. request[r] \in NumberedOrder
      BY <2>1, OrderKinds DEF InsertItems, At, HasNumber, SoldInv
    <3>3. request'[r].item = request[r].item
      BY <3>1, <3>2 DEF NumberedOrder, SoldInv, RequestType
    <3> QED
      BY <3>1, <3>3
  <2>2. CASE Commit(r)
    <3>1. request' = [request EXCEPT ![r] = [request[r] EXCEPT !.at = "created"]] /\ Keeps(r)
      BY <1>5, <2>2 DEF Commit, Refuse, Step, Keeps, At, SoldInv, RequestType
    <3>2. request[r] \in NumberedOrder
      BY <2>2, OrderKinds DEF Commit, At, HasNumber, SoldInv
    <3>3. request'[r].item = request[r].item
      BY <3>1, <3>2 DEF NumberedOrder, SoldInv, RequestType
    <3> QED
      BY <3>1, <3>3 DEF SoldInv
  <2>3. ~(\/ \E b \in Branch, i \in Items : Ask(r, b, i)
          \/ Quote(r) \/ InsertOrder(r) \/ AwaitTurn(r) \/ Drop(r))
    BY <1>5 DEF Ask, Quote, InsertOrder, AwaitTurn, Drop, Refuse, Step, Keeps, At, SoldInv, RequestType
  <2> QED
    BY <1>1, <2>1, <2>2, <2>3
<1>6. ASSUME NEW x \in Request, Keeps(x)' PROVE RowsKept(request'[x].item)
  BY <1>4, <1>5, <1>6 DEF SoldInv, Keeps, At
<1>7. MenuType'
  BY <1>2 DEF SoldInv, MenuType
<1> QED
  BY <1>2, <1>3, <1>6, <1>7 DEF SoldInv, RowsKept

\* Numbers are natural numbers, whatever the timezones.
LEMMA NextNumberType ==
  ASSUME CreationAssumption, RequestType, IsFiniteSet(Created), NEW r, NEW k
  PROVE  NextNumber(r, k) \in Nat
<1> DEFINE S == InScope(r, k)
           N == {request[x].number : x \in S}
           m == Max(N)
           T == {m + 1, Starting}
<1>1. S \subseteq Created /\ Starting \in Nat
  BY DEF InScope, CreationAssumption
<1>2. N \in SUBSET Nat
  <2>1. ASSUME NEW x \in S PROVE request[x].number \in Nat
    <3>1. x \in Request /\ HasNumber(x)
      BY <1>1 DEF Created, At, HasNumber
    <3> QED
      BY <3>1, OrderKinds DEF NumberedOrder
  <2> QED
    BY <2>1
<1>3. IsFiniteSet(N)
  <2> DEFINE f == [x \in S |-> request[x].number]
  <2>1. f \in Surjection(S, N)
    BY DEF Surjection
  <2>2. IsFiniteSet(S)
    BY <1>1, FS_Subset
  <2> HIDE DEF S, f
  <2> QED
    BY <2>1, <2>2, FS_Surjection
<1>4. NextNumber(r, k) = IF N = {} THEN Starting ELSE Max(T)
  BY DEF NextNumber
<1> HIDE DEF N
<1>5. CASE N # {}
  <2>1. m \in Nat
    BY <1>2, <1>3, <1>5, MaxIs
  <2> HIDE DEF m
  <2>2. IsFiniteSet({m + 1}) /\ T = {m + 1} \cup {Starting}
    BY FS_Singleton
  <2>3. IsFiniteSet(T)
    BY <2>2, FS_AddElement
  <2>4. T \in SUBSET Nat /\ T # {}
    BY <1>1, <2>1
  <2>5. Max(T) \in Nat
    BY <2>3, <2>4, MaxIs
  <2> QED
    BY <1>4, <1>5, <2>5
<1> QED
  BY <1>1, <1>4, <1>5

LEMMA CreateKeepsType ==
  ASSUME CreationAssumption, RequestType, clock \in Nat, IsFiniteSet(Created), CreateNext
  PROVE  RequestType' /\ clock' = clock /\ IsFiniteSet(Created')
<1>1. PICK r \in Request :
        \/ \E b \in Branch, i \in Items : Ask(r, b, i)
        \/ Quote(r) \/ InsertOrder(r) \/ AwaitTurn(r) \/ InsertItems(r) \/ Commit(r) \/ Drop(r)
  BY DEF CreateNext
<1>2. clock' = clock
  BY <1>1 DEF Ask, Quote, InsertOrder, AwaitTurn, InsertItems, Commit, Drop, Refuse, Step
<1>3. ASSUME NEW to \in OrderType, Step(r, to) PROVE RequestType'
  BY <1>3 DEF Step, RequestType
<1>4. ASSUME Refuse(r) PROVE RequestType'
  BY <1>3, <1>4 DEF Refuse, OrderType, NewOrOver
<1>5. ASSUME NEW b \in Branch, NEW i \in Items, Ask(r, b, i) PROVE RequestType'
  BY <1>3, <1>5 DEF Ask, OrderType, AskedOrder
<1>6. ASSUME Quote(r) PROVE RequestType'
  <2>1. request[r] \in AskedOrder
    BY <1>6, OrderKinds DEF Quote
  <2> QED
    BY <1>3, <1>4, <1>6, <2>1 DEF Quote, OrderType, AskedOrder, QuotedOrder
<1>7. ASSUME InsertOrder(r) PROVE RequestType'
  <2>1. request[r] \in QuotedOrder
    BY <1>7, OrderKinds DEF InsertOrder
  <2>2. BusinessDay(r) \in Int /\ AllDays \in Int
    <3>1. Ahead[request[r].branch] \in Nat /\ request[r].started \in Nat
      BY <2>1 DEF QuotedOrder, CreationAssumption
    <3> QED
      BY <3>1 DEF BusinessDay, Day, AllDays
  <2>3. \A specific, daily : NumberingKey(r, specific, daily) \in KeyType
    BY <2>1, <2>2 DEF NumberingKey, KeyType, QuotedOrder
  <2> QED
    BY <1>3, <1>7, <2>1, <2>3 DEF InsertOrder, OrderType, QuotedOrder, WaitingOrder
<1>8. ASSUME AwaitTurn(r) PROVE RequestType'
  <2>1. request[r] \in WaitingOrder
    BY <1>8, OrderKinds DEF AwaitTurn
  <2>2. NextNumber(r, request[r].key) \in Nat
    BY NextNumberType
  <2> QED
    BY <1>3, <1>8, <2>1, <2>2 DEF AwaitTurn, OrderType, WaitingOrder, NumberedOrder
<1>9. ASSUME InsertItems(r) PROVE RequestType'
  <2>1. request[r] \in NumberedOrder
    BY <1>9, OrderKinds DEF InsertItems, At, HasNumber
  <2>2. [request[r] EXCEPT !.at = "stocked"] \in OrderType
    BY <2>1 DEF OrderType, NumberedOrder
  <2> QED
    BY <1>3, <1>4, <1>9, <2>2 DEF InsertItems
<1>10. ASSUME Commit(r) PROVE RequestType'
  <2>1. request[r] \in NumberedOrder
    BY <1>10, OrderKinds DEF Commit, At, HasNumber
  <2>2. [request[r] EXCEPT !.at = "created"] \in OrderType
    BY <2>1 DEF OrderType, NumberedOrder
  <2> QED
    BY <1>3, <1>4, <1>10, <2>2 DEF Commit
<1>11. RequestType'
  BY <1>1, <1>4, <1>5, <1>6, <1>7, <1>8, <1>9, <1>10 DEF Drop
<1>12. IsFiniteSet(Created')
  <2>1. \A x \in Request : x # r => request'[x] = request[x]
    BY <1>1 DEF Ask, Quote, InsertOrder, AwaitTurn, InsertItems, Commit, Drop, Refuse, Step, RequestType
  <2>2. Created' \subseteq Created \cup {r}
    BY <2>1 DEF Created, At
  <2>3. IsFiniteSet(Created \cup {r})
    BY FS_AddElement
  <2> QED
    BY <2>2, <2>3, FS_Subset
<1> QED
  BY <1>2, <1>11, <1>12

LEMMA SoldInit == ASSUME CreationAssumption, Init PROVE SoldInv
<1>1. RequestType /\ IsFiniteSet(Created) /\ clock \in Nat
  BY NumberInit DEF NumberInv
<1>2. MenuType
  BY DEF Init, MenuType, Status
<1>3. \A r \in Request : ~Keeps(r)
  BY DEF Init, Keeps, At
<1>4. editing = {}
  BY DEF Init
<1> QED
  BY <1>1, <1>2, <1>3, <1>4 DEF SoldInv

LEMMA SoldStep ==
  ASSUME CreationAssumption, SoldInv, Next
  PROVE  SoldInv'
<1>1. ASSUME EditNext PROVE SoldInv'
  BY <1>1, EditSpares, MenuKeeps
<1>2. ASSUME CreateNext PROVE SoldInv'
  BY <1>2, CreateKeepsType, CreateKeepsSold DEF SoldInv
<1>3. ASSUME Midday PROVE SoldInv'
  <2>1. menu' = menu /\ request' = request /\ editing' = editing /\ clock' \in Nat
    BY <1>3 DEF Midday, SoldInv
  <2> QED
    BY <2>1 DEF SoldInv, RequestType, Created, MenuType, RowsKept, Keeps, At
<1> QED
  BY <1>1, <1>2, <1>3 DEF Next

LEMMA SoldFrame == ASSUME SoldInv, UNCHANGED creationVars PROVE SoldInv'
<1>1. menu' = menu /\ editing' = editing /\ clock' = clock /\ request' = request
  BY DEF creationVars
<1> QED
  BY <1>1 DEF SoldInv, RequestType, Created, MenuType, RowsKept, Keeps, At

LEMMA SoldAlways == SuiteSpec => []SoldInv
<1>1. SuiteInit => SoldInv
  BY CreationAssumption, SoldInit DEF SuiteInit
<1>2. SoldInv /\ [SuiteNext]_suiteVars => SoldInv'
  <2> SUFFICES ASSUME SoldInv, [SuiteNext]_suiteVars PROVE SoldInv'
    OBVIOUS
  <2>1. Next \/ UNCHANGED creationVars
    BY DEF SuiteNext, suiteVars
  <2> QED
    BY <2>1, CreationAssumption, SoldStep, SoldFrame
<1> QED
  BY <1>1, <1>2, PTL DEF SuiteSpec

LEMMA SoldFollows == ASSUME SoldInv PROVE SoldRowsRemain
BY DEF SoldInv, SoldRowsRemain, RowsKept, Created, Keeps, At

\* Whatever creations race, fail or are dropped, whatever changes in menu and settings,
\* and around midnight: the orders of a scope are numbered without gap or double, no
\* creation fails for its number, and the rows that an order was sold with remain.  The
\* branches share a timezone (orderNumbering.ts, orders.ts, productDelete.ts).
THEOREM NumbersAlwaysStand == ASSUME OneZone PROVE SuiteSpec => []NumbersStand
<1>1. SuiteInit => NumberInv
  BY CreationAssumption, NumberInit DEF SuiteInit
<1>2. NumberInv /\ [SuiteNext]_suiteVars => NumberInv'
  <2> SUFFICES ASSUME NumberInv, [SuiteNext]_suiteVars PROVE NumberInv'
    OBVIOUS
  <2>1. CASE Next
    BY <2>1, CreationAssumption, NumberStep
  <2>2. CASE UNCHANGED creationVars
    BY <2>2, NumberFrame DEF creationVars, NumberInv
  <2> QED
    BY <2>1, <2>2 DEF SuiteNext, suiteVars
<1>3. NumberInv /\ SoldInv => NumbersStand
  BY NumbersFollow, SoldFollows DEF NumbersStand
<1> QED
  BY <1>1, <1>2, <1>3, SoldAlways, PTL DEF SuiteSpec

\* What the rules accept is what the menu offers.
LEMMA ValidIsOffered ==
  ASSUME MenuType, NEW i \in Item, Valid(i)
  PROVE  i \in Offered(i.product)
<1> DEFINE offers == menu.active /\ i.product \in menu.linked
<1>1. /\ i = [product |-> i.product, variant |-> i.variant, picks |-> i.picks]
      /\ i.variant \in BOOLEAN /\ i.picks \in SUBSET Modifier
  BY DEF Item
<1>2. i.picks \in SUBSET menu.modifiers
  BY DEF Valid
<1>3. IF offers THEN menu.min <= Cardinality(i.picks) /\ Cardinality(i.picks) <= menu.max ELSE i.picks = {}
  <2>1. CASE offers
    <3>1. Cardinality(i.picks) \in menu.min .. menu.max
      BY <2>1 DEF Valid
    <3> QED
      BY <2>1, <3>1
  <2>2. CASE ~offers
    BY <2>2 DEF Valid
  <2> QED
    BY <2>1, <2>2
<1>4. i.variant \in {FALSE} \cup {v \in {TRUE} : menu.variant[i.product] = "active"}
  BY <1>1 DEF Valid
<1> QED
  BY <1>1, <1>2, <1>3, <1>4 DEF Offered

LEMMA CommitsOffered ==
  ASSUME CreationAssumption, SoldInv, Next
  PROVE  \A r \in Request :
           r \notin Created /\ r \in Created' => request[r].item \in Offered(request[r].item.product)
<1> SUFFICES ASSUME NEW r \in Request, r \notin Created, r \in Created'
             PROVE  request[r].item \in Offered(request[r].item.product)
  OBVIOUS
<1>1. request' # request /\ request'[r].at = "created" /\ request[r].at # "created"
  BY DEF Created, At
<1>2. CreateNext
  BY <1>1 DEF Next, Midday, EditNext, Unlink, AskDeleteProduct, AskDeleteVariant, PatchProduct, PatchVariant, Import,
     ImportExcel, PatchGroup, SetAvailable, PatchSetting, Relink, DeleteProduct, DeleteVariant, Abandon,
     Begin, End, Write
<1>3. PICK q \in Request : Commit(q)
  <2>1. PICK q \in Request :
          \/ \E b \in Branch, i \in Items : Ask(q, b, i)
          \/ Quote(q) \/ InsertOrder(q) \/ AwaitTurn(q) \/ InsertItems(q) \/ Commit(q) \/ Drop(q)
    BY <1>2 DEF CreateNext
  <2>2. ASSUME NEW to, Step(q, to) PROVE q = r /\ to.at = "created"
    BY <1>1, <2>2 DEF Step, SoldInv, RequestType
  <2>3. ~\E b \in Branch, i \in Items : Ask(q, b, i)
    <3> SUFFICES ASSUME NEW b \in Branch, NEW i \in Items, Ask(q, b, i) PROVE FALSE
      OBVIOUS
    <3>1. Step(q, [at |-> "asked", branch |-> b, item |-> i])
      BY DEF Ask
    <3> QED
      BY <2>2, <3>1
  <2>4. ~Refuse(q)
    BY <2>2 DEF Refuse
  <2>5. ~Quote(q)
    BY <2>2, <2>4 DEF Quote
  <2>6. ~InsertOrder(q)
    <3> SUFFICES ASSUME InsertOrder(q) PROVE FALSE
      OBVIOUS
    <3>1. PICK k : Step(q, [at |-> "waiting", branch |-> request[q].branch, item |-> request[q].item,
                            started |-> request[q].started, key |-> k])
      BY DEF InsertOrder
    <3> QED
      BY <2>2, <3>1
  <2>7. ~AwaitTurn(q)
    BY <2>2 DEF AwaitTurn
  <2>8. ~InsertItems(q)
    <3> SUFFICES ASSUME InsertItems(q) PROVE FALSE
      OBVIOUS
    <3>1. Step(q, [request[q] EXCEPT !.at = "stocked"])
      BY <2>4 DEF InsertItems
    <3>2. q \in Request /\ request[q] \in NumberedOrder
      BY OrderKinds DEF InsertItems, At, HasNumber, SoldInv
    <3>3. [request[q] EXCEPT !.at = "stocked"].at = "stocked"
      BY <3>2 DEF NumberedOrder
    <3> QED
      BY <2>2, <3>1, <3>3
  <2>9. ~Drop(q)
    BY <2>4 DEF Drop
  <2> QED
    BY <2>1, <2>3, <2>5, <2>6, <2>7, <2>8, <2>9
<1>4. Rechecked(request[r].item) /\ At(r, "stocked")
  BY <1>1, <1>3 DEF Commit, Refuse, Step, SoldInv, RequestType
<1>5. request[r].item \in Item
  <2>1. request[r] \in NumberedOrder
    BY <1>4, OrderKinds DEF HasNumber, At, SoldInv
  <2> QED
    BY <2>1 DEF NumberedOrder, CreationAssumption
<1> QED
  BY <1>4, <1>5, ValidIsOffered DEF Rechecked, SoldInv

\* An order that is committed has a variant and choices that the menu offers at that
\* moment, whatever changed since its quote (order_items_configuration_check).
THEOREM CommittedAsOffered == SuiteSpec => ChosenAsOffered
<1>1. SoldInv /\ [SuiteNext]_suiteVars =>
        [\A r \in Request :
           (r \notin Created /\ r \in Created') => request[r].item \in Offered(request[r].item.product)]_vars
  <2> SUFFICES ASSUME SoldInv, [SuiteNext]_suiteVars
               PROVE  [\A r \in Request :
                  (r \notin Created /\ r \in Created') => request[r].item \in Offered(request[r].item.product)]_vars
    OBVIOUS
  <2>1. Next \/ UNCHANGED vars
    BY DEF SuiteNext, suiteVars, creationVars, vars
  <2> QED
    BY <2>1, CreationAssumption, CommitsOffered
<1> QED
  BY <1>1, SoldAlways, PTL DEF SuiteSpec, ChosenAsOffered
-----------------------------------------------------------------------------
(* The editor.  What an editor takes for saved was stored, and so was what *)
(* an answer under way brings to it: of a load, the product as far as it   *)
(* was read; of a save, the fields that its statements wrote by then.      *)

Contents ==
  {First.text, First.image, First.groups, NoGroups} \cup Text \cup Image \cup Groups
Stored == [Edited!Field -> Contents]
Form == Stored \cup {Empty}
EditorRow ==
  [open : BOOLEAN, form : Form, initial : Form, saving : {"no", "patch", "put", "insert", "saved"},
   sent : Form, uploading : {"no", "sent", "stored"}, image : Contents]

\* What was stored, field by field.
WasStored(p) == p \in Stored /\ \A f \in Edited!Field : p[f] \in stored[f]

LoadRow ==
  {l \in [at : {"sent", "read", "answered"}, product : Form] : l.at # "sent" => WasStored(l.product)}

EditorSound(x) ==
  /\ x \in EditorRow
  /\ x.initial # Empty => WasStored(x.initial)
  /\ x.saving # "no" => x.sent \in Stored
  /\ x.saving \in {"put", "insert"} => x.sent["text"] \in stored["text"] /\ x.sent["image"] \in stored["image"]
  /\ x.saving = "saved" => WasStored(x.sent)
  /\ x.uploading # "no" => x.form \in Stored

EditorInv ==
  /\ WasStored(product)
  /\ DOMAIN stored = Edited!Field
  /\ editor = [e \in Editor |-> editor[e]] /\ \A e \in Editor : EditorSound(editor[e])
  /\ editorLoads \in [Editor -> Seq(LoadRow)]

LEMMA FieldIs == Edited!Field = {"text", "image", "groups"}
BY DEF Edited!Field

\* What was stored stays so.
LEMMA StaysStored ==
  ASSUME \A f \in Edited!Field : stored[f] \subseteq stored'[f]
  PROVE  /\ \A p : WasStored(p) => WasStored(p)'
         /\ \A x : EditorSound(x) => EditorSound(x)'
         /\ \A s : s \in Seq(LoadRow) => s \in Seq(LoadRow)'
<1>1. \A p : WasStored(p) => WasStored(p)'
  BY DEF WasStored
<1>2. \A x : EditorSound(x) => EditorSound(x)'
  BY <1>1, FieldIs DEF EditorSound
<1>3. LoadRow \subseteq LoadRow'
  BY <1>1 DEF LoadRow
<1> QED
  BY <1>1, <1>2, <1>3

LEMMA WithoutOne ==
  ASSUME NEW S, NEW s \in Seq(S), NEW i \in DOMAIN s
  PROVE  SubSeq(s, 1, i - 1) \o SubSeq(s, i + 1, Len(s)) \in Seq(S)
<1>1. SubSeq(s, 1, i - 1) \in Seq(S)
  OBVIOUS
<1>2. SubSeq(s, i + 1, Len(s)) \in Seq(S)
  OBVIOUS
<1> QED
  BY <1>1, <1>2

\* One editor changes, or its loads, and the product is as it was.
LEMMA OnePageKeeps ==
  ASSUME EditorInv, NEW e \in Editor, NEW x, NEW s, EditorSound(x), s \in Seq(LoadRow),
         editor' = [editor EXCEPT ![e] = x], editorLoads' = [editorLoads EXCEPT ![e] = s],
         product' = product, stored' = stored
  PROVE  EditorInv'
<1>1. \A d \in Editor : EditorSound(editor'[d])
  BY DEF EditorInv
<1>2. /\ WasStored(product)'
      /\ \A d \in Editor : EditorSound(editor[d])'
      /\ LoadRow' = LoadRow
  BY <1>1 DEF EditorInv, WasStored, EditorSound, LoadRow
<1> QED
  BY <1>2 DEF EditorInv

\* One editor writes the product.
LEMMA WriteKeeps ==
  ASSUME EditorInv, NEW e \in Editor, NEW x, NEW p \in Stored, Edited!Write(p), EditorSound(x)',
         editor' = [editor EXCEPT ![e] = x], editorLoads' = editorLoads
  PROVE  EditorInv'
<1>1. \A f \in Edited!Field : stored'[f] = stored[f] \cup {p[f]}
  BY DEF Edited!Write
<1>2. WasStored(product)' /\ DOMAIN stored' = Edited!Field
  BY <1>1 DEF Edited!Write, WasStored
<1>3. \A d \in Editor : EditorSound(editor[d])'
  BY <1>1, StaysStored DEF EditorInv
<1>4. editorLoads' \in [Editor -> Seq(LoadRow)']
  BY <1>1, StaysStored DEF EditorInv
<1> QED
  BY <1>2, <1>3, <1>4 DEF EditorInv

LEMMA EditorInit == Edited!Init => EditorInv
<1> SUFFICES ASSUME Edited!Init PROVE EditorInv
  OBVIOUS
<1>1. product = First /\ stored = [f \in Edited!Field |-> {First[f]}]
  BY DEF Edited!Init
<1>2. First \in Stored /\ \A f \in Edited!Field : First[f] \in stored[f]
  BY <1>1, FieldIs DEF Stored, Contents, First
<1>3. WasStored(product) /\ DOMAIN stored = Edited!Field
  BY <1>1, <1>2 DEF WasStored
<1> DEFINE x == [open |-> TRUE, form |-> Empty, initial |-> Empty, saving |-> "no",
                 sent |-> Empty, uploading |-> "no", image |-> First.image]
<1>4. EditorSound(x)
  BY DEF EditorSound, EditorRow, Form, Contents
<1>5. editor = [e \in Editor |-> x]
  BY DEF Edited!Init
<1>6. Edited!NewLoad \in LoadRow
  BY DEF LoadRow, Edited!NewLoad, Form
<1>7. editorLoads = [e \in Editor |-> << Edited!NewLoad >>]
  BY DEF Edited!Init
<1> HIDE DEF x
<1> QED
  BY <1>3, <1>4, <1>5, <1>6, <1>7 DEF EditorInv

\* What an editor keeps of itself where its row does not change.
LEMMA LoadsKeep ==
  ASSUME EditorInv, NEW e \in Editor, NEW i \in DOMAIN editorLoads[e],
         Edited!ReadProduct(e, i) \/ Edited!ReadGroups(e, i) \/ Edited!LoadEnds(e, i)
  PROVE  EditorInv'
<1> DEFINE s == editorLoads[e]
           l == s[i]
           x == editor[e]
<1>1. s \in Seq(LoadRow) /\ l \in LoadRow /\ editorLoads \in [Editor -> Seq(LoadRow)]
  BY DEF EditorInv
<1>2. EditorSound(x) /\ editor = [editor EXCEPT ![e] = x]
  BY DEF EditorInv
<1>3. WasStored(product)
  BY DEF EditorInv
<1>4. ASSUME Edited!ReadProduct(e, i) PROVE EditorInv'
  <2> DEFINE m == [at |-> "read", product |-> product]
             t == [s EXCEPT ![i] = m]
  <2>1. m \in LoadRow
    BY <1>3 DEF LoadRow, WasStored, Form
  <2>2. t \in Seq(LoadRow)
    BY <1>1, <2>1
  <2>3. editorLoads' = [editorLoads EXCEPT ![e] = t] /\ product' = product /\ stored' = stored /\ editor' = editor
    BY <1>1, <1>4 DEF Edited!ReadProduct
  <2> HIDE DEF x, t
  <2> QED
    BY <1>2, <2>2, <2>3, OnePageKeeps
<1>5. ASSUME Edited!ReadGroups(e, i) PROVE EditorInv'
  <2> DEFINE m == [l EXCEPT !.at = "answered", !.product = [l.product EXCEPT !["groups"] = product["groups"]]]
             t == [s EXCEPT ![i] = m]
  <2>1. l.at = "read" /\ WasStored(l.product)
    BY <1>1, <1>5 DEF Edited!ReadGroups, LoadRow
  <2>2. WasStored([l.product EXCEPT !["groups"] = product["groups"]])
    BY <1>3, <2>1, FieldIs DEF WasStored, Stored
  <2>3. m \in LoadRow
    BY <1>1, <2>2 DEF LoadRow, WasStored, Form
  <2>4. t \in Seq(LoadRow)
    BY <1>1, <2>3
  <2>5. /\ editorLoads' = [editorLoads EXCEPT ![e] = t]
        /\ product' = product /\ stored' = stored /\ editor' = editor
    BY <1>1, <1>5 DEF Edited!ReadGroups, LoadRow
  <2> HIDE DEF x, t
  <2> QED
    BY <1>2, <2>4, <2>5, OnePageKeeps
<1>6. ASSUME Edited!LoadEnds(e, i) PROVE EditorInv'
  <2> DEFINE t == SubSeq(s, 1, i - 1) \o SubSeq(s, i + 1, Len(s))
             y == [x EXCEPT !.form = l.product, !.initial = l.product]
  <2>1. t \in Seq(LoadRow)
    BY <1>1, WithoutOne
  <2>2. editorLoads' = [editorLoads EXCEPT ![e] = t] /\ product' = product /\ stored' = stored
    BY <1>1, <1>6 DEF Edited!LoadEnds
  <2>3. CASE editor' = editor
    <3> HIDE DEF x, t
    <3> QED
      BY <1>2, <2>1, <2>2, <2>3, OnePageKeeps
  <2>4. CASE l.at = "answered" /\ editor' = [editor EXCEPT ![e] = y]
    <3>1. WasStored(l.product)
      BY <1>1, <2>4 DEF LoadRow
    <3>2. EditorSound(y)
      BY <1>2, <3>1 DEF EditorSound, EditorRow, WasStored, Form
    <3> HIDE DEF y, t
    <3> QED
      BY <2>1, <2>2, <2>4, <3>2, OnePageKeeps
  <2> QED
    BY <1>6, <2>3, <2>4 DEF Edited!LoadEnds
<1> QED
  BY <1>4, <1>5, <1>6

LEMMA PageKeeps ==
  ASSUME EditorInv, NEW e \in Editor,
         \/ Edited!Type(e) \/ Edited!ChangeSizes(e) \/ Edited!Save(e) \/ Edited!Close(e)
         \/ \E image \in Image : Edited!Upload(e, image)
         \/ Edited!SaveAnswered(e) \/ Edited!SaveFails(e) \/ Edited!UploadEnds(e)
  PROVE  EditorInv'
<1> DEFINE x == editor[e]
           s == editorLoads[e]
<1>1. s \in Seq(LoadRow) /\ editorLoads = [editorLoads EXCEPT ![e] = s]
  BY DEF EditorInv
<1>2. EditorSound(x) /\ editor = [editor EXCEPT ![e] = x]
  BY DEF EditorInv
<1>3. ASSUME NEW y, EditorSound(y), editor' = [editor EXCEPT ![e] = y], UNCHANGED <<product, stored, editorLoads>>
      PROVE  EditorInv'
  <2> HIDE DEF s
  <2> QED
    BY <1>1, <1>3, OnePageKeeps
<1>4. ASSUME Edited!Type(e) PROVE EditorInv'
  <2>1. PICK f \in Edited!Field, v \in Contents : Edited!Typed(e, f, v)
    BY <1>4, FieldIs DEF Edited!Type, Contents
  <2> DEFINE y == [x EXCEPT !.form = [x.form EXCEPT ![f] = v]]
  <2>2. x.form \in Stored
    BY <1>2, <2>1 DEF Edited!Typed, Edited!Filled, EditorSound, EditorRow, Form
  <2>3. EditorSound(y)
    BY <1>2, <2>2 DEF EditorSound, EditorRow, Form, Stored
  <2>4. editor' = [editor EXCEPT ![e] = y] /\ UNCHANGED <<product, stored, editorLoads>>
    BY <1>2, <2>1 DEF Edited!Typed, EditorSound, EditorRow
  <2> HIDE DEF y
  <2> QED
    BY <1>3, <2>3, <2>4
<1>5. ASSUME Edited!ChangeSizes(e) PROVE EditorInv'
  <2> DEFINE t == Append(s, Edited!NewLoad)
  <2>1. Edited!NewLoad \in LoadRow
    BY DEF LoadRow, Edited!NewLoad, Form
  <2>2. t \in Seq(LoadRow)
    BY <1>1, <2>1
  <2>3. editorLoads' = [editorLoads EXCEPT ![e] = t] /\ product' = product /\ stored' = stored /\ editor' = editor
    BY <1>1, <1>5 DEF Edited!ChangeSizes
  <2> HIDE DEF x, t
  <2> QED
    BY <1>2, <2>2, <2>3, OnePageKeeps
<1>6. ASSUME Edited!Save(e) PROVE EditorInv'
  <2> DEFINE y == [x EXCEPT !.saving = "patch", !.sent = x.form]
  <2>1. x.form \in Stored
    BY <1>2, <1>6 DEF Edited!Save, Edited!Filled, EditorSound, EditorRow, Form
  <2>2. EditorSound(y)
    BY <1>2, <2>1 DEF EditorSound, EditorRow, Form
  <2>3. editor' = [editor EXCEPT ![e] = y] /\ UNCHANGED <<product, stored, editorLoads>>
    BY <1>6 DEF Edited!Save
  <2> HIDE DEF y
  <2> QED
    BY <1>3, <2>2, <2>3
<1>7. ASSUME Edited!Close(e) PROVE EditorInv'
  <2> DEFINE y == [x EXCEPT !.open = FALSE]
  <2>1. EditorSound(y)
    BY <1>2 DEF EditorSound, EditorRow, Form
  <2>2. editor' = [editor EXCEPT ![e] = y] /\ UNCHANGED <<product, stored, editorLoads>>
    BY <1>7 DEF Edited!Close
  <2> HIDE DEF y
  <2> QED
    BY <1>3, <2>1, <2>2
<1>8. ASSUME NEW image \in Image, Edited!Upload(e, image) PROVE EditorInv'
  <2> DEFINE y == [x EXCEPT !.uploading = "sent", !.image = image]
  <2>1. x.form \in Stored
    BY <1>2, <1>8 DEF Edited!Upload, Edited!Filled, EditorSound, EditorRow, Form
  <2>2. EditorSound(y)
    BY <1>2, <2>1 DEF EditorSound, EditorRow, Form, Contents
  <2>3. editor' = [editor EXCEPT ![e] = y] /\ UNCHANGED <<product, stored, editorLoads>>
    BY <1>8 DEF Edited!Upload
  <2> HIDE DEF y
  <2> QED
    BY <1>3, <2>2, <2>3
<1>9. ASSUME Edited!SaveAnswered(e) PROVE EditorInv'
  <2> DEFINE y == [x EXCEPT !.saving = "no", !.initial = x.sent]
  <2>1. WasStored(x.sent)
    BY <1>2, <1>9 DEF Edited!SaveAnswered, EditorSound
  <2>2. EditorSound(y)
    BY <1>2, <2>1 DEF EditorSound, EditorRow, Form
  <2>3. editor' = [editor EXCEPT ![e] = y] /\ UNCHANGED <<product, stored, editorLoads>>
    BY <1>9 DEF Edited!SaveAnswered, Edited!SavedForm
  <2> HIDE DEF y
  <2> QED
    BY <1>3, <2>2, <2>3
<1>10. ASSUME Edited!SaveFails(e) PROVE EditorInv'
  <2> DEFINE y == [x EXCEPT !.saving = "no"]
  <2>1. EditorSound(y)
    BY <1>2 DEF EditorSound, EditorRow, Form
  <2>2. editor' = [editor EXCEPT ![e] = y] /\ UNCHANGED <<product, stored, editorLoads>>
    BY <1>10 DEF Edited!SaveFails
  <2> HIDE DEF y
  <2> QED
    BY <1>3, <2>1, <2>2
<1>11. ASSUME Edited!UploadEnds(e) PROVE EditorInv'
  <2> DEFINE y == [x EXCEPT !.uploading = "no", !.form = [x.form EXCEPT !["image"] = x.image]]
             z == [x EXCEPT !.uploading = "no"]
  <2>1. x.form \in Stored /\ x.image \in Contents
    BY <1>2, <1>11 DEF Edited!UploadEnds, EditorSound, EditorRow
  <2>2. EditorSound(y)
    BY <1>2, <2>1 DEF EditorSound, EditorRow, Form, Stored
  <2>3. EditorSound(z)
    BY <1>2 DEF EditorSound, EditorRow, Form
  <2>4. editor' = [editor EXCEPT ![e] = y] \/ editor' = [editor EXCEPT ![e] = z]
    BY <1>2, <1>11 DEF Edited!UploadEnds, EditorSound, EditorRow
  <2>5. UNCHANGED <<product, stored, editorLoads>>
    BY <1>11 DEF Edited!UploadEnds
  <2> HIDE DEF y, z
  <2> QED
    BY <1>3, <2>2, <2>3, <2>4, <2>5
<1> QED
  BY <1>4, <1>5, <1>6, <1>7, <1>8, <1>9, <1>10, <1>11

LEMMA ServerKeeps ==
  ASSUME EditorInv, NEW e \in Editor,
         Edited!Patch(e) \/ Edited!DeleteGroups(e) \/ Edited!InsertGroups(e) \/ Edited!StoreImage(e)
  PROVE  EditorInv'
<1>0. PICK x : x = editor[e]
  OBVIOUS
<1>1. EditorSound(x) /\ x \in EditorRow /\ x.sent \in Form
  BY <1>0 DEF EditorInv, EditorSound, EditorRow
<1>2. WasStored(product) /\ product \in Stored
  BY DEF EditorInv, WasStored
<1>3. ASSUME Edited!Patch(e) PROVE EditorInv'
  <2> DEFINE p == [x.sent EXCEPT !["groups"] = product["groups"]]
             y == [x EXCEPT !.saving = "put"]
  <2>1. x.sent \in Stored
    BY <1>1, <1>0, <1>3 DEF Edited!Patch, Edited!Saving, EditorSound
  <2>2. p \in Stored /\ p["text"] = x.sent["text"] /\ p["image"] = x.sent["image"]
    BY <1>2, <2>1, FieldIs DEF Stored
  <2>3. Edited!Write(p) /\ editor' = [editor EXCEPT ![e] = y] /\ editorLoads' = editorLoads
    BY <1>0, <1>3, <2>1 DEF Edited!Patch, Edited!Saving, Stored
  <2>4. \A f \in Edited!Field : stored'[f] = stored[f] \cup {p[f]}
    BY <2>3 DEF Edited!Write
  <2>5. EditorSound(y)'
    <3>1. EditorSound(x)'
      BY <1>1, <2>4, StaysStored
    <3>2. x.sent["text"] \in stored'["text"] /\ x.sent["image"] \in stored'["image"]
      BY <2>2, <2>4, FieldIs
    <3> HIDE DEF p
    <3> QED
      BY <1>1, <2>1, <3>1, <3>2 DEF EditorSound, EditorRow
  <2> HIDE DEF p, y
  <2> QED
    BY <2>2, <2>3, <2>5, WriteKeeps
<1>4. ASSUME Edited!DeleteGroups(e) PROVE EditorInv'
  <2> DEFINE p == [product EXCEPT !["groups"] = NoGroups]
             y == [x EXCEPT !.saving = "insert"]
  <2>1. p \in Stored
    BY <1>2 DEF Stored, Contents
  <2>2. /\ Edited!Write(p) /\ editor' = [editor EXCEPT ![e] = y] /\ editorLoads' = editorLoads
        /\ x.saving = "put"
    BY <1>2, <1>0, <1>4 DEF Edited!DeleteGroups, Edited!Saving, Stored
  <2>3. \A f \in Edited!Field : stored'[f] = stored[f] \cup {p[f]}
    BY <2>2 DEF Edited!Write
  <2>4. EditorSound(y)'
    <3>1. EditorSound(x)'
      BY <1>1, <2>3, StaysStored
    <3> HIDE DEF p
    <3> QED
      BY <1>1, <2>2, <3>1 DEF EditorSound, EditorRow
  <2> HIDE DEF p, y
  <2> QED
    BY <2>1, <2>2, <2>4, WriteKeeps
<1>5. ASSUME Edited!InsertGroups(e) PROVE EditorInv'
  <2> DEFINE p == [product EXCEPT !["groups"] = x.sent["groups"]]
             y == [x EXCEPT !.saving = "saved"]
  <2>1. x.saving = "insert" /\ x.sent \in Stored
    BY <1>1, <1>0, <1>5 DEF Edited!InsertGroups, Edited!Saving, EditorSound
  <2>2. p \in Stored /\ p["groups"] = x.sent["groups"]
    BY <1>2, <2>1, FieldIs DEF Stored
  <2>3. /\ Edited!Write(p) /\ editor' = [editor EXCEPT ![e] = y] /\ editorLoads' = editorLoads
    BY <1>2, <1>0, <1>5, <2>1 DEF Edited!InsertGroups, Edited!Saving, Stored
  <2>4. \A f \in Edited!Field : stored'[f] = stored[f] \cup {p[f]}
    BY <2>3 DEF Edited!Write
  <2>5. EditorSound(y)'
    <3>1. EditorSound(x)'
      BY <1>1, <2>4, StaysStored
    <3>2. x.sent["text"] \in stored'["text"] /\ x.sent["image"] \in stored'["image"]
      BY <2>1, <3>1 DEF EditorSound
    <3>3. x.sent["groups"] \in stored'["groups"]
      BY <2>2, <2>4, FieldIs
    <3>4. WasStored(x.sent)'
      BY <2>1, <3>2, <3>3, FieldIs DEF WasStored
    <3> HIDE DEF p
    <3> QED
      BY <1>1, <2>1, <3>1, <3>4 DEF EditorSound, EditorRow
  <2> HIDE DEF p, y
  <2> QED
    BY <2>2, <2>3, <2>5, WriteKeeps
<1>6. ASSUME Edited!StoreImage(e) PROVE EditorInv'
  <2> DEFINE p == [product EXCEPT !["image"] = x.image]
             y == [x EXCEPT !.uploading = "stored"]
  <2>1. x.uploading = "sent" /\ x.image \in Contents
    BY <1>1, <1>0, <1>6 DEF Edited!StoreImage, EditorRow
  <2>2. p \in Stored
    BY <1>2, <2>1 DEF Stored
  <2>3. /\ Edited!Write(p) /\ editor' = [editor EXCEPT ![e] = y] /\ editorLoads' = editorLoads
    BY <1>2, <1>0, <1>6, <2>1 DEF Edited!StoreImage, Stored
  <2>4. \A f \in Edited!Field : stored'[f] = stored[f] \cup {p[f]}
    BY <2>3 DEF Edited!Write
  <2>5. EditorSound(y)'
    <3>1. EditorSound(x)'
      BY <1>1, <2>4, StaysStored
    <3> HIDE DEF p
    <3> QED
      BY <1>1, <2>1, <3>1 DEF EditorSound, EditorRow
  <2> HIDE DEF p, y
  <2> QED
    BY <2>2, <2>3, <2>5, WriteKeeps
<1> QED
  BY <1>3, <1>4, <1>5, <1>6

LEMMA EditorStep == EditorInv /\ [SuiteNext]_suiteVars => EditorInv'
<1> SUFFICES ASSUME EditorInv, [SuiteNext]_suiteVars PROVE EditorInv'
  OBVIOUS
<1>1. CASE UNCHANGED editorVars
  <2>1. UNCHANGED <<product, stored, editor, editorLoads>>
    BY <1>1 DEF editorVars
  <2>2. LoadRow' = LoadRow /\ \A x : EditorSound(x)' <=> EditorSound(x)
    BY <2>1 DEF LoadRow, WasStored, EditorSound
  <2> QED
    BY <2>1, <2>2 DEF EditorInv, WasStored
<1>2. CASE Edited!Next
  BY <1>2, LoadsKeep, PageKeeps, ServerKeeps DEF Edited!Next
<1> QED
  BY <1>1, <1>2 DEF SuiteNext, suiteVars

\* A form without the mark of unsaved changes shows what was stored, field by field:
\* while loads, saves and images of several editors are under way, in whatever order
\* they are answered, and when they fail half-way (ProductEditor.tsx).
THEOREM CleanIsStored == SuiteSpec => []CleanWasStored
<1>1. SuiteInit => EditorInv
  BY EditorInit DEF SuiteInit
<1>2. EditorInv => CleanWasStored
  BY DEF EditorInv, EditorSound, WasStored, CleanWasStored, Edited!CleanWasStored, Edited!Filled, Edited!Dirty
<1> QED
  BY <1>1, <1>2, EditorStep, PTL DEF SuiteSpec

-----------------------------------------------------------------------------
(* The channels.  Every menu a source has is among those it was ever given *)
(* in one commit, and a copy under way has read one of the source it is of; *)
(* there is one copy at most, and what it makes is not there yet.          *)

CallFields == {"kind", "at", "next", "source", "from", "items", "wrote", "fields"}
Copying(x) == x.kind = "copy" /\ x.at \in {"sent", "read"}

CallSound(x) ==
  \/ x = Sources!NoCall
  \/ /\ DOMAIN x = CallFields
     /\ x.kind \in {"put", "patch", "copy"}
     /\ Copying(x) => x.source \in DOMAIN menus /\ NewSource \notin DOMAIN menus
     /\ Copying(x) /\ x.at = "read" => x.items \in written[x.source]

OneCopy == \A c, d \in Sources!Caller : call[c].kind = "copy" /\ call[d].kind = "copy" => c = d

ChannelsInv ==
  /\ DOMAIN call = Sources!Caller
  /\ \A c \in Sources!Caller : CallSound(call[c])
  /\ DOMAIN written = DOMAIN menus
  /\ \A s \in DOMAIN menus : menus[s] \in written[s]
  /\ OneCopy

NoneNew == DOMAIN menus' = DOMAIN menus

LEMMA ChannelsInit == Sources!Init => ChannelsInv
<1> SUFFICES ASSUME Sources!Init PROVE ChannelsInv
  OBVIOUS
<1>1. /\ DOMAIN call = Sources!Caller /\ \A c \in Sources!Caller : call[c] = Sources!NoCall
      /\ DOMAIN written = DOMAIN menus /\ \A s \in DOMAIN menus : menus[s] \in written[s]
  BY DEF Sources!Init
<1>2. OneCopy
  BY <1>1 DEF OneCopy, Sources!NoCall
<1> QED
  BY <1>1, <1>2 DEF ChannelsInv, CallSound

\* One caller's request changes, or a new one comes, and no menu.
LEMMA CallKeeps ==
  ASSUME ChannelsInv, NEW c \in Sources!Caller, NEW x, CallSound(x),
         x.kind = "copy" => \A d \in Sources!Caller \ {c} : call[d].kind # "copy",
         call' = [call EXCEPT ![c] = x], menus' = menus, written' = written
  PROVE  ChannelsInv' /\ NoneNew
<1>1. \A y : CallSound(y)' <=> CallSound(y)
  BY DEF CallSound
<1>2. OneCopy'
  BY DEF ChannelsInv, OneCopy
<1> QED
  BY <1>1, <1>2 DEF ChannelsInv, NoneNew

\* A request of the same kind.
LEMMA SameCallKeeps ==
  ASSUME ChannelsInv, NEW c \in Sources!Caller, NEW x, CallSound(x), x.kind = call[c].kind,
         call' = [call EXCEPT ![c] = x], menus' = menus, written' = written
  PROVE  ChannelsInv' /\ NoneNew
<1>1. x.kind = "copy" => \A d \in Sources!Caller \ {c} : call[d].kind # "copy"
  BY DEF ChannelsInv, OneCopy
<1> QED
  BY <1>1, CallKeeps

LEMMA CallIs ==
  ASSUME ChannelsInv, NEW c \in Sources!Caller, call[c].kind # "none"
  PROVE  DOMAIN call[c] = CallFields /\ call[c].kind \in {"put", "patch", "copy"} /\ CallSound(call[c])
BY DEF ChannelsInv, CallSound, Sources!NoCall

LEMMA NoCallKeeps ==
  ASSUME ChannelsInv, NEW c \in Sources!Caller, call' = [call EXCEPT ![c] = Sources!NoCall],
         menus' = menus, written' = written
  PROVE  ChannelsInv' /\ NoneNew
<1>1. CallSound(Sources!NoCall) /\ Sources!NoCall.kind # "copy"
  BY DEF CallSound, Sources!NoCall
<1> HIDE DEF Sources!NoCall
<1> QED
  BY <1>1, CallKeeps

\* A step of the server that ends no request of a menu's.
LEMMA ServeKeeps ==
  ASSUME ChannelsInv, NEW c \in Sources!Caller,
         \/ Sources!PutItem(c) \/ Sources!CopyRead(c) \/ Sources!PatchRead(c)
         \/ Sources!PatchWrite(c) \/ Sources!Fail(c)
  PROVE  ChannelsInv' /\ NoneNew
<1> DEFINE x == call[c]
<1>1. ASSUME Sources!PutItem(c) PROVE ChannelsInv' /\ NoneNew
  <2>1. x.kind = "put" /\ menus' = menus /\ written' = written
    BY <1>1 DEF Sources!PutItem, Sources!Is, Sources!MenusAfter
  <2>2. \E y : call' = [call EXCEPT ![c] = y] /\ DOMAIN y = DOMAIN x /\ y.kind = "put"
    <3>1. \E i :
            \/ call' = [call EXCEPT ![c].next = i + 1]
            \/ \E w : call' = [call EXCEPT ![c].next = i + 1, ![c].wrote = w]
      BY <1>1 DEF Sources!PutItem
    <3> QED
      BY <2>1, <3>1, CallIs DEF CallFields
  <2>3. PICK y : call' = [call EXCEPT ![c] = y] /\ DOMAIN y = DOMAIN x /\ y.kind = "put"
    BY <2>2
  <2>4. CallSound(y)
    BY <2>1, <2>3, CallIs DEF CallSound, Copying
  <2> QED
    BY <2>1, <2>3, <2>4, SameCallKeeps
<1>2. ASSUME Sources!CopyRead(c) PROVE ChannelsInv' /\ NoneNew
  <2> DEFINE y == [x EXCEPT !.at = "read", !.items = menus[x.source]]
  <2>1. x.kind = "copy" /\ x.at = "sent" /\ menus' = menus /\ written' = written /\ call' = [call EXCEPT ![c] = y]
    BY <1>2 DEF Sources!CopyRead, Sources!Is
  <2>2. DOMAIN x = CallFields /\ x.source \in DOMAIN menus /\ NewSource \notin DOMAIN menus
    BY <2>1, CallIs DEF CallSound, Copying, Sources!NoCall
  <2>3. /\ DOMAIN y = CallFields /\ y.kind = "copy" /\ y.source = x.source /\ y.at = "read"
        /\ y.items = menus[x.source]
    BY <2>1, <2>2 DEF CallFields
  <2>4. menus[x.source] \in written[x.source]
    BY <2>2 DEF ChannelsInv
  <2> HIDE DEF y
  <2>5. CallSound(y)
    BY <2>2, <2>3, <2>4 DEF CallSound, Copying
  <2> QED
    BY <2>1, <2>3, <2>5, SameCallKeeps
<1>3. ASSUME Sources!PatchRead(c) \/ Sources!PatchWrite(c) PROVE ChannelsInv' /\ NoneNew
  <2>1. PICK at : /\ x.kind = "patch" /\ menus' = menus /\ written' = written
                  /\ call' = [call EXCEPT ![c] = [x EXCEPT !.at = at]]
    BY <1>3 DEF Sources!PatchRead, Sources!PatchWrite, Sources!Is, Sources!At
  <2> DEFINE y == [x EXCEPT !.at = at]
  <2>2. DOMAIN y = CallFields /\ y.kind = "patch"
    BY <2>1, CallIs DEF CallFields
  <2>3. CallSound(y)
    BY <2>2 DEF CallSound, Copying
  <2> QED
    BY <2>1, <2>2, <2>3, SameCallKeeps
<1>4. ASSUME Sources!Fail(c) PROVE ChannelsInv' /\ NoneNew
  <2> DEFINE y == [x EXCEPT !.at = "failed", !.wrote = Sources!Nothing]
  <2>1. x.kind # "none" /\ menus' = menus /\ written' = written /\ call' = [call EXCEPT ![c] = y]
    BY <1>4 DEF Sources!Fail
  <2>2. DOMAIN y = CallFields /\ y.kind = x.kind /\ y.at = "failed" /\ x.kind \in {"put", "patch", "copy"}
    BY <2>1, CallIs DEF CallFields
  <2> HIDE DEF y
  <2>3. CallSound(y)
    BY <2>2 DEF CallSound, Copying
  <2> QED
    BY <2>1, <2>2, <2>3, SameCallKeeps
<1> QED
  BY <1>1, <1>2, <1>3, <1>4

LEMMA PutCommitKeeps ==
  ASSUME ChannelsInv, NEW c \in Sources!Caller, Sources!PutCommit(c)
  PROVE  ChannelsInv' /\ NoneNew
<1>1. PICK m : /\ menus' = [menus EXCEPT ![call[c].source] = m]
               /\ written' = [written EXCEPT ![call[c].source] = @ \cup {m}]
  BY DEF Sources!PutCommit
<1>2. DOMAIN menus' = DOMAIN menus /\ DOMAIN written' = DOMAIN written
      /\ \A s \in DOMAIN written : written[s] \subseteq written'[s]
  BY <1>1
<1>3. (\A s \in DOMAIN menus : menus[s] \in written[s])'
  BY <1>1 DEF ChannelsInv
<1>4. \A y : CallSound(y) => CallSound(y)'
  BY <1>2 DEF CallSound, ChannelsInv
<1> DEFINE x == call[c]
           y == [x EXCEPT !.at = "done", !.wrote = Sources!Nothing]
<1>5. x.kind = "put" /\ call' = [call EXCEPT ![c] = y]
  BY DEF Sources!PutCommit, Sources!Is
<1>6. DOMAIN y = CallFields /\ y.kind = "put"
  BY <1>5, CallIs DEF CallFields
<1>7. CallSound(y)
  BY <1>6 DEF CallSound, Copying
<1> HIDE DEF y
<1>8. (\A d \in Sources!Caller : CallSound(call[d]))' /\ DOMAIN call' = Sources!Caller
  BY <1>4, <1>5, <1>7 DEF ChannelsInv
<1>9. OneCopy'
  BY <1>5, <1>6 DEF ChannelsInv, OneCopy
<1> QED
  BY <1>2, <1>3, <1>8, <1>9 DEF ChannelsInv, NoneNew

\* A copy that commits has items that the source had at one commit.
LEMMA CopyCommitKeeps ==
  ASSUME ChannelsInv, NEW c \in Sources!Caller, Sources!CopyCommit(c)
  PROVE  /\ ChannelsInv'
         /\ \A s \in DOMAIN menus' \ DOMAIN menus :
              call[c].kind = "copy" /\ menus'[s] \in written[call[c].source]
<1> DEFINE x == call[c]
           y == [x EXCEPT !.at = "done"]
<1>1. /\ x.kind = "copy" /\ x.at = "read"
      /\ menus' = [s \in DOMAIN menus \cup {NewSource} |-> IF s = NewSource THEN x.items ELSE menus[s]]
      /\ written' = [s \in DOMAIN menus' |-> IF s = NewSource THEN {x.items} ELSE written[s]]
      /\ call' = [call EXCEPT ![c] = y]
  BY DEF Sources!CopyCommit, Sources!Is, Sources!At
<1>2. /\ DOMAIN x = CallFields /\ NewSource \notin DOMAIN menus
      /\ x.source \in DOMAIN menus /\ x.items \in written[x.source]
  BY <1>1, CallIs DEF CallSound, Copying, Sources!NoCall
<1>3. DOMAIN y = CallFields /\ y.kind = "copy" /\ y.at = "done"
  BY <1>1, <1>2 DEF CallFields
<1> HIDE DEF y
<1>4. \A d \in Sources!Caller \ {c} : call[d].kind # "copy" /\ call'[d] = call[d]
  BY <1>1 DEF ChannelsInv, OneCopy
<1>5. ASSUME NEW d \in Sources!Caller PROVE CallSound(call[d])'
  <2>1. CASE d = c
    BY <1>1, <1>3, <2>1 DEF CallSound, Copying, ChannelsInv
  <2>2. CASE d # c
    BY <1>4, <2>2 DEF CallSound, Copying, ChannelsInv
  <2> QED
    BY <2>1, <2>2
<1>6. OneCopy'
  BY <1>1, <1>4 DEF ChannelsInv, OneCopy
<1>7. DOMAIN written' = DOMAIN menus' /\ \A s \in DOMAIN menus' : menus'[s] \in written'[s]
  BY <1>1 DEF ChannelsInv
<1>8. DOMAIN call' = Sources!Caller
  BY <1>1 DEF ChannelsInv
<1>9. ChannelsInv'
  BY <1>5, <1>6, <1>7, <1>8 DEF ChannelsInv
<1>10. \A s \in DOMAIN menus' \ DOMAIN menus : menus'[s] = x.items
  BY <1>1
<1> QED
  BY <1>1, <1>2, <1>9, <1>10

\* A request that is sent.
LEMMA SendKeeps ==
  ASSUME ChannelsInv, NEW c \in Sources!Caller, NEW x, Sources!Send(c, x), menus' = menus, written' = written,
         \/ x.kind \in {"put", "patch"} /\ DOMAIN x = CallFields
         \/ \E s \in DOMAIN menus : x = Sources!RequestOf("copy", s) /\ Sources!CopyAllowed
  PROVE  ChannelsInv' /\ NoneNew
<1>1. call' = [call EXCEPT ![c] = x]
  BY DEF Sources!Send
<1>2. CASE x.kind \in {"put", "patch"} /\ DOMAIN x = CallFields
  <2>1. CallSound(x)
    BY <1>2 DEF CallSound, Copying
  <2> QED
    BY <1>1, <1>2, <2>1, CallKeeps
<1>3. CASE \E s \in DOMAIN menus : x = Sources!RequestOf("copy", s) /\ Sources!CopyAllowed
  <2>1. CallSound(x)
    BY <1>3 DEF CallSound, Copying, CallFields, Sources!RequestOf, Sources!CopyAllowed, Sources!Exists
  <2>2. \A d \in Sources!Caller : call[d].kind # "copy"
    BY <1>3 DEF Sources!CopyAllowed
  <2> QED
    BY <1>1, <2>1, <2>2, CallKeeps
<1> QED
  BY <1>2, <1>3

LEMMA RequestIs ==
  /\ \A s, items, from : Sources!PutRequest(s, items, from).kind = "put"
                         /\ DOMAIN Sources!PutRequest(s, items, from) = CallFields
  /\ \A s, fields : Sources!PatchRequest(s, fields).kind = "patch"
                    /\ DOMAIN Sources!PatchRequest(s, fields) = CallFields
BY DEF Sources!PutRequest, Sources!PatchRequest, Sources!RequestOf, CallFields

LEMMA CallersKeep ==
  ASSUME ChannelsInv,
         \/ \E c \in Other : Sources!OtherSends(c) \/ Sources!OtherAnswered(c)
         \/ Sources!PageStep \/ Sources!PageAnswered \/ Sources!PageFailed
         \/ \E i \in DOMAIN loads : Sources!LoadRead(i) \/ Sources!LoadEnds(i)
  PROVE  ChannelsInv' /\ NoneNew
<1>1. Page \in Sources!Caller /\ Other \subseteq Sources!Caller
  BY DEF Sources!Caller
<1>2. menus' = menus /\ written' = written
  BY DEF Sources!OtherSends, Sources!OtherAnswered, Sources!PageStep, Sources!Select, Sources!TypePrice,
         Sources!SaveMenu, Sources!SaveSource, Sources!CreateSource, Sources!PageSends,
         Sources!PageAnswered, Sources!PageFailed, Sources!LoadRead, Sources!LoadEnds
<1>3. ASSUME UNCHANGED call PROVE ChannelsInv' /\ NoneNew
  BY <1>2, <1>3 DEF ChannelsInv, NoneNew, CallSound, OneCopy
<1>4. ASSUME NEW c \in Other, Sources!OtherSends(c) PROVE ChannelsInv' /\ NoneNew
  <2>1. PICK x : /\ Sources!Send(c, x)
                 /\ \/ \E s, items, from : x = Sources!PutRequest(s, items, from)
                    \/ \E s, fields : x = Sources!PatchRequest(s, fields)
                    \/ \E s \in DOMAIN menus : x = Sources!RequestOf("copy", s) /\ Sources!CopyAllowed
    BY <1>4 DEF Sources!OtherSends
  <2> QED
    BY <1>1, <1>2, <2>1, RequestIs, SendKeeps
<1>5. ASSUME Sources!SaveMenu \/ (\E fields \in [Sources!Type -> BOOLEAN] : Sources!SaveSource(fields))
             \/ \E s \in DOMAIN menus : Sources!CreateSource(s)
      PROVE  ChannelsInv' /\ NoneNew
  <2>1. PICK x : /\ Sources!Send(Page, x)
                 /\ \/ \E s, items, from : x = Sources!PutRequest(s, items, from)
                    \/ \E s, fields : x = Sources!PatchRequest(s, fields)
                    \/ \E s \in DOMAIN menus : x = Sources!RequestOf("copy", s) /\ Sources!CopyAllowed
    BY <1>5 DEF Sources!SaveMenu, Sources!SaveSource, Sources!CreateSource, Sources!PageSends
  <2> QED
    BY <1>1, <1>2, <2>1, RequestIs, SendKeeps
<1>6. ASSUME \/ \E c \in Other : Sources!OtherAnswered(c)
             \/ Sources!PageAnswered \/ Sources!PageFailed
      PROVE  ChannelsInv' /\ NoneNew
  <2>1. PICK c \in Sources!Caller : call' = [call EXCEPT ![c] = Sources!NoCall]
    BY <1>1, <1>6 DEF Sources!OtherAnswered, Sources!PageAnswered, Sources!PageFailed
  <2> QED
    BY <1>2, <2>1, NoCallKeeps
<1>7. ASSUME \/ \E s \in DOMAIN menus : Sources!Select(s)
             \/ \E p \in Sources!Products : \E price \in Price : Sources!TypePrice(p, price)
             \/ \E i \in DOMAIN loads : Sources!LoadRead(i) \/ Sources!LoadEnds(i)
      PROVE  ChannelsInv' /\ NoneNew
  BY <1>3, <1>7 DEF Sources!Select, Sources!TypePrice, Sources!LoadRead, Sources!LoadEnds
<1> QED
  BY <1>4, <1>5, <1>6, <1>7 DEF Sources!PageStep

LEMMA ChannelsStep ==
  ASSUME ChannelsInv, Sources!Next
  PROVE  /\ ChannelsInv'
         /\ \A s \in DOMAIN menus' \ DOMAIN menus :
              \E c \in Sources!Caller : call[c].kind = "copy" /\ menus'[s] \in written[call[c].source]
BY ServeKeeps, PutCommitKeeps, CopyCommitKeeps, CallersKeep DEF Sources!Next, Sources!Serve, NoneNew

LEMMA ChannelsSuiteStep ==
  ChannelsInv /\ [SuiteNext]_suiteVars =>
    /\ ChannelsInv'
    /\ \A s \in DOMAIN menus' \ DOMAIN menus :
         \E c \in Sources!Caller : call[c].kind = "copy" /\ menus'[s] \in written[call[c].source]
<1> SUFFICES ASSUME ChannelsInv, [SuiteNext]_suiteVars
             PROVE  /\ ChannelsInv'
                    /\ \A s \in DOMAIN menus' \ DOMAIN menus :
                         \E c \in Sources!Caller : call[c].kind = "copy" /\ menus'[s] \in written[call[c].source]
  OBVIOUS
<1>1. CASE UNCHANGED channelsVars
  BY <1>1 DEF channelsVars, ChannelsInv, CallSound, OneCopy
<1>2. CASE Sources!Next
  BY <1>2, ChannelsStep
<1> QED
  BY <1>1, <1>2 DEF SuiteNext, suiteVars

\* A new source starts with a menu the other had at one commit, whatever is written to
\* it meanwhile (orderSources.ts).
THEOREM CopiesAreWhole == SuiteSpec => CopiedWhole
<1>1. SuiteInit => ChannelsInv
  BY ChannelsInit DEF SuiteInit
<1>2. ChannelsInv /\ [SuiteNext]_suiteVars =>
        /\ ChannelsInv'
        /\ [\A s \in DOMAIN menus' \ DOMAIN menus : \E c \in Sources!Caller :
              call[c].kind = "copy" /\ menus'[s] \in written[call[c].source]]_(Sources!vars)
  BY ChannelsSuiteStep
<1> QED
  BY <1>1, <1>2, PTL DEF SuiteSpec, CopiedWhole, Sources!CopiedWhole
=============================================================================
