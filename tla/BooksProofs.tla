---------------------------- MODULE BooksProofs -----------------------------
(***************************************************************************)
(* What holds of stock and of its value in the books for any constants:    *)
(* stock never goes negative, transactions with a row lock do what atomic  *)
(* movements do, and a posted event has taken exactly what was asked; an   *)
(* opening of a dialog moves stock once; the books stay at the value of    *)
(* stock through settlements, reversals and locked periods.                *)
(***************************************************************************)
EXTENDS MCBooks, Sums, TLAPS

-----------------------------------------------------------------------------
(* Rounding and balances.                                                  *)

\* Rounding keeps the sign, and rounds halves of either sign alike.
LEMMA DivideSign ==
  ASSUME NEW n \in Int, NEW d \in Nat \ {0}
  PROVE  /\ DivideRounded(n, d) \in Int
         /\ n >= 0 => DivideRounded(n, d) >= 0
         /\ DivideRounded(-n, d) = -DivideRounded(n, d)
<1>1. 2 * d \in Nat \ {0} /\ 2 * n + d \in Int /\ 2 * (-n) + d \in Int
  OBVIOUS
<1>2. (2 * n + d) \div (2 * d) \in Int /\ (2 * (-n) + d) \div (2 * d) \in Int
  BY <1>1
<1>3. n = 0 => d \div (2 * d) = 0
  OBVIOUS
<1>4. n >= 0 => (2 * n + d) \div (2 * d) >= 0
  <2> DEFINE a == 2 * n + d
             b == 2 * d
  <2>1. n >= 0 => a >= 0 /\ a \in Int /\ b \in Nat \ {0}
    OBVIOUS
  <2> HIDE DEF a, b
  <2>2. n >= 0 => a \div b >= 0
    BY <2>1
  <2> QED
    BY <2>2 DEF a, b
<1> QED
  BY <1>2, <1>3, <1>4 DEF DivideRounded

\* Stock that is worth something has an average that is not negative.
LEMMA AverageType ==
  ASSUME ValuationAssumption, NEW balance, balance.quantity \in Int, balance.value \in Nat
  PROVE  averageUnitCost(balance) \in Nat
<1>1. CASE balance.quantity <= 0
  BY <1>1 DEF averageUnitCost
<1>2. CASE ~(balance.quantity <= 0)
  <2>1. balance.value * Unit \in Nat
    BY DEF ValuationAssumption
  <2>2. DivideRounded(balance.value * Unit, balance.quantity) \in Nat
    BY <1>2, <2>1, DivideSign
  <2> QED
    BY <1>2, <2>2 DEF averageUnitCost
<1> QED
  BY <1>1, <1>2

\* The movements of an item at a location.
Here(mv, l, i) == {k \in DOMAIN mv : mv[k].location = l /\ mv[k].item = i}

Movements(mv) ==
  /\ IsFiniteSet(DOMAIN mv)
  /\ \A k \in DOMAIN mv : mv[k].quantity \in Int /\ mv[k].value \in Int /\ mv[k].cost \in Nat

\* A balance is made of integers.
LEMMA BalanceType ==
  ASSUME NEW mv, Movements(mv), NEW l, NEW i
  PROVE  /\ BalanceOf(mv, l, i).quantity \in Int
         /\ BalanceOf(mv, l, i).value \in Int
<1> DEFINE here == Here(mv, l, i)
           q == [k \in here |-> mv[k].quantity]
           v == [k \in here |-> mv[k].value]
<1>1. IsFiniteSet(here)
  BY FS_Subset DEF Here, Movements
<1>2. \A k \in here : q[k] \in Int /\ v[k] \in Int
  BY DEF Here, Movements
<1>3. BalanceOf(mv, l, i) = [quantity |-> SumFunctionOnSet(q, here), value |-> SumFunctionOnSet(v, here)]
  BY DEF BalanceOf, SumFunction, Here
<1> HIDE DEF here, q, v
<1>4. SumFunctionOnSet(q, here) \in Int /\ SumFunctionOnSet(v, here) \in Int
  BY <1>1, <1>2, SumType
<1> QED
  BY <1>3, <1>4

\* Movements of other items or elsewhere leave a balance alone.
LEMMA BalanceFrame ==
  ASSUME NEW mv, NEW nv, NEW l, NEW i, Here(nv, l, i) = Here(mv, l, i),
         \A k \in Here(mv, l, i) : nv[k] = mv[k]
  PROVE  BalanceOf(nv, l, i) = BalanceOf(mv, l, i)
<1> DEFINE here == Here(mv, l, i)
<1>1. /\ [k \in here |-> nv[k].quantity] = [k \in here |-> mv[k].quantity]
      /\ [k \in here |-> nv[k].value] = [k \in here |-> mv[k].value]
  OBVIOUS
<1>2. BalanceOf(mv, l, i) = [quantity |-> SumFunction([k \in here |-> mv[k].quantity]),
                             value |-> SumFunction([k \in here |-> mv[k].value])]
  BY DEF BalanceOf, Here
<1>3. BalanceOf(nv, l, i) = [quantity |-> SumFunction([k \in here |-> nv[k].quantity]),
                             value |-> SumFunction([k \in here |-> nv[k].value])]
  BY DEF BalanceOf, Here
<1> QED
  BY <1>1, <1>2, <1>3

\* A new movement adds its quantity and its value to the balance of its item at
\* its location, and to no other.
LEMMA BalanceAdds ==
  ASSUME NEW mv, Movements(mv), NEW nv, NEW k, k \notin DOMAIN mv,
         DOMAIN nv = DOMAIN mv \cup {k}, \A j \in DOMAIN mv : nv[j] = mv[j],
         nv[k].quantity \in Int, nv[k].value \in Int, nv[k].cost \in Nat
  PROVE  /\ Movements(nv)
         /\ \A l, i : (l # nv[k].location \/ i # nv[k].item) =>
              BalanceOf(nv, l, i) = BalanceOf(mv, l, i)
         /\ \A l, i : (l = nv[k].location /\ i = nv[k].item) =>
              /\ BalanceOf(nv, l, i).quantity = BalanceOf(mv, l, i).quantity + nv[k].quantity
              /\ BalanceOf(nv, l, i).value = BalanceOf(mv, l, i).value + nv[k].value
<1>1. Movements(nv)
  <2>1. IsFiniteSet(DOMAIN nv)
    BY FS_AddElement DEF Movements
  <2>2. \A j \in DOMAIN nv : nv[j].quantity \in Int /\ nv[j].value \in Int /\ nv[j].cost \in Nat
    BY DEF Movements
  <2> QED
    BY <2>1, <2>2 DEF Movements
<1>2. ASSUME NEW l, NEW i, l # nv[k].location \/ i # nv[k].item
      PROVE  BalanceOf(nv, l, i) = BalanceOf(mv, l, i)
  <2>1. Here(nv, l, i) = Here(mv, l, i) /\ \A j \in Here(mv, l, i) : nv[j] = mv[j]
    BY <1>2 DEF Here
  <2> QED
    BY <2>1, BalanceFrame
<1>3. ASSUME NEW l, NEW i, l = nv[k].location, i = nv[k].item
      PROVE  /\ BalanceOf(nv, l, i).quantity = BalanceOf(mv, l, i).quantity + nv[k].quantity
             /\ BalanceOf(nv, l, i).value = BalanceOf(mv, l, i).value + nv[k].value
  <2> DEFINE here == Here(mv, l, i)
             there == Here(nv, l, i)
             q == [j \in here |-> mv[j].quantity]
             v == [j \in here |-> mv[j].value]
             nq == [j \in there |-> nv[j].quantity]
             nw == [j \in there |-> nv[j].value]
  <2>1. k \in there /\ there \ {k} = here
    BY <1>3 DEF Here
  <2>2. IsFiniteSet(here) /\ IsFiniteSet(there)
    <3>1. here \subseteq DOMAIN mv /\ there \subseteq DOMAIN nv
      BY DEF Here
    <3> QED
      BY <1>1, <3>1, FS_Subset DEF Movements
  <2>3. \A j \in there : nq[j] \in Int /\ nw[j] \in Int
    BY <1>1 DEF Here, Movements
  <2>4. \A j \in here : nq[j] = q[j] /\ nw[j] = v[j]
    BY <2>1 DEF Here
  <2>5. nq[k] = nv[k].quantity /\ nw[k] = nv[k].value
    BY <2>1
  <2>6. BalanceOf(mv, l, i) = [quantity |-> SumFunctionOnSet(q, here), value |-> SumFunctionOnSet(v, here)]
    BY DEF BalanceOf, SumFunction, Here
  <2>7. BalanceOf(nv, l, i) = [quantity |-> SumFunctionOnSet(nq, there), value |-> SumFunctionOnSet(nw, there)]
    BY DEF BalanceOf, SumFunction, Here
  <2>8. SumFunctionOnSet(q, here) \in Int /\ SumFunctionOnSet(v, here) \in Int
    <3>1. BalanceOf(mv, l, i).quantity \in Int /\ BalanceOf(mv, l, i).value \in Int
      BY BalanceType
    <3> HIDE DEF q, v, here
    <3> QED
      BY <2>6, <3>1
  <2> HIDE DEF here, there, q, v, nq, nw
  <2>9. /\ SumFunctionOnSet(nq, there) = nq[k] + SumFunctionOnSet(nq, here)
        /\ SumFunctionOnSet(nw, there) = nw[k] + SumFunctionOnSet(nw, here)
    BY <2>1, <2>2, <2>3, SumTakeOut
  <2>10. SumFunctionOnSet(nq, here) = SumFunctionOnSet(q, here) /\ SumFunctionOnSet(nw, here) = SumFunctionOnSet(v, here)
    BY <2>2, <2>4, SumSame
  <2>11. BalanceOf(mv, l, i).quantity = SumFunctionOnSet(q, here) /\ BalanceOf(mv, l, i).value = SumFunctionOnSet(v, here)
    BY <2>6
  <2>12. BalanceOf(nv, l, i).quantity = SumFunctionOnSet(nq, there) /\ BalanceOf(nv, l, i).value = SumFunctionOnSet(nw, there)
    BY <2>7
  <2> QED
    BY <2>5, <2>8, <2>9, <2>10, <2>11, <2>12
<1> QED
  BY <1>1, <1>2, <1>3

-----------------------------------------------------------------------------
(* What a transaction writes.                                              *)

RequestTyped(r) ==
  /\ r.kind \in Kind /\ r.location \in Location /\ r.to \in Location /\ r.item \in Item
  /\ r.quantity \in Int /\ r.cost \in Nat \cup {NoCost}
  /\ Valid(r)

\* A transaction that holds the lock of its item has read the balance as it still
\* is, because nobody else holds that lock.
LockedIsFresh ==
  \A p \in Process : seen[p] # <<>> =>
    /\ tx[p] # <<>>
    /\ seen[p] = BalanceOf(moves, tx[p].location, tx[p].item)
    /\ \A q \in Process \ {p} : seen[q] # <<>> => tx[q].item # tx[p].item

StockInv ==
  /\ Movements(moves)
  /\ NonNegative
  /\ tx = [p \in Process |-> tx[p]] /\ seen = [p \in Process |-> seen[p]]
  /\ \A p \in Process : tx[p] # <<>> => RequestTyped(tx[p])
  /\ LockedIsFresh

\* m is priced as a movement of its kind must be, and leaves nothing negative.
PricedAgainst(m, balance) ==
  /\ m.quantity \in Int \ {0} /\ m.value \in Int /\ m.cost \in Nat
  /\ m.value = valueFromQuantity(m.quantity, m.cost)
  /\ m.quantity < 0 => m.cost = averageUnitCost(balance)
  /\ balance.quantity + m.quantity >= 0
  /\ balance.value + m.value >= 0

\* m goes in under the new key k.
Inserts(k, m) == k \notin DOMAIN moves /\ moves' = With(moves, k, m)

\* What a transaction holds under its lock is the balance, and not negative.
LEMMA SeenBalance ==
  ASSUME ValuationAssumption, StockInv, NEW p \in Process, seen[p] # <<>>
  PROVE  /\ RequestTyped(tx[p])
         /\ seen[p] = BalanceOf(moves, tx[p].location, tx[p].item)
         /\ seen[p].quantity \in Nat /\ seen[p].value \in Nat
         /\ averageUnitCost(seen[p]) \in Nat
<1>1. RequestTyped(tx[p]) /\ seen[p] = BalanceOf(moves, tx[p].location, tx[p].item)
  BY DEF StockInv, LockedIsFresh
<1>2. seen[p].quantity \in Int /\ seen[p].value \in Int
  BY <1>1, BalanceType DEF StockInv
<1>3. seen[p].quantity >= 0 /\ seen[p].value >= 0
  BY <1>1 DEF StockInv, NonNegative, RequestTyped
<1> QED
  BY <1>1, <1>2, <1>3, AverageType

\* The fields of a movement, worth its quantity at its unit cost.
LEMMA MovementPriced ==
  ASSUME ValuationAssumption, NEW r, RequestTyped(r), NEW quantity \in Int, NEW cost \in Nat,
         NEW location
  PROVE  LET m == MovementOf(r, location, quantity, cost)
         IN /\ m.location = location /\ m.item = r.item
            /\ m.quantity = quantity /\ m.cost = cost
            /\ m.value = valueFromQuantity(quantity, cost) /\ m.value \in Int
<1>1. quantity * cost \in Int
  OBVIOUS
<1>2. valueFromQuantity(quantity, cost) \in Int
  BY <1>1, DivideSign DEF valueFromQuantity, ValuationAssumption
<1> QED
  BY <1>2 DEF MovementOf

\* Every write but a transfer's adds one movement that is priced as it must be, or,
\* for a count that changes nothing, none.
LEMMA WritesOne ==
  ASSUME ValuationAssumption, StockInv, NEW p \in Process, Write(p), tx[p].kind # "transfer"
  PROVE  \/ moves' = moves
         \/ \E k, m : /\ Inserts(k, m)
                      /\ m.location = tx[p].location /\ m.item = tx[p].item
                      /\ PricedAgainst(m, seen[p])
<1> DEFINE r == tx[p]
           balance == seen[p]
           q == Quantity(r, balance)
<1>1. /\ RequestTyped(r)
      /\ balance.quantity \in Nat /\ balance.value \in Nat
      /\ averageUnitCost(balance) \in Nat
  BY SeenBalance DEF Write
<1>2. q \in Int
  BY <1>1 DEF Quantity, RequestTyped
<1>3. CASE r.kind = "count"
  <2> DEFINE m == MovementOf(r, r.location, q, averageUnitCost(balance))
  <2>1. WriteCount(r, balance)
    BY <1>3 DEF Write
  <2>2. CASE q = 0
    BY <2>1, <2>2 DEF WriteCount
  <2>3. CASE q # 0
    <3>1. Accepts(m, r, balance) /\ Insert(MoveKey(r), m)
      BY <2>1, <2>3 DEF WriteCount
    <3>2. /\ m.location = r.location /\ m.item = r.item
          /\ m.quantity = q /\ m.cost = averageUnitCost(balance)
          /\ m.value = valueFromQuantity(q, averageUnitCost(balance)) /\ m.value \in Int
      BY <1>1, <1>2, MovementPriced
    <3> HIDE DEF m, q
    <3>3. PricedAgainst(m, balance)
      BY <1>1, <1>2, <2>3, <3>1, <3>2 DEF PricedAgainst, Accepts
    <3> QED
      BY <3>1, <3>2, <3>3 DEF Insert, Inserts
  <2> QED
    BY <2>2, <2>3
<1>4. CASE r.kind # "count"
  <2> DEFINE c == UnitCost(r, q, balance)
             m == MovementOf(r, r.location, q, c)
  <2>1. WriteMovement(r, balance)
    BY <1>4 DEF Write
  <2>2. Accepts(m, r, balance) /\ Insert(MoveKey(r), m)
    BY <2>1 DEF WriteMovement
  <2>3. c \in Nat /\ (q < 0 => c = averageUnitCost(balance))
    BY <1>1, <1>2 DEF UnitCost, RequestTyped
  <2>4. q # 0
    BY <1>1, <1>4 DEF Quantity, RequestTyped, Valid, Kind
  <2>5. /\ m.location = r.location /\ m.item = r.item
        /\ m.quantity = q /\ m.cost = c
        /\ m.value = valueFromQuantity(q, c) /\ m.value \in Int
    BY <1>1, <1>2, <2>3, MovementPriced
  <2> HIDE DEF m, q, c
  <2>6. PricedAgainst(m, balance)
    BY <1>1, <1>2, <2>2, <2>3, <2>4, <2>5 DEF PricedAgainst, Accepts
  <2> QED
    BY <2>2, <2>5, <2>6 DEF Insert, Inserts
<1> QED
  BY <1>3, <1>4

\* A transfer moves quantity and value between two locations at once.
LEMMA WritesTwo ==
  ASSUME ValuationAssumption, StockInv, NEW p \in Process, Write(p), tx[p].kind = "transfer"
  PROVE  \E k, j, out, in :
           /\ k # j /\ k \notin DOMAIN moves /\ j \notin DOMAIN moves
           /\ moves' = With(With(moves, j, in), k, out)
           /\ out.location = tx[p].location /\ in.location = tx[p].to /\ tx[p].to # tx[p].location
           /\ out.item = tx[p].item /\ in.item = tx[p].item
           /\ PricedAgainst(out, seen[p])
           /\ PricedAgainst(in, BalanceOf(moves, tx[p].to, tx[p].item))
           /\ out.quantity + in.quantity = 0 /\ out.value + in.value = 0
<1> DEFINE r == tx[p]
           balance == seen[p]
           c == averageUnitCost(balance)
           out == MovementOf(r, r.location, -r.quantity, c)
           in == MovementOf(r, r.to, r.quantity, c)
           there == BalanceOf(moves, r.to, r.item)
<1>1. /\ RequestTyped(r)
      /\ balance.quantity \in Nat /\ balance.value \in Nat
      /\ c \in Nat
  BY SeenBalance DEF Write
<1>2. r.quantity \in Nat \ {0} /\ -r.quantity \in Int /\ r.to # r.location
  BY <1>1 DEF RequestTyped, Valid
<1>3. /\ out.location = r.location /\ out.item = r.item
      /\ out.quantity = -r.quantity /\ out.cost = c
      /\ out.value = valueFromQuantity(-r.quantity, c) /\ out.value \in Int
  BY <1>1, <1>2, MovementPriced
<1>4. /\ in.location = r.to /\ in.item = r.item
      /\ in.quantity = r.quantity /\ in.cost = c
      /\ in.value = valueFromQuantity(r.quantity, c) /\ in.value \in Int
  BY <1>1, <1>2, MovementPriced
<1>5. valueFromQuantity(-r.quantity, c) = -valueFromQuantity(r.quantity, c)
      /\ valueFromQuantity(r.quantity, c) >= 0
  <2> DEFINE n == r.quantity * c
  <2>1. n \in Nat /\ (-r.quantity) * c = -n
    BY <1>1, <1>2
  <2> HIDE DEF n
  <2>2. DivideRounded(-n, Unit) = -DivideRounded(n, Unit) /\ DivideRounded(n, Unit) >= 0
    BY <2>1, DivideSign DEF ValuationAssumption
  <2> QED
    BY <2>1, <2>2 DEF valueFromQuantity, n
<1>6. /\ Accepts(out, r, balance)
      /\ <<r.key, "in">> \notin DOMAIN moves /\ <<r.key, "out">> \notin DOMAIN moves
      /\ moves' = With(With(moves, <<r.key, "in">>, in), <<r.key, "out">>, out)
  <2>1. WriteTransfer(r, balance)
    BY DEF Write
  <2>2. CostOfArrival(out, r) = c
    BY <1>3 DEF CostOfArrival
  <2> QED
    BY <2>1, <2>2 DEF WriteTransfer
<1>7. there.quantity \in Nat /\ there.value \in Nat
  <2>1. there.quantity \in Int /\ there.value \in Int
    BY BalanceType DEF StockInv
  <2>2. there.quantity >= 0 /\ there.value >= 0
    BY <1>1 DEF StockInv, NonNegative, RequestTyped
  <2> QED
    BY <2>1, <2>2
<1>0. c = averageUnitCost(balance) /\ Accepts(out, r, balance) /\ -r.quantity \in Int \ {0}
  BY <1>2, <1>6
<1> HIDE DEF out, in, there, c, balance, r
<1>8. PricedAgainst(out, balance)
  BY <1>0, <1>1, <1>3 DEF PricedAgainst, Accepts
<1>9. PricedAgainst(in, there)
  BY <1>1, <1>2, <1>4, <1>5, <1>7 DEF PricedAgainst
<1>10. <<r.key, "out">> # <<r.key, "in">>
  OBVIOUS
<1> QED
  BY <1>2, <1>3, <1>4, <1>5, <1>6, <1>8, <1>9, <1>10 DEF there, r, balance

-----------------------------------------------------------------------------
(* What it does to the stock.                                              *)

\* What is priced so is sound in the ledger.
LEMMA PricedIsSound ==
  ASSUME NEW m, PricedAgainst(m, BalanceOf(moves, m.location, m.item))
  PROVE  SL!Sound(m)
BY DEF PricedAgainst, SL!Sound, SL!Balance

\* One movement more: a step of the stock ledger, no balance negative, and the
\* balances of other items as they were.
LEMMA OneMore ==
  ASSUME StockInv, NEW k, NEW m, Inserts(k, m), PricedAgainst(m, BalanceOf(moves, m.location, m.item))
  PROVE  /\ SL!Next
         /\ Movements(moves)'
         /\ NonNegative'
         /\ \A l \in Location, i \in Item : i # m.item => BalanceOf(moves, l, i)' = BalanceOf(moves, l, i)
<1> DEFINE there == BalanceOf(moves, m.location, m.item)
<1>1. /\ DOMAIN moves' = DOMAIN moves \cup {k}
      /\ moves'[k] = m
      /\ \A j \in DOMAIN moves : moves'[j] = moves[j]
      /\ k \notin DOMAIN moves
  BY DEF Inserts, With
<1>2. Movements(moves)
  BY DEF StockInv
<1>3. m.quantity \in Int /\ m.value \in Int /\ m.cost \in Nat
  BY DEF PricedAgainst
<1>4. /\ Movements(moves')
      /\ \A l, i : (l # m.location \/ i # m.item) => BalanceOf(moves', l, i) = BalanceOf(moves, l, i)
      /\ \A l, i : (l = m.location /\ i = m.item) =>
              /\ BalanceOf(moves', l, i).quantity = BalanceOf(moves, l, i).quantity + m.quantity
              /\ BalanceOf(moves', l, i).value = BalanceOf(moves, l, i).value + m.value
  BY <1>1, <1>2, <1>3, BalanceAdds
<1>5. SL!Next
  <2>1. SL!New = {k}
    BY <1>1 DEF SL!New
  <2>2. SL!Sound(moves'[k])
    BY <1>1, PricedIsSound
  <2>3. \A j \in DOMAIN moves : j \in DOMAIN moves' /\ moves'[j] = moves[j]
    BY <1>1
  <2> QED
    BY <2>1, <2>2, <2>3 DEF SL!Next, SL!Append
<1>6. NonNegative'
  <2> SUFFICES ASSUME NEW l \in Location, NEW i \in Item
               PROVE  BalanceOf(moves', l, i).quantity >= 0 /\ BalanceOf(moves', l, i).value >= 0
    BY DEF NonNegative
  <2>1. CASE l = m.location /\ i = m.item
    BY <1>4, <2>1 DEF PricedAgainst
  <2>2. CASE ~(l = m.location /\ i = m.item)
    BY <1>4, <2>2 DEF StockInv, NonNegative
  <2> QED
    BY <2>1, <2>2
<1> QED
  BY <1>4, <1>5, <1>6

\* The two movements of a transfer.
LEMMA TwoMore ==
  ASSUME StockInv, NEW k, NEW j, NEW out, NEW in,
         k # j, k \notin DOMAIN moves, j \notin DOMAIN moves,
         moves' = With(With(moves, j, in), k, out),
         out.item = in.item, out.location # in.location,
         PricedAgainst(out, BalanceOf(moves, out.location, out.item)),
         PricedAgainst(in, BalanceOf(moves, in.location, in.item)),
         out.quantity + in.quantity = 0, out.value + in.value = 0
  PROVE  /\ SL!Next
         /\ Movements(moves)'
         /\ NonNegative'
         /\ \A l \in Location, i \in Item : i # out.item => BalanceOf(moves, l, i)' = BalanceOf(moves, l, i)
<1> DEFINE between == With(moves, j, in)
<1>1. /\ DOMAIN between = DOMAIN moves \cup {j}
      /\ between[j] = in
      /\ \A h \in DOMAIN moves : between[h] = moves[h]
  BY DEF With
<1>2. /\ DOMAIN moves' = DOMAIN between \cup {k}
      /\ moves'[k] = out
      /\ \A h \in DOMAIN between : moves'[h] = between[h]
      /\ k \notin DOMAIN between
  <2>1. moves' = With(between, k, out)
    OBVIOUS
  <2>2. k \notin DOMAIN between
    BY <1>1
  <2> HIDE DEF between
  <2> QED
    BY <2>1, <2>2 DEF With
<1> HIDE DEF between
<1>3. Movements(moves)
  BY DEF StockInv
<1>4. /\ out.quantity \in Int /\ out.value \in Int /\ out.cost \in Nat
      /\ in.quantity \in Int /\ in.value \in Int /\ in.cost \in Nat
  BY DEF PricedAgainst
<1>5. /\ Movements(between)
      /\ \A l, i : (l # in.location \/ i # in.item) => BalanceOf(between, l, i) = BalanceOf(moves, l, i)
      /\ \A l, i : (l = in.location /\ i = in.item) =>
              /\ BalanceOf(between, l, i).quantity = BalanceOf(moves, l, i).quantity + in.quantity
              /\ BalanceOf(between, l, i).value = BalanceOf(moves, l, i).value + in.value
  BY <1>1, <1>3, <1>4, BalanceAdds
<1>6. /\ Movements(moves')
      /\ \A l, i : (l # out.location \/ i # out.item) => BalanceOf(moves', l, i) = BalanceOf(between, l, i)
      /\ \A l, i : (l = out.location /\ i = out.item) =>
              /\ BalanceOf(moves', l, i).quantity = BalanceOf(between, l, i).quantity + out.quantity
              /\ BalanceOf(moves', l, i).value = BalanceOf(between, l, i).value + out.value
  BY <1>2, <1>4, <1>5, BalanceAdds
<1>7. SL!Next
  <2>1. SL!New = {k, j}
    BY <1>1, <1>2 DEF SL!New
  <2>2. moves'[k] = out /\ moves'[j] = in
    BY <1>1, <1>2
  <2>3. SL!Sound(out) /\ SL!Sound(in)
    BY PricedIsSound
  <2>4. SL!Transfer(k, j)
    BY <2>1, <2>2, <2>3 DEF SL!Transfer
  <2>5. \A h \in DOMAIN moves : h \in DOMAIN moves' /\ moves'[h] = moves[h]
    BY <1>1, <1>2
  <2> QED
    BY <2>1, <2>4, <2>5 DEF SL!Next
<1>8. NonNegative'
  <2> SUFFICES ASSUME NEW l \in Location, NEW i \in Item
               PROVE  BalanceOf(moves', l, i).quantity >= 0 /\ BalanceOf(moves', l, i).value >= 0
    BY DEF NonNegative
  <2>1. CASE l = out.location /\ i = out.item
    BY <1>5, <1>6, <2>1 DEF PricedAgainst
  <2>2. CASE l = in.location /\ i = in.item
    BY <1>5, <1>6, <2>2 DEF PricedAgainst
  <2>3. CASE ~(l = out.location /\ i = out.item) /\ ~(l = in.location /\ i = in.item)
    BY <1>5, <1>6, <2>3 DEF StockInv, NonNegative
  <2> QED
    BY <2>1, <2>2, <2>3
<1> QED
  BY <1>5, <1>6, <1>7, <1>8

\* Each step of a transaction keeps the stock sound, keeps what was stored, and is
\* a step of the ledger or none.
Kept == StockInv' /\ DOMAIN moves \subseteq DOMAIN moves' /\ (SL!Next \/ moves' = moves)

\* A request is taken up.
LEMMA AskKeeps ==
  ASSUME StockInv, NEW p \in Process, NEW r, Valid(r) => RequestTyped(r), Ask(p, r)
  PROVE  Kept
<1>1. /\ moves' = moves /\ seen' = seen
      /\ tx'[p] = r /\ \A q \in Process \ {p} : tx'[q] = tx[q]
      /\ tx' = [q \in Process |-> tx'[q]]
      /\ tx[p] = <<>>
  BY DEF Ask, stock, StockInv
<1>2. RequestTyped(r) /\ seen[p] = <<>>
  BY <1>1 DEF Ask, StockInv, LockedIsFresh
<1>3. Movements(moves)' /\ NonNegative'
  BY <1>1 DEF StockInv, NonNegative
<1>4. LockedIsFresh'
  BY <1>1, <1>2 DEF StockInv, LockedIsFresh
<1>5. (\A q \in Process : tx[q] # <<>> => RequestTyped(tx[q]))'
  BY <1>1, <1>2 DEF StockInv, RequestTyped, Valid
<1>6. (seen = [q \in Process |-> seen[q]])'
  BY <1>1 DEF StockInv
<1> QED
  BY <1>1, <1>3, <1>4, <1>5, <1>6 DEF Kept, StockInv

\* A transaction gets the lock of its item and reads the balance.
LEMMA LockKeeps ==
  ASSUME StockInv, NEW p \in Process, Lock(p)
  PROVE  Kept
<1>1. /\ moves' = moves /\ tx' = tx
      /\ tx[p] # <<>>
      /\ seen'[p] = BalanceOf(moves, tx[p].location, tx[p].item)
      /\ \A q \in Process \ {p} : seen'[q] = seen[q]
      /\ seen' = [q \in Process |-> seen'[q]]
      /\ \A q \in Process : seen[q] # <<>> => tx[q].item # tx[p].item
  BY DEF Lock, stock, StockInv, ItemFree
<1>2. Movements(moves)' /\ NonNegative'
  BY <1>1 DEF StockInv, NonNegative
<1>3. LockedIsFresh'
  BY <1>1 DEF StockInv, LockedIsFresh
<1>4. (\A q \in Process : tx[q] # <<>> => RequestTyped(tx[q]))'
  BY <1>1 DEF StockInv, RequestTyped, Valid
<1>5. (tx = [q \in Process |-> tx[q]])'
  BY <1>1 DEF StockInv
<1> QED
  BY <1>1, <1>2, <1>3, <1>4, <1>5 DEF Kept, StockInv

\* p is through, and the balances that others have read are as they were.
LEMMA CloseKeeps ==
  ASSUME StockInv, NEW p \in Process, Close(p), Movements(moves)', NonNegative',
         \A q \in Process \ {p} : seen[q] # <<>> =>
           BalanceOf(moves', tx[q].location, tx[q].item) = BalanceOf(moves, tx[q].location, tx[q].item)
  PROVE  StockInv'
<1>1. /\ tx'[p] = <<>> /\ seen'[p] = <<>>
      /\ \A q \in Process \ {p} : tx'[q] = tx[q] /\ seen'[q] = seen[q]
      /\ tx' = [q \in Process |-> tx'[q]] /\ seen' = [q \in Process |-> seen'[q]]
  BY DEF Close, StockInv
<1>2. LockedIsFresh'
  BY <1>1 DEF StockInv, LockedIsFresh
<1>3. (\A q \in Process : tx[q] # <<>> => RequestTyped(tx[q]))'
  BY <1>1 DEF StockInv, RequestTyped, Valid
<1> QED
  BY <1>1, <1>2, <1>3 DEF StockInv

\* A transaction writes and commits.
LEMMA WriteKeeps ==
  ASSUME ValuationAssumption, StockInv, NEW p \in Process, Write(p)
  PROVE  Kept
<1> DEFINE r == tx[p]
<1>1. RequestTyped(r) /\ seen[p] = BalanceOf(moves, r.location, r.item) /\ Close(p)
  BY SeenBalance DEF Write
<1>2. ASSUME NEW q \in Process \ {p}, seen[q] # <<>>
      PROVE  tx[q].item # r.item /\ tx[q].location \in Location /\ tx[q].item \in Item
  BY <1>2 DEF Write, StockInv, LockedIsFresh, RequestTyped
<1>3. ASSUME moves' = moves
      PROVE  Kept
  <2>1. Movements(moves)' /\ NonNegative'
    BY <1>3 DEF StockInv, NonNegative
  <2> QED
    BY <1>1, <1>3, <2>1, CloseKeeps DEF Kept
<1>4. ASSUME SL!Next, Movements(moves)', NonNegative',
             \A l \in Location, i \in Item : i # r.item => BalanceOf(moves, l, i)' = BalanceOf(moves, l, i)
      PROVE  Kept
  <2>1. StockInv'
    BY <1>1, <1>2, <1>4, CloseKeeps
  <2>2. DOMAIN moves \subseteq DOMAIN moves'
    BY <1>4 DEF SL!Next
  <2> QED
    BY <1>4, <2>1, <2>2 DEF Kept
<1>5. CASE r.kind = "transfer"
  <2>1. PICK k, j, out, in :
           /\ k # j /\ k \notin DOMAIN moves /\ j \notin DOMAIN moves
           /\ moves' = With(With(moves, j, in), k, out)
           /\ out.location = r.location /\ in.location = r.to /\ r.to # r.location
           /\ out.item = r.item /\ in.item = r.item
           /\ PricedAgainst(out, seen[p])
           /\ PricedAgainst(in, BalanceOf(moves, r.to, r.item))
           /\ out.quantity + in.quantity = 0 /\ out.value + in.value = 0
    BY <1>5, WritesTwo
  <2>2. /\ PricedAgainst(out, BalanceOf(moves, out.location, out.item))
        /\ PricedAgainst(in, BalanceOf(moves, in.location, in.item))
        /\ out.item = in.item /\ out.location # in.location
    BY <1>1, <2>1
  <2>3. /\ SL!Next /\ Movements(moves)' /\ NonNegative'
        /\ \A l \in Location, i \in Item : i # out.item => BalanceOf(moves, l, i)' = BalanceOf(moves, l, i)
    BY <2>1, <2>2, TwoMore
  <2> QED
    BY <1>4, <2>1, <2>3
<1>6. CASE r.kind # "transfer"
  <2>1. CASE moves' = moves
    BY <1>3, <2>1
  <2>2. CASE \E k, m : /\ Inserts(k, m)
                       /\ m.location = r.location /\ m.item = r.item
                       /\ PricedAgainst(m, seen[p])
    <3>1. PICK k, m : /\ Inserts(k, m)
                      /\ m.location = r.location /\ m.item = r.item
                      /\ PricedAgainst(m, seen[p])
      BY <2>2
    <3>2. PricedAgainst(m, BalanceOf(moves, m.location, m.item))
      BY <1>1, <3>1
    <3>3. /\ SL!Next /\ Movements(moves)' /\ NonNegative'
          /\ \A l \in Location, i \in Item : i # m.item => BalanceOf(moves, l, i)' = BalanceOf(moves, l, i)
      BY <3>1, <3>2, OneMore
    <3> QED
      BY <1>4, <3>1, <3>3
  <2> QED
    BY <1>6, <2>1, <2>2, WritesOne
<1> QED
  BY <1>5, <1>6

\* A transaction rolls back.
LEMMA RollBackKeeps ==
  ASSUME StockInv, NEW p \in Process, RollBack(p)
  PROVE  Kept
<1>1. moves' = moves /\ Close(p)
  BY DEF RollBack, stock
<1>2. Movements(moves)' /\ NonNegative'
  BY <1>1 DEF StockInv, NonNegative
<1> QED
  BY <1>1, <1>2, CloseKeeps DEF Kept

-----------------------------------------------------------------------------
(* Orders consume stock by requests that are in order.                     *)

\* What is marked has its movement, which gives a reversal its cost.
EventInv ==
  /\ status = [e \in Event |-> status[e]] /\ lines = [e \in Event |-> lines[e]]
  /\ marked = [e \in Event |-> marked[e]]
  /\ \A e \in Event : \A n \in DOMAIN lines[e] :
       lines[e][n].item \in Item /\ lines[e][n].quantity \in Nat \ {0}
  /\ \A e \in Event :
       /\ marked[e] \subseteq DOMAIN lines[e]
       /\ \A n \in marked[e] : MoveOf(e, n) \in DOMAIN moves
       /\ status[e] = "none" => marked[e] = {}
  /\ \A o \in Order : DOMAIN lines[<<o, "reverse">>] \subseteq marked[<<o, "consume">>]

\* What the processing of an event asks for is a request in order.
LEMMA ItemRequestTyped ==
  ASSUME ConsumptionAssumption, StockInv, EventInv, NEW e \in Event, NEW n \in DOMAIN lines[e]
  PROVE  Valid(ItemRequest(e, n)) => RequestTyped(ItemRequest(e, n))
<1> DEFINE r == ItemRequest(e, n)
           c == MoveOf(<<e[1], "consume">>, n)
<1>1. e[1] \in Order /\ e[2] \in {"consume", "reverse"} /\ e = <<e[1], e[2]>>
  BY DEF Event
<1>2. /\ HomeOf(e[1]) \in Location
      /\ lines[e][n].item \in Item /\ lines[e][n].quantity \in Nat \ {0}
  BY <1>1 DEF ConsumptionAssumption, EventInv
<1>3. ASSUME e[2] = "reverse"
      PROVE  moves[c].cost \in Nat
  <2>1. n \in marked[<<e[1], "consume">>] /\ <<e[1], "consume">> \in Event
    BY <1>1, <1>3 DEF EventInv, Event
  <2>2. c \in DOMAIN moves
    BY <2>1 DEF EventInv
  <2> QED
    BY <2>2 DEF StockInv, Movements
<1>4. r.kind = IF e[2] = "reverse" THEN "reversal" ELSE "consumption"
  BY DEF ItemRequest
<1>5. r.location = HomeOf(e[1]) /\ r.to = HomeOf(e[1]) /\ r.item = lines[e][n].item /\ r.quantity = lines[e][n].quantity
  BY DEF ItemRequest
<1>6. r.cost = IF e[2] = "reverse" THEN moves[c].cost ELSE NoCost
  BY DEF ItemRequest, ReversalCost
<1> HIDE DEF r, c
<1>7. r.cost \in Nat \cup {NoCost} /\ r.kind \in Kind
  BY <1>3, <1>4, <1>6 DEF Kind
<1>8. Valid(r) => RequestTyped(r)
  BY <1>2, <1>5, <1>7 DEF RequestTyped
<1> QED
  BY <1>8 DEF r

\* Every step of the whole keeps the stock sound and the events in order.
LEMMA ConsumptionStep ==
  ASSUME ValuationAssumption, ConsumptionAssumption, StockInv, EventInv, Next
  PROVE  Kept /\ EventInv'
<1>1. ASSUME UNCHANGED stockVars
      PROVE  Kept
  BY <1>1 DEF stockVars, stock, Kept, StockInv, NonNegative, LockedIsFresh, RequestTyped, Valid, Movements
<1>2. ASSUME Kept, UNCHANGED <<status, lines, marked>>
      PROVE  EventInv'
  BY <1>2 DEF Kept, EventInv
<1>3. ASSUME NEW p \in Manual, NEW r \in ManualRequest, Ask(p, r), UNCHANGED consumption
      PROVE  Kept /\ EventInv'
  <2>1. p \in Process /\ (Valid(r) => RequestTyped(r))
    BY DEF ConsumptionAssumption, Request, RequestTyped
  <2>2. Kept
    BY <1>3, <2>1, AskKeeps
  <2> QED
    BY <1>2, <1>3, <2>2 DEF consumption
<1>4. ASSUME NEW p \in Process, Lock(p) \/ Write(p), UNCHANGED consumption
      PROVE  Kept /\ EventInv'
  <2>1. Kept
    BY <1>4, LockKeeps, WriteKeeps
  <2> QED
    BY <1>2, <1>4, <2>1 DEF consumption
<1>5. ASSUME NEW p \in Manual, RollBack(p), UNCHANGED consumption
      PROVE  Kept /\ EventInv'
  <2>1. p \in Process
    BY DEF ConsumptionAssumption
  <2>2. Kept
    BY <1>5, <2>1, RollBackKeeps
  <2> QED
    BY <1>2, <1>5, <2>2 DEF consumption
<1>6. ASSUME NEW r \in Recipe, Activate(r)
      PROVE  Kept /\ EventInv'
  <2>1. Kept
    BY <1>1, <1>6 DEF Activate
  <2> QED
    BY <1>2, <1>6, <2>1 DEF Activate, consumption
<1>7. ASSUME NEW o \in Order, Complete(o)
      PROVE  Kept /\ EventInv'
  <2> DEFINE e == <<o, "consume">>
  <2>1. /\ e \in Event /\ status[e] = "none" /\ UNCHANGED stockVars
        /\ status' = [status EXCEPT ![e] = "pending"] /\ marked' = marked
    BY <1>7 DEF Complete, Event
  <2>2. moves' = moves /\ marked[e] = {}
    BY <2>1 DEF stockVars, stock, EventInv
  <2>3. CASE lines' = lines
    BY <1>1, <2>1, <2>2, <2>3 DEF EventInv
  <2>4. CASE \E r \in Chosen(o) : lines' = [lines EXCEPT ![e] = Scaled(o, r)]
    <3>1. PICK r \in Chosen(o) : lines' = [lines EXCEPT ![e] = Scaled(o, r)]
      BY <2>4
    <3>2. r \in Recipe /\ QtyOf(o) \in Nat \ {0}
      BY DEF Chosen, ActiveFor, ConsumptionAssumption
    <3>3. \A n \in DOMAIN Scaled(o, r) :
            Scaled(o, r)[n].item \in Item /\ Scaled(o, r)[n].quantity \in Nat \ {0}
      <4>1. \A n \in DOMAIN r.lines :
              r.lines[n].item \in Item /\ r.lines[n].quantity \in Nat \ {0}
        BY <3>2 DEF ConsumptionAssumption
      <4>2. \A a, b \in Nat \ {0} : a * b \in Nat \ {0}
        OBVIOUS
      <4> QED
        BY <3>2, <4>1, <4>2 DEF Scaled
    <3>4. /\ lines'[e] = Scaled(o, r)
          /\ \A f \in Event \ {e} : lines'[f] = lines[f]
          /\ lines' = [f \in Event |-> lines'[f]]
      BY <2>1, <3>1 DEF EventInv
    <3>5. /\ \A f \in Event \ {e} : status'[f] = status[f]
          /\ status' = [f \in Event |-> status'[f]]
      BY <2>1 DEF EventInv
    <3>6. \A c \in Order : <<c, "reverse">> \in Event \ {e}
      BY DEF Event
    <3>7. EventInv'
      <4>1. \A f \in Event : \A n \in DOMAIN lines'[f] :
              lines'[f][n].item \in Item /\ lines'[f][n].quantity \in Nat \ {0}
        BY <3>3, <3>4 DEF EventInv
      <4>2. \A f \in Event :
              /\ marked'[f] \subseteq DOMAIN lines'[f]
              /\ \A n \in marked'[f] : MoveOf(f, n) \in DOMAIN moves
              /\ status'[f] = "none" => marked'[f] = {}
        BY <2>1, <2>2, <3>4, <3>5 DEF EventInv
      <4>3. \A c \in Order : DOMAIN lines'[<<c, "reverse">>] \subseteq marked'[<<c, "consume">>]
        BY <2>1, <3>4, <3>6 DEF EventInv
      <4> QED
        BY <2>1, <2>2, <3>4, <3>5, <4>1, <4>2, <4>3 DEF EventInv, MoveOf, ItemKey
    <3> QED
      BY <1>1, <2>1, <3>7
  <2> QED
    BY <1>7, <2>3, <2>4 DEF Complete
<1>8. ASSUME NEW o \in Order, Reverse(o)
      PROVE  Kept /\ EventInv'
  <2> DEFINE e == <<o, "consume">>
             r == <<o, "reverse">>
             back == [n \in marked[e] |-> lines[e][n]]
  <2>1. /\ e \in Event /\ r \in Event /\ e # r /\ status[r] = "none" /\ UNCHANGED stockVars
        /\ status' = [status EXCEPT ![r] = "pending"] /\ marked' = marked
        /\ lines' = [lines EXCEPT ![r] = back]
    BY <1>8 DEF Reverse, Event
  <2>2. moves' = moves /\ marked[r] = {}
    BY <2>1 DEF stockVars, stock, EventInv
  <2>3. /\ lines'[r] = back
        /\ \A f \in Event \ {r} : lines'[f] = lines[f]
        /\ lines' = [f \in Event |-> lines'[f]]
    BY <2>1 DEF EventInv
  <2>4. /\ \A f \in Event \ {r} : status'[f] = status[f]
        /\ status' = [f \in Event |-> status'[f]]
    BY <2>1 DEF EventInv
  <2>5. \A n \in DOMAIN back : back[n].item \in Item /\ back[n].quantity \in Nat \ {0}
    BY <2>1 DEF EventInv
  <2>6. EventInv'
    <3>1. \A f \in Event : \A n \in DOMAIN lines'[f] :
            lines'[f][n].item \in Item /\ lines'[f][n].quantity \in Nat \ {0}
      BY <2>3, <2>5 DEF EventInv
    <3>2. \A f \in Event :
            /\ marked'[f] \subseteq DOMAIN lines'[f]
            /\ \A n \in marked'[f] : MoveOf(f, n) \in DOMAIN moves
            /\ status'[f] = "none" => marked'[f] = {}
      BY <2>1, <2>2, <2>3, <2>4 DEF EventInv
    <3>3. \A c \in Order : DOMAIN lines'[<<c, "reverse">>] \subseteq marked'[<<c, "consume">>]
      <4>1. ASSUME NEW c \in Order
            PROVE  DOMAIN lines'[<<c, "reverse">>] \subseteq marked'[<<c, "consume">>]
        <5>1. CASE c = o
          BY <2>1, <2>3, <5>1
        <5>2. CASE c # o
          <6>1. <<c, "reverse">> \in Event \ {r}
            BY <5>2 DEF Event
          <6> QED
            BY <2>1, <2>3, <6>1 DEF EventInv
        <5> QED
          BY <5>1, <5>2
      <4> QED
        BY <4>1
    <3> QED
      BY <2>1, <2>2, <2>3, <2>4, <3>1, <3>2, <3>3 DEF EventInv, MoveOf, ItemKey
  <2> QED
    BY <1>1, <2>1, <2>6
<1>9. ASSUME NEW e \in Event, Kept, UNCHANGED <<lines, marked>>,
             \E s \in {"processing", "posted", "dead", "failed"} : status' = [status EXCEPT ![e] = s]
      PROVE  EventInv'
  <2>1. /\ status' = [f \in Event |-> status'[f]]
        /\ \A f \in Event : status'[f] = "none" => status[f] = "none"
    BY <1>9 DEF EventInv
  <2> QED
    BY <1>9, <2>1 DEF EventInv, Kept, MoveOf, ItemKey
<1>10. ASSUME NEW e \in Event, Claim(e) \/ Finish(e)
       PROVE  Kept /\ EventInv'
  <2>1. Kept
    BY <1>1, <1>10 DEF Claim, Finish
  <2> QED
    BY <1>9, <1>10, <2>1 DEF Claim, Finish
<1>11. ASSUME NEW e \in Event, Fail(e)
       PROVE  Kept /\ EventInv'
  <2>1. e \in Process
    BY DEF ConsumptionAssumption
  <2>2. Kept
    BY <1>1, <1>11, <2>1, RollBackKeeps DEF Fail
  <2> QED
    BY <1>9, <1>11, <2>2 DEF Fail
<1>12. ASSUME NEW e \in Event, NEW n \in DOMAIN lines[e], ProcessItem(e, n)
       PROVE  Kept /\ EventInv'
  <2>1. e \in Process
    BY DEF ConsumptionAssumption
  <2>2. Ask(e, ItemRequest(e, n)) /\ UNCHANGED consumption
    BY <1>12 DEF ProcessItem
  <2>3. Kept
    BY <2>1, <2>2, ItemRequestTyped, AskKeeps
  <2> QED
    BY <1>2, <2>2, <2>3 DEF consumption
<1>13. ASSUME NEW e \in Event, NEW n \in DOMAIN lines[e], Mark(e, n)
       PROVE  Kept /\ EventInv'
  <2>1. /\ UNCHANGED stockVars /\ UNCHANGED <<status, lines>>
        /\ marked' = [marked EXCEPT ![e] = @ \cup {n}]
        /\ MoveOf(e, n) \in DOMAIN moves
        /\ status[e] # "none"
    BY <1>13 DEF Mark
  <2>2. /\ marked' = [f \in Event |-> marked'[f]]
        /\ marked'[e] = marked[e] \cup {n}
        /\ \A f \in Event \ {e} : marked'[f] = marked[f]
    BY <2>1 DEF EventInv
  <2>3. moves' = moves
    BY <2>1 DEF stockVars, stock
  <2>4. \A f \in Event :
          /\ marked'[f] \subseteq DOMAIN lines[f]
          /\ \A m \in marked'[f] : MoveOf(f, m) \in DOMAIN moves
          /\ status[f] = "none" => marked'[f] = {}
    BY <2>1, <2>2 DEF EventInv
  <2>5. \A o \in Order : DOMAIN lines[<<o, "reverse">>] \subseteq marked'[<<o, "consume">>]
    <3>1. \A f \in Event : marked[f] \subseteq marked'[f]
      BY <2>2
    <3> QED
      BY <3>1 DEF EventInv, Event
  <2>6. EventInv'
    BY <2>1, <2>2, <2>3, <2>4, <2>5 DEF EventInv, MoveOf, ItemKey
  <2> QED
    BY <1>1, <2>1, <2>6
<1> QED
  BY <1>3, <1>4, <1>5, <1>6, <1>7, <1>8, <1>10, <1>11, <1>12, <1>13 DEF Next

\* So they always are.
LEMMA StockSound ==
  ASSUME ValuationAssumption, ConsumptionAssumption
  PROVE  Spec => [](StockInv /\ EventInv)
<1>1. Init => StockInv /\ EventInv
  <2> SUFFICES ASSUME Init
               PROVE  StockInv /\ EventInv
    OBVIOUS
  <2>1. DOMAIN moves = {}
    BY DEF Init, StockInit
  <2>2. Movements(moves)
    BY <2>1, FS_EmptySet DEF Movements
  <2>3. NonNegative
    <3> SUFFICES ASSUME NEW l \in Location, NEW i \in Item
                 PROVE  BalanceOf(moves, l, i).quantity >= 0 /\ BalanceOf(moves, l, i).value >= 0
      BY DEF NonNegative
    <3>1. Here(moves, l, i) = {}
      BY <2>1 DEF Here
    <3>2. \A g : DOMAIN g = {} => SumFunction(g) = 0
      BY SumOfNone DEF SumFunction
    <3>3. /\ SumFunction([k \in Here(moves, l, i) |-> moves[k].quantity]) = 0
          /\ SumFunction([k \in Here(moves, l, i) |-> moves[k].value]) = 0
      BY <3>1, <3>2
    <3>4. BalanceOf(moves, l, i) =
            [quantity |-> SumFunction([k \in Here(moves, l, i) |-> moves[k].quantity]),
             value |-> SumFunction([k \in Here(moves, l, i) |-> moves[k].value])]
      BY DEF BalanceOf, Here
    <3> QED
      BY <3>3, <3>4
  <2>4. StockInv
    BY <2>2, <2>3 DEF StockInv, Init, StockInit, LockedIsFresh
  <2>5. EventInv
    BY DEF Init, EventInv, Event
  <2> QED
    BY <2>4, <2>5
<1>2. StockInv /\ EventInv /\ [Next]_vars => (StockInv /\ EventInv)'
  <2>1. ASSUME StockInv, EventInv, Next
        PROVE  (StockInv /\ EventInv)'
    BY <2>1, ConsumptionStep DEF Kept
  <2>2. ASSUME StockInv, EventInv, UNCHANGED vars
        PROVE  (StockInv /\ EventInv)'
    BY <2>2 DEF vars, stockVars, stock, consumption, StockInv, NonNegative, LockedIsFresh, RequestTyped,
                Valid, Movements, EventInv, MoveOf, ItemKey
  <2> QED
    BY <2>1, <2>2
<1> QED
  BY <1>1, <1>2, PTL DEF Spec

\* However many issues, transfers, counts and orders draw on the stock at once, no
\* location ever holds less than nothing of an item, in quantity or in value.
THEOREM StockNeverNegative ==
  ASSUME ValuationAssumption, ConsumptionAssumption
  PROVE  Spec => []NonNegative
<1>1. StockInv => NonNegative
  BY DEF StockInv
<1> QED
  BY <1>1, StockSound, PTL

\* Transactions that look a key up, wait for a lock, read a balance and insert late do
\* what atomic movements do.
THEOREM StockImplemented ==
  ASSUME ValuationAssumption, ConsumptionAssumption
  PROVE  Spec => ImplementsStockLedger
<1>1. Init => SL!Init
  BY DEF Init, StockInit, SL!Init
<1>2. StockInv /\ EventInv /\ [Next]_vars => [SL!Next]_moves
  <2>1. ASSUME StockInv, EventInv, Next
        PROVE  [SL!Next]_moves
    BY <2>1, ConsumptionStep DEF Kept
  <2> QED
    BY <2>1 DEF vars, stockVars, stock
<1> QED
  BY <1>1, <1>2, StockSound, PTL DEF Spec, ImplementsStockLedger, SL!Spec

-----------------------------------------------------------------------------
(* What an event's items ask for is what is moved for them.                *)

Place == UNION {DOMAIN r.lines : r \in Recipe}

\* The movement for item n of e is what the item asked for, and a reversal's is the
\* opposite of the movement it reverses.
Carried(e, n) ==
  LET m == moves[MoveOf(e, n)]
      taken == moves[MoveOf(<<e[1], "consume">>, n)]
      q == lines[e][n].quantity
  IN /\ m.item = lines[e][n].item
     /\ e[2] = "consume" =>
          /\ m.quantity = -q
          /\ m.value = valueFromQuantity(-q, m.cost)
          /\ m.event = IF m.value = 0 THEN "non_posting" ELSE "pending"
     /\ e[2] = "reverse" =>
          /\ m.quantity = q /\ m.cost = taken.cost
          /\ m.value = valueFromQuantity(q, m.cost)
          /\ m.event = IF m.value = 0 THEN "non_posting" ELSE taken.event

\* The processing of an event works on the items that are left.
Working ==
  \A e \in Event :
    /\ DOMAIN lines[e] \subseteq Place
    /\ left[e] \subseteq DOMAIN lines[e]
    /\ status[e] = "none" => left[e] = {}
    /\ status[e] = "processing" => DOMAIN lines[e] \subseteq marked[e] \cup left[e]
    /\ status[e] = "posted" => DOMAIN lines[e] \subseteq marked[e]
    /\ tx[e] # <<>> => /\ status[e] = "processing"
                       /\ \E n \in left[e] : tx[e] = ItemRequest(e, n)

\* Keys of items are used for their items' movements only.
KeysOwn ==
  /\ \A p \in Manual : tx[p] # <<>> => tx[p].key \notin ItemKeys
  /\ \A k \in DOMAIN moves : \A e \in Event, n \in Place :
       k[1] = <<e, n>> => /\ k = MoveOf(e, n) /\ n \in DOMAIN lines[e] /\ status[e] # "none"
                          /\ Carried(e, n)

\* A reversal has the items of what it reverses.
Mirrored ==
  \A o \in Order : status[<<o, "reverse">>] # "none" =>
    /\ status[<<o, "consume">>] = "posted"
    /\ DOMAIN lines[<<o, "reverse">>] = DOMAIN lines[<<o, "consume">>]
    /\ \A n \in DOMAIN lines[<<o, "consume">>] :
         lines[<<o, "reverse">>][n] = lines[<<o, "consume">>][n]

CarryInv ==
  /\ left = [e \in Event |-> left[e]]
  /\ Working /\ KeysOwn /\ Mirrored

RowsStay == \A k \in DOMAIN moves : k \in DOMAIN moves' /\ moves'[k] = moves[k]

\* Rows that were inserted stay.
LEMMA KeptRowsStay ==
  ASSUME Kept
  PROVE  RowsStay
BY DEF Kept, RowsStay, SL!Next

\* A reversal's item is an item whose movement is there.
LEMMA TakenIsThere ==
  ASSUME EventInv, NEW e \in Event, e[2] = "reverse", NEW n \in DOMAIN lines[e]
  PROVE  MoveOf(<<e[1], "consume">>, n) \in DOMAIN moves
<1>1. e[1] \in Order /\ e = <<e[1], "reverse">> /\ <<e[1], "consume">> \in Event
  BY DEF Event
<1>2. n \in marked[<<e[1], "consume">>]
  BY <1>1 DEF EventInv
<1> QED
  BY <1>1, <1>2 DEF EventInv

\* While an event's items stay, so does what is asked and what was moved for them.
LEMMA ItemStays ==
  ASSUME EventInv, RowsStay, NEW e \in Event, lines'[e] = lines[e], NEW n \in DOMAIN lines[e]
  PROVE  /\ ItemRequest(e, n)' = ItemRequest(e, n)
         /\ MoveOf(e, n) \in DOMAIN moves => (Carried(e, n)' <=> Carried(e, n))
<1> DEFINE c == MoveOf(<<e[1], "consume">>, n)
           k == MoveOf(e, n)
<1>1. e[2] \in {"consume", "reverse"}
  BY DEF Event
<1>2. e[2] = "reverse" => c \in DOMAIN moves /\ moves'[c] = moves[c]
  BY TakenIsThere DEF RowsStay
<1>3. c' = c /\ k' = k
  BY DEF MoveOf, ItemKey
<1>4. k \in DOMAIN moves => moves'[k] = moves[k]
  BY DEF RowsStay
<1>5. ItemRequest(e, n)' = ItemRequest(e, n)
  BY <1>1, <1>2, <1>3 DEF ItemRequest, ReversalCost, ItemKey
<1>6. ASSUME k \in DOMAIN moves
      PROVE  Carried(e, n)' <=> Carried(e, n)
  <2>1. moves'[k] = moves[k]
    BY <1>4, <1>6
  <2>2. CASE e[2] = "consume"
    BY <1>3, <2>1, <2>2 DEF Carried
  <2>3. CASE e[2] = "reverse"
    BY <1>2, <1>3, <2>1, <2>3 DEF Carried
  <2> QED
    BY <1>1, <2>2, <2>3
<1> QED
  BY <1>5, <1>6

\* A write inserts under its request's key.
LEMMA WritesOwnKeys ==
  ASSUME NEW p \in Process, Write(p)
  PROVE  \A k \in DOMAIN moves' : k \in DOMAIN moves \/ k[1] = tx[p].key
<1>1. CASE tx[p].kind = "transfer"
  <2>1. WriteTransfer(tx[p], seen[p])
    BY <1>1 DEF Write
  <2> QED
    BY <2>1 DEF WriteTransfer, With
<1>2. CASE tx[p].kind = "count"
  <2>1. WriteCount(tx[p], seen[p])
    BY <1>2 DEF Write
  <2> QED
    BY <2>1 DEF WriteCount, Insert, With, MoveKey
<1>3. CASE tx[p].kind \notin {"transfer", "count"}
  <2>1. WriteMovement(tx[p], seen[p])
    BY <1>3 DEF Write
  <2> QED
    BY <2>1 DEF WriteMovement, Insert, With, MoveKey
<1> QED
  BY <1>1, <1>2, <1>3

\* The write of an item's movement carries the item.
LEMMA WritesItem ==
  ASSUME ValuationAssumption, ConsumptionAssumption, StockInv, EventInv,
         NEW e \in Event, NEW n \in DOMAIN lines[e], n \in Place,
         tx[e] = ItemRequest(e, n), Write(e), lines' = lines, RowsStay
  PROVE  /\ DOMAIN moves' = DOMAIN moves \cup {MoveOf(e, n)}
         /\ Carried(e, n)'
<1> DEFINE r == ItemRequest(e, n)
           c == MoveOf(<<e[1], "consume">>, n)
           k == MoveOf(e, n)
           q == lines[e][n].quantity
           balance == seen[e]
           quantity == Quantity(r, balance)
           m == MovementOf(r, r.location, quantity, UnitCost(r, quantity, balance))
<1>1. e[2] \in {"consume", "reverse"} /\ e[1] \in Order
  BY DEF Event
<1>2. q \in Nat \ {0} /\ lines[e][n].item \in Item
  BY DEF EventInv
<1>3. /\ r.kind = IF e[2] = "reverse" THEN "reversal" ELSE "consumption"
      /\ r.quantity = q /\ r.item = lines[e][n].item /\ r.key = <<e, n>>
      /\ r.cost = IF e[2] = "reverse" THEN moves[c].cost ELSE NoCost
      /\ r.of = IF e[2] = "reverse" THEN c ELSE NoMove
  BY DEF ItemRequest, ReversalCost, ItemKey
<1>4. /\ DOMAIN moves' = DOMAIN moves \cup {k} /\ moves'[k] = m
  <2>1. WriteMovement(r, balance)
    BY <1>1, <1>3 DEF Write
  <2>2. MoveKey(r) = k
    BY <1>1, <1>3 DEF MoveKey, MoveOf, ItemKey
  <2>3. Insert(k, m)
    BY <2>1, <2>2 DEF WriteMovement
  <2> HIDE DEF k, m
  <2> QED
    BY <2>3 DEF Insert, With
<1>5. /\ m.item = r.item /\ m.quantity = quantity
      /\ m.cost = UnitCost(r, quantity, balance)
      /\ m.value = valueFromQuantity(m.quantity, m.cost)
      /\ m.event = Disposition(r, m.value)
  BY DEF MovementOf
<1>6. lines'[e] = lines[e] /\ k' = k /\ c' = c
  BY DEF MoveOf, ItemKey
<1> HIDE DEF m, r, k, c
<1>7. CASE e[2] = "consume"
  <2>1. quantity = -q
    BY <1>3, <1>7 DEF Quantity
  <2>2. Disposition(r, m.value) = IF m.value = 0 THEN "non_posting" ELSE "pending"
    BY <1>3, <1>7 DEF Disposition
  <2>3. Carried(e, n)'
    BY <1>3, <1>4, <1>5, <1>6, <1>7, <2>1, <2>2 DEF Carried, k
  <2> QED
    BY <1>4, <2>3 DEF k
<1>8. CASE e[2] = "reverse"
  <2>1. quantity = q
    BY <1>3, <1>8 DEF Quantity
  <2>2. c \in DOMAIN moves /\ moves'[c] = moves[c]
    BY <1>8, TakenIsThere DEF RowsStay, c
  <2>3. moves[c].cost \in Nat
    BY <2>2 DEF StockInv, Movements
  <2>4. UnitCost(r, quantity, balance) = moves[c].cost
    BY <1>2, <1>3, <1>8, <2>1, <2>3 DEF UnitCost, ConsumptionAssumption
  <2>5. c # NoMove
    <3>1. c \in ItemKeys \X {"move"}
      BY <1>1 DEF c, MoveOf, ItemKey, ItemKeys, Event, Place
    <3> QED
      BY <3>1 DEF ConsumptionAssumption
  <2>6. Disposition(r, m.value) = IF m.value = 0 THEN "non_posting" ELSE moves[c].event
    <3>1. r.kind = "reversal" /\ r.of = c
      BY <1>3, <1>8
    <3> QED
      BY <2>5, <3>1 DEF Disposition
  <2>7. Carried(e, n)'
    BY <1>3, <1>4, <1>5, <1>6, <1>8, <2>1, <2>2, <2>4, <2>6 DEF Carried, k, c
  <2> QED
    BY <1>4, <2>7 DEF k
<1> QED
  BY <1>1, <1>7, <1>8

\* A step that leaves the stock and the events' progress as they are, or moves only
\* what the parts of the invariant do not speak of.
LEMMA KeysStay ==
  ASSUME EventInv, CarryInv, RowsStay, DOMAIN moves' = DOMAIN moves,
         \A e \in Event : status[e] # "none" => status'[e] # "none" /\ lines'[e] = lines[e]
  PROVE  \A k \in DOMAIN moves' : \A e \in Event, n \in Place :
           k[1] = <<e, n>> => /\ k = MoveOf(e, n) /\ n \in DOMAIN lines'[e] /\ status'[e] # "none"
                              /\ Carried(e, n)'
<1> SUFFICES ASSUME NEW k \in DOMAIN moves, NEW e \in Event, NEW n \in Place, k[1] = <<e, n>>
             PROVE  /\ k = MoveOf(e, n) /\ n \in DOMAIN lines'[e] /\ status'[e] # "none"
                    /\ Carried(e, n)'
  OBVIOUS
<1>1. k = MoveOf(e, n) /\ n \in DOMAIN lines[e] /\ status[e] # "none" /\ Carried(e, n)
  BY DEF CarryInv, KeysOwn
<1>2. status'[e] # "none" /\ lines'[e] = lines[e]
  BY <1>1
<1> QED
  BY <1>1, <1>2, ItemStays

\* A transaction that is taken up, locked or given up by somebody else than an event.
LEMMA ManualKeepsCarried ==
  ASSUME ConsumptionAssumption, EventInv, CarryInv, Kept,
         NEW p \in Manual, \A q \in Process \ {p} : tx'[q] = tx[q],
         tx'[p] = <<>> \/ tx'[p].key \notin ItemKeys, moves' = moves, UNCHANGED consumption
  PROVE  CarryInv'
<1>1. RowsStay
  BY KeptRowsStay
<1>2. \A e \in Event : tx'[e] = tx[e]
  BY DEF ConsumptionAssumption
<1>3. Working'
  <2> SUFFICES ASSUME NEW e \in Event, tx[e] # <<>>
               PROVE  \E n \in left[e] : tx[e] = ItemRequest(e, n)'
    BY <1>2 DEF CarryInv, Working, consumption
  <2>1. PICK n \in left[e] : tx[e] = ItemRequest(e, n)
    BY DEF CarryInv, Working
  <2>2. n \in DOMAIN lines[e] /\ lines'[e] = lines[e]
    BY DEF CarryInv, Working, consumption
  <2> QED
    BY <1>1, <2>1, <2>2, ItemStays
<1>4. KeysOwn'
  <2>1. \A q \in Manual : tx'[q] # <<>> => tx'[q].key \notin ItemKeys
    BY DEF CarryInv, KeysOwn, ConsumptionAssumption
  <2> QED
    BY <1>1, <2>1, KeysStay DEF KeysOwn, consumption, MoveOf, ItemKey
<1>5. Mirrored' /\ (left = [e \in Event |-> left[e]])'
  BY DEF CarryInv, Mirrored, consumption
<1> QED
  BY <1>3, <1>4, <1>5 DEF CarryInv

\* A lock changes neither.
LEMMA LockKeepsCarried ==
  ASSUME EventInv, CarryInv, NEW p \in Process, Lock(p), UNCHANGED consumption
  PROVE  CarryInv'
<1>1. moves' = moves /\ tx' = tx
  BY DEF Lock, stock
<1>2. RowsStay
  BY <1>1 DEF RowsStay
<1>3. \A e \in Event : \A n : ItemRequest(e, n)' = ItemRequest(e, n)
  BY <1>1 DEF ItemRequest, ReversalCost, ItemKey, MoveOf, consumption
<1>4. Working'
  BY <1>1, <1>3 DEF CarryInv, Working, consumption
<1>5. KeysOwn'
  BY <1>1, <1>2, KeysStay DEF CarryInv, KeysOwn, consumption, MoveOf, ItemKey
<1>6. Mirrored' /\ (left = [e \in Event |-> left[e]])'
  BY DEF CarryInv, Mirrored, consumption
<1> QED
  BY <1>4, <1>5, <1>6 DEF CarryInv

\* A write adds rows under the keys of its request.
LEMMA WriteKeepsCarried ==
  ASSUME ValuationAssumption, ConsumptionAssumption, StockInv, EventInv, CarryInv, Kept,
         NEW p \in Process, Write(p), UNCHANGED consumption
  PROVE  CarryInv'
<1>1. RowsStay
  BY KeptRowsStay
<1>2. tx'[p] = <<>> /\ \A q \in Process \ {p} : tx'[q] = tx[q]
  BY DEF Write, Close, StockInv
<1>3. \A e \in Event : e \in Process
  BY DEF ConsumptionAssumption
<1>4. Working'
  <2> SUFFICES ASSUME NEW e \in Event, tx'[e] # <<>>
               PROVE  status[e] = "processing" /\ \E n \in left[e] : tx'[e] = ItemRequest(e, n)'
    BY DEF CarryInv, Working, consumption
  <2>1. tx'[e] = tx[e] /\ tx[e] # <<>>
    BY <1>2, <1>3
  <2>2. PICK n \in left[e] : tx[e] = ItemRequest(e, n)
    BY <2>1 DEF CarryInv, Working
  <2>3. n \in DOMAIN lines[e] /\ lines'[e] = lines[e] /\ status[e] = "processing"
    BY <2>1 DEF CarryInv, Working, consumption
  <2> QED
    BY <1>1, <2>1, <2>2, <2>3, ItemStays
<1>5. \A q \in Manual : tx'[q] # <<>> => tx'[q].key \notin ItemKeys
  BY <1>2 DEF CarryInv, KeysOwn, ConsumptionAssumption
<1>6. ASSUME NEW k \in DOMAIN moves', NEW e \in Event, NEW n \in Place, k[1] = <<e, n>>
      PROVE  /\ k = MoveOf(e, n) /\ n \in DOMAIN lines[e] /\ status[e] # "none"
             /\ Carried(e, n)'
  <2>1. CASE k \in DOMAIN moves
    <3>1. k = MoveOf(e, n) /\ n \in DOMAIN lines[e] /\ status[e] # "none" /\ Carried(e, n)
      BY <1>6, <2>1 DEF CarryInv, KeysOwn
    <3>2. lines'[e] = lines[e]
      BY DEF consumption
    <3> QED
      BY <1>1, <2>1, <3>1, <3>2, ItemStays
  <2>2. CASE k \notin DOMAIN moves
    <3>1. tx[p].key = <<e, n>> /\ tx[p] # <<>>
      <4>1. seen[p] # <<>>
        BY DEF Write
      <4> QED
        BY <1>6, <2>2, <4>1, WritesOwnKeys DEF StockInv, LockedIsFresh
    <3>2. <<e, n>> \in ItemKeys
      BY DEF ItemKeys, Place
    <3>3. p \in Event
      BY <3>1, <3>2 DEF CarryInv, KeysOwn, ConsumptionAssumption
    <3>4. PICK j \in left[p] : tx[p] = ItemRequest(p, j)
      BY <3>1, <3>3 DEF CarryInv, Working
    <3>5. j \in DOMAIN lines[p] /\ j \in Place /\ status[p] = "processing"
      BY <3>1, <3>3 DEF CarryInv, Working
    <3>6. tx[p].key = <<p, j>>
      BY <3>4 DEF ItemRequest, ItemKey
    <3>7. p = e /\ j = n
      BY <3>1, <3>6
    <3>8. DOMAIN moves' = DOMAIN moves \cup {MoveOf(e, n)} /\ Carried(e, n)'
      BY <1>1, <3>3, <3>4, <3>5, <3>7, WritesItem DEF consumption
    <3> QED
      BY <2>2, <3>5, <3>7, <3>8
  <2> QED
    BY <2>1, <2>2
<1>7. KeysOwn'
  BY <1>5, <1>6 DEF KeysOwn, consumption, MoveOf, ItemKey
<1>8. Mirrored' /\ (left = [e \in Event |-> left[e]])'
  BY DEF CarryInv, Mirrored, consumption
<1> QED
  BY <1>4, <1>7, <1>8 DEF CarryInv

\* A step that leaves the stock and the transactions as they are keeps the keys.
LEMMA KeysOwnStays ==
  ASSUME EventInv, CarryInv, UNCHANGED stockVars,
         \A e \in Event : status[e] # "none" => status'[e] # "none" /\ lines'[e] = lines[e]
  PROVE  RowsStay /\ KeysOwn'
<1>1. moves' = moves /\ tx' = tx
  BY DEF stockVars, stock
<1>2. RowsStay
  BY <1>1 DEF RowsStay
<1>3. \A k \in DOMAIN moves' : \A e \in Event, n \in Place :
        k[1] = <<e, n>> => /\ k = MoveOf(e, n) /\ n \in DOMAIN lines'[e] /\ status'[e] # "none"
                           /\ Carried(e, n)'
  BY <1>1, <1>2, KeysStay
<1> QED
  BY <1>1, <1>2, <1>3 DEF CarryInv, KeysOwn, MoveOf, ItemKey

\* What an event that is being processed asks for stays.
LEMMA AskedStays ==
  ASSUME EventInv, CarryInv, RowsStay, NEW e \in Event, tx[e] # <<>>, lines'[e] = lines[e]
  PROVE  \E n \in left[e] : tx[e] = ItemRequest(e, n)'
<1>1. PICK n \in left[e] : tx[e] = ItemRequest(e, n)
  BY DEF CarryInv, Working
<1>2. n \in DOMAIN lines[e]
  BY DEF CarryInv, Working
<1> QED
  BY <1>1, <1>2, ItemStays

\* An order that completes asks with the lines of its recipe for an event of its own.
LEMMA CompleteKeepsCarried ==
  ASSUME ConsumptionAssumption, EventInv, CarryInv, NEW o \in Order, Complete(o)
  PROVE  CarryInv'
<1> DEFINE e == <<o, "consume">>
<1>1. /\ e \in Event /\ status[e] = "none" /\ UNCHANGED stockVars
      /\ status'[e] = "pending" /\ \A f \in Event \ {e} : status'[f] = status[f]
      /\ \A f \in Event \ {e} : lines'[f] = lines[f]
      /\ marked' = marked /\ left' = left
  BY DEF Complete, Event, EventInv
<1>2. tx' = tx /\ tx[e] = <<>>
  BY <1>1 DEF stockVars, CarryInv, Working
<1>3. RowsStay /\ KeysOwn'
  BY <1>1, KeysOwnStays
<1>4. DOMAIN lines'[e] \subseteq Place
  <2>1. CASE lines' = lines
    BY <1>1, <2>1 DEF CarryInv, Working
  <2>2. CASE \E r \in Chosen(o) : lines' = [lines EXCEPT ![e] = Scaled(o, r)]
    <3>1. PICK r \in Chosen(o) : lines' = [lines EXCEPT ![e] = Scaled(o, r)]
      BY <2>2
    <3>2. lines'[e] = Scaled(o, r) /\ r \in Recipe
      BY <1>1, <3>1 DEF EventInv, Chosen, ActiveFor
    <3> QED
      BY <3>2 DEF Scaled, Place
  <2> QED
    BY <2>1, <2>2 DEF Complete
<1>5. Working'
  <2> SUFFICES ASSUME NEW f \in Event
               PROVE  /\ DOMAIN lines'[f] \subseteq Place
                      /\ left'[f] \subseteq DOMAIN lines'[f]
                      /\ status'[f] = "none" => left'[f] = {}
                      /\ status'[f] = "processing" => DOMAIN lines'[f] \subseteq marked'[f] \cup left'[f]
                      /\ status'[f] = "posted" => DOMAIN lines'[f] \subseteq marked'[f]
                      /\ tx'[f] # <<>> => /\ status'[f] = "processing"
                                          /\ \E n \in left'[f] : tx'[f] = ItemRequest(f, n)'
    BY DEF Working
  <2>1. CASE f = e
    BY <1>1, <1>2, <1>4, <2>1 DEF CarryInv, Working
  <2>2. CASE f # e
    <3>1. tx[f] # <<>> => \E n \in left[f] : tx[f] = ItemRequest(f, n)'
      BY <1>1, <1>3, <2>2, AskedStays
    <3> QED
      BY <1>1, <1>2, <2>2, <3>1 DEF CarryInv, Working
  <2> QED
    BY <2>1, <2>2
<1>6. Mirrored'
  <2> SUFFICES ASSUME NEW c \in Order, status'[<<c, "reverse">>] # "none"
               PROVE  /\ status'[<<c, "consume">>] = "posted"
                      /\ DOMAIN lines'[<<c, "reverse">>] = DOMAIN lines'[<<c, "consume">>]
                      /\ \A n \in DOMAIN lines'[<<c, "consume">>] :
                           lines'[<<c, "reverse">>][n] = lines'[<<c, "consume">>][n]
    BY DEF Mirrored
  <2>1. <<c, "reverse">> \in Event \ {e} /\ <<c, "consume">> \in Event
    BY DEF Event
  <2>2. <<c, "consume">> # e
    BY <1>1, <2>1 DEF CarryInv, Mirrored
  <2> QED
    BY <1>1, <2>1, <2>2 DEF CarryInv, Mirrored
<1>7. (left = [f \in Event |-> left[f]])'
  BY <1>1 DEF CarryInv
<1> QED
  BY <1>3, <1>5, <1>6, <1>7 DEF CarryInv

\* An order that is reversed asks for the items its consumption has taken.
LEMMA ReverseKeepsCarried ==
  ASSUME ConsumptionAssumption, EventInv, CarryInv, NEW o \in Order, Reverse(o)
  PROVE  CarryInv'
<1> DEFINE e == <<o, "consume">>
           r == <<o, "reverse">>
           back == [n \in marked[e] |-> lines[e][n]]
<1>1. /\ e \in Event /\ r \in Event /\ e # r
      /\ status[r] = "none" /\ status[e] = "posted" /\ UNCHANGED stockVars
      /\ status'[r] = "pending" /\ \A f \in Event \ {r} : status'[f] = status[f]
      /\ lines'[r] = back /\ \A f \in Event \ {r} : lines'[f] = lines[f]
      /\ marked' = marked /\ left' = left
  BY DEF Reverse, Event, EventInv
<1>2. tx' = tx /\ tx[r] = <<>> /\ left[r] = {}
  BY <1>1 DEF stockVars, CarryInv, Working
<1>3. RowsStay /\ KeysOwn'
  BY <1>1, KeysOwnStays
<1>4. marked[e] = DOMAIN lines[e] /\ marked[e] \subseteq Place
  BY <1>1 DEF EventInv, CarryInv, Working
<1>5. Working'
  <2> SUFFICES ASSUME NEW f \in Event
               PROVE  /\ DOMAIN lines'[f] \subseteq Place
                      /\ left'[f] \subseteq DOMAIN lines'[f]
                      /\ status'[f] = "none" => left'[f] = {}
                      /\ status'[f] = "processing" => DOMAIN lines'[f] \subseteq marked'[f] \cup left'[f]
                      /\ status'[f] = "posted" => DOMAIN lines'[f] \subseteq marked'[f]
                      /\ tx'[f] # <<>> => /\ status'[f] = "processing"
                                          /\ \E n \in left'[f] : tx'[f] = ItemRequest(f, n)'
    BY DEF Working
  <2>1. CASE f = r
    BY <1>1, <1>2, <1>4, <2>1
  <2>2. CASE f # r
    <3>1. tx[f] # <<>> => \E n \in left[f] : tx[f] = ItemRequest(f, n)'
      BY <1>1, <1>3, <2>2, AskedStays
    <3> QED
      BY <1>1, <1>2, <2>2, <3>1 DEF CarryInv, Working
  <2> QED
    BY <2>1, <2>2
<1>6. Mirrored'
  <2> SUFFICES ASSUME NEW c \in Order, status'[<<c, "reverse">>] # "none"
               PROVE  /\ status'[<<c, "consume">>] = "posted"
                      /\ DOMAIN lines'[<<c, "reverse">>] = DOMAIN lines'[<<c, "consume">>]
                      /\ \A n \in DOMAIN lines'[<<c, "consume">>] :
                           lines'[<<c, "reverse">>][n] = lines'[<<c, "consume">>][n]
    BY DEF Mirrored
  <2>1. CASE c = o
    BY <1>1, <1>4, <2>1
  <2>2. CASE c # o
    <3>1. <<c, "reverse">> \in Event \ {r} /\ <<c, "consume">> \in Event \ {r}
      BY <2>2 DEF Event
    <3> QED
      BY <1>1, <3>1 DEF CarryInv, Mirrored
  <2> QED
    BY <2>1, <2>2
<1>7. (left = [f \in Event |-> left[f]])'
  BY <1>1 DEF CarryInv
<1> QED
  BY <1>3, <1>5, <1>6, <1>7 DEF CarryInv

\* Claims, ends and marks of an event: the others stay as they are, and the event's
\* items are in order.
LEMMA ProgressKeepsCarried ==
  ASSUME EventInv, CarryInv, RowsStay, KeysOwn', NEW e \in Event,
         lines' = lines, status[e] # "none", status[e] # "posted", status'[e] # "none",
         \A f \in Event \ {e} : /\ status'[f] = status[f] /\ tx'[f] = tx[f]
                                /\ left'[f] = left[f] /\ marked'[f] = marked[f],
         left' = [f \in Event |-> left'[f]],
         left'[e] \subseteq DOMAIN lines[e],
         status'[e] = "processing" => DOMAIN lines[e] \subseteq marked'[e] \cup left'[e],
         status'[e] = "posted" => DOMAIN lines[e] \subseteq marked'[e],
         tx'[e] # <<>> => /\ status'[e] = "processing"
                          /\ \E n \in left'[e] : tx'[e] = ItemRequest(e, n)'
  PROVE  CarryInv'
<1>1. Working'
  <2> SUFFICES ASSUME NEW f \in Event
               PROVE  /\ DOMAIN lines[f] \subseteq Place
                      /\ left'[f] \subseteq DOMAIN lines[f]
                      /\ status'[f] = "none" => left'[f] = {}
                      /\ status'[f] = "processing" => DOMAIN lines[f] \subseteq marked'[f] \cup left'[f]
                      /\ status'[f] = "posted" => DOMAIN lines[f] \subseteq marked'[f]
                      /\ tx'[f] # <<>> => /\ status'[f] = "processing"
                                          /\ \E n \in left'[f] : tx'[f] = ItemRequest(f, n)'
    BY DEF Working
  <2>1. CASE f = e
    BY <2>1 DEF CarryInv, Working
  <2>2. CASE f # e
    <3>1. tx[f] # <<>> => \E n \in left[f] : tx[f] = ItemRequest(f, n)'
      BY AskedStays
    <3> QED
      BY <2>2, <3>1 DEF CarryInv, Working
  <2> QED
    BY <2>1, <2>2
<1>2. Mirrored'
  <2> SUFFICES ASSUME NEW c \in Order, status'[<<c, "reverse">>] # "none"
               PROVE  /\ status'[<<c, "consume">>] = "posted"
                      /\ DOMAIN lines[<<c, "reverse">>] = DOMAIN lines[<<c, "consume">>]
                      /\ \A n \in DOMAIN lines[<<c, "consume">>] :
                           lines[<<c, "reverse">>][n] = lines[<<c, "consume">>][n]
    BY DEF Mirrored
  <2>1. <<c, "reverse">> \in Event /\ <<c, "consume">> \in Event
    BY DEF Event
  <2>2. status[<<c, "reverse">>] # "none"
    BY <2>1
  <2>3. <<c, "consume">> # e
    BY <2>2 DEF CarryInv, Mirrored
  <2> QED
    BY <2>1, <2>2, <2>3 DEF CarryInv, Mirrored
<1> QED
  BY <1>1, <1>2 DEF CarryInv

\* Every step carries what was asked for.
LEMMA CarryStep ==
  ASSUME ValuationAssumption, ConsumptionAssumption, StockInv, EventInv, CarryInv, Next
  PROVE  CarryInv'
<1>0. Kept /\ RowsStay
  BY ConsumptionStep, KeptRowsStay
<1>1. ASSUME NEW p \in Manual, NEW r \in ManualRequest, Ask(p, r), UNCHANGED consumption
      PROVE  CarryInv'
  <2>1. /\ moves' = moves /\ tx'[p] = r
        /\ \A q \in Process \ {p} : tx'[q] = tx[q]
    BY <1>1 DEF Ask, stock, StockInv, ConsumptionAssumption
  <2>2. r.key \notin ItemKeys
    BY DEF ConsumptionAssumption
  <2> QED
    BY <1>0, <1>1, <2>1, <2>2, ManualKeepsCarried
<1>2. ASSUME NEW p \in Process, Lock(p) \/ Write(p), UNCHANGED consumption
      PROVE  CarryInv'
  BY <1>0, <1>2, LockKeepsCarried, WriteKeepsCarried
<1>3. ASSUME NEW p \in Manual, RollBack(p), UNCHANGED consumption
      PROVE  CarryInv'
  <2>1. /\ moves' = moves /\ tx'[p] = <<>>
        /\ \A q \in Process \ {p} : tx'[q] = tx[q]
    BY <1>3 DEF RollBack, Close, stock, StockInv, ConsumptionAssumption
  <2> QED
    BY <1>0, <1>3, <2>1, ManualKeepsCarried
<1>4. ASSUME NEW r \in Recipe, Activate(r)
      PROVE  CarryInv'
  <2>1. UNCHANGED stockVars /\ UNCHANGED consumption
    BY <1>4 DEF Activate
  <2>2. tx' = tx /\ lines' = lines /\ left' = left /\ status' = status /\ marked' = marked
    BY <2>1 DEF stockVars, consumption
  <2>3. KeysOwn'
    BY <2>1, <2>2, KeysOwnStays
  <2>4. Working'
    BY <1>0, <2>2, AskedStays DEF CarryInv, Working
  <2> QED
    BY <2>2, <2>3, <2>4 DEF CarryInv, Mirrored
<1>5. ASSUME NEW o \in Order, Complete(o) \/ Reverse(o)
      PROVE  CarryInv'
  BY <1>5, CompleteKeepsCarried, ReverseKeepsCarried
<1>6. ASSUME NEW e \in Event, Claim(e) \/ Finish(e)
      PROVE  CarryInv'
  <2>1. /\ UNCHANGED stockVars /\ lines' = lines /\ marked' = marked
        /\ status[e] \notin {"none", "posted"} /\ tx[e] = <<>>
        /\ status'[e] \in {"processing", "posted"}
        /\ left'[e] = IF status'[e] = "processing" THEN DOMAIN lines[e] ELSE {}
        /\ status'[e] = "posted" => DOMAIN lines[e] \subseteq marked[e]
        /\ \A f \in Event \ {e} : status'[f] = status[f] /\ left'[f] = left[f]
        /\ left' = [f \in Event |-> left'[f]]
    <3>1. CASE Claim(e)
      BY <3>1 DEF Claim, Claimable, EventInv, CarryInv, Working
    <3>2. CASE Finish(e)
      BY <3>2 DEF Finish, EventInv, CarryInv, Working
    <3> QED
      BY <1>6, <3>1, <3>2
  <2>2. tx' = tx
    BY <2>1 DEF stockVars
  <2>3. KeysOwn'
    BY <1>6, <2>1, KeysOwnStays DEF Claim, Finish, EventInv
  <2> QED
    BY <1>0, <2>1, <2>2, <2>3, ProgressKeepsCarried
<1>7. ASSUME NEW e \in Event, Fail(e)
      PROVE  CarryInv'
  <2>1. /\ moves' = moves /\ lines' = lines /\ marked' = marked
        /\ status[e] = "processing" /\ status'[e] \in {"dead", "failed"}
        /\ left'[e] = {}
        /\ \A f \in Event \ {e} : status'[f] = status[f] /\ left'[f] = left[f]
        /\ left' = [f \in Event |-> left'[f]]
    BY <1>7 DEF Fail, RollBack, stockVars, stock, EventInv, CarryInv
  <2>2. /\ tx'[e] = <<>> /\ \A q \in Process \ {e} : tx'[q] = tx[q]
    <3>1. e \in Process
      BY DEF ConsumptionAssumption
    <3> QED
      BY <1>7, <3>1 DEF Fail, RollBack, Close, stockVars, StockInv
  <2>3. KeysOwn'
    <3>1. \A f \in Event : status[f] # "none" => status'[f] # "none" /\ lines'[f] = lines[f]
      BY <2>1
    <3>2. \A q \in Manual : tx'[q] = tx[q]
      BY <2>2 DEF ConsumptionAssumption
    <3> QED
      BY <1>0, <2>1, <3>1, <3>2, KeysStay DEF KeysOwn, CarryInv, MoveOf, ItemKey
  <2>4. \A f \in Event \ {e} : tx'[f] = tx[f]
    BY <2>2 DEF ConsumptionAssumption
  <2> QED
    BY <1>0, <2>1, <2>2, <2>3, <2>4, ProgressKeepsCarried
<1>8. ASSUME NEW e \in Event, NEW n \in DOMAIN lines[e], ProcessItem(e, n)
      PROVE  CarryInv'
  <2>1. /\ UNCHANGED consumption /\ moves' = moves
        /\ status[e] = "processing" /\ n \in left[e]
        /\ tx'[e] = ItemRequest(e, n)
        /\ \A q \in Process \ {e} : tx'[q] = tx[q]
    <3>1. e \in Process
      BY DEF ConsumptionAssumption
    <3> QED
      BY <1>8, <3>1 DEF ProcessItem, Ask, stock, StockInv
  <2>2. /\ lines' = lines /\ status' = status /\ left' = left /\ marked' = marked
    BY <2>1 DEF consumption
  <2>3. ItemRequest(e, n)' = ItemRequest(e, n)
    BY <1>0, <2>2, ItemStays
  <2>4. \A f \in Event \ {e} : tx'[f] = tx[f]
    BY <2>1 DEF ConsumptionAssumption
  <2>5. \A q \in Manual : tx'[q] = tx[q]
    BY <2>1 DEF ConsumptionAssumption
  <2>6. KeysOwn'
    BY <1>0, <2>1, <2>2, <2>5, KeysStay DEF KeysOwn, CarryInv, MoveOf, ItemKey
  <2>7. /\ left' = [f \in Event |-> left'[f]] /\ left'[e] \subseteq DOMAIN lines[e]
        /\ DOMAIN lines[e] \subseteq marked'[e] \cup left'[e]
    BY <2>1, <2>2 DEF CarryInv, Working
  <2>8. \E i \in left'[e] : tx'[e] = ItemRequest(e, i)'
    BY <2>1, <2>2, <2>3
  <2> QED
    BY <1>0, <2>1, <2>2, <2>4, <2>6, <2>7, <2>8, ProgressKeepsCarried
<1>9. ASSUME NEW e \in Event, NEW n \in DOMAIN lines[e], Mark(e, n)
      PROVE  CarryInv'
  <2>1. /\ UNCHANGED stockVars /\ lines' = lines /\ status' = status
        /\ status[e] = "processing" /\ tx[e] = <<>>
        /\ marked'[e] = marked[e] \cup {n} /\ left'[e] = left[e] \ {n}
        /\ \A f \in Event \ {e} : marked'[f] = marked[f] /\ left'[f] = left[f]
        /\ left' = [f \in Event |-> left'[f]]
    BY <1>9 DEF Mark, EventInv, CarryInv
  <2>2. tx' = tx
    BY <2>1 DEF stockVars
  <2>3. KeysOwn'
    BY <2>1, KeysOwnStays
  <2>4. left'[e] \subseteq DOMAIN lines[e] /\ DOMAIN lines[e] \subseteq marked'[e] \cup left'[e]
    BY <2>1 DEF CarryInv, Working
  <2> QED
    BY <1>0, <2>1, <2>2, <2>3, <2>4, ProgressKeepsCarried
<1> QED
  BY <1>1, <1>2, <1>3, <1>4, <1>5, <1>6, <1>7, <1>8, <1>9 DEF Next

\* So what was asked for is always carried.
LEMMA AlwaysCarried ==
  ASSUME ValuationAssumption, ConsumptionAssumption
  PROVE  Spec => []CarryInv
<1>1. Init => CarryInv
  BY DEF Init, StockInit, CarryInv, Working, KeysOwn, Mirrored, Event, ConsumptionAssumption
<1>2. StockInv /\ EventInv /\ CarryInv /\ [Next]_vars => CarryInv'
  <2>1. ASSUME StockInv, EventInv, CarryInv, Next
        PROVE  CarryInv'
    BY <2>1, CarryStep
  <2>2. ASSUME StockInv, EventInv, CarryInv, UNCHANGED vars
        PROVE  CarryInv'
    <3>1. UNCHANGED stockVars /\ UNCHANGED consumption
      BY <2>2 DEF vars, stock, stockVars
    <3>2. /\ tx' = tx /\ lines' = lines /\ left' = left /\ status' = status
          /\ marked' = marked /\ moves' = moves
      BY <3>1 DEF stockVars, stock, consumption
    <3>3. KeysOwn'
      BY <2>2, <3>1, <3>2, KeysOwnStays
    <3>4. RowsStay
      BY <3>2 DEF RowsStay
    <3>5. Working'
      BY <2>2, <3>2, <3>4, AskedStays DEF CarryInv, Working
    <3> QED
      BY <2>2, <3>2, <3>3, <3>5 DEF CarryInv, Mirrored
  <2> QED
    BY <2>1, <2>2
<1> QED
  BY <1>1, <1>2, StockSound, PTL DEF Spec

\* The movements of a posted event's items sum up to what the items ask for.
LEMMA MovedAsAsked ==
  ASSUME ConsumptionAssumption, StockInv, EventInv, CarryInv,
         NEW e \in Event, e[2] = "consume", status[e] = "posted", NEW i
  PROVE  Moved(e, i) = -Asked(e, i)
<1> DEFINE N == {n \in DOMAIN lines[e] : lines[e][n].item = i}
           K == {k \in DOMAIN moves : k[1] \in {<<e, n>> : n \in DOMAIN lines[e]} /\ moves[k].item = i}
           f == [n \in N |-> MoveOf(e, n)]
           asked == [n \in N |-> lines[e][n].quantity]
           moved == [k \in K |-> moves[k].quantity]
           opposite == [n \in N |-> -asked[n]]
<1>1. \A n \in DOMAIN lines[e] : n \in Place /\ n \in marked[e]
  BY DEF CarryInv, Working
<1>2. \A n \in DOMAIN lines[e] : MoveOf(e, n) \in DOMAIN moves /\ MoveOf(e, n)[1] = <<e, n>>
  BY <1>1 DEF EventInv, MoveOf, ItemKey
<1>3. \A n \in DOMAIN lines[e] : Carried(e, n)
  BY <1>1, <1>2 DEF CarryInv, KeysOwn
<1>4. K = {f[n] : n \in N}
  <2>1. ASSUME NEW n \in N
        PROVE  f[n] \in K
    BY <1>2, <1>3 DEF Carried
  <2>2. ASSUME NEW k \in K
        PROVE  \E n \in N : k = f[n]
    <3>1. PICK n \in DOMAIN lines[e] : k[1] = <<e, n>>
      OBVIOUS
    <3>2. k = MoveOf(e, n)
      BY <1>1, <3>1 DEF CarryInv, KeysOwn
    <3>3. n \in N
      BY <1>3, <3>2 DEF Carried
    <3> QED
      BY <3>2, <3>3
  <2> QED
    BY <2>1, <2>2
<1>5. \A n, j \in N : f[n] = f[j] => n = j
  BY <1>2
<1>6. IsFiniteSet(N)
  <2>1. f \in Injection(N, DOMAIN moves)
    BY <1>2, <1>5 DEF Injection, IsInjective
  <2>2. IsFiniteSet(DOMAIN moves)
    BY DEF StockInv, Movements
  <2> HIDE DEF N, f
  <2> QED
    BY <2>1, <2>2, FS_Injection
<1>7. \A n \in N : /\ asked[n] \in Int /\ opposite[n] = -asked[n]
                   /\ moved[f[n]] = opposite[n] /\ moved[f[n]] \in Int
  <2> SUFFICES ASSUME NEW n \in N
               PROVE  /\ asked[n] \in Int /\ opposite[n] = -asked[n]
                      /\ moved[f[n]] = opposite[n] /\ moved[f[n]] \in Int
    OBVIOUS
  <2>1. asked[n] = lines[e][n].quantity /\ lines[e][n].quantity \in Nat
    BY DEF EventInv
  <2>2. f[n] \in K /\ moves[MoveOf(e, n)].quantity = -lines[e][n].quantity
    BY <1>3, <1>4 DEF Carried
  <2>3. moved[f[n]] = moves[MoveOf(e, n)].quantity
    BY <2>2
  <2> QED
    BY <2>1, <2>2, <2>3
<1>8. Moved(e, i) = SumFunctionOnSet(moved, K) /\ Asked(e, i) = SumFunctionOnSet(asked, N)
  BY DEF Moved, Asked, SumFunction
<1> HIDE DEF N, K, f, asked, moved, opposite
<1>9. SumFunctionOnSet(moved, K) = SumFunctionOnSet(opposite, N)
  BY <1>4, <1>5, <1>6, <1>7, SumRenamed
<1>10. SumFunctionOnSet(opposite, N) = -SumFunctionOnSet(asked, N)
  BY <1>6, <1>7, SumOpposite
<1> QED
  BY <1>8, <1>9, <1>10

\* A posted reversal's item is the opposite of the item it reverses.
LEMMA PutBack ==
  ASSUME ValuationAssumption, StockInv, EventInv, CarryInv,
         NEW o \in Order, status[<<o, "reverse">>] = "posted", NEW n \in DOMAIN lines[<<o, "consume">>]
  PROVE  LET taken == MoveOf(<<o, "consume">>, n)
             back == MoveOf(<<o, "reverse">>, n)
         IN /\ back \in DOMAIN moves
            /\ moves[back].quantity + moves[taken].quantity = 0
            /\ moves[back].value + moves[taken].value = 0
            /\ moves[back].event = moves[taken].event
<1> DEFINE c == <<o, "consume">>
           r == <<o, "reverse">>
           taken == MoveOf(c, n)
           back == MoveOf(r, n)
           q == lines[c][n].quantity
           cost == moves[taken].cost
<1>1. /\ c \in Event /\ r \in Event /\ c[1] = o /\ r[1] = o /\ c[2] = "consume" /\ r[2] = "reverse"
      /\ back[1] = <<r, n>> /\ taken[1] = <<c, n>>
  BY DEF Event, MoveOf, ItemKey
<1>2. /\ status[c] = "posted" /\ n \in DOMAIN lines[r] /\ lines[r][n] = lines[c][n]
  BY DEF CarryInv, Mirrored
<1>3. /\ n \in Place /\ back \in DOMAIN moves /\ taken \in DOMAIN moves
  BY <1>1, <1>2 DEF CarryInv, Working, EventInv
<1>4. Carried(c, n) /\ Carried(r, n)
  BY <1>1, <1>3 DEF CarryInv, KeysOwn
<1>5. q \in Nat /\ cost \in Nat
  BY <1>1, <1>3 DEF EventInv, StockInv, Movements
<1>6. /\ moves[taken].quantity = -q
      /\ moves[taken].value = valueFromQuantity(-q, cost)
      /\ moves[taken].event = IF moves[taken].value = 0 THEN "non_posting" ELSE "pending"
  BY <1>1, <1>4 DEF Carried
<1>7. /\ moves[back].quantity = q
      /\ moves[back].value = valueFromQuantity(q, cost)
      /\ moves[back].event = IF moves[back].value = 0 THEN "non_posting" ELSE moves[taken].event
  BY <1>1, <1>2, <1>4 DEF Carried
<1>8. /\ valueFromQuantity(-q, cost) = -valueFromQuantity(q, cost)
      /\ valueFromQuantity(q, cost) \in Int
  <2> DEFINE x == q * cost
  <2>1. x \in Int /\ (-q) * cost = -x
    BY <1>5
  <2> HIDE DEF x
  <2>2. DivideRounded(-x, Unit) = -DivideRounded(x, Unit) /\ DivideRounded(x, Unit) \in Int
    BY <2>1, DivideSign DEF ValuationAssumption
  <2> QED
    BY <2>1, <2>2 DEF valueFromQuantity, x
<1> HIDE DEF c, r, taken, back, q, cost
<1>9. moves[back].quantity + moves[taken].quantity = 0 /\ moves[back].value + moves[taken].value = 0
  BY <1>5, <1>6, <1>7, <1>8
<1>10. moves[back].value = 0 <=> moves[taken].value = 0
  BY <1>6, <1>7, <1>8
<1> QED
  BY <1>3, <1>6, <1>7, <1>9, <1>10 DEF back, taken, c, r

\* For any orders, recipes and requests that race for the stock: a posted event has
\* taken exactly what its recipe asked for, a posted reversal has put back what was
\* taken at what it cost then, and nothing goes negative (inventoryConsumption.ts,
\* inventoryService.ts).
THEOREM ConsumptionExact ==
  ASSUME ValuationAssumption, ConsumptionAssumption
  PROVE  Spec => []ConsumedExactly
<1>1. StockInv /\ EventInv /\ CarryInv => ConsumedExactly
  <2> SUFFICES ASSUME StockInv, EventInv, CarryInv
               PROVE  ConsumedExactly
    OBVIOUS
  <2>1. PostedIsConsumed
    <3> SUFFICES ASSUME NEW o \in Order, status[<<o, "consume">>] = "posted"
                 PROVE  /\ marked[<<o, "consume">>] = DOMAIN lines[<<o, "consume">>]
                        /\ \A i \in Item : Moved(<<o, "consume">>, i) = -Asked(<<o, "consume">>, i)
      BY DEF PostedIsConsumed
    <3>1. <<o, "consume">> \in Event /\ <<o, "consume">>[2] = "consume"
      BY DEF Event
    <3>2. marked[<<o, "consume">>] = DOMAIN lines[<<o, "consume">>]
      BY <3>1 DEF EventInv, CarryInv, Working
    <3> QED
      BY <3>1, <3>2, MovedAsAsked
  <2>2. ReversedExactly
    BY PutBack DEF ReversedExactly
  <2>3. NonNegative
    BY DEF StockInv
  <2> QED
    BY <2>1, <2>2, <2>3 DEF ConsumedExactly
<1> QED
  BY <1>1, StockSound, AlwaysCarried, PTL

-----------------------------------------------------------------------------
(* Dialogs that move stock.                                                *)

\* The key of an attempt is the opening's, and movements are of attempts that were done.
FormsInv ==
  /\ Forms!TypeOK
  /\ \A a \in Forms!Attempt : submits[a].phase # "unsent" => submits[a].key = submits[a].opening
  /\ \A m \in movements : submits[m.attempt].phase = "done"
  /\ \A m \in movements : [attempt : {m.attempt}, leg : Leg] \subseteq movements
  /\ Forms!MovedOnce

FormRequest == [phase : Forms!Phase, opening : 0..MaxOpenings, key : Nat, content : Content \cup {NoContent}]

LEMMA OpeningsAreNat == MaxOpenings \in Nat
BY SuiteAssumption DEF Forms!FormsAssumption

\* The dialog is closed and nothing is sent.
LEMMA FormsInit == Forms!Init => FormsInv
<1> SUFFICES ASSUME Forms!Init
             PROVE  FormsInv
  OBVIOUS
<1>1. Forms!Unsent \in FormRequest
  BY OpeningsAreNat DEF FormRequest, Forms!Unsent, Forms!Phase
<1>2. Forms!TypeOK
  <2>1. open \in BOOLEAN
    BY DEF Forms!Init
  <2>5. opening \in 0..MaxOpenings
    BY OpeningsAreNat DEF Forms!Init
  <2>2. content \in Content \cup {NoContent} /\ busy \in Forms!Attempt \cup {NoContent}
    BY DEF Forms!Init
  <2>3. submits \in [Forms!Attempt -> FormRequest]
    BY <1>1 DEF Forms!Init
  <2>4. movements \subseteq [attempt : Forms!Attempt, leg : Leg] /\ declared \subseteq Forms!Attempt
    BY DEF Forms!Init
  <2> QED
    BY <2>1, <2>2, <2>3, <2>4, <2>5 DEF Forms!TypeOK, FormRequest
<1>3. \A a \in Forms!Attempt : submits[a].phase = "unsent"
  BY DEF Forms!Init, Forms!Unsent
<1> QED
  BY <1>2, <1>3 DEF Forms!Init, FormsInv, Forms!MovedOnce

\* Nothing moves and no attempt changes its key or opening.
LEMMA FormsFrame ==
  ASSUME FormsInv, Forms!TypeOK', movements' = movements,
         \A a \in Forms!Attempt :
           \/ submits'[a] = submits[a]
           \/ /\ submits[a].phase # "done"
              /\ submits'[a].phase # "unsent" => submits'[a].key = submits'[a].opening
  PROVE  FormsInv'
<1>1. \A m \in movements : m.attempt \in Forms!Attempt
  BY DEF FormsInv, Forms!TypeOK
<1>2. \A m \in movements : submits'[m.attempt] = submits[m.attempt]
  BY <1>1 DEF FormsInv
<1>3. \A a \in Forms!Attempt : submits'[a].phase # "unsent" => submits'[a].key = submits'[a].opening
  BY DEF FormsInv
<1>4. \A m, n \in movements : submits[m.attempt].opening = submits[n.attempt].opening => m.attempt = n.attempt
  BY DEF FormsInv, Forms!MovedOnce
<1>5. \A m, n \in movements : \E o \in movements : o.attempt = m.attempt /\ o.leg = n.leg
  BY DEF FormsInv, Forms!MovedOnce
<1>6. Forms!MovedOnce'
  <2>1. \A m, n \in movements' : submits'[m.attempt].opening = submits'[n.attempt].opening => m.attempt = n.attempt
    BY <1>2, <1>4
  <2>2. \A m, n \in movements' : \E o \in movements' : o.attempt = m.attempt /\ o.leg = n.leg
    BY <1>5
  <2> QED
    BY ONLY <2>1, <2>2 DEF Forms!MovedOnce
<1>7. \A m \in movements' : submits'[m.attempt].phase = "done"
  BY <1>2 DEF FormsInv
<1>8. \A m \in movements' : [attempt : {m.attempt}, leg : Leg] \subseteq movements'
  BY DEF FormsInv
<1> QED
  BY <1>3, <1>6, <1>7, <1>8 DEF FormsInv, Forms!Attempt

\* The dialog itself, and answers.
LEMMA DialogKeepsForms ==
  ASSUME FormsInv,
         \/ Forms!Open \/ Forms!Close \/ (\E c \in Content : Forms!Enter(c)) \/ Forms!Answer
         \/ UNCHANGED Forms!vars
  PROVE  FormsInv'
<1>1. submits' = submits /\ movements' = movements
  BY DEF Forms!Open, Forms!Close, Forms!Enter, Forms!Answer, Forms!vars
<1>2. open' \in BOOLEAN
  BY DEF FormsInv, Forms!TypeOK, Forms!Open, Forms!Close, Forms!Enter, Forms!Answer, Forms!vars, Forms!form
<1>6. opening' \in 0..MaxOpenings
  BY OpeningsAreNat DEF FormsInv, Forms!TypeOK, Forms!Open, Forms!Close, Forms!Enter, Forms!Answer, Forms!vars, Forms!form
<1>3. content' \in Content \cup {NoContent}
  BY DEF FormsInv, Forms!TypeOK, Forms!Open, Forms!Close, Forms!Enter, Forms!Answer, Forms!vars, Forms!form
<1>4. busy' \in Forms!Attempt \cup {NoContent} /\ declared' \subseteq Forms!Attempt
  BY DEF FormsInv, Forms!TypeOK, Forms!Open, Forms!Close, Forms!Enter, Forms!Answer, Forms!vars
<1>5. Forms!TypeOK'
  BY <1>1, <1>2, <1>3, <1>4, <1>6 DEF FormsInv, Forms!TypeOK, Forms!Attempt, Forms!Phase
<1> QED
  BY <1>1, <1>5, FormsFrame

\* An attempt that is not done is what it will be, under its opening's key.
LEMMA RequestKeepsForms ==
  ASSUME FormsInv, UNCHANGED <<open, opening, content, declared, movements>>,
         busy' \in Forms!Attempt \cup {NoContent},
         NEW a \in Forms!Attempt, NEW r \in FormRequest,
         submits[a].phase # "done", r.key = r.opening,
         submits' = [submits EXCEPT ![a] = r]
  PROVE  FormsInv'
<1>1. submits' \in [Forms!Attempt -> FormRequest]
  BY DEF FormsInv, Forms!TypeOK, FormRequest
<1>2. Forms!TypeOK'
  BY <1>1 DEF FormsInv, Forms!TypeOK, Forms!Attempt, Forms!Phase, FormRequest
<1>3. \A b \in Forms!Attempt : submits'[b] = IF b = a THEN r ELSE submits[b]
  BY DEF FormsInv, Forms!TypeOK
<1> QED
  BY <1>2, <1>3, FormsFrame

\* An attempt goes on and keeps its key.
LEMMA PhaseKeepsForms ==
  ASSUME FormsInv, UNCHANGED <<open, opening, content, declared, movements>>,
         busy' \in Forms!Attempt \cup {NoContent},
         NEW a \in Forms!Attempt, NEW p \in Forms!Phase,
         submits[a].phase \in {"sent", "looked up"},
         submits' = [submits EXCEPT ![a].phase = p]
  PROVE  FormsInv'
<1> DEFINE r == [submits[a] EXCEPT !.phase = p]
<1>1. submits[a] \in FormRequest
  BY DEF FormsInv, Forms!TypeOK, FormRequest
<1>2. r \in FormRequest /\ r.key = submits[a].key /\ r.opening = submits[a].opening
  BY <1>1 DEF FormRequest
<1>3. submits[a].key = submits[a].opening
  BY DEF FormsInv
<1>4. submits' = [submits EXCEPT ![a] = r]
  OBVIOUS
<1> HIDE DEF r
<1> QED
  BY <1>2, <1>3, <1>4, RequestKeepsForms

\* What is sent bears the key of the opening.
LEMMA SendingKeepsForms ==
  ASSUME FormsInv,
         \/ \E a \in Forms!Attempt : Forms!Submit(a) \/ Forms!LookUp(a)
         \/ Forms!Lose
  PROVE  FormsInv'
<1>1. CASE \E a \in Forms!Attempt : Forms!Submit(a)
  <2>1. PICK a \in Forms!Attempt : Forms!Submit(a)
    BY <1>1
  <2> DEFINE r == [phase |-> "sent", opening |-> opening, key |-> opening, content |-> content]
  <2>2. r \in FormRequest
    <3>1. opening \in 0..MaxOpenings /\ opening \in Nat
      BY OpeningsAreNat DEF FormsInv, Forms!TypeOK
    <3>2. content \in Content \cup {NoContent} /\ "sent" \in Forms!Phase
      BY DEF FormsInv, Forms!TypeOK, Forms!Phase
    <3> QED
      BY <3>1, <3>2 DEF FormRequest
  <2>3. /\ submits' = [submits EXCEPT ![a] = r]
        /\ submits[a].phase # "done" /\ r.key = r.opening
        /\ UNCHANGED <<open, opening, content, declared, movements>>
        /\ busy' = a
    BY <2>1 DEF Forms!Submit, Forms!SentKey, Forms!form
  <2> HIDE DEF r
  <2> QED
    BY <2>2, <2>3, RequestKeepsForms
<1>2. CASE \E a \in Forms!Attempt : Forms!LookUp(a)
  <2>1. PICK a \in Forms!Attempt : Forms!LookUp(a)
    BY <1>2
  <2>2. PICK p \in Forms!Phase : submits' = [submits EXCEPT ![a].phase = p]
    BY <2>1 DEF Forms!LookUp, Forms!Phase
  <2>3. /\ submits[a].phase \in {"sent", "looked up"}
        /\ UNCHANGED <<open, opening, content, declared, movements>>
        /\ busy' \in Forms!Attempt \cup {NoContent}
    BY <2>1 DEF Forms!LookUp, Forms!form, FormsInv, Forms!TypeOK
  <2> QED
    BY <2>2, <2>3, PhaseKeepsForms
<1>3. CASE Forms!Lose
  <2>1. /\ UNCHANGED <<open, opening, content, declared, movements>>
        /\ busy \in Forms!Attempt
        /\ busy' = NoContent
    BY <1>3 DEF Forms!Lose, Forms!form, FormsInv, Forms!TypeOK
  <2>2. CASE submits' = submits
    <3>1. Forms!TypeOK'
      BY <2>1, <2>2 DEF FormsInv, Forms!TypeOK, Forms!Attempt, Forms!Phase
    <3> QED
      BY <2>1, <2>2, <3>1, FormsFrame
  <2>3. CASE submits[busy].phase = "sent" /\ submits' = [submits EXCEPT ![busy].phase = "failed"]
    BY <2>1, <2>3, PhaseKeepsForms DEF Forms!Phase
  <2> QED
    BY <1>3, <2>2, <2>3 DEF Forms!Lose
<1> QED
  BY <1>1, <1>2, <1>3

\* What is stored is the first under its key.
LEMMA StoreKeepsForms ==
  ASSUME FormsInv, NEW a \in Forms!Attempt, Forms!Store(a)
  PROVE  FormsInv'
<1>1. submits \in [Forms!Attempt -> FormRequest]
  BY DEF FormsInv, Forms!TypeOK, FormRequest
<1>2. /\ UNCHANGED <<open, opening, content, busy, declared>>
      /\ submits[a].phase = "looked up"
      /\ busy \in Forms!Attempt \cup {NoContent}
  BY DEF Forms!Store, Forms!form, FormsInv, Forms!TypeOK
<1>3. CASE movements' = movements /\ submits' = [submits EXCEPT ![a].phase = "failed"]
  BY <1>2, <1>3, PhaseKeepsForms DEF Forms!Phase
<1>4. CASE /\ Forms!Stored(a) = {}
           /\ movements' = movements \cup [attempt : {a}, leg : Leg]
           /\ submits' = [submits EXCEPT ![a].phase = "done"]
  <2>1. \A b \in Forms!Attempt : submits'[b].key = submits[b].key /\ submits'[b].opening = submits[b].opening
                                 /\ submits'[b].phase = IF b = a THEN "done" ELSE submits[b].phase
    BY <1>1, <1>4 DEF FormRequest
  <2>2. \A m \in movements : m.attempt \in Forms!Attempt /\ submits[m.attempt].phase = "done" /\ m.attempt # a
    BY <1>2 DEF FormsInv, Forms!TypeOK
  <2>3. \A m \in movements : submits[m.attempt].key # submits[a].key
    BY <1>4 DEF Forms!Stored
  <2>4. \A m \in movements : submits[m.attempt].opening # submits[a].opening
    BY <1>2, <2>2, <2>3 DEF FormsInv
  <2>5. \A m \in movements' : m \in movements \/ (m.attempt = a /\ m.leg \in Leg)
    BY <1>4
  <2>6. \A b \in Forms!Attempt : submits'[b].phase # "unsent" => submits'[b].key = submits'[b].opening
    BY <1>2, <2>1 DEF FormsInv
  <2>7. \A m \in movements' : submits'[m.attempt].phase = "done"
    BY <2>1, <2>2, <2>5
  <2>8. \A m \in movements' : [attempt : {m.attempt}, leg : Leg] \subseteq movements'
    BY <1>4, <2>5 DEF FormsInv
  <2>9. \A m, n \in movements : submits[m.attempt].opening = submits[n.attempt].opening => m.attempt = n.attempt
    BY DEF FormsInv, Forms!MovedOnce
  <2>10. \A m, n \in movements' : submits'[m.attempt].opening = submits'[n.attempt].opening => m.attempt = n.attempt
    <3> SUFFICES ASSUME NEW m \in movements', NEW n \in movements',
                        submits'[m.attempt].opening = submits'[n.attempt].opening
                 PROVE  m.attempt = n.attempt
      OBVIOUS
    <3>1. m.attempt \in Forms!Attempt /\ n.attempt \in Forms!Attempt
      BY <2>2, <2>5
    <3>2. submits[m.attempt].opening = submits[n.attempt].opening
      BY <2>1, <3>1
    <3> QED
      BY <2>4, <2>5, <2>9, <3>2
  <2>11. \A m \in movements : m.leg \in Leg
    BY DEF FormsInv, Forms!TypeOK
  <2>12. \A m, n \in movements' : \E o \in movements' : o.attempt = m.attempt /\ o.leg = n.leg
    <3> SUFFICES ASSUME NEW m \in movements', NEW n \in movements'
                 PROVE  [attempt |-> m.attempt, leg |-> n.leg] \in movements'
      OBVIOUS
    <3>1. n.leg \in Leg
      BY <2>5, <2>11
    <3> QED
      BY <2>8, <3>1
  <2>13. submits' \in [Forms!Attempt -> FormRequest]
    BY <1>1, <1>4 DEF FormRequest, Forms!Phase
  <2>14. movements' \subseteq [attempt : Forms!Attempt, leg : Leg]
    BY <1>4 DEF FormsInv, Forms!TypeOK
  <2>15. Forms!TypeOK'
    BY <1>2, <2>13, <2>14 DEF FormsInv, Forms!TypeOK, FormRequest, Forms!Attempt, Forms!Phase
  <2> QED
    BY <2>6, <2>7, <2>8, <2>10, <2>12, <2>15 DEF FormsInv, Forms!MovedOnce, Forms!Attempt
<1> QED
  BY <1>3, <1>4 DEF Forms!Store, Forms!StoredByNow

\* A step of the suite is a step of the dialog or leaves it alone.
LEMMA SuiteMovesForms == [SuiteNext]_suiteVars => [Forms!Next]_Forms!vars
BY DEF SuiteNext, suiteVars, formsVars, Forms!vars, Forms!form

\* An opening of a dialog moves stock once, for any contents, legs and numbers of openings
\* and attempts (useInventoryMutation, inventoryService.ts).
THEOREM FormsMoveOnce == SuiteSpec => []MovedOnce
<1>1. SuiteInit => FormsInv
  BY FormsInit DEF SuiteInit
<1>2. FormsInv /\ [SuiteNext]_suiteVars => FormsInv'
  <2> SUFFICES ASSUME FormsInv, [Forms!Next]_Forms!vars
               PROVE  FormsInv'
    BY SuiteMovesForms
  <2> QED
    BY DialogKeepsForms, SendingKeepsForms, StoreKeepsForms DEF Forms!Next
<1>3. FormsInv => MovedOnce
  BY DEF FormsInv, MovedOnce
<1> QED
  BY <1>1, <1>2, <1>3, PTL DEF SuiteSpec

-----------------------------------------------------------------------------
(* Settlements.                                                            *)

EventState == {"pending", "posted", "deferred_rounding", "non_posting", "reconciled"}
RowState == {"none", "open", "settled", "reversed"}

SettledType ==
  /\ settlementStatus \in [Settling!Event -> EventState]
  /\ journaled \subseteq Settling!Event
  /\ row \in [Settling!Event -> RowState]
  /\ link \in [Settling!Event -> Settling!Entry \cup {NoEntry}]
  /\ amount \in [Settling!SettlementEntry -> Int]
  /\ undone \subseteq Settling!Entry
  /\ posting \subseteq Settling!Event
  /\ undoing \subseteq Settling!Entry

\* What the status of an event says of its evidence, and links lead to settlements that stand.
EvidenceInv ==
  \A e \in Settling!Event :
    /\ settlementStatus[e] \in {"pending", "non_posting"} <=> ~Settling!HasEvidence(e)
    /\ e \in posting => settlementStatus[e] = "pending" /\ Settling!Value(e) # 0
    /\ row[e] = "none" => link[e] = NoEntry
    /\ e \in journaled => settlementStatus[e] = "posted"
    /\ e \notin journaled /\ row[e] # "none" =>
         settlementStatus[e] = IF row[e] = "open" THEN "deferred_rounding" ELSE "reconciled"
    /\ row[e] = "settled" /\ link[e] \in Settling!SettlementEntry => link[e] \in Settling!Live

\* What a movement leaves depends on its rounding; its row is reversed by a reversal only.
MovementInv ==
  \A m \in Movement :
    /\ row[m] = "none" /\ m \in journaled => Settling!Residual(m) = 0
    /\ m \notin journaled /\ row[m] # "none" => Settling!Rounded(Settling!Value(m)) = 0
    /\ row[m] = "settled" => link[m] = NoEntry \/ link[m] \in Settling!Live
    /\ row[m] = "reversed" => \E e \in Reversal : Original(e) = m /\ row[e] = "settled"

\* A reversal leaves what its movement left, and one reversal takes a residual back.
ReversalInv ==
  \A e \in Reversal :
    /\ e \in posting \/ Settling!HasEvidence(e) => Settling!HasEvidence(Original(e))
    /\ Settling!HasEvidence(e) => (e \in journaled <=> Original(e) \in journaled)
    /\ row[e] \in {"none", "settled"}
    /\ row[e] = "settled" => row[Original(e)] = "reversed" /\ link[e] \notin Settling!SettlementEntry
    /\ row[e] = "none" /\ e \in journaled => row[Original(e)] = "none"
    /\ \A d \in Reversal : row[e] = "settled" /\ row[d] = "settled" /\ Original(e) = Original(d) => e = d

\* Settlements of a branch are numbered without gaps; what is reversed was there.
EntryInv ==
  /\ \A b \in Branch : \A n \in Settling!Entries(b) : 1..n \subseteq Settling!Entries(b)
  /\ \A x \in (undone \cup undoing) \cap Settling!SettlementEntry : amount[x] # 0

SettledInv ==
  SettledType /\ EvidenceInv /\ MovementInv /\ ReversalInv /\ EntryInv /\ Settling!SettlementBacked

-----------------------------------------------------------------------------

\* Sizes and sums are those of the library in the instance, too.
LEMMA SameSizes == \A S : Settling!Cardinality(S) = Cardinality(S)
BY DEF Cardinality, Settling!Cardinality, IsFiniteSet, Settling!IsFiniteSet

LEMMA SameSums == ASSUME NEW g, NEW S
                  PROVE  Settling!SumFunctionOnSet(g, S) = SumFunctionOnSet(g, S)
BY DEF SumFunctionOnSet, FoldFunctionOnSet, MapThenFoldSet, Settling!SumFunctionOnSet,
   Settling!FoldFunctionOnSet, Settling!MapThenFoldSet

\* What is assumed of the constants.
LEMMA SettlementConstants ==
  /\ \A m \in Movement : Worth(m) \in Int /\ m \notin Reversal
  /\ \A e \in Reversal : Original(e) \in Movement /\ e \notin Movement
  /\ Settling!Event = Movement \cup Reversal /\ IsFiniteSet(Settling!Event)
  /\ \A e \in Settling!Event : e \notin Settling!SettlementEntry /\ e # NoEntry /\ BranchOf(e) \in Branch
  /\ NoEntry \notin Settling!SettlementEntry
  /\ Cent \in Nat \ {0} /\ MaxSettlements \in Nat
  /\ IsFiniteSet(Branch)
  /\ Settling!Entry = Settling!Event \cup Settling!SettlementEntry
<1>1. Settling!SettlementAssumption
  BY SuiteAssumption
<1>2. Settling!Event = Movement \cup Reversal /\ Settling!Entry = Settling!Event \cup Settling!SettlementEntry
  BY DEF Settling!Event, Settling!Entry
<1>3. \A m \in Movement : Worth(m) \in Int /\ m \notin Reversal
  BY <1>1 DEF Settling!SettlementAssumption
<1>4. \A e \in Reversal : Original(e) \in Movement /\ e \notin Movement
  BY <1>1 DEF Settling!SettlementAssumption
<1>5. NoEntry \notin Settling!Entry /\ Settling!Event \cap Settling!SettlementEntry = {}
  BY <1>1 DEF Settling!SettlementAssumption
<1>6. \A e \in Settling!Event : BranchOf(e) \in Branch
  BY <1>1 DEF Settling!SettlementAssumption
<1>7. Cent \in Nat \ {0} /\ MaxSettlements \in Nat
  BY <1>1 DEF Settling!SettlementAssumption
<1>8. IsFiniteSet(Branch) /\ IsFiniteSet(Settling!Event)
  BY <1>1 DEF Settling!SettlementAssumption, Settling!IsFiniteSet, IsFiniteSet
<1> QED
  BY <1>2, <1>3, <1>4, <1>5, <1>6, <1>7, <1>8

LEMMA Quotient ==
  ASSUME NEW a \in Nat, NEW b \in Nat \ {0}
  PROVE  a \div b \in Nat /\ b * (a \div b) <= a /\ a < b * (a \div b) + b
OBVIOUS

\* Rounding to minor units treats both signs alike and is off by half a unit at most.
LEMMA RoundedOff ==
  ASSUME NEW v \in Int
  PROVE  /\ Settling!Rounded(v) \in Int
         /\ Settling!Rounded(-v) = -Settling!Rounded(v)
         /\ 2 * (v - Cent * Settling!Rounded(v)) <= Cent
         /\ -Cent <= 2 * (v - Cent * Settling!Rounded(v))
<1>1. Cent \in Nat \ {0}
  BY SettlementConstants
<1>2. ASSUME NEW n \in Nat
      PROVE  /\ (2 * n + Cent) \div (2 * Cent) \in Nat
             /\ 2 * (n - Cent * ((2 * n + Cent) \div (2 * Cent))) <= Cent
             /\ -Cent <= 2 * (n - Cent * ((2 * n + Cent) \div (2 * Cent)))
  <2> DEFINE a == 2 * n + Cent
             b == 2 * Cent
             q == a \div b
             p == Cent * q
  <2>1. a \in Nat /\ b \in Nat \ {0} /\ a = 2 * n + Cent /\ b = 2 * Cent
    BY <1>1
  <2> HIDE DEF a, b
  <2>2. q \in Nat /\ b * q <= a /\ a < b * q + b
    BY <2>1, Quotient
  <2> HIDE DEF q
  <2>3. b * q = 2 * p /\ p \in Int
    BY <1>1, <2>1, <2>2
  <2> HIDE DEF p
  <2>4. 2 * (n - p) <= Cent /\ -Cent <= 2 * (n - p)
    BY <1>1, <2>1, <2>2, <2>3
  <2> QED
    BY <2>2, <2>4 DEF p, q, a, b
<1>3. CASE v = 0
  <2>1. Settling!Rounded(0) = 0
    BY <1>1, <1>2 DEF Settling!Rounded
  <2> QED
    BY <1>1, <1>3, <2>1
<1>4. CASE v > 0
  <2> DEFINE q == (2 * v + Cent) \div (2 * Cent)
  <2>1. Settling!Rounded(v) = q /\ Settling!Rounded(-v) = -q
    BY <1>4 DEF Settling!Rounded
  <2> QED
    BY <1>2, <1>4, <2>1
<1>5. CASE v < 0
  <2> DEFINE n == -v
             q == (2 * n + Cent) \div (2 * Cent)
  <2>1. Settling!Rounded(v) = -q /\ Settling!Rounded(-v) = q
    BY <1>5 DEF Settling!Rounded
  <2>2. n \in Nat /\ v = -n
    BY <1>5
  <2>3. q \in Nat /\ 2 * (n - Cent * q) <= Cent /\ -Cent <= 2 * (n - Cent * q)
    BY <1>2, <2>2
  <2> HIDE DEF n, q
  <2>4. v - Cent * (-q) = -(n - Cent * q) /\ Cent * q \in Int
    BY <1>1, <2>2, <2>3
  <2> QED
    BY <1>1, <2>1, <2>2, <2>3, <2>4
<1> QED
  BY <1>3, <1>4, <1>5

\* What an event is worth, and what of it is rounded off.
LEMMA ValueType ==
  ASSUME NEW e \in Settling!Event
  PROVE  /\ Settling!Value(e) \in Int
         /\ Settling!Rounded(Settling!Value(e)) \in Int
         /\ Settling!Residual(e) \in Int
         /\ Settling!Value(e) = Cent * Settling!Rounded(Settling!Value(e)) + Settling!Residual(e)
         /\ Cent * Settling!Rounded(Settling!Value(e)) \in Int
<1>1. Settling!Value(e) \in Int
  BY SettlementConstants DEF Settling!Value
<1>2. Settling!Rounded(Settling!Value(e)) \in Int /\ Cent \in Int
  BY <1>1, RoundedOff, SettlementConstants
<1> QED
  BY <1>1, <1>2 DEF Settling!Residual

\* A reversal takes back all of it.
LEMMA ReversedValue ==
  ASSUME NEW e \in Reversal
  PROVE  /\ Settling!Value(e) = -Settling!Value(Original(e))
         /\ Settling!Rounded(Settling!Value(e)) = -Settling!Rounded(Settling!Value(Original(e)))
         /\ Settling!Residual(e) = -Settling!Residual(Original(e))
<1>1. e \in Settling!Event /\ Original(e) \in Settling!Event
  BY SettlementConstants
<1>2. Settling!Value(e) = -Settling!Value(Original(e))
  BY SettlementConstants DEF Settling!Value
<1>3. Settling!Rounded(Settling!Value(e)) = -Settling!Rounded(Settling!Value(Original(e)))
  BY <1>1, <1>2, ValueType, RoundedOff
<1>4. Cent \in Int
  BY SettlementConstants
<1> QED
  BY <1>1, <1>2, <1>3, <1>4, ValueType DEF Settling!Residual

-----------------------------------------------------------------------------

LEMMA SettledInit == Settling!Init => SettledInv
<1> SUFFICES ASSUME Settling!Init
             PROVE  SettledInv
  OBVIOUS
<1>1. \A e \in Settling!Event : settlementStatus[e] = "pending" /\ row[e] = "none" /\ link[e] = NoEntry
  BY DEF Settling!Init
<1>2. journaled = {} /\ posting = {} /\ undone = {} /\ undoing = {}
  BY DEF Settling!Init
<1>3. \A x \in Settling!SettlementEntry : amount[x] = 0
  BY DEF Settling!Init
<1>4. SettledType
  <2>1. settlementStatus \in [Settling!Event -> EventState] /\ row \in [Settling!Event -> RowState]
    BY DEF Settling!Init, EventState, RowState
  <2>2. link \in [Settling!Event -> Settling!Entry \cup {NoEntry}]
    BY DEF Settling!Init
  <2>3. amount \in [Settling!SettlementEntry -> Int]
    BY DEF Settling!Init
  <2> QED
    BY <1>2, <2>1, <2>2, <2>3 DEF SettledType
<1>5. EvidenceInv
  BY <1>1, <1>2 DEF EvidenceInv, Settling!HasEvidence
<1>6. MovementInv
  BY <1>1, <1>2, SettlementConstants DEF MovementInv
<1>7. ReversalInv
  BY <1>1, <1>2, SettlementConstants DEF ReversalInv, Settling!HasEvidence
<1>8. Settling!Live = {}
  BY <1>3 DEF Settling!Live
<1>9. \A b \in Branch : Settling!Entries(b) = {}
  BY <1>3 DEF Settling!Entries, Settling!SettlementEntry
<1> QED
  BY <1>2, <1>4, <1>5, <1>6, <1>7, <1>8, <1>9 DEF SettledInv, EntryInv, Settling!SettlementBacked

\* Settlements that stand keep their rows.
LEMMA BackedKept ==
  ASSUME Settling!SettlementBacked, UNCHANGED <<amount, undone>>,
         \A e \in Settling!Event : \A s \in Settling!SettlementEntry :
           row'[e] = "settled" /\ link'[e] = s <=> row[e] = "settled" /\ link[e] = s
  PROVE  /\ Settling!SettlementBacked'
         /\ Settling!Live' = Settling!Live
         /\ \A b : Settling!Entries(b)' = Settling!Entries(b)
<1>1. Settling!Live' = Settling!Live
  BY DEF Settling!Live
<1>2. \A s \in Settling!SettlementEntry : Settling!RowsOf(s)' = Settling!RowsOf(s)
  BY DEF Settling!RowsOf
<1>3. \A s \in Settling!Live : s \in Settling!SettlementEntry
  BY DEF Settling!Live
<1>4. \A b : Settling!Entries(b)' = Settling!Entries(b)
  BY DEF Settling!Entries
<1>5. Settling!SettlementBacked'
  BY <1>1, <1>2, <1>3 DEF Settling!SettlementBacked
<1> QED
  BY <1>1, <1>4, <1>5

\* The guards of a post and of a reversal, periods, and what is rolled back.
LEMMA GuardsKeepSettled ==
  ASSUME SettledInv, UNCHANGED <<settlementStatus, journaled, row, link, amount, undone>>,
         \A e \in posting' : \/ e \in posting
                             \/ /\ e \in Settling!Event
                                /\ settlementStatus[e] = "pending" /\ Settling!Value(e) # 0
                                /\ e \in Reversal => Settling!HasEvidence(Original(e)),
         \A x \in undoing' : \/ x \in undoing
                             \/ x \in Settling!Entry /\ Settling!Exists(x)
  PROVE  SettledInv'
<1>1. /\ Settling!SettlementBacked'
      /\ Settling!Live' = Settling!Live
      /\ \A b : Settling!Entries(b)' = Settling!Entries(b)
  BY BackedKept DEF SettledInv
<1>2. SettledType'
  BY DEF SettledInv, SettledType
<1>3. EvidenceInv'
  BY <1>1 DEF SettledInv, EvidenceInv, Settling!HasEvidence
<1>4. MovementInv'
  BY <1>1 DEF SettledInv, MovementInv
<1>5. ReversalInv'
  BY SettlementConstants DEF SettledInv, ReversalInv, Settling!HasEvidence
<1>6. EntryInv'
  BY <1>1 DEF SettledInv, EntryInv, Settling!Exists
<1> QED
  BY <1>1, <1>2, <1>3, <1>4, <1>5, <1>6 DEF SettledInv

\* An event worth nothing is not posted.
LEMMA NothingKeepsSettled ==
  ASSUME SettledInv, UNCHANGED <<journaled, row, link, amount, undone, posting, undoing>>,
         NEW e \in Settling!Event, settlementStatus[e] = "pending", Settling!Value(e) = 0,
         settlementStatus' = [settlementStatus EXCEPT ![e] = "non_posting"]
  PROVE  SettledInv'
<1>1. /\ Settling!SettlementBacked'
      /\ Settling!Live' = Settling!Live
      /\ \A b : Settling!Entries(b)' = Settling!Entries(b)
  BY BackedKept DEF SettledInv
<1>2. \A d \in Settling!Event : settlementStatus'[d] = IF d = e THEN "non_posting" ELSE settlementStatus[d]
  BY DEF SettledInv, SettledType
<1>3. SettledType'
  BY DEF SettledInv, SettledType, EventState
<1>4. EvidenceInv'
  BY <1>1, <1>2 DEF SettledInv, EvidenceInv, Settling!HasEvidence
<1>5. MovementInv'
  BY <1>1 DEF SettledInv, MovementInv
<1>6. ReversalInv'
  BY SettlementConstants DEF SettledInv, ReversalInv, Settling!HasEvidence
<1>7. EntryInv'
  BY <1>1 DEF SettledInv, EntryInv
<1> QED
  BY <1>1, <1>3, <1>4, <1>5, <1>6, <1>7 DEF SettledInv

\* What the transaction of a movement writes is its value, in minor units and a residual.
LEMMA MovementKeepsSettled ==
  ASSUME SettledInv, UNCHANGED <<amount, undone, undoing>>,
         NEW e \in Movement, e \in posting, posting' = posting \ {e},
         Settling!RecordMovement(e)
  PROVE  SettledInv'
<1> DEFINE entry == Settling!Rounded(Settling!Value(e)) # 0
           outcome == IF entry THEN "posted" ELSE "deferred_rounding"
<1>1. e \in Settling!Event /\ e \notin Reversal
  BY SettlementConstants
<1>2. settlementStatus[e] = "pending" /\ Settling!Value(e) # 0 /\ e \notin journaled /\ row[e] = "none"
      /\ link[e] = NoEntry
  BY <1>1 DEF SettledInv, EvidenceInv, Settling!HasEvidence
<1>3. entry \/ Settling!Residual(e) # 0
  BY <1>1, <1>2, ValueType, SettlementConstants
<1> HIDE DEF entry
<1>4. /\ settlementStatus' = [settlementStatus EXCEPT ![e] = outcome]
      /\ journaled' = IF entry THEN journaled \cup {e} ELSE journaled
      /\ row' = IF Settling!Residual(e) = 0 THEN row ELSE [row EXCEPT ![e] = "open"]
      /\ link' = IF Settling!Residual(e) # 0 /\ entry THEN [link EXCEPT ![e] = e] ELSE link
  BY DEF Settling!RecordMovement, entry
<1>5. \A d \in Settling!Event :
        /\ settlementStatus'[d] = IF d = e THEN outcome ELSE settlementStatus[d]
        /\ row'[d] = IF d = e /\ Settling!Residual(e) # 0 THEN "open" ELSE row[d]
        /\ link'[d] = IF d = e /\ Settling!Residual(e) # 0 /\ entry THEN e ELSE link[d]
        /\ d \in journaled' <=> d \in journaled \/ (d = e /\ entry)
  BY <1>4 DEF SettledInv, SettledType
<1>6. \A d \in Settling!Event : Settling!HasEvidence(d)' <=> d = e \/ Settling!HasEvidence(d)
  BY <1>2, <1>3, <1>5 DEF Settling!HasEvidence
<1>7. /\ Settling!SettlementBacked'
      /\ Settling!Live' = Settling!Live
      /\ \A b : Settling!Entries(b)' = Settling!Entries(b)
  BY <1>2, <1>5, BackedKept DEF SettledInv
<1>8. SettledType'
  <2>1. settlementStatus' \in [Settling!Event -> EventState]
    BY <1>4 DEF SettledInv, SettledType, EventState
  <2>2. row' \in [Settling!Event -> RowState]
    BY <1>4 DEF SettledInv, SettledType, RowState
  <2>3. link' \in [Settling!Event -> Settling!Entry \cup {NoEntry}]
    BY <1>1, <1>4, SettlementConstants DEF SettledInv, SettledType
  <2> QED
    BY <1>1, <1>4, <2>1, <2>2, <2>3 DEF SettledInv, SettledType
<1>9. EvidenceInv'
  <2> SUFFICES ASSUME NEW d \in Settling!Event
               PROVE  (/\ settlementStatus[d] \in {"pending", "non_posting"} <=> ~Settling!HasEvidence(d)
                       /\ d \in posting => settlementStatus[d] = "pending" /\ Settling!Value(d) # 0
                       /\ row[d] = "none" => link[d] = NoEntry
                       /\ d \in journaled => settlementStatus[d] = "posted"
                       /\ d \notin journaled /\ row[d] # "none" =>
                            settlementStatus[d] = IF row[d] = "open" THEN "deferred_rounding" ELSE "reconciled"
                       /\ row[d] = "settled" /\ link[d] \in Settling!SettlementEntry => link[d] \in Settling!Live)'
    BY DEF EvidenceInv
  <2>1. CASE d = e
    BY <1>2, <1>3, <1>5, <1>6, <2>1
  <2>2. CASE d # e
    BY <1>5, <1>6, <1>7, <2>2 DEF SettledInv, EvidenceInv
  <2> QED
    BY <2>1, <2>2
<1>10. MovementInv'
  <2> SUFFICES ASSUME NEW m \in Movement
               PROVE  (/\ row[m] = "none" /\ m \in journaled => Settling!Residual(m) = 0
                       /\ m \notin journaled /\ row[m] # "none" => Settling!Rounded(Settling!Value(m)) = 0
                       /\ row[m] = "settled" => link[m] = NoEntry \/ link[m] \in Settling!Live
                       /\ row[m] = "reversed" => \E r \in Reversal : Original(r) = m /\ row[r] = "settled")'
    BY DEF MovementInv
  <2>1. m \in Settling!Event
    BY SettlementConstants
  <2>2. CASE m = e
    BY <1>2, <1>5, <2>1, <2>2 DEF entry
  <2>3. CASE m # e
    <3>1. \A r \in Reversal : row'[r] = row[r]
      BY <1>1, <1>5, SettlementConstants
    <3> QED
      BY <1>5, <1>7, <2>1, <2>3, <3>1 DEF SettledInv, MovementInv
  <2> QED
    BY <2>2, <2>3
<1>11. ReversalInv'
  <2>1. \A r \in Reversal :
          /\ r \in Settling!Event /\ r # e /\ Original(r) \in Settling!Event
          /\ row'[r] = row[r] /\ link'[r] = link[r]
          /\ r \in journaled' <=> r \in journaled
          /\ r \in posting' => r \in posting
          /\ Settling!HasEvidence(r)' <=> Settling!HasEvidence(r)
    BY <1>1, <1>5, <1>6, SettlementConstants
  <2>2. \A r \in Reversal : Settling!HasEvidence(r) => Original(r) # e
    BY <1>2 DEF SettledInv, ReversalInv, Settling!HasEvidence
  <2>3. \A r \in Reversal : Settling!HasEvidence(r) <=> r \in journaled \/ row[r] # "none"
    BY DEF Settling!HasEvidence
  <2> QED
    BY <1>5, <1>6, <2>1, <2>2, <2>3 DEF SettledInv, ReversalInv
<1>12. EntryInv'
  BY <1>7 DEF SettledInv, EntryInv
<1> QED
  BY <1>7, <1>8, <1>9, <1>10, <1>11, <1>12 DEF SettledInv

\* A reversal takes back what its movement left, once.
LEMMA ReversalKeepsSettled ==
  ASSUME SettledInv, UNCHANGED <<amount, undone, undoing>>,
         NEW e \in Reversal, e \in posting, posting' = posting \ {e},
         Settling!RecordReversal(e, Original(e))
  PROVE  SettledInv'
<1> DEFINE m == Original(e)
           entry == m \in journaled
           touched == row[m] # "none"
<1>1. e \in Settling!Event /\ m \in Settling!Event /\ m \in Movement /\ e # m
  BY SettlementConstants
<1>2. /\ settlementStatus[e] = "pending" /\ e \notin journaled /\ row[e] = "none" /\ link[e] = NoEntry
      /\ entry \/ touched
      /\ Settling!Value(m) # 0
  <2>1. settlementStatus[e] = "pending" /\ e \notin journaled /\ row[e] = "none" /\ link[e] = NoEntry
    BY <1>1 DEF SettledInv, EvidenceInv, Settling!HasEvidence
  <2>2. Settling!Value(e) # 0
    BY <1>1 DEF SettledInv, EvidenceInv
  <2>3. Settling!HasEvidence(m)
    BY DEF SettledInv, ReversalInv
  <2> QED
    BY <1>1, <2>1, <2>2, <2>3, ReversedValue, ValueType DEF Settling!HasEvidence
<1>3. row[m] \in {"none", "open"}
  BY DEF Settling!RecordReversal, Settling!Reversible
<1>4. /\ settlementStatus' = [settlementStatus EXCEPT ![e] = IF entry THEN "posted" ELSE "reconciled",
                                                     ![m] = IF entry THEN @ ELSE "reconciled"]
      /\ journaled' = IF entry THEN journaled \cup {e} ELSE journaled
      /\ row' = IF row[m] = "none" THEN row ELSE [row EXCEPT ![e] = "settled", ![m] = "reversed"]
      /\ link' = IF row[m] # "none" /\ entry THEN [link EXCEPT ![e] = e] ELSE link
  BY DEF Settling!RecordReversal
<1> HIDE DEF m
<1>5. \A d \in Settling!Event :
        /\ settlementStatus'[d] = IF d = e THEN (IF entry THEN "posted" ELSE "reconciled")
                                  ELSE IF d = m /\ ~entry THEN "reconciled" ELSE settlementStatus[d]
        /\ row'[d] = IF d = e /\ touched THEN "settled" ELSE IF d = m /\ touched THEN "reversed" ELSE row[d]
        /\ link'[d] = IF d = e /\ touched /\ entry THEN e ELSE link[d]
        /\ d \in journaled' <=> d \in journaled \/ (d = e /\ entry)
  BY <1>1, <1>4 DEF SettledInv, SettledType
<1>6. \A d \in Settling!Event : Settling!HasEvidence(d)' <=> d = e \/ Settling!HasEvidence(d)
  BY <1>1, <1>2, <1>5 DEF Settling!HasEvidence
<1>7. /\ Settling!SettlementBacked'
      /\ Settling!Live' = Settling!Live
      /\ \A b : Settling!Entries(b)' = Settling!Entries(b)
  <2>1. e \notin Settling!SettlementEntry /\ NoEntry \notin Settling!SettlementEntry
    BY <1>1, SettlementConstants
  <2>2. \A d \in Settling!Event : \A s \in Settling!SettlementEntry :
          row'[d] = "settled" /\ link'[d] = s <=> row[d] = "settled" /\ link[d] = s
    BY <1>1, <1>2, <1>3, <1>5, <2>1
  <2> QED
    BY <2>2, BackedKept DEF SettledInv
<1>8. SettledType'
  <2>1. settlementStatus' \in [Settling!Event -> EventState]
    BY <1>1, <1>4 DEF SettledInv, SettledType, EventState
  <2>2. row' \in [Settling!Event -> RowState]
    BY <1>4 DEF SettledInv, SettledType, RowState
  <2>3. link' \in [Settling!Event -> Settling!Entry \cup {NoEntry}]
    BY <1>1, <1>4, SettlementConstants DEF SettledInv, SettledType
  <2> QED
    BY <1>1, <1>4, <2>1, <2>2, <2>3 DEF SettledInv, SettledType
<1>9. EvidenceInv'
  <2> SUFFICES ASSUME NEW d \in Settling!Event
               PROVE  (/\ settlementStatus[d] \in {"pending", "non_posting"} <=> ~Settling!HasEvidence(d)
                       /\ d \in posting => settlementStatus[d] = "pending" /\ Settling!Value(d) # 0
                       /\ row[d] = "none" => link[d] = NoEntry
                       /\ d \in journaled => settlementStatus[d] = "posted"
                       /\ d \notin journaled /\ row[d] # "none" =>
                            settlementStatus[d] = IF row[d] = "open" THEN "deferred_rounding" ELSE "reconciled"
                       /\ row[d] = "settled" /\ link[d] \in Settling!SettlementEntry => link[d] \in Settling!Live)'
    BY DEF EvidenceInv
  <2>1. e \notin Settling!SettlementEntry /\ NoEntry \notin Settling!SettlementEntry
    BY <1>1, SettlementConstants
  <2>2. CASE d = e
    BY <1>1, <1>2, <1>5, <1>6, <2>1, <2>2
  <2>3. CASE d = m
    <3>1. d # e /\ d \notin posting
      BY <1>1, <1>2, <2>3 DEF SettledInv, EvidenceInv, Settling!HasEvidence
    <3> QED
      BY <1>1, <1>2, <1>3, <1>5, <1>6, <1>7, <2>3, <3>1 DEF SettledInv, EvidenceInv, Settling!HasEvidence
  <2>4. CASE d # e /\ d # m
    BY <1>5, <1>6, <1>7, <2>4 DEF SettledInv, EvidenceInv
  <2> QED
    BY <2>2, <2>3, <2>4
<1>10. MovementInv'
  <2> SUFFICES ASSUME NEW k \in Movement
               PROVE  (/\ row[k] = "none" /\ k \in journaled => Settling!Residual(k) = 0
                       /\ k \notin journaled /\ row[k] # "none" => Settling!Rounded(Settling!Value(k)) = 0
                       /\ row[k] = "settled" => link[k] = NoEntry \/ link[k] \in Settling!Live
                       /\ row[k] = "reversed" => \E r \in Reversal : Original(r) = k /\ row[r] = "settled")'
    BY DEF MovementInv
  <2>1. k \in Settling!Event /\ k # e
    BY SettlementConstants
  <2>2. \A r \in Reversal : row[r] = "settled" => row'[r] = "settled"
    BY <1>1, <1>5, SettlementConstants
  <2>3. CASE k = m
    BY <1>1, <1>5, <2>1, <2>3 DEF SettledInv, MovementInv, m
  <2>4. CASE k # m
    BY <1>5, <1>7, <2>1, <2>2, <2>4 DEF SettledInv, MovementInv
  <2> QED
    BY <2>3, <2>4
<1>11. ReversalInv'
  <2>1. \A r \in Reversal :
          /\ r \in Settling!Event /\ r # m /\ Original(r) \in Settling!Event /\ Original(r) # e
          /\ r # e => row'[r] = row[r] /\ link'[r] = link[r]
          /\ r # e => (r \in journaled' <=> r \in journaled)
          /\ r \in posting' => r \in posting
    BY <1>1, <1>5, SettlementConstants
  <2>2. \A r \in Reversal : row[r] = "settled" => Original(r) # m
    BY <1>3 DEF SettledInv, ReversalInv
  <2>3. \A r \in Reversal : /\ r \in posting' \/ Settling!HasEvidence(r)' => Settling!HasEvidence(Original(r))'
                            /\ Settling!HasEvidence(r)' => (r \in journaled' <=> Original(r) \in journaled')
    BY <1>1, <1>2, <1>5, <1>6, <2>1 DEF SettledInv, ReversalInv, m, Settling!HasEvidence
  <2>4. \A r \in Reversal : /\ row'[r] \in {"none", "settled"}
                            /\ row'[r] = "settled" => row'[Original(r)] = "reversed"
                                                      /\ link'[r] \notin Settling!SettlementEntry
    <3> SUFFICES ASSUME NEW r \in Reversal
                 PROVE  /\ row'[r] \in {"none", "settled"}
                        /\ row'[r] = "settled" => row'[Original(r)] = "reversed"
                                                  /\ link'[r] \notin Settling!SettlementEntry
      OBVIOUS
    <3>1. CASE r = e
      BY <1>1, <1>2, <1>5, <3>1, SettlementConstants DEF m
    <3>2. CASE r # e
      BY <1>5, <2>1, <2>2, <3>2 DEF SettledInv, ReversalInv
    <3> QED
      BY <3>1, <3>2
  <2>5. \A r \in Reversal : row'[r] = "none" /\ r \in journaled' => row'[Original(r)] = "none"
    <3> SUFFICES ASSUME NEW r \in Reversal, row'[r] = "none", r \in journaled'
                 PROVE  row'[Original(r)] = "none"
      OBVIOUS
    <3>1. CASE r = e
      BY <1>1, <1>2, <1>5, <3>1 DEF m
    <3>2. CASE r # e
      <4>1. row[Original(r)] = "none"
        BY <2>1, <3>2 DEF SettledInv, ReversalInv
      <4> QED
        BY <1>5, <2>1, <4>1
    <3> QED
      BY <3>1, <3>2
  <2>6. \A r, d \in Reversal : row'[r] = "settled" /\ row'[d] = "settled" /\ Original(r) = Original(d) => r = d
    BY <2>1, <2>2 DEF SettledInv, ReversalInv, m
  <2> QED
    BY <2>3, <2>4, <2>5, <2>6 DEF ReversalInv
<1>12. EntryInv'
  BY <1>7 DEF SettledInv, EntryInv
<1> QED
  BY <1>7, <1>8, <1>9, <1>10, <1>11, <1>12 DEF SettledInv

\* Numbers without gaps go from 1 to how many they are.
LEMMA NoGaps ==
  ASSUME NEW N \in Nat, NEW E \in SUBSET (1..N), \A n \in E : 1..n \subseteq E
  PROVE  E = 1..Cardinality(E) /\ Cardinality(E) \in Nat
<1> DEFINE Bounds == {n \in Nat : E \subseteq 1..n}
<1>1. PICK m \in Bounds : \A n \in Bounds : m <= n
  <2>1. Bounds \in SUBSET Nat /\ N \in Bounds
    OBVIOUS
  <2> HIDE DEF Bounds
  <2> QED
    BY <2>1, LeastNat
<1>2. E \subseteq 1..m /\ m \in Nat
  OBVIOUS
<1>3. m # 0 => m \in E
  <2> SUFFICES ASSUME m # 0, m \notin E
               PROVE  FALSE
    OBVIOUS
  <2>1. E \subseteq 1..(m - 1) /\ m - 1 \in Nat
    BY <1>2
  <2> QED
    BY <1>1, <1>2, <2>1
<1>4. E = 1..m
  <2>1. CASE m = 0
    <3>1. 1..0 = {}
      OBVIOUS
    <3> QED
      BY <1>2, <2>1, <3>1
  <2>2. CASE m # 0
    <3>1. 1..m \subseteq E
      BY <1>3, <2>2
    <3> QED
      BY <1>2, <3>1
  <2> QED
    BY <2>1, <2>2
<1>5. Cardinality(1..m) = m
  BY <1>2, FS_Interval
<1> QED
  BY <1>2, <1>4, <1>5

\* The next settlement of a branch that has room for one is not there yet.
LEMMA FreshEntry ==
  ASSUME SettledInv, NEW b \in Branch
  PROVE  /\ Cardinality(Settling!Entries(b)) \in Nat
         /\ Settling!Entries(b) = 1..Cardinality(Settling!Entries(b))
         /\ Settling!Fresh(b) = <<b, Cardinality(Settling!Entries(b)) + 1>>
         /\ Settling!Cardinality(Settling!Entries(b)) < MaxSettlements =>
              /\ Settling!Fresh(b) \in Settling!SettlementEntry
              /\ amount[Settling!Fresh(b)] = 0
<1> DEFINE c == Cardinality(Settling!Entries(b))
<1>1. Settling!Entries(b) \in SUBSET (1..MaxSettlements) /\ MaxSettlements \in Nat
  BY SettlementConstants DEF Settling!Entries
<1>2. \A n \in Settling!Entries(b) : 1..n \subseteq Settling!Entries(b)
  BY DEF SettledInv, EntryInv
<1>3. c \in Nat /\ Settling!Entries(b) = 1..c
  BY <1>1, <1>2, NoGaps
<1>4. Settling!Fresh(b) = <<b, c + 1>> /\ Settling!Cardinality(Settling!Entries(b)) = c
  BY SameSizes DEF Settling!Fresh
<1> HIDE DEF c
<1>5. ASSUME c < MaxSettlements
      PROVE  <<b, c + 1>> \in Settling!SettlementEntry /\ amount[<<b, c + 1>>] = 0
  <2>1. c + 1 \in 1..MaxSettlements /\ c + 1 \notin Settling!Entries(b)
    BY <1>1, <1>3, <1>5
  <2> QED
    BY <2>1 DEF Settling!SettlementEntry, Settling!Entries
<1> QED
  BY <1>3, <1>4, <1>5 DEF c

\* Sums of residuals are whole, and so are what they round to.
LEMMA GroupType ==
  ASSUME NEW rows \in SUBSET Settling!Event
  PROVE  Settling!Sum(rows) \in Int /\ Settling!GroupMinor(rows) \in Int
<1> DEFINE g == [e \in Settling!Event |-> Settling!Residual(e)]
<1>1. IsFiniteSet(rows)
  BY SettlementConstants, FS_Subset
<1>2. \A e \in rows : g[e] \in Int
  BY ValueType
<1> HIDE DEF g
<1>3. SumFunctionOnSet(g, rows) \in Int
  BY <1>1, <1>2, SumType
<1>4. Settling!Sum(rows) \in Int
  BY <1>3, SameSums DEF Settling!Sum, g
<1> QED
  BY <1>4, RoundedOff DEF Settling!GroupMinor

\* A settlement is the sum of the rows that it takes.
LEMMA SettleKeepsSettled ==
  ASSUME SettledInv, UNCHANGED <<journaled, undone, posting, undoing>>,
         NEW bs \in SUBSET Branch, NEW r, NEW d, NEW k, Settling!SettleRows(bs, r, d, k)
  PROVE  SettledInv'
<1> DEFINE rows == Settling!OpenRows(bs, r)
           Group(b) == {e \in rows : BranchOf(e) = b}
           journals == {b \in bs : Settling!GroupMinor(Group(b)) # 0}
           new == {Settling!Fresh(b) : b \in journals}
           Linked(e) == IF BranchOf(e) \in journals THEN Settling!Fresh(BranchOf(e)) ELSE NoEntry
<1>1. /\ \A b \in journals : Settling!Cardinality(Settling!Entries(b)) < MaxSettlements
      /\ amount' = [s \in Settling!SettlementEntry |->
                      IF s \in new THEN Settling!GroupMinor(Group(s[1])) ELSE amount[s]]
      /\ row' = [e \in Settling!Event |-> IF e \in rows THEN "settled" ELSE row[e]]
      /\ link' = [e \in Settling!Event |-> IF e \notin rows THEN link[e] ELSE Linked(e)]
      /\ settlementStatus' = [e \in Settling!Event |->
           IF e \in rows /\ settlementStatus[e] = "deferred_rounding" THEN "reconciled"
                                                                      ELSE settlementStatus[e]]
  BY DEF Settling!SettleRows
<1>2. rows \subseteq Settling!Event /\ \A e \in rows : row[e] = "open" /\ BranchOf(e) \in bs
  BY DEF Settling!OpenRows
<1> HIDE DEF rows
<1>3. \A b \in journals : b \in Branch /\ Settling!GroupMinor(Group(b)) # 0
  OBVIOUS
<1>4. \A b : Settling!GroupMinor(Group(b)) \in Int
  BY <1>2, GroupType
<1> HIDE DEF journals
<1>5. \A b \in journals : /\ Settling!Fresh(b) \in Settling!SettlementEntry
                          /\ amount[Settling!Fresh(b)] = 0
                          /\ Settling!Fresh(b)[1] = b
  <2> SUFFICES ASSUME NEW b \in journals
               PROVE  /\ Settling!Fresh(b) \in Settling!SettlementEntry
                      /\ amount[Settling!Fresh(b)] = 0
                      /\ Settling!Fresh(b)[1] = b
    OBVIOUS
  <2>1. b \in Branch /\ Settling!Cardinality(Settling!Entries(b)) < MaxSettlements
    BY <1>1, <1>3
  <2>2. Settling!Fresh(b) \in Settling!SettlementEntry /\ amount[Settling!Fresh(b)] = 0
    BY <2>1, FreshEntry
  <2>3. Settling!Fresh(b) = <<b, Cardinality(Settling!Entries(b)) + 1>>
    BY <2>1, FreshEntry
  <2> QED
    BY <2>2, <2>3
<1>6. \A s \in new : s \in Settling!SettlementEntry /\ amount[s] = 0 /\ s[1] \in journals
                     /\ s = Settling!Fresh(s[1])
  BY <1>5
<1> HIDE DEF new
<1>7. \A s \in Settling!SettlementEntry :
        amount'[s] = IF s \in new THEN Settling!GroupMinor(Group(s[1])) ELSE amount[s]
  BY <1>1
<1>8. \A e \in Settling!Event :
        /\ row'[e] = IF e \in rows THEN "settled" ELSE row[e]
        /\ link'[e] = IF e \in rows THEN Linked(e) ELSE link[e]
        /\ settlementStatus'[e] = IF e \in rows /\ settlementStatus[e] = "deferred_rounding"
                                    THEN "reconciled" ELSE settlementStatus[e]
  BY <1>1
<1> HIDE DEF Group
<1>9. \A s \in Settling!SettlementEntry :
        /\ amount'[s] # 0 <=> s \in new \/ amount[s] # 0
        /\ s \in Settling!Live' <=> s \in new \/ s \in Settling!Live
  <2>1. \A s \in Settling!SettlementEntry : amount'[s] # 0 <=> s \in new \/ amount[s] # 0
    BY <1>3, <1>6, <1>7
  <2>2. \A s \in new : s \notin undone
    BY <1>6 DEF SettledInv, EntryInv
  <2> QED
    BY <2>1, <2>2 DEF Settling!Live
<1>10. \A e \in rows : /\ Linked(e) = NoEntry \/ Linked(e) \in Settling!Live'
                       /\ Linked(e) \in Settling!Entry \cup {NoEntry}
  <2>1. \A b \in journals : Settling!Fresh(b) \in new
    BY DEF new
  <2> QED
    BY <1>5, <1>9, <2>1, SettlementConstants
<1>11. \A e \in Settling!Event : Settling!HasEvidence(e)' <=> Settling!HasEvidence(e)
  BY <1>2, <1>8 DEF Settling!HasEvidence
<1>12. NoEntry \notin Settling!SettlementEntry
  BY SettlementConstants
<1>13. SettledType'
  <2>1. settlementStatus' \in [Settling!Event -> EventState]
    BY <1>1 DEF SettledInv, SettledType, EventState
  <2>2. row' \in [Settling!Event -> RowState]
    BY <1>1 DEF SettledInv, SettledType, RowState
  <2>3. link' \in [Settling!Event -> Settling!Entry \cup {NoEntry}]
    <3> HIDE DEF Linked
    <3> QED
      BY <1>1, <1>10 DEF SettledInv, SettledType
  <2>4. amount' \in [Settling!SettlementEntry -> Int]
    BY <1>1, <1>4 DEF SettledInv, SettledType
  <2> QED
    BY <2>1, <2>2, <2>3, <2>4 DEF SettledInv, SettledType
<1> HIDE DEF Linked
<1>14. EvidenceInv'
  <2> SUFFICES ASSUME NEW e \in Settling!Event
               PROVE  (/\ settlementStatus[e] \in {"pending", "non_posting"} <=> ~Settling!HasEvidence(e)
                       /\ e \in posting => settlementStatus[e] = "pending" /\ Settling!Value(e) # 0
                       /\ row[e] = "none" => link[e] = NoEntry
                       /\ e \in journaled => settlementStatus[e] = "posted"
                       /\ e \notin journaled /\ row[e] # "none" =>
                            settlementStatus[e] = IF row[e] = "open" THEN "deferred_rounding" ELSE "reconciled"
                       /\ row[e] = "settled" /\ link[e] \in Settling!SettlementEntry => link[e] \in Settling!Live)'
    BY DEF EvidenceInv
  <2>1. CASE e \in rows
    <3>1. settlementStatus[e] \notin {"pending", "non_posting"}
      BY <1>2, <2>1 DEF SettledInv, EvidenceInv, Settling!HasEvidence
    <3>2. e \in journaled => settlementStatus[e] = "posted"
      BY DEF SettledInv, EvidenceInv
    <3>3. e \notin journaled => settlementStatus[e] = "deferred_rounding"
      BY <1>2, <2>1 DEF SettledInv, EvidenceInv
    <3>4. e \in posting => settlementStatus[e] = "pending"
      BY DEF SettledInv, EvidenceInv
    <3> QED
      BY <1>2, <1>8, <1>10, <1>11, <1>12, <2>1, <3>1, <3>2, <3>3, <3>4 DEF Settling!HasEvidence
  <2>2. CASE e \notin rows
    <3>1. row[e] = "settled" /\ link[e] \in Settling!SettlementEntry => link[e] \in Settling!Live'
      BY <1>9 DEF SettledInv, EvidenceInv
    <3> QED
      BY <1>8, <1>11, <2>2, <3>1 DEF SettledInv, EvidenceInv
  <2> QED
    BY <2>1, <2>2
<1>15. ReversalInv'
  <2>1. \A e \in Reversal : e \in Settling!Event /\ Original(e) \in Settling!Event /\ e \notin rows
    BY <1>2, SettlementConstants DEF SettledInv, ReversalInv
  <2>2. \A e \in Reversal : row[e] = "settled" => Original(e) \notin rows
    BY <1>2 DEF SettledInv, ReversalInv
  <2>3. \A e \in Reversal : row[e] = "none" /\ e \in journaled => Original(e) \notin rows
    BY <1>2 DEF SettledInv, ReversalInv
  <2> QED
    BY <1>8, <1>11, <2>1, <2>2, <2>3 DEF SettledInv, ReversalInv
<1>16. MovementInv'
  <2> SUFFICES ASSUME NEW m \in Movement
               PROVE  (/\ row[m] = "none" /\ m \in journaled => Settling!Residual(m) = 0
                       /\ m \notin journaled /\ row[m] # "none" => Settling!Rounded(Settling!Value(m)) = 0
                       /\ row[m] = "settled" => link[m] = NoEntry \/ link[m] \in Settling!Live
                       /\ row[m] = "reversed" => \E e \in Reversal : Original(e) = m /\ row[e] = "settled")'
    BY DEF MovementInv
  <2>1. m \in Settling!Event
    BY SettlementConstants
  <2>2. CASE m \in rows
    BY <1>2, <1>8, <1>10, <2>1, <2>2 DEF SettledInv, MovementInv
  <2>3. CASE m \notin rows
    <3>1. \A e \in Reversal : row[e] = "settled" => row'[e] = "settled"
      BY <1>2, <1>8, SettlementConstants
    <3>2. row[m] = "settled" => link[m] = NoEntry \/ link[m] \in Settling!Live'
      BY <1>9 DEF SettledInv, MovementInv, Settling!Live
    <3> QED
      BY <1>8, <2>1, <2>3, <3>1, <3>2 DEF SettledInv, MovementInv
  <2> QED
    BY <2>2, <2>3
<1>17. EntryInv'
  <2>1. ASSUME NEW b \in Branch, NEW n \in Settling!Entries(b)'
        PROVE  1..n \subseteq Settling!Entries(b)'
    <3> DEFINE c == Cardinality(Settling!Entries(b))
    <3>1. c \in Nat /\ Settling!Entries(b) = 1..c /\ Settling!Fresh(b) = <<b, c + 1>>
      BY FreshEntry
    <3> HIDE DEF c
    <3>2. \A i \in 1..MaxSettlements : <<b, i>> \in Settling!SettlementEntry
      BY DEF Settling!SettlementEntry
    <3>3. Settling!Entries(b) \subseteq Settling!Entries(b)'
      BY <1>9, <3>2 DEF Settling!Entries
    <3>4. n \in 1..MaxSettlements /\ (<<b, n>> \in new \/ n \in Settling!Entries(b))
      BY <1>9, <3>2 DEF Settling!Entries
    <3>5. <<b, n>> \in new => n = c + 1
      BY <1>6, <3>1
    <3> QED
      BY <3>1, <3>3, <3>4, <3>5
  <2>2. \A x \in (undone' \cup undoing') \cap Settling!SettlementEntry : amount'[x] # 0
    BY <1>9 DEF SettledInv, EntryInv
  <2> QED
    BY <2>1, <2>2 DEF EntryInv
<1>18. Settling!SettlementBacked'
  <2> SUFFICES ASSUME NEW s \in Settling!Live'
               PROVE  amount'[s] = Settling!GroupMinor(Settling!RowsOf(s)')
    BY DEF Settling!SettlementBacked
  <2>1. s \in Settling!SettlementEntry
    BY DEF Settling!Live
  <2>2. CASE s \in new
    <3>1. \A e \in Settling!Event : row'[e] = "settled" /\ link'[e] = s => e \in rows
      BY <1>6, <1>8, <2>1, <2>2 DEF SettledInv, EvidenceInv, Settling!Live
    <3>2. \A e \in rows : link'[e] = s <=> BranchOf(e) = s[1]
      BY <1>2, <1>5, <1>6, <1>8, <1>12, <2>2 DEF Linked
    <3>3. \A e \in rows : row'[e] = "settled" /\ e \in Settling!Event
      BY <1>2, <1>8
    <3>4. Settling!RowsOf(s)' = Group(s[1])
      BY <2>1, <3>1, <3>2, <3>3 DEF Settling!RowsOf, Group
    <3> QED
      BY <1>7, <2>1, <2>2, <3>4
  <2>3. CASE s \notin new
    <3>1. s \in Settling!Live
      BY <1>9, <2>1, <2>3
    <3>2. \A e \in rows : Linked(e) # s
      BY <1>12, <2>1, <2>3 DEF Linked, new
    <3>3. Settling!RowsOf(s)' = Settling!RowsOf(s)
      BY <1>2, <1>8, <2>1, <3>2 DEF Settling!RowsOf
    <3> QED
      BY <1>7, <2>1, <2>3, <3>1, <3>3 DEF SettledInv, Settling!SettlementBacked
  <2> QED
    BY <2>2, <2>3
<1> QED
  BY <1>13, <1>14, <1>15, <1>16, <1>17, <1>18 DEF SettledInv

\* A settlement that is reversed has no rows any more.
LEMMA UndoKeepsSettled ==
  ASSUME SettledInv, NEW x \in Settling!Entry, Settling!Undo(x)
  PROVE  SettledInv'
<1> DEFINE rows == Settling!RowsOf(x)
<1>1. /\ x \in undoing
      /\ undoing' = undoing \ {x} /\ undone' = undone \cup {x}
      /\ UNCHANGED <<journaled, amount, posting>>
  BY DEF Settling!Undo
<1>2. /\ settlementStatus' = [e \in Settling!Event |->
           IF e \in rows /\ settlementStatus[e] = "reconciled" THEN "deferred_rounding" ELSE settlementStatus[e]]
      /\ row' = [e \in Settling!Event |-> IF e \in rows THEN "open" ELSE row[e]]
      /\ link' = [e \in Settling!Event |-> IF e \in rows THEN NoEntry ELSE link[e]]
  BY DEF Settling!Undo, Settling!Reopened
<1>3. \A e \in Settling!Event : e \in rows <=> x \in Settling!SettlementEntry /\ row[e] = "settled" /\ link[e] = x
  BY DEF Settling!RowsOf
<1> HIDE DEF rows
<1>4. \A e \in Settling!Event :
        /\ row'[e] = IF e \in rows THEN "open" ELSE row[e]
        /\ link'[e] = IF e \in rows THEN NoEntry ELSE link[e]
        /\ settlementStatus'[e] = IF e \in rows /\ settlementStatus[e] = "reconciled"
                                    THEN "deferred_rounding" ELSE settlementStatus[e]
  BY <1>2
<1>5. Settling!Live' = Settling!Live \ {x} /\ Settling!Live \subseteq Settling!SettlementEntry
  BY <1>1 DEF Settling!Live
<1>6. NoEntry \notin Settling!SettlementEntry
  BY SettlementConstants
<1>7. \A e \in Settling!Event : Settling!HasEvidence(e)' <=> Settling!HasEvidence(e)
  BY <1>1, <1>3, <1>4 DEF Settling!HasEvidence
<1>8. SettledType'
  <2>1. settlementStatus' \in [Settling!Event -> EventState]
    BY <1>2 DEF SettledInv, SettledType, EventState
  <2>2. row' \in [Settling!Event -> RowState]
    BY <1>2 DEF SettledInv, SettledType, RowState
  <2>3. link' \in [Settling!Event -> Settling!Entry \cup {NoEntry}]
    BY <1>2 DEF SettledInv, SettledType
  <2> QED
    BY <1>1, <2>1, <2>2, <2>3 DEF SettledInv, SettledType
<1>9. EvidenceInv'
  <2> SUFFICES ASSUME NEW e \in Settling!Event
               PROVE  (/\ settlementStatus[e] \in {"pending", "non_posting"} <=> ~Settling!HasEvidence(e)
                       /\ e \in posting => settlementStatus[e] = "pending" /\ Settling!Value(e) # 0
                       /\ row[e] = "none" => link[e] = NoEntry
                       /\ e \in journaled => settlementStatus[e] = "posted"
                       /\ e \notin journaled /\ row[e] # "none" =>
                            settlementStatus[e] = IF row[e] = "open" THEN "deferred_rounding" ELSE "reconciled"
                       /\ row[e] = "settled" /\ link[e] \in Settling!SettlementEntry => link[e] \in Settling!Live)'
    BY DEF EvidenceInv
  <2>1. CASE e \in rows
    BY <1>1, <1>3, <1>4, <1>6, <1>7, <2>1 DEF SettledInv, EvidenceInv
  <2>2. CASE e \notin rows
    BY <1>1, <1>3, <1>4, <1>5, <1>7, <2>2 DEF SettledInv, EvidenceInv
  <2> QED
    BY <2>1, <2>2
<1>10. \A e \in Reversal : e \in Settling!Event /\ Original(e) \in Settling!Event /\ e \notin rows
  BY <1>3, SettlementConstants DEF SettledInv, ReversalInv
<1>11. ReversalInv'
  <2>1. \A e \in Reversal : row[Original(e)] \in {"none", "reversed"} => Original(e) \notin rows
    BY <1>3, <1>10
  <2> QED
    BY <1>1, <1>4, <1>7, <1>10, <2>1 DEF SettledInv, ReversalInv
<1>12. MovementInv'
  <2> SUFFICES ASSUME NEW m \in Movement
               PROVE  (/\ row[m] = "none" /\ m \in journaled => Settling!Residual(m) = 0
                       /\ m \notin journaled /\ row[m] # "none" => Settling!Rounded(Settling!Value(m)) = 0
                       /\ row[m] = "settled" => link[m] = NoEntry \/ link[m] \in Settling!Live
                       /\ row[m] = "reversed" => \E e \in Reversal : Original(e) = m /\ row[e] = "settled")'
    BY DEF MovementInv
  <2>1. m \in Settling!Event
    BY SettlementConstants
  <2>2. \A e \in Reversal : row[e] = "settled" => row'[e] = "settled"
    BY <1>4, <1>10
  <2>3. CASE m \in rows
    BY <1>1, <1>3, <1>4, <2>1, <2>3 DEF SettledInv, MovementInv
  <2>4. CASE m \notin rows
    BY <1>1, <1>3, <1>4, <1>5, <2>1, <2>2, <2>4 DEF SettledInv, MovementInv
  <2> QED
    BY <2>3, <2>4
<1>13. EntryInv'
  <2>1. \A b : Settling!Entries(b)' = Settling!Entries(b)
    BY <1>1 DEF Settling!Entries
  <2> QED
    BY <1>1, <2>1 DEF SettledInv, EntryInv
<1>14. Settling!SettlementBacked'
  <2> SUFFICES ASSUME NEW s \in Settling!Live'
               PROVE  amount'[s] = Settling!GroupMinor(Settling!RowsOf(s)')
    BY DEF Settling!SettlementBacked
  <2>1. s \in Settling!Live /\ s # x /\ s \in Settling!SettlementEntry
    BY <1>5
  <2>2. Settling!RowsOf(s)' = Settling!RowsOf(s)
    BY <1>3, <1>4, <1>6, <2>1 DEF Settling!RowsOf
  <2> QED
    BY <1>1, <2>1, <2>2 DEF SettledInv, Settling!SettlementBacked
<1> QED
  BY <1>8, <1>9, <1>11, <1>12, <1>13, <1>14 DEF SettledInv

-----------------------------------------------------------------------------
(* The books.                                                              *)

Values == [e \in Settling!Event |-> Settling!Value(e)]
Roundings == [e \in Settling!Event |-> Settling!Rounded(Settling!Value(e))]
Residuals == [e \in Settling!Event |-> Settling!Residual(e)]

Waiting == {e \in Settling!Event : row[e] = "open"} \cup Settling!Absorbed
Backed == {e \in Settling!Event : row[e] = "settled" /\ link[e] \in Settling!Live}
TakingBack == {e \in Reversal : row[e] = "settled"}
TakenBack == {e \in Movement : row[e] = "reversed"}

Only(f, part_) == [e \in Settling!Event |-> IF e \in part_ THEN f[e] ELSE 0]

LEMMA OnlyType ==
  ASSUME NEW f, \A e \in Settling!Event : f[e] \in Int, NEW s \in SUBSET Settling!Event
  PROVE  /\ \A e \in Settling!Event : Only(f, s)[e] = (IF e \in s THEN f[e] ELSE 0) /\ Only(f, s)[e] \in Int
         /\ SumFunctionOnSet(f, s) = SumFunctionOnSet(Only(f, s), Settling!Event)
         /\ SumFunctionOnSet(f, s) \in Int
<1>1. \A e \in Settling!Event : Only(f, s)[e] = (IF e \in s THEN f[e] ELSE 0) /\ Only(f, s)[e] \in Int
  BY DEF Only
<1>2. IsFiniteSet(Settling!Event) /\ IsFiniteSet(s)
  BY SettlementConstants, FS_Subset
<1>3. SumFunctionOnSet(f, s) = SumFunctionOnSet(Only(f, s), Settling!Event)
  BY <1>1, <1>2, SumOfPart
<1> QED
  BY <1>1, <1>2, <1>3, SumType

LEMMA TermTypes ==
  \A e \in Settling!Event : /\ Values[e] = Settling!Value(e) /\ Values[e] \in Int
                            /\ Roundings[e] = Settling!Rounded(Settling!Value(e)) /\ Roundings[e] \in Int
                            /\ Residuals[e] = Settling!Residual(e) /\ Residuals[e] \in Int
                            /\ Values[e] = Cent * Roundings[e] + Residuals[e]
                            /\ Cent * Roundings[e] \in Int
BY ValueType DEF Values, Roundings, Residuals

\* The value of an event is in the journals but for its residual, and that waits, was
\* settled, or is taken back.
LEMMA EventAccounted ==
  ASSUME SettledInv, NEW e \in Settling!Event
  PROVE  Only(Values, Settling!Recorded)[e] =
           Cent * Only(Roundings, journaled)[e] + Only(Residuals, Waiting)[e]
           + Only(Residuals, Backed)[e] + Only(Residuals, TakingBack)[e] + Only(Residuals, TakenBack)[e]
<1> DEFINE R == Residuals[e]
           C == Cent * Roundings[e]
<1>1. /\ Values[e] \in Int /\ R \in Int /\ C \in Int /\ Values[e] = C + R
      /\ Residuals[e] = Settling!Residual(e)
      /\ Roundings[e] = Settling!Rounded(Settling!Value(e))
      /\ Roundings[e] = 0 => C = 0
      /\ Cent * 0 = 0
  BY TermTypes, SettlementConstants
<1>2. /\ e \in Movement \/ e \in Reversal
      /\ ~(e \in Movement /\ e \in Reversal)
      /\ NoEntry \notin Settling!SettlementEntry
      /\ row[e] \in {"none", "open", "settled", "reversed"}
  BY SettlementConstants DEF SettledInv, SettledType, RowState
<1>3. Settling!Live \subseteq Settling!SettlementEntry
  BY DEF Settling!Live
<1>4. /\ e \in Settling!Recorded <=> e \in journaled \/ row[e] # "none"
      /\ e \in Waiting <=> row[e] = "open" \/ (e \in Movement /\ row[e] = "settled" /\ link[e] = NoEntry)
      /\ e \in Backed <=> row[e] = "settled" /\ link[e] \in Settling!Live
      /\ e \in TakingBack <=> e \in Reversal /\ row[e] = "settled"
      /\ e \in TakenBack <=> e \in Movement /\ row[e] = "reversed"
  BY <1>2 DEF Settling!Recorded, Settling!HasEvidence, Waiting, Settling!Absorbed, Backed, TakingBack, TakenBack
<1>5. row[e] = "none" /\ e \in journaled => R = 0
  <2>1. CASE e \in Movement
    BY <1>1, <2>1 DEF SettledInv, MovementInv
  <2>2. CASE e \in Reversal /\ row[e] = "none" /\ e \in journaled
    <3>1. Original(e) \in Movement /\ row[Original(e)] = "none" /\ Original(e) \in journaled
      BY <2>2, SettlementConstants DEF SettledInv, ReversalInv, Settling!HasEvidence
    <3>2. Settling!Residual(Original(e)) = 0
      BY <3>1 DEF SettledInv, MovementInv
    <3> QED
      BY <1>1, <2>2, <3>2, ReversedValue
  <2> QED
    BY <1>2, <2>1, <2>2
<1>6. row[e] # "none" /\ e \notin journaled => C = 0
  <2>1. CASE e \in Movement
    BY <1>1, <2>1 DEF SettledInv, MovementInv
  <2>2. CASE e \in Reversal /\ row[e] # "none" /\ e \notin journaled
    <3>1. Original(e) \in Movement /\ row[Original(e)] = "reversed" /\ Original(e) \notin journaled
      BY <2>2, SettlementConstants DEF SettledInv, ReversalInv, Settling!HasEvidence
    <3>2. Settling!Rounded(Settling!Value(Original(e))) = 0
      BY <3>1 DEF SettledInv, MovementInv
    <3> QED
      BY <1>1, <2>2, <3>2, ReversedValue
  <2> QED
    BY <1>2, <2>1, <2>2
<1>7. e \in Movement /\ row[e] = "settled" => link[e] = NoEntry \/ link[e] \in Settling!Live
  BY DEF SettledInv, MovementInv
<1>8. e \in Reversal => row[e] \in {"none", "settled"}
                        /\ (row[e] = "settled" => link[e] \notin Settling!SettlementEntry)
  BY DEF SettledInv, ReversalInv
<1>9. /\ Only(Values, Settling!Recorded)[e] = IF e \in Settling!Recorded THEN Values[e] ELSE 0
      /\ Cent * Only(Roundings, journaled)[e] = IF e \in journaled THEN C ELSE 0
      /\ Only(Residuals, Waiting)[e] = IF e \in Waiting THEN R ELSE 0
      /\ Only(Residuals, Backed)[e] = IF e \in Backed THEN R ELSE 0
      /\ Only(Residuals, TakingBack)[e] = IF e \in TakingBack THEN R ELSE 0
      /\ Only(Residuals, TakenBack)[e] = IF e \in TakenBack THEN R ELSE 0
  BY <1>1 DEF Only
<1> HIDE DEF R, C
<1>10. CASE e \notin Settling!Recorded
  BY <1>2, <1>4, <1>9, <1>10
<1>11. CASE e \in Settling!Recorded /\ row[e] = "none"
  BY <1>1, <1>4, <1>5, <1>9, <1>11
<1>12. CASE row[e] = "open"
  BY <1>1, <1>2, <1>4, <1>6, <1>8, <1>9, <1>12
<1>13. CASE row[e] = "settled" /\ e \in Movement
  BY <1>1, <1>2, <1>3, <1>4, <1>6, <1>7, <1>9, <1>13
<1>14. CASE row[e] = "settled" /\ e \in Reversal
  BY <1>1, <1>2, <1>3, <1>4, <1>6, <1>8, <1>9, <1>14
<1>15. CASE row[e] = "reversed"
  BY <1>1, <1>2, <1>4, <1>6, <1>8, <1>9, <1>15
<1> QED
  BY <1>2, <1>4, <1>10, <1>11, <1>12, <1>13, <1>14, <1>15

\* What reversals take back is nothing together with what they take it back from.
LEMMA TakenBackToNothing ==
  ASSUME SettledInv
  PROVE  SumFunctionOnSet(Residuals, TakingBack) + SumFunctionOnSet(Residuals, TakenBack) = 0
<1> DEFINE f == [e \in TakingBack |-> Original(e)]
           h == [e \in TakingBack |-> Residuals[Original(e)]]
<1>1. \A e \in TakingBack : /\ e \in Reversal /\ e \in Settling!Event /\ row[e] = "settled"
                            /\ f[e] = Original(e) /\ f[e] \in Movement /\ f[e] \in Settling!Event
                            /\ h[e] = Residuals[f[e]]
  BY SettlementConstants DEF TakingBack
<1>2. \A e, d \in TakingBack : f[e] = f[d] => e = d
  BY <1>1 DEF SettledInv, ReversalInv
<1>3. \A e \in TakingBack : f[e] \in TakenBack
  BY <1>1 DEF SettledInv, ReversalInv, TakenBack
<1>4. \A m \in TakenBack : \E e \in TakingBack : f[e] = m
  BY <1>1 DEF SettledInv, MovementInv, TakenBack, TakingBack
<1> HIDE DEF f, h
<1>5. {f[e] : e \in TakingBack} = TakenBack
  BY <1>3, <1>4
<1>6. \A e \in TakingBack : /\ Residuals[f[e]] \in Int /\ h[e] = Residuals[f[e]]
                            /\ Residuals[e] \in Int /\ h[e] = -Residuals[e]
  BY <1>1, TermTypes, ReversedValue
<1>7. IsFiniteSet(TakingBack)
  BY <1>1, SettlementConstants, FS_Subset
<1>8. SumFunctionOnSet(Residuals, {f[e] : e \in TakingBack}) = SumFunctionOnSet(h, TakingBack)
  BY <1>2, <1>6, <1>7, SumRenamed
<1>9. SumFunctionOnSet(h, TakingBack) = -SumFunctionOnSet(Residuals, TakingBack)
  BY <1>6, <1>7, SumOpposite
<1>10. SumFunctionOnSet(Residuals, TakingBack) \in Int
  BY <1>6, <1>7, SumType
<1> QED
  BY <1>5, <1>8, <1>9, <1>10

\* The residuals that settlements took are the settlements' own, and each settlement is off
\* by half a minor unit at most.
LEMMA SettlementsNear ==
  ASSUME SettledInv
  PROVE  /\ IsFiniteSet(Settling!Live)
         /\ SumFunctionOnSet(amount, Settling!Live) \in Int
         /\ LET off == SumFunctionOnSet(Residuals, Backed) - Cent * SumFunctionOnSet(amount, Settling!Live)
            IN 2 * off <= Cent * Cardinality(Settling!Live) /\ -2 * off <= Cent * Cardinality(Settling!Live)
<1> DEFINE Live == Settling!Live
           group == [s \in Live |-> {e \in Backed : link[e] = s}]
           h == [s \in Live |-> SumFunctionOnSet(Residuals, group[s])]
           o == [s \in Live |-> h[s] - Cent * amount[s]]
           m == [s \in Live |-> Cent * amount[s]]
           o2 == [s \in Live |-> 2 * o[s]]
           n2 == [s \in Live |-> -2 * o[s]]
           c == [s \in Live |-> Cent]
<1>1. Cent \in Nat /\ IsFiniteSet(Settling!Event) /\ Settling!Live \subseteq Settling!SettlementEntry
  BY SettlementConstants DEF Settling!Live
<1>2. IsFiniteSet(Live)
  <2>1. IsFiniteSet(1..MaxSettlements) /\ IsFiniteSet(Branch)
    BY SettlementConstants, FS_Interval
  <2>2. IsFiniteSet(Branch \X (1..MaxSettlements))
    BY <2>1, FS_Product
  <2> QED
    BY <1>1, <2>2, FS_Subset DEF Settling!SettlementEntry
<1>3. Backed \subseteq Settling!Event /\ IsFiniteSet(Backed)
  BY <1>1, FS_Subset DEF Backed
<1>4. \A e \in Backed : Residuals[e] \in Int /\ link[e] \in Live
  BY <1>3, TermTypes DEF Backed
<1>5. \A s \in Live : /\ amount[s] \in Int
                      /\ h[s] \in Int
                      /\ 2 * (h[s] - Cent * amount[s]) <= Cent
                      /\ -Cent <= 2 * (h[s] - Cent * amount[s])
  <2> SUFFICES ASSUME NEW s \in Live
               PROVE  /\ amount[s] \in Int
                      /\ h[s] \in Int
                      /\ 2 * (h[s] - Cent * amount[s]) <= Cent
                      /\ -Cent <= 2 * (h[s] - Cent * amount[s])
    OBVIOUS
  <2>1. group[s] = Settling!RowsOf(s) /\ Settling!RowsOf(s) \in SUBSET Settling!Event
    BY <1>1 DEF Backed, Settling!RowsOf
  <2>2. h[s] = Settling!Sum(Settling!RowsOf(s))
    BY <2>1, SameSums DEF Settling!Sum, Residuals
  <2>3. amount[s] = Settling!Rounded(h[s])
    BY <2>2 DEF SettledInv, Settling!SettlementBacked, Settling!GroupMinor
  <2>4. h[s] \in Int
    BY <2>1, <2>2, GroupType
  <2> HIDE DEF h
  <2> QED
    BY <2>3, <2>4, RoundedOff
<1>6. \A s \in Live : /\ h[s] = SumFunctionOnSet(Residuals, group[s])
                      /\ \A e : e \in group[s] <=> e \in Backed /\ link[e] = s
  OBVIOUS
<1> HIDE DEF h, group
<1>7. SumFunctionOnSet(Residuals, Backed) = SumFunctionOnSet(h, Live)
  <2> HIDE DEF Live
  <2> QED
    BY <1>2, <1>3, <1>4, <1>6, SumByGroups
<1>8. \A s \in Live : /\ h[s] = o[s] + m[s] /\ o[s] \in Int /\ m[s] \in Int /\ m[s] = Cent * amount[s]
                      /\ o2[s] = 2 * o[s] /\ n2[s] = -o2[s] /\ c[s] = Cent
                      /\ o2[s] \in Int /\ n2[s] \in Int /\ c[s] \in Int
                      /\ o2[s] <= c[s] /\ n2[s] <= c[s]
  BY <1>1, <1>5
<1> HIDE DEF o, m, o2, n2, c, Live
<1>9. SumFunctionOnSet(h, Live) = SumFunctionOnSet(o, Live) + SumFunctionOnSet(m, Live)
  BY <1>2, <1>5, <1>8, SumPlus
<1>10. SumFunctionOnSet(m, Live) = Cent * SumFunctionOnSet(amount, Live)
  BY <1>1, <1>2, <1>5, <1>8, SumTimes
<1>11. SumFunctionOnSet(o2, Live) = 2 * SumFunctionOnSet(o, Live)
  BY <1>2, <1>8, SumTimes
<1>12. SumFunctionOnSet(n2, Live) = -SumFunctionOnSet(o2, Live)
  BY <1>2, <1>8, SumOpposite
<1>13. SumFunctionOnSet(c, Live) = Cent * Cardinality(Live)
  BY <1>1, <1>2, <1>8, SumOfConstant
<1>14. SumFunctionOnSet(o2, Live) <= SumFunctionOnSet(c, Live) /\ SumFunctionOnSet(n2, Live) <= SumFunctionOnSet(c, Live)
  BY <1>2, <1>8, SumMonotone
<1>15. SumFunctionOnSet(amount, Live) \in Int /\ SumFunctionOnSet(h, Live) \in Int
  BY <1>2, <1>5, SumType
<1>17. SumFunctionOnSet(o, Live) \in Int
  BY <1>2, <1>8, SumType
<1>16. SumFunctionOnSet(o, Live) = SumFunctionOnSet(Residuals, Backed) - Cent * SumFunctionOnSet(amount, Live)
  BY <1>1, <1>7, <1>9, <1>10, <1>15, <1>17
<1> QED
  BY <1>2, <1>11, <1>12, <1>13, <1>14, <1>15, <1>16 DEF Live

\* The books follow stock.
LEMMA BooksNear ==
  ASSUME SettledInv
  PROVE  Settling!BooksFollowStock
<1> DEFINE E == Settling!Event
           S(f) == SumFunctionOnSet(f, E)
           v == Only(Values, Settling!Recorded)
           j == Only(Roundings, journaled)
           w == Only(Residuals, Waiting)
           b == Only(Residuals, Backed)
           t == Only(Residuals, TakingBack)
           u == Only(Residuals, TakenBack)
           cj == [e \in E |-> Cent * j[e]]
           x1 == [e \in E |-> cj[e] + w[e]]
           x2 == [e \in E |-> x1[e] + b[e]]
           x3 == [e \in E |-> x2[e] + t[e]]
<1>1. IsFiniteSet(E) /\ Cent \in Int
  BY SettlementConstants
<1>2. /\ Settling!Recorded \in SUBSET E /\ journaled \in SUBSET E /\ Waiting \in SUBSET E
      /\ Backed \in SUBSET E /\ TakingBack \in SUBSET E /\ TakenBack \in SUBSET E
  BY SettlementConstants DEF SettledInv, SettledType, Settling!Recorded, Waiting, Settling!Absorbed, Backed,
     TakingBack, TakenBack
<1>3. \A e \in E : /\ v[e] \in Int /\ j[e] \in Int /\ w[e] \in Int /\ b[e] \in Int /\ t[e] \in Int /\ u[e] \in Int
                   /\ v[e] = Cent * j[e] + w[e] + b[e] + t[e] + u[e]
  BY <1>2, TermTypes, OnlyType, EventAccounted
<1>4. /\ SumFunctionOnSet(Values, Settling!Recorded) = S(v)
      /\ SumFunctionOnSet(Roundings, journaled) = S(j)
      /\ SumFunctionOnSet(Residuals, Waiting) = S(w)
      /\ SumFunctionOnSet(Residuals, Backed) = S(b)
      /\ SumFunctionOnSet(Residuals, TakingBack) = S(t)
      /\ SumFunctionOnSet(Residuals, TakenBack) = S(u)
  BY <1>2, TermTypes, OnlyType
<1> HIDE DEF v, j, w, b, t, u, E
<1>5. \A e \in E : cj[e] = Cent * j[e] /\ cj[e] \in Int
  BY <1>1, <1>3
<1> HIDE DEF cj
<1>6. \A e \in E : x1[e] = cj[e] + w[e] /\ x1[e] \in Int
  BY <1>3, <1>5
<1> HIDE DEF x1
<1>7. \A e \in E : x2[e] = x1[e] + b[e] /\ x2[e] \in Int
  BY <1>3, <1>6
<1> HIDE DEF x2
<1>8. \A e \in E : x3[e] = x2[e] + t[e] /\ x3[e] \in Int /\ v[e] = x3[e] + u[e]
  BY <1>3, <1>5, <1>6, <1>7
<1> HIDE DEF x3
<1>9. S(cj) = Cent * S(j)
  BY <1>1, <1>3, <1>5, SumTimes
<1>10. S(x1) = S(cj) + S(w)
  BY <1>1, <1>3, <1>5, <1>6, SumPlus
<1>11. S(x2) = S(x1) + S(b)
  BY <1>1, <1>3, <1>6, <1>7, SumPlus
<1>12. S(x3) = S(x2) + S(t)
  BY <1>1, <1>3, <1>7, <1>8, SumPlus
<1>13. S(v) = S(x3) + S(u)
  BY <1>1, <1>3, <1>8, SumPlus
<1>14. S(j) \in Int /\ S(w) \in Int /\ S(b) \in Int /\ S(t) \in Int /\ S(u) \in Int /\ S(cj) \in Int
  BY <1>1, <1>3, <1>5, SumType
<1>15. S(t) + S(u) = 0
  BY <1>4, TakenBackToNothing
<1>16. S(v) = Cent * S(j) + S(w) + S(b)
  BY <1>9, <1>10, <1>11, <1>12, <1>13, <1>14, <1>15
<1> DEFINE a == SumFunctionOnSet(amount, Settling!Live)
           gap == S(v) - Cent * (S(j) + a) - S(w)
           n == Cardinality(Settling!Live)
<1>17. a \in Int /\ 2 * (S(b) - Cent * a) <= Cent * n /\ -2 * (S(b) - Cent * a) <= Cent * n
  BY <1>4, SettlementsNear
<1>18. gap = S(b) - Cent * a
  <2>1. Cent * (S(j) + a) = Cent * S(j) + Cent * a /\ Cent * S(j) \in Int /\ Cent * a \in Int
    BY <1>1, <1>14, <1>17
  <2> HIDE DEF a, S
  <2> QED
    BY <1>14, <1>16, <2>1
<1>19. 2 * gap <= Cent * n /\ -2 * gap <= Cent * n
  BY <1>17, <1>18
<1>20. gap = SumFunctionOnSet(Values, Settling!Recorded)
             - Cent * (SumFunctionOnSet(Roundings, journaled) + SumFunctionOnSet(amount, Settling!Live))
             - SumFunctionOnSet(Residuals, Waiting)
  BY <1>4
<1> HIDE DEF gap, n
<1> QED
  BY <1>19, <1>20, SameSums, SameSizes
     DEF Settling!BooksFollowStock, Settling!Sum, Values, Roundings, Residuals, Waiting, n

-----------------------------------------------------------------------------

\* A step of the suite is one of the books or leaves them alone.
LEMMA SuiteMovesSettled == [SuiteNext]_suiteVars => [Settling!Next]_Settling!vars
BY DEF SuiteNext, suiteVars, settlementVars, Settling!vars, Settling!books

LEMMA SettledStep ==
  ASSUME SettledInv, [Settling!Next]_Settling!vars
  PROVE  SettledInv'
<1>1. ASSUME NEW e \in Settling!Event, Settling!Post(e)
      PROVE  SettledInv'
  <2>1. UNCHANGED <<journaled, row, link, amount, undone, undoing>> /\ settlementStatus[e] = "pending"
    BY <1>1 DEF Settling!Post, Settling!books
  <2>2. CASE Settling!Value(e) = 0
    BY <1>1, <2>1, <2>2, NothingKeepsSettled DEF Settling!Post
  <2>3. CASE Settling!Value(e) # 0
    <3>1. settlementStatus' = settlementStatus /\ posting' = posting \cup {e}
          /\ (e \in Reversal => Settling!HasEvidence(Original(e)))
      BY <1>1, <2>3 DEF Settling!Post
    <3> QED
      BY <2>1, <2>3, <3>1, GuardsKeepSettled
  <2> QED
    BY <2>2, <2>3
<1>2. ASSUME NEW e \in Settling!Event, Settling!Record(e)
      PROVE  SettledInv'
  <2>1. e \in posting /\ posting' = posting \ {e} /\ UNCHANGED <<amount, undone, undoing>>
    BY <1>2 DEF Settling!Record
  <2>2. CASE e \in Movement
    BY <1>2, <2>1, <2>2, MovementKeepsSettled DEF Settling!Record
  <2>3. CASE e \notin Movement
    <3>1. e \in Reversal
      BY <2>3, SettlementConstants
    <3> QED
      BY <1>2, <2>1, <2>3, <3>1, ReversalKeepsSettled DEF Settling!Record
  <2> QED
    BY <2>2, <2>3
<1>3. ASSUME NEW e \in Settling!Event, Settling!RollBackPost(e)
      PROVE  SettledInv'
  BY <1>3, GuardsKeepSettled DEF Settling!RollBackPost, Settling!books
<1>4. ASSUME NEW bs \in {Branch} \cup {{b} : b \in Branch}, NEW r, NEW d, NEW k, Settling!Settle(bs, r, d, k)
      PROVE  SettledInv'
  <2>1. bs \in SUBSET Branch
    OBVIOUS
  <2> QED
    BY <1>4, <2>1, SettleKeepsSettled DEF Settling!Settle
<1>5. ASSUME NEW r, Settling!LockPeriod(r)
      PROVE  SettledInv'
  BY <1>5, SettleKeepsSettled DEF Settling!LockPeriod
<1>6. ASSUME NEW r, Settling!OpenPeriod(r)
      PROVE  SettledInv'
  BY <1>6, GuardsKeepSettled DEF Settling!OpenPeriod, Settling!books
<1>7. ASSUME NEW x \in Settling!Entry, Settling!RollBackReverse(x)
      PROVE  SettledInv'
  BY <1>7, GuardsKeepSettled DEF Settling!RollBackReverse, Settling!books
<1>8. ASSUME NEW x \in Settling!Entry, NEW d, Settling!Reverse(x, d)
      PROVE  SettledInv'
  BY <1>8, GuardsKeepSettled DEF Settling!Reverse, Settling!books
<1>9. CASE UNCHANGED Settling!vars
  BY <1>9, GuardsKeepSettled DEF Settling!vars, Settling!books
<1> QED
  BY <1>1, <1>2, <1>3, <1>4, <1>5, <1>6, <1>7, <1>8, <1>9, UndoKeepsSettled DEF Settling!Next

\* Settlements, reversals and locks in any order keep the books at the value of stock, the
\* status of an event with its residual, and each settlement with its rows, for any events,
\* values, branches, dates and keys (accountingLedger.ts).
THEOREM BooksStandForStock == SuiteSpec => []SettledAsStock
<1>1. SuiteInit => SettledInv
  BY SettledInit DEF SuiteInit
<1>2. SettledInv /\ [SuiteNext]_suiteVars => SettledInv'
  BY SuiteMovesSettled, SettledStep
<1>3. SettledInv => SettledAsStock
  <2> SUFFICES ASSUME SettledInv
               PROVE  Settling!DeferredIsOpen
    BY BooksNear DEF SettledAsStock, SettledInv
  <2> QED
    BY DEF SettledInv, EvidenceInv, SettledType, RowState, Settling!DeferredIsOpen, Settling!HasEvidence
<1> QED
  BY <1>1, <1>2, <1>3, PTL DEF SuiteSpec

-----------------------------------------------------------------------------
(* The chart of accounts and its seed.                                     *)

LEMMA ChartStanding == Accounts!ChartAssumption
BY SuiteAssumption DEF SuiteAssumption

ChartAccount == [code : STRING, key : STRING \cup {None}, named : {"system", "own"}, active : BOOLEAN]

\* Where a seed is.
SeedPlace ==
  [at : {"look", "move", "insert", "rule", "done", "failed"}, i : Nat]

ChartType ==
  /\ chart \in Seq(ChartAccount)
  /\ rules \in [DOMAIN rules -> [Accounts!Side -> Accounts!Id]]
  /\ posted \in Seq([Accounts!Side -> Accounts!Id])
  /\ seed \in [Seed -> SeedPlace]
  /\ desk = [d \in Desk |-> desk[d]]

\* A seed is at one of the moves or of the standard accounts.
SeedPlaced ==
  \A s \in Seed :
    /\ seed[s].at \in {"look", "move"} => seed[s].i \in DOMAIN Moves
    /\ seed[s].at = "insert" => seed[s].i \in DOMAIN Standard

\* What a request has yet to write was there when it asked, and nothing is removed.
DeskKnows ==
  \A d \in Desk :
    /\ desk[d].doing = "create" => desk[d].code \in STRING
    /\ desk[d].doing = "update" =>
         desk[d].id \in Accounts!Id /\ desk[d].change \in {"rename", "activate", "deactivate"}
    /\ desk[d].doing = "add" => desk[d].to \in [Accounts!Side -> Accounts!Id]
    /\ desk[d].doing = "set" =>
         desk[d].rule \in DOMAIN rules /\ desk[d].leg \in Accounts!Side /\ desk[d].id \in Accounts!Id

KeysOnce == \A i, j \in Accounts!Id : ~Accounts!Own(i) /\ chart[i].key = chart[j].key => i = j
CodesOnce == \A i, j \in Accounts!Id : chart[i].code = chart[j].code => i = j
AllAtCode == \A i \in Accounts!Id : ~Accounts!Own(i) => Accounts!AtItsCode(chart[i])

\* A tenant has given a code of the chart to an account of its own.
CodeTaken == \E i \in Accounts!Id : Accounts!Own(i) /\ chart[i].code \in Accounts!StandardCode

\* Move j is behind seed s, and so is standard account n.
Past(s, j) ==
  \/ seed[s].at \in {"look", "move"} /\ j < seed[s].i
  \/ seed[s].at \in {"insert", "rule", "done"}
Filled(s, n) ==
  \/ seed[s].at = "insert" /\ n < seed[s].i
  \/ seed[s].at \in {"rule", "done"}

IsMoved(j) == \A i \in Accounts!Id : chart[i].key = Moves[j].key => chart[i].code = Moves[j].to
Stands(n) == \E i \in Accounts!Id : chart[i].key = Standard[n].key /\ chart[i].code = Standard[n].code

PastMoved ==
  \A s \in Seed : \A j \in DOMAIN Moves : Past(s, j) => IsMoved(j)
FilledStands ==
  \A s \in Seed : \A n \in DOMAIN Standard : Filled(s, n) => Stands(n)
NoneFailed == \A s \in Seed : seed[s].at # "failed"

ChartShape == ChartType /\ SeedPlaced /\ DeskKnows
ChartInv ==
  /\ ChartShape
  /\ KeysOnce /\ CodesOnce /\ AllAtCode
  /\ ~CodeTaken => PastMoved /\ FilledStands /\ NoneFailed

\* A pair of ids is a value for both legs.
LEMMA LegsOf ==
  ASSUME NEW S, NEW x \in S, NEW y \in S
  PROVE  [debit |-> x, credit |-> y] \in [Accounts!Side -> S]
BY DEF Accounts!Side

\* What an account at the end makes of the chart.
LEMMA Longer ==
  ASSUME ChartShape, NEW a \in ChartAccount, chart' = Append(chart, a)
  PROVE  /\ chart' \in Seq(ChartAccount) /\ Accounts!Id' = Accounts!Id \cup {Len(chart) + 1}
         /\ \A i \in Accounts!Id : chart'[i] = chart[i]
         /\ chart'[Len(chart) + 1] = a
         /\ Len(chart) \in Nat
         /\ Len(chart) + 1 \notin Accounts!Id
BY DEF ChartShape, ChartType, Accounts!Id

LEMMA Placed ==
  Accounts!ChartAssumption => 1 \in DOMAIN Moves /\ 1 \in DOMAIN Standard
                     /\ DOMAIN Moves = 1 .. Len(Moves) /\ DOMAIN Standard = 1 .. Len(Standard)
                     /\ Len(Moves) \in Nat /\ Len(Standard) \in Nat
BY DEF Accounts!ChartAssumption

LEMMA StartInv == Accounts!Init => ChartInv
<1> SUFFICES ASSUME Accounts!Init PROVE ChartInv
  OBVIOUS
<1> USE ChartStanding
<1>1. PICK first \in FirstCharts : chart = first.chart /\ rules = first.rules
  BY DEF Accounts!Init
<1>2. ChartType
  <2>1. chart \in Seq(ChartAccount)
    BY <1>1 DEF Accounts!ChartAssumption, ChartAccount
  <2>2. rules \in [DOMAIN rules -> [Accounts!Side -> Accounts!Id]]
    BY <1>1 DEF Accounts!ChartAssumption, Accounts!Side, Accounts!Id
  <2>3. /\ posted = <<>> /\ desk = [d \in Desk |-> desk[d]]
        /\ seed = [s \in Seed |-> [at |-> "look", i |-> 1]]
    BY DEF Accounts!Init
  <2>4. posted \in Seq([Accounts!Side -> Accounts!Id]) /\ seed \in [Seed -> SeedPlace]
    BY <2>3 DEF SeedPlace
  <2>5. QED
    BY <2>1, <2>2, <2>3, <2>4 DEF ChartType
<1>3. SeedPlaced /\ DeskKnows
  BY Placed DEF SeedPlaced, DeskKnows, Accounts!Init
<1>4. KeysOnce /\ CodesOnce /\ AllAtCode
  BY <1>1, <1>2 DEF KeysOnce, CodesOnce, AllAtCode, Accounts!ChartAssumption, Accounts!Own, Accounts!Id, ChartType
<1>5. PastMoved /\ FilledStands /\ NoneFailed
  <2>1. \A s \in Seed : seed[s] = [at |-> "look", i |-> 1]
    BY DEF Accounts!Init
  <2>2. \A j \in DOMAIN Moves : ~(j < 1)
    BY Placed
  <2>3. QED
    BY <2>1, <2>2 DEF PastMoved, FilledStands, NoneFailed, Past, Filled
<1>6. QED
  BY <1>2, <1>3, <1>4, <1>5 DEF ChartInv, ChartShape

\* While no tenant took a code of the chart, and the moves away from a standard code are
\* past, the account that stands there is the one meant to.
LEMMA Holder ==
  ASSUME ChartInv, ~CodeTaken, NEW s \in Seed, NEW n \in DOMAIN Standard,
         \A j \in DOMAIN Moves : Moves[j].from = Standard[n].code => Past(s, j),
         NEW h \in Accounts!Id, chart[h].code = Standard[n].code
  PROVE  chart[h].key = Standard[n].key
<1> USE ChartStanding
<1>1. ~Accounts!Own(h)
  BY DEF CodeTaken, Accounts!StandardCode
<1>2. Accounts!AtItsCode(chart[h])
  BY <1>1 DEF ChartInv, AllAtCode
<1>3. ASSUME NEW m \in DOMAIN Standard, chart[h].key = Standard[m].key, chart[h].code = Standard[m].code
      PROVE  chart[h].key = Standard[n].key
  BY <1>3 DEF Accounts!ChartAssumption
<1>4. ASSUME NEW j \in DOMAIN Moves, chart[h].key = Moves[j].key, chart[h].code = Moves[j].from
      PROVE  FALSE
  <2>1. Past(s, j)
    BY <1>4
  <2>2. chart[h].code = Moves[j].to
    BY <2>1, <1>4 DEF ChartInv, PastMoved, IsMoved
  <2>3. j < j
    BY <2>2, <1>4 DEF Accounts!ChartAssumption, Accounts!MovesInOrder
  <2>4. QED
    BY <2>3, Placed
<1>5. QED
  BY <1>2, <1>3, <1>4 DEF Accounts!AtItsCode

\* What is held at the code that a move claims is the key's own account.
LEMMA HolderOfMove ==
  ASSUME ChartInv, ~CodeTaken, NEW s \in Seed, seed[s].at \in {"look", "move"},
         NEW h \in Accounts!Id, chart[h].code = Moves[seed[s].i].to
  PROVE  chart[h].key = Moves[seed[s].i].key
<1> USE ChartStanding
<1> DEFINE k == seed[s].i
<1>1. k \in DOMAIN Moves
  BY DEF ChartInv, ChartShape, SeedPlaced
<1>2. PICK n \in DOMAIN Standard : Moves[k].key = Standard[n].key /\ Moves[k].to = Standard[n].code
  BY <1>1 DEF Accounts!ChartAssumption
<1>3. \A j \in DOMAIN Moves : Moves[j].from = Standard[n].code => Past(s, j)
  BY <1>1, <1>2 DEF Accounts!ChartAssumption, Accounts!MovesInOrder, Past
<1>4. QED
  BY <1>2, <1>3, Holder

\* When accounts are inserted all moves are past.
LEMMA HolderAtInsert ==
  ASSUME ChartInv, ~CodeTaken, NEW s \in Seed, seed[s].at = "insert",
         NEW h \in Accounts!Id, chart[h].code = Standard[seed[s].i].code
  PROVE  chart[h].key = Standard[seed[s].i].key
<1>1. seed[s].i \in DOMAIN Standard
  BY DEF ChartInv, ChartShape, SeedPlaced
<1>2. \A j \in DOMAIN Moves : Past(s, j)
  BY DEF Past
<1>3. QED
  BY <1>1, <1>2, Holder

\* The account of a key is where it was or where its move leads.
LEMMA FromOrTo ==
  ASSUME ChartInv, NEW j \in DOMAIN Moves, NEW i \in Accounts!Id, chart[i].key = Moves[j].key
  PROVE  chart[i].code \in {Moves[j].from, Moves[j].to} /\ ~Accounts!Own(i) /\ Moves[j].from # Moves[j].to
<1> USE ChartStanding
<1>1. PICK n \in DOMAIN Standard : Moves[j].key = Standard[n].key /\ Moves[j].to = Standard[n].code
  BY DEF Accounts!ChartAssumption
<1>2. ~Accounts!Own(i)
  BY <1>1 DEF Accounts!Own, Accounts!ChartAssumption
<1>3. Accounts!AtItsCode(chart[i])
  BY <1>2 DEF ChartInv, AllAtCode
<1>4. ~(j < j)
  BY Placed
<1>5. Moves[j].from # Moves[j].to
  BY <1>4 DEF Accounts!ChartAssumption, Accounts!MovesInOrder
<1>6. CASE \E m \in DOMAIN Standard : chart[i].key = Standard[m].key /\ chart[i].code = Standard[m].code
  BY <1>6, <1>1, <1>2, <1>5 DEF Accounts!ChartAssumption
<1>7. CASE \E m \in DOMAIN Moves : chart[i].key = Moves[m].key /\ chart[i].code = Moves[m].from
  BY <1>7, <1>2, <1>5 DEF Accounts!ChartAssumption
<1>8. QED
  BY <1>3, <1>6, <1>7 DEF Accounts!AtItsCode

\* What a step does to the chart: accounts keep their keys, and what is moved or
\* stands stays so.
ChartStep ==
  /\ KeysOnce' /\ CodesOnce' /\ AllAtCode'
  /\ CodeTaken => CodeTaken'
  /\ \A j \in DOMAIN Moves : IsMoved(j) => IsMoved(j)'
  /\ \A n \in DOMAIN Standard : Stands(n) => Stands(n)'

LEMMA SameChart ==
  ASSUME ChartInv, chart' = chart
  PROVE  ChartStep /\ chart' \in Seq(ChartAccount) /\ Accounts!Id' = Accounts!Id
<1>1. ChartStep
  BY DEF ChartInv, ChartStep, KeysOnce, CodesOnce, AllAtCode, CodeTaken, IsMoved, Stands, Accounts!Id, Accounts!Own
<1>2. chart' \in Seq(ChartAccount) /\ Accounts!Id' = Accounts!Id
  BY DEF ChartInv, ChartShape, ChartType, Accounts!Id
<1>3. QED
  BY <1>1, <1>2

LEMMA MoveTyped == \A k \in DOMAIN Moves : Moves[k].to \in STRING
<1> DEFINE Code == [key : STRING, from : STRING, to : STRING]
<1>1. Moves \in Seq(Code)
  BY ChartStanding DEF Accounts!ChartAssumption
<1> HIDE DEF Code
<1>2. \A k \in DOMAIN Moves : Moves[k] \in Code
  BY <1>1
<1>3. QED
  BY <1>2 DEF Code

LEMMA Renamed ==
  ASSUME NEW account \in ChartAccount, NEW c \in STRING
  PROVE  LET new == [account EXCEPT !.code = c, !.named = "system"] IN
         new \in ChartAccount /\ new.code = c /\ new.key = account.key /\ new.active = account.active
BY DEF ChartAccount

\* A move takes an account from the legacy to the standard code, which is free.
LEMMA MoveStep ==
  ASSUME ChartInv, NEW k \in DOMAIN Moves, NEW m \in Accounts!Id, chart[m].key = Moves[k].key,
         \A i \in Accounts!Id \ {m} : chart[i].code # Moves[k].to,
         chart' = [chart EXCEPT ![m] = [@ EXCEPT !.code = Moves[k].to, !.named = "system"]]
  PROVE  /\ ChartStep /\ chart' \in Seq(ChartAccount) /\ Accounts!Id' = Accounts!Id
         /\ \A i \in Accounts!Id \ {m} : chart'[i] = chart[i]
         /\ chart'[m].active = chart[m].active /\ chart'[m].code = Moves[k].to
         /\ IsMoved(k)'
<1> USE ChartStanding
<1>1. chart \in Seq(ChartAccount) /\ Accounts!Id = 1 .. Len(chart) /\ Len(chart) \in Nat
  BY DEF ChartInv, ChartShape, ChartType, Accounts!Id
<1>2. /\ chart' \in Seq(ChartAccount) /\ Len(chart') = Len(chart) /\ Accounts!Id' = Accounts!Id
      /\ chart'[m].code = Moves[k].to /\ chart'[m].key = chart[m].key /\ chart'[m].active = chart[m].active
      /\ \A i \in Accounts!Id \ {m} : chart'[i] = chart[i]
  <2>1. Moves[k].to \in STRING
    BY MoveTyped
  <2>2. \A i \in Accounts!Id : chart[i] \in ChartAccount
    BY <1>1
  <2> DEFINE new == [chart[m] EXCEPT !.code = Moves[k].to, !.named = "system"]
  <2>3. new \in ChartAccount /\ new.code = Moves[k].to /\ new.key = chart[m].key /\ new.active = chart[m].active
    BY <2>1, <2>2, Renamed
  <2>4. chart' = [chart EXCEPT ![m] = new]
    OBVIOUS
  <2> HIDE DEF new
  <2>5. chart' \in Seq(ChartAccount) /\ Len(chart') = Len(chart)
    BY <2>3, <2>4, <1>1
  <2>6. QED
    BY <2>3, <2>4, <2>5, <1>1 DEF Accounts!Id
<1>4. \A i \in Accounts!Id : chart'[i].key = chart[i].key /\ Accounts!Own(i)' = Accounts!Own(i)
  BY <1>2 DEF Accounts!Own
<1>5. ~Accounts!Own(m)
  BY FromOrTo
<1>6. KeysOnce' /\ CodesOnce'
  BY <1>2, <1>4 DEF ChartInv, KeysOnce, CodesOnce
<1>7. AllAtCode'
  <2>1. Accounts!AtItsCode(chart'[m])
    BY <1>2 DEF Accounts!AtItsCode, Accounts!ChartAssumption
  <2>2. QED
    BY <2>1, <1>2, <1>4 DEF ChartInv, AllAtCode, Accounts!AtItsCode
<1>8. CodeTaken' = CodeTaken
  BY <1>2, <1>4, <1>5 DEF CodeTaken
<1>9. ASSUME NEW j \in DOMAIN Moves, IsMoved(j) \/ j = k PROVE IsMoved(j)'
  <2> SUFFICES ASSUME NEW i \in Accounts!Id, chart'[i].key = Moves[j].key
               PROVE  chart'[i].code = Moves[j].to
    BY <1>2 DEF IsMoved
  <2>1. CASE i = m
    BY <2>1, <1>2 DEF Accounts!ChartAssumption
  <2>2. CASE i # m
    <3>1. CASE j = k
      BY <3>1, <2>2, <1>2, <1>5 DEF ChartInv, KeysOnce
    <3>2. CASE j # k
      BY <3>2, <2>2, <1>2, <1>9 DEF IsMoved
    <3>3. QED
      BY <3>1, <3>2
  <2>3. QED
    BY <2>1, <2>2
<1>10. ASSUME NEW n \in DOMAIN Standard, Stands(n) PROVE Stands(n)'
  <2>1. PICK i \in Accounts!Id : chart[i].key = Standard[n].key /\ chart[i].code = Standard[n].code
    BY <1>10 DEF Stands
  <2>2. CASE i = m
    <3>1. Moves[k].to = Standard[n].code
      BY <2>1, <2>2 DEF Accounts!ChartAssumption
    <3>2. QED
      BY <3>1, <2>1, <2>2, <1>2 DEF Stands
  <2>3. CASE i # m
    BY <2>1, <2>3, <1>2 DEF Stands
  <2>4. QED
    BY <2>2, <2>3
<1>11. QED
  BY <1>2, <1>6, <1>7, <1>8, <1>9, <1>10 DEF ChartStep

\* An account is added under a code that nobody has, and if it is the system's under a
\* key nobody bears.
LEMMA AddStep ==
  ASSUME ChartInv, NEW new \in ChartAccount, chart' = Append(chart, new),
         \A i \in Accounts!Id : chart[i].code # new.code,
         \/ new.key = None
         \/ /\ \A i \in Accounts!Id : chart[i].key # new.key
            /\ \E n \in DOMAIN Standard : new.key = Standard[n].key /\ new.code = Standard[n].code
  PROVE  /\ ChartStep /\ chart' \in Seq(ChartAccount) /\ Accounts!Id \subseteq Accounts!Id'
         /\ \A i \in Accounts!Id : chart'[i] = chart[i]
         /\ \E i \in Accounts!Id' : chart'[i] = new
<1> USE ChartStanding
<1> DEFINE last == Len(chart) + 1
<1>1. /\ chart' \in Seq(ChartAccount) /\ Accounts!Id' = Accounts!Id \cup {last}
      /\ \A i \in Accounts!Id : chart'[i] = chart[i]
      /\ chart'[last] = new /\ last \notin Accounts!Id
  BY Longer DEF ChartInv
<1> HIDE DEF last
<1>2. KeysOnce' /\ CodesOnce'
  <2>1. ASSUME NEW i \in Accounts!Id, NEW j \in Accounts!Id
        PROVE  /\ chart'[i].key # None /\ chart'[i].key = chart'[j].key => i = j
               /\ chart'[i].code = chart'[j].code => i = j
    BY <1>1 DEF ChartInv, KeysOnce, CodesOnce, Accounts!Own
  <2>2. ASSUME NEW i \in Accounts!Id
        PROVE  /\ chart'[i].code # new.code
               /\ chart'[i].key # None => chart'[i].key # new.key
    BY <1>1
  <2>3. ASSUME NEW i \in Accounts!Id', NEW j \in Accounts!Id'
        PROVE  /\ chart'[i].key # None /\ chart'[i].key = chart'[j].key => i = j
               /\ chart'[i].code = chart'[j].code => i = j
    <3>1. CASE i = last /\ j = last
      BY <3>1
    <3>2. CASE i = last /\ j \in Accounts!Id
      BY <3>2, <2>2, <1>1
    <3>3. CASE i \in Accounts!Id /\ j = last
      BY <3>3, <2>2, <1>1
    <3>4. CASE i \in Accounts!Id /\ j \in Accounts!Id
      BY <3>4, <2>1
    <3>5. QED
      BY <3>1, <3>2, <3>3, <3>4, <1>1
  <2>4. QED
    BY <2>3 DEF KeysOnce, CodesOnce, Accounts!Own
<1>3. AllAtCode'
  <2>1. ASSUME NEW i \in Accounts!Id, chart[i].key # None PROVE Accounts!AtItsCode(chart[i])
    BY <2>1 DEF ChartInv, AllAtCode, Accounts!Own
  <2>2. new.key # None => Accounts!AtItsCode(new)
    BY DEF Accounts!AtItsCode
  <2>3. QED
    BY <2>1, <2>2, <1>1 DEF AllAtCode, Accounts!Own
<1>4. CodeTaken => CodeTaken'
  BY <1>1 DEF CodeTaken, Accounts!Own
<1>5. ASSUME NEW j \in DOMAIN Moves, IsMoved(j) PROVE IsMoved(j)'
  <2>1. PICK m \in DOMAIN Standard : Moves[j].key = Standard[m].key /\ Moves[j].to = Standard[m].code
    BY DEF Accounts!ChartAssumption
  <2>2. new.key = Moves[j].key => new.code = Moves[j].to
    BY <2>1 DEF Accounts!ChartAssumption
  <2>3. QED
    BY <2>2, <1>1, <1>5 DEF IsMoved
<1>6. ASSUME NEW n \in DOMAIN Standard, Stands(n) PROVE Stands(n)'
  BY <1>1, <1>6 DEF Stands
<1>7. QED
  BY <1>1, <1>2, <1>3, <1>4, <1>5, <1>6 DEF ChartStep

\* A name or a state is changed.
LEMMA NameStep ==
  ASSUME ChartInv, chart' \in Seq(ChartAccount), Accounts!Id' = Accounts!Id,
         \A i \in Accounts!Id : chart'[i].key = chart[i].key /\ chart'[i].code = chart[i].code
  PROVE  ChartStep
<1>1. \A i \in Accounts!Id : Accounts!Own(i)' = Accounts!Own(i)
  BY DEF Accounts!Own
<1>2. KeysOnce' /\ CodesOnce' /\ AllAtCode'
  BY <1>1 DEF ChartInv, KeysOnce, CodesOnce, AllAtCode, Accounts!AtItsCode
<1>3. CodeTaken => CodeTaken'
  BY <1>1 DEF CodeTaken
<1>4. \A j \in DOMAIN Moves : IsMoved(j) => IsMoved(j)'
  BY DEF IsMoved
<1>5. \A n \in DOMAIN Standard : Stands(n) => Stands(n)'
  BY DEF Stands
<1>6. QED
  BY <1>2, <1>3, <1>4, <1>5 DEF ChartStep

\* What a step makes of the place of seed s.
LEMMA SeedOn ==
  ASSUME ChartInv, ChartStep, ChartShape', NEW s \in Seed,
         \A t \in Seed \ {s} : seed'[t] = seed[t],
         \A j \in DOMAIN Moves : Past(s, j)' => Past(s, j) \/ CodeTaken' \/ IsMoved(j)',
         \A n \in DOMAIN Standard : Filled(s, n)' => Filled(s, n) \/ CodeTaken' \/ Stands(n)',
         seed'[s].at = "failed" => seed[s].at = "failed" \/ CodeTaken'
  PROVE  ChartInv'
<1> SUFFICES ASSUME ~CodeTaken' PROVE PastMoved' /\ FilledStands' /\ NoneFailed'
  BY DEF ChartInv, ChartStep
<1>1. PastMoved /\ FilledStands /\ NoneFailed
  BY DEF ChartInv, ChartStep
<1>2. \A t \in Seed \ {s} : \A j : Past(t, j)' = Past(t, j) /\ Filled(t, j)' = Filled(t, j)
  BY DEF Past, Filled
<1>3. PastMoved'
  BY <1>1, <1>2 DEF PastMoved, ChartStep
<1>4. FilledStands'
  BY <1>1, <1>2 DEF FilledStands, ChartStep
<1>5. NoneFailed'
  BY <1>1 DEF NoneFailed
<1>6. QED
  BY <1>3, <1>4, <1>5

LEMMA SeedsRest ==
  ASSUME ChartInv, ChartStep, ChartShape', seed' = seed
  PROVE  ChartInv'
<1>1. \A t \in Seed : \A j : Past(t, j)' = Past(t, j) /\ Filled(t, j)' = Filled(t, j)
  BY DEF Past, Filled
<1>2. QED
  BY <1>1 DEF ChartInv, ChartStep, PastMoved, FilledStands, NoneFailed

LEMMA ShapeKept ==
  ASSUME ChartInv, chart' \in Seq(ChartAccount), Accounts!Id' = Accounts!Id, UNCHANGED <<rules, posted, desk>>,
         seed' \in [Seed -> SeedPlace],
         SeedPlaced'
  PROVE  ChartShape'
BY DEF SeedPlace, ChartInv, ChartShape, ChartType, DeskKnows

LEMMA AfterMovePlaced ==
  ASSUME NEW i \in DOMAIN Moves
  PROVE  LET n == Accounts!AfterMove(i) IN
         /\ n \in [at : {"look", "insert"}, i : Nat]
         /\ n.at = "look" => n.i = i + 1 /\ n.i \in DOMAIN Moves
         /\ n.at = "insert" => n.i = 1 /\ i = Len(Moves) /\ n.i \in DOMAIN Standard
BY ChartStanding, Placed DEF Accounts!AfterMove

\* A seed goes on from a move, whose account is out of the way.
LEMMA MoveOn ==
  ASSUME ChartInv, ChartStep, chart' \in Seq(ChartAccount), Accounts!Id' = Accounts!Id,
         UNCHANGED <<rules, posted, desk>>,
         NEW s \in Seed, seed[s].at \in {"look", "move"}, NEW k, k = seed[s].i,
         seed' = [seed EXCEPT ![s] = Accounts!AfterMove(k)],
         CodeTaken' \/ IsMoved(k)'
  PROVE  ChartInv'
<1> USE DEF SeedPlace
<1> USE ChartStanding
<1> DEFINE n == Accounts!AfterMove(k)
<1>1. k \in DOMAIN Moves /\ seed \in [Seed -> SeedPlace]
  BY DEF ChartInv, ChartShape, SeedPlaced, ChartType
<1>2. /\ n \in [at : {"look", "insert"}, i : Nat]
      /\ n.at = "look" => n.i = k + 1 /\ n.i \in DOMAIN Moves
      /\ n.at = "insert" => n.i = 1 /\ k = Len(Moves) /\ n.i \in DOMAIN Standard
  BY <1>1, AfterMovePlaced
<1> HIDE DEF n
<1>3. seed'[s] = n /\ \A t \in Seed \ {s} : seed'[t] = seed[t]
  BY <1>1 DEF n
<1>4. ChartShape'
  <2>1. seed' \in [Seed -> SeedPlace]
    BY <1>1, <1>2 DEF n
  <2>2. SeedPlaced'
    BY <1>2, <1>3 DEF SeedPlaced, ChartInv, ChartShape
  <2>3. QED
    BY <2>1, <2>2, ShapeKept
<1>5. \A j \in DOMAIN Moves : Past(s, j)' => Past(s, j) \/ j = k
  BY <1>1, <1>2, <1>3, Placed DEF Past
<1>6. \A j \in DOMAIN Standard : ~Filled(s, j)'
  BY <1>2, <1>3, Placed DEF Filled
<1>7. seed'[s].at # "failed"
  BY <1>2, <1>3
<1>8. \A j \in DOMAIN Moves : Past(s, j)' => Past(s, j) \/ CodeTaken' \/ IsMoved(j)'
  BY <1>5
<1>9. QED
  BY <1>3, <1>4, <1>6, <1>7, <1>8, SeedOn

LEMMA StepLook ==
  ASSUME ChartInv, NEW s \in Seed, Accounts!Look(s)
  PROVE  ChartInv'
<1> USE DEF SeedPlace
<1>1. /\ seed[s].i \in DOMAIN Moves /\ seed[s].at = "look"
      /\ seed \in [Seed -> SeedPlace]
  BY DEF ChartInv, ChartShape, SeedPlaced, ChartType, Accounts!Look
<1> PICK k \in DOMAIN Moves : k = seed[s].i
  BY <1>1
<1>2. ChartStep /\ chart' \in Seq(ChartAccount) /\ Accounts!Id' = Accounts!Id
  BY SameChart DEF Accounts!Look
<1>3. CASE Accounts!Held(Moves[k].to)
  <2>1. PICK h \in Accounts!Id : chart[h].code = Moves[k].to
    BY <1>3 DEF Accounts!Held
  <2>2. CodeTaken \/ IsMoved(k)
    <3> SUFFICES ASSUME ~CodeTaken, NEW i \in Accounts!Id, chart[i].key = Moves[k].key
                 PROVE  chart[i].code = Moves[k].to
      BY DEF IsMoved
    <3>1. chart[h].key = Moves[k].key
      BY <2>1, <1>1, HolderOfMove
    <3>2. ~Accounts!Own(h)
      BY <3>1, FromOrTo
    <3>3. h = i
      BY <3>1, <3>2 DEF ChartInv, KeysOnce
    <3>4. QED
      BY <3>3, <2>1
  <2>3. seed' = [seed EXCEPT ![s] = Accounts!AfterMove(k)]
    BY <1>3 DEF Accounts!Look, Accounts!MoveAt
  <2>4. CodeTaken' \/ IsMoved(k)'
    BY <2>2, <1>2 DEF ChartStep
  <2>5. QED
    BY <1>1, <1>2, <2>3, <2>4, MoveOn DEF Accounts!Look
<1>4. CASE ~Accounts!Held(Moves[k].to)
  <2>1. seed' = [seed EXCEPT ![s].at = "move"]
    BY <1>4 DEF Accounts!Look, Accounts!MoveAt
  <2>2. /\ seed'[s].at = "move" /\ seed'[s].i = k /\ \A t \in Seed \ {s} : seed'[t] = seed[t]
        /\ seed' \in [Seed -> SeedPlace]
    BY <1>1, <2>1
  <2>3. SeedPlaced'
    BY <1>1, <2>2 DEF SeedPlaced, ChartInv, ChartShape
  <2>4. ChartShape'
    BY <1>2, <2>2, <2>3, ShapeKept DEF Accounts!Look
  <2>5. QED
    BY <1>1, <1>2, <2>2, <2>4, SeedOn DEF Past, Filled
<1>5. QED
  BY <1>3, <1>4

LEMMA StepMove ==
  ASSUME ChartInv, NEW s \in Seed, Accounts!Move(s)
  PROVE  ChartInv'
<1> USE DEF SeedPlace
<1>1. /\ seed[s].i \in DOMAIN Moves /\ seed[s].at = "move"
      /\ seed \in [Seed -> SeedPlace]
  BY DEF ChartInv, ChartShape, SeedPlaced, ChartType, Accounts!Move
<1> PICK k \in DOMAIN Moves : k = seed[s].i
  BY <1>1
<1> DEFINE mine == Accounts!Moved(Moves[k])
<1>2. mine = {i \in Accounts!Id : chart[i].key = Moves[k].key /\ chart[i].code = Moves[k].from}
  BY DEF Accounts!Moved, Accounts!KeyOf
<1> HIDE DEF mine
<1>3. \A i \in mine, j \in Accounts!Id : chart[j].key = Moves[k].key => j = i
  BY <1>1, <1>2, FromOrTo DEF ChartInv, KeysOnce
<1>4. CASE mine = {} /\ seed' = [seed EXCEPT ![s] = Accounts!AfterMove(k)] /\ UNCHANGED chart
  <2>1. IsMoved(k)
    BY <1>4, <1>1, <1>2, FromOrTo DEF IsMoved
  <2>2. ChartStep /\ chart' \in Seq(ChartAccount) /\ Accounts!Id' = Accounts!Id
    BY <1>4, SameChart
  <2>3. IsMoved(k)'
    BY <2>1, <2>2 DEF ChartStep
  <2>4. QED
    BY <1>1, <1>4, <2>2, <2>3, MoveOn DEF Accounts!Move
<1>5. CASE /\ mine # {} /\ \E i \in Accounts!Id \ mine : chart[i].code = Moves[k].to
           /\ seed' = [seed EXCEPT ![s].at = "failed"] /\ UNCHANGED chart
  <2>1. CodeTaken
    <3> SUFFICES ASSUME ~CodeTaken PROVE FALSE
      OBVIOUS
    <3>1. PICK h \in Accounts!Id \ mine : chart[h].code = Moves[k].to
      BY <1>5
    <3>2. chart[h].key = Moves[k].key
      BY <3>1, <1>1, HolderOfMove
    <3>3. PICK i \in mine : TRUE
      BY <1>5
    <3>4. QED
      BY <3>1, <3>2, <3>3, <1>3
  <2>2. /\ seed'[s].at = "failed" /\ \A t \in Seed \ {s} : seed'[t] = seed[t]
        /\ seed' \in [Seed -> SeedPlace]
    BY <1>1, <1>5
  <2>3. SeedPlaced'
    BY <2>2 DEF SeedPlaced, ChartInv, ChartShape
  <2>5. ChartStep /\ chart' \in Seq(ChartAccount) /\ Accounts!Id' = Accounts!Id
    BY <1>5, SameChart
  <2>4. ChartShape'
    BY <2>2, <2>3, <2>5, ShapeKept DEF Accounts!Move
  <2>6. CodeTaken'
    BY <2>1, <2>5 DEF ChartStep
  <2>7. QED
    BY <2>2, <2>4, <2>5, <2>6, SeedOn
<1>6. CASE /\ mine # {} /\ \A i \in Accounts!Id \ mine : chart[i].code # Moves[k].to
           /\ chart' = [i \in Accounts!Id |-> IF i \in mine
                                        THEN [chart[i] EXCEPT !.code = Moves[k].to, !.named = "system"]
                                        ELSE chart[i]]
           /\ seed' = [seed EXCEPT ![s] = Accounts!AfterMove(k)]
  <2>1. PICK m \in mine : TRUE
    BY <1>6
  <2>2. m \in Accounts!Id /\ chart[m].key = Moves[k].key /\ mine = {m}
    BY <2>1, <1>2, <1>3
  <2>3. chart \in Seq(ChartAccount) /\ Accounts!Id = DOMAIN chart
    BY DEF ChartInv, ChartShape, ChartType, Accounts!Id
  <2>4. chart' = [chart EXCEPT ![m] = [@ EXCEPT !.code = Moves[k].to, !.named = "system"]]
    BY <2>2, <2>3, <1>6
  <2>7. \A i \in Accounts!Id \ {m} : chart[i].code # Moves[k].to
    BY <2>2, <1>6
  <2>5. ChartStep /\ chart' \in Seq(ChartAccount) /\ Accounts!Id' = Accounts!Id /\ IsMoved(k)'
    BY <2>2, <2>4, <2>7, MoveStep
  <2>6. QED
    BY <1>1, <1>6, <2>5, MoveOn DEF Accounts!Move
<1>7. QED
  BY <1>4, <1>5, <1>6, <1>1 DEF Accounts!Move, Accounts!MoveAt, mine

\* Ids and legs are kept where nothing is removed.
LEMMA ShapeGrows ==
  ASSUME ChartInv, chart' \in Seq(ChartAccount), Accounts!Id \subseteq Accounts!Id', UNCHANGED <<rules, posted, desk>>,
         seed' \in [Seed -> SeedPlace],
         SeedPlaced'
  PROVE  ChartShape'
<1> USE DEF SeedPlace
<1>1. rules' \in [DOMAIN rules' -> [Accounts!Side -> Accounts!Id']] /\ posted' \in Seq([Accounts!Side -> Accounts!Id'])
  <2>1. [Accounts!Side -> Accounts!Id] \subseteq [Accounts!Side -> Accounts!Id']
    OBVIOUS
  <2>2. rules \in [DOMAIN rules -> [Accounts!Side -> Accounts!Id]] /\ posted \in Seq([Accounts!Side -> Accounts!Id])
    BY DEF ChartInv, ChartShape, ChartType
  <2>3. rules \in [DOMAIN rules -> [Accounts!Side -> Accounts!Id']]
    BY <2>1, <2>2
  <2>4. posted \in Seq([Accounts!Side -> Accounts!Id'])
    BY <2>1, <2>2
  <2>5. QED
    BY <2>3, <2>4
<1>2. DeskKnows'
  BY DEF ChartInv, ChartShape, DeskKnows
<1>3. QED
  BY <1>1, <1>2 DEF ChartInv, ChartShape, ChartType

LEMMA StepInsert ==
  ASSUME ChartInv, NEW s \in Seed, Accounts!Insert(s)
  PROVE  ChartInv'
<1> USE DEF SeedPlace
<1> USE ChartStanding
<1>1. /\ seed[s].i \in DOMAIN Standard /\ seed[s].at = "insert"
      /\ seed \in [Seed -> SeedPlace]
  BY DEF ChartInv, ChartShape, SeedPlaced, ChartType, Accounts!Insert
<1> PICK k \in DOMAIN Standard : k = seed[s].i
  BY <1>1
<1> DEFINE n == IF k < Len(Standard) THEN [at |-> "insert", i |-> k + 1] ELSE [at |-> "rule", i |-> 1]
<1>2. /\ n \in [at : {"insert", "rule"}, i : Nat]
      /\ n.at = "insert" => n.i = k + 1 /\ n.i \in DOMAIN Standard
      /\ n.at = "rule" => k = Len(Standard)
  BY Placed
<1> HIDE DEF n
<1>3. \A j \in DOMAIN Moves : Past(s, j)
  BY <1>1 DEF Past
<1>4. ASSUME ChartStep, chart' \in Seq(ChartAccount), Accounts!Id \subseteq Accounts!Id', seed' = [seed EXCEPT ![s] = n],
             CodeTaken' \/ Stands(k)'
      PROVE  ChartInv'
  <2>1. /\ seed'[s] = n /\ \A t \in Seed \ {s} : seed'[t] = seed[t]
        /\ seed' \in [Seed -> SeedPlace]
    BY <1>1, <1>2, <1>4
  <2>2. SeedPlaced'
    BY <1>2, <2>1 DEF SeedPlaced, ChartInv, ChartShape
  <2>3. ChartShape'
    BY <1>4, <2>1, <2>2, ShapeGrows DEF Accounts!Insert
  <2>4. \A j \in DOMAIN Standard : Filled(s, j)' => Filled(s, j) \/ j = k
    BY <1>1, <1>2, <2>1, Placed DEF Filled
  <2>5. \A j \in DOMAIN Standard : Filled(s, j)' => Filled(s, j) \/ CodeTaken' \/ Stands(j)'
    BY <2>4, <1>4
  <2>6. seed'[s].at # "failed"
    BY <1>2, <2>1
  <2>7. QED
    BY <1>3, <1>4, <2>1, <2>3, <2>5, <2>6, SeedOn
<1>5. CASE Accounts!Held(Standard[k].code) /\ seed' = [seed EXCEPT ![s] = n] /\ UNCHANGED chart
  <2>1. PICK h \in Accounts!Id : chart[h].code = Standard[k].code
    BY <1>5 DEF Accounts!Held
  <2>2. CodeTaken \/ Stands(k)
    BY <2>1, <1>1, HolderAtInsert DEF Stands
  <2>3. ChartStep /\ chart' \in Seq(ChartAccount) /\ Accounts!Id' = Accounts!Id
    BY <1>5, SameChart
  <2>4. CodeTaken' \/ Stands(k)'
    BY <2>2, <2>3 DEF ChartStep
  <2>5. QED
    BY <1>4, <1>5, <2>3, <2>4
<1>6. CASE /\ ~Accounts!Held(Standard[k].code) /\ Accounts!KeyOf(Standard[k].key) # {}
           /\ seed' = [seed EXCEPT ![s].at = "failed"] /\ UNCHANGED chart
  <2>1. CodeTaken
    <3> SUFFICES ASSUME ~CodeTaken PROVE FALSE
      OBVIOUS
    <3>1. PICK i \in Accounts!Id : chart[i].key = Standard[k].key
      BY <1>6 DEF Accounts!KeyOf
    <3>2. chart[i].code # Standard[k].code /\ ~Accounts!Own(i)
      BY <1>6, <3>1 DEF Accounts!Held, Accounts!Own, Accounts!ChartAssumption
    <3>3. Accounts!AtItsCode(chart[i])
      BY <3>2 DEF ChartInv, AllAtCode
    <3>4. PICK j \in DOMAIN Moves : chart[i].key = Moves[j].key /\ chart[i].code = Moves[j].from
      BY <3>1, <3>2, <3>3 DEF Accounts!AtItsCode, Accounts!ChartAssumption
    <3>5. chart[i].code = Moves[j].to
      BY <3>4, <1>3 DEF ChartInv, PastMoved, IsMoved
    <3>6. QED
      BY <3>4, <3>5, FromOrTo
  <2>2. /\ seed'[s].at = "failed" /\ \A t \in Seed \ {s} : seed'[t] = seed[t]
        /\ seed' \in [Seed -> SeedPlace]
    BY <1>1, <1>6
  <2>3. SeedPlaced'
    BY <2>2 DEF SeedPlaced, ChartInv, ChartShape
  <2>4. ChartStep /\ chart' \in Seq(ChartAccount) /\ Accounts!Id' = Accounts!Id
    BY <1>6, SameChart
  <2>5. ChartShape'
    BY <2>2, <2>3, <2>4, ShapeKept DEF Accounts!Insert
  <2>6. CodeTaken'
    BY <2>1, <2>4 DEF ChartStep
  <2>7. QED
    BY <2>2, <2>4, <2>5, <2>6, SeedOn
<1>7. CASE /\ ~Accounts!Held(Standard[k].code) /\ Accounts!KeyOf(Standard[k].key) = {}
           /\ chart' = Append(chart, [code |-> Standard[k].code, key |-> Standard[k].key,
                                      named |-> "system", active |-> TRUE])
           /\ seed' = [seed EXCEPT ![s] = n]
  <2> DEFINE new == [code |-> Standard[k].code, key |-> Standard[k].key, named |-> "system", active |-> TRUE]
  <2>1. new \in ChartAccount /\ new.code = Standard[k].code /\ new.key = Standard[k].key
    <3> DEFINE Code == [code : STRING, key : STRING]
    <3>1. Standard \in Seq(Code)
      BY DEF Accounts!ChartAssumption
    <3> HIDE DEF Code
    <3>2. Standard[k] \in Code
      BY <3>1
    <3>3. QED
      BY <3>2 DEF Code, ChartAccount
  <2>2. (\A i \in Accounts!Id : chart[i].code # new.code) /\ (\A i \in Accounts!Id : chart[i].key # new.key)
    BY <1>7, <2>1 DEF Accounts!Held, Accounts!KeyOf
  <2>3. chart' = Append(chart, new)
    BY <1>7
  <2> HIDE DEF new
  <2>4. /\ ChartStep /\ chart' \in Seq(ChartAccount) /\ Accounts!Id \subseteq Accounts!Id'
        /\ \E i \in Accounts!Id' : chart'[i] = new
    BY <2>1, <2>2, <2>3, AddStep
  <2>5. Stands(k)'
    BY <2>1, <2>4 DEF Stands
  <2>6. QED
    BY <1>4, <1>7, <2>4, <2>5
<1>8. QED
  BY <1>5, <1>6, <1>7, <1>1 DEF Accounts!Insert, n

LEMMA StepSeedRule ==
  ASSUME ChartInv, NEW s \in Seed, Accounts!SeedRule(s)
  PROVE  ChartInv'
<1> USE DEF SeedPlace
<1> DEFINE rule == Accounts!RuleOrder[seed[s].i]
<1> DEFINE keys == DefaultRules[rule]
<1>1. /\ seed[s].at = "rule" /\ seed[s].i \in Nat
      /\ seed \in [Seed -> SeedPlace]
  BY DEF ChartInv, ChartShape, ChartType, Accounts!SeedRule
<1>2. /\ seed'[s].at \in {"rule", "done"} /\ \A t \in Seed \ {s} : seed'[t] = seed[t]
      /\ seed' \in [Seed -> SeedPlace]
  <2> DEFINE place == IF seed[s].i < Accounts!Cardinality(Accounts!Rule) THEN [at |-> "rule", i |-> seed[s].i + 1]
                      ELSE [seed[s] EXCEPT !.at = "done"]
  <2>1. seed' = [seed EXCEPT ![s] = place]
    BY DEF Accounts!SeedRule
  <2>2. seed[s] \in SeedPlace
    BY <1>1
  <2>3. place \in [at : {"rule", "done"}, i : Nat]
    BY <1>1, <2>2
  <2> HIDE DEF place
  <2>4. QED
    BY <1>1, <2>1, <2>3
<1>3. ChartStep /\ chart' \in Seq(ChartAccount) /\ Accounts!Id' = Accounts!Id
  BY SameChart DEF Accounts!SeedRule
<1>4. DOMAIN rules \subseteq DOMAIN rules' /\ rules' \in [DOMAIN rules' -> [Accounts!Side -> Accounts!Id]]
  <2>1. rules \in [DOMAIN rules -> [Accounts!Side -> Accounts!Id]]
    BY DEF ChartInv, ChartShape, ChartType
  <2>2. CASE UNCHANGED rules
    BY <2>1, <2>2
  <2>3. ASSUME NEW debit \in Accounts!Standing(keys.debit), NEW credit \in Accounts!Standing(keys.credit),
               rules' = [r \in DOMAIN rules \cup {rule} |->
                           IF r = rule THEN [debit |-> debit, credit |-> credit] ELSE rules[r]]
        PROVE  DOMAIN rules \subseteq DOMAIN rules' /\ rules' \in [DOMAIN rules' -> [Accounts!Side -> Accounts!Id]]
    <3>1. debit \in Accounts!Id /\ credit \in Accounts!Id
      BY DEF Accounts!Standing, Accounts!KeyOf
    <3>2. [debit |-> debit, credit |-> credit] \in [Accounts!Side -> Accounts!Id]
      BY <3>1, LegsOf
    <3> HIDE DEF rule
    <3>3. QED
      BY <2>1, <2>3, <3>2
  <2>4. QED
    BY <2>2, <2>3 DEF Accounts!SeedRule
<1>5. SeedPlaced'
  BY <1>2 DEF SeedPlaced, ChartInv, ChartShape
<1>6. DeskKnows'
  BY <1>3, <1>4 DEF Accounts!SeedRule, DeskKnows, ChartInv, ChartShape
<1>7. ChartShape'
  BY <1>2, <1>3, <1>4, <1>5, <1>6 DEF Accounts!SeedRule, ChartInv, ChartShape, ChartType
<1>8. QED
  BY <1>1, <1>2, <1>3, <1>7, SeedOn DEF Past, Filled

\* A request of the desk is asked: nothing else changes.
LEMMA StepAsk ==
  ASSUME ChartInv, NEW d \in Desk, NEW request, Accounts!Ask(d, request),
         /\ request.doing = "create" => request.code \in STRING
         /\ request.doing = "update" =>
              request.id \in Accounts!Id /\ request.change \in {"rename", "activate", "deactivate"}
         /\ request.doing = "add" => request.to \in [Accounts!Side -> Accounts!Id]
         /\ request.doing = "set" =>
              request.rule \in DOMAIN rules /\ request.leg \in Accounts!Side /\ request.id \in Accounts!Id
  PROVE  ChartInv'
<1>1. ChartStep /\ chart' \in Seq(ChartAccount) /\ Accounts!Id' = Accounts!Id /\ UNCHANGED <<chart, rules, posted, seed>>
  BY SameChart DEF Accounts!Ask
<1>2. desk' = [e \in Desk |-> desk'[e]] /\ desk'[d] = request /\ \A e \in Desk \ {d} : desk'[e] = desk[e]
  BY DEF Accounts!Ask, ChartInv, ChartShape, ChartType
<1>3. DeskKnows'
  BY <1>1, <1>2 DEF DeskKnows, ChartInv, ChartShape
<1>4. ChartShape'
  BY <1>1, <1>2, <1>3 DEF ChartInv, ChartShape, ChartType, SeedPlaced
<1>5. QED
  BY <1>1, <1>4, SeedsRest

\* It is written: the desk has nothing left to do.
LEMMA DeskWritten ==
  ASSUME ChartInv, ChartStep, chart' \in Seq(ChartAccount), Accounts!Id \subseteq Accounts!Id',
         DOMAIN rules \subseteq DOMAIN rules', rules' \in [DOMAIN rules' -> [Accounts!Side -> Accounts!Id']],
         NEW d \in Desk, Accounts!Written(d)
  PROVE  ChartInv'
<1>1. /\ desk' = [e \in Desk |-> desk'[e]] /\ desk'[d].doing = "nothing"
      /\ \A e \in Desk \ {d} : desk'[e] = desk[e]
      /\ UNCHANGED <<posted, seed>>
  BY DEF Accounts!Written, ChartInv, ChartShape, ChartType
<1>2. posted' \in Seq([Accounts!Side -> Accounts!Id'])
  <2>1. [Accounts!Side -> Accounts!Id] \subseteq [Accounts!Side -> Accounts!Id']
    OBVIOUS
  <2>2. QED
    BY <2>1, <1>1 DEF ChartInv, ChartShape, ChartType
<1>3. DeskKnows'
  <2>1. [Accounts!Side -> Accounts!Id] \subseteq [Accounts!Side -> Accounts!Id']
    OBVIOUS
  <2> SUFFICES ASSUME NEW e \in Desk
               PROVE  /\ desk'[e].doing = "create" => desk'[e].code \in STRING
                      /\ desk'[e].doing = "update" =>
                           desk'[e].id \in Accounts!Id' /\ desk'[e].change \in {"rename", "activate", "deactivate"}
                      /\ desk'[e].doing = "add" => desk'[e].to \in [Accounts!Side -> Accounts!Id']
                      /\ desk'[e].doing = "set" =>
                           desk'[e].rule \in DOMAIN rules' /\ desk'[e].leg \in Accounts!Side /\ desk'[e].id \in Accounts!Id'
    BY DEF DeskKnows
  <2>2. CASE e = d
    BY <2>2, <1>1
  <2>3. CASE e # d
    BY <2>1, <2>3, <1>1 DEF DeskKnows, ChartInv, ChartShape
  <2>4. QED
    BY <2>2, <2>3
<1>4. ChartShape'
  BY <1>1, <1>2, <1>3 DEF ChartInv, ChartShape, ChartType, SeedPlaced
<1>5. QED
  BY <1>1, <1>4, SeedsRest

LEMMA StepCreate ==
  ASSUME ChartInv, NEW d \in Desk, Accounts!Create(d)
  PROVE  ChartInv'
<1>1. desk[d].code \in STRING
  BY DEF ChartInv, ChartShape, DeskKnows, Accounts!Create
<1>2. rules \in [DOMAIN rules -> [Accounts!Side -> Accounts!Id]]
  BY DEF ChartInv, ChartShape, ChartType
<1>3. CASE Accounts!Held(desk[d].code)
  <2>1. ChartStep /\ chart' \in Seq(ChartAccount) /\ Accounts!Id' = Accounts!Id
    BY <1>3, SameChart DEF Accounts!Create
  <2>2. QED
    BY <1>2, <2>1, DeskWritten DEF Accounts!Create
<1>4. CASE ~Accounts!Held(desk[d].code)
  <2> DEFINE new == [code |-> desk[d].code, key |-> None, named |-> "own", active |-> TRUE]
  <2>1. new \in ChartAccount /\ new.code = desk[d].code /\ new.key = None
    BY <1>1 DEF ChartAccount
  <2>2. \A i \in Accounts!Id : chart[i].code # new.code
    BY <1>4, <2>1 DEF Accounts!Held
  <2>3. chart' = Append(chart, new)
    BY <1>4 DEF Accounts!Create
  <2> HIDE DEF new
  <2>4. ChartStep /\ chart' \in Seq(ChartAccount) /\ Accounts!Id \subseteq Accounts!Id'
    BY <2>1, <2>2, <2>3, AddStep
  <2>5. rules' \in [DOMAIN rules' -> [Accounts!Side -> Accounts!Id']]
    <3>1. [Accounts!Side -> Accounts!Id] \subseteq [Accounts!Side -> Accounts!Id']
      BY <2>4
    <3>2. QED
      BY <3>1, <1>2 DEF Accounts!Create
  <2>6. QED
    BY <2>4, <2>5, DeskWritten DEF Accounts!Create
<1>5. QED
  BY <1>3, <1>4

LEMMA Changed ==
  ASSUME NEW account \in ChartAccount
  PROVE  /\ [account EXCEPT !.named = "own"] \in ChartAccount
         /\ [account EXCEPT !.active = TRUE] \in ChartAccount
         /\ [account EXCEPT !.active = FALSE] \in ChartAccount
         /\ [account EXCEPT !.named = "own"].key = account.key /\ [account EXCEPT !.named = "own"].code = account.code
         /\ [account EXCEPT !.active = TRUE].key = account.key /\ [account EXCEPT !.active = TRUE].code = account.code
         /\ [account EXCEPT !.active = FALSE].key = account.key /\ [account EXCEPT !.active = FALSE].code = account.code
BY DEF ChartAccount

LEMMA StepUpdate ==
  ASSUME ChartInv, NEW d \in Desk, Accounts!Update(d)
  PROVE  ChartInv'
<1> DEFINE m == desk[d].id
<1> DEFINE new ==
  CASE desk[d].change = "rename" -> [chart[m] EXCEPT !.named = "own"]
    [] desk[d].change = "activate" -> [chart[m] EXCEPT !.active = TRUE]
    [] desk[d].change = "deactivate" -> [chart[m] EXCEPT !.active = FALSE]
<1>1. m \in Accounts!Id /\ desk[d].change \in {"rename", "activate", "deactivate"}
  BY DEF ChartInv, ChartShape, DeskKnows, Accounts!Update
<1>2. chart \in Seq(ChartAccount) /\ Accounts!Id = 1 .. Len(chart) /\ Len(chart) \in Nat
      /\ rules \in [DOMAIN rules -> [Accounts!Side -> Accounts!Id]]
  BY DEF ChartInv, ChartShape, ChartType, Accounts!Id
<1>3. new \in ChartAccount /\ new.key = chart[m].key /\ new.code = chart[m].code
  <2>1. chart[m] \in ChartAccount
    BY <1>1, <1>2
  <2>2. CASE desk[d].change = "rename"
    BY <2>1, <2>2, Changed
  <2>3. CASE desk[d].change = "activate"
    BY <2>1, <2>3, Changed
  <2>4. CASE desk[d].change = "deactivate"
    BY <2>1, <2>4, Changed
  <2>5. QED
    BY <2>2, <2>3, <2>4, <1>1
<1>4. chart' = [chart EXCEPT ![m] = new]
  BY DEF Accounts!Update
<1> HIDE DEF new
<1>5. chart' \in Seq(ChartAccount) /\ Accounts!Id' = Accounts!Id
  <2>1. chart' \in Seq(ChartAccount) /\ Len(chart') = Len(chart)
    BY <1>1, <1>2, <1>3, <1>4
  <2>2. QED
    BY <2>1 DEF Accounts!Id
<1>6. \A i \in Accounts!Id : chart'[i].key = chart[i].key /\ chart'[i].code = chart[i].code
  BY <1>1, <1>2, <1>3, <1>4
<1>7. ChartStep
  BY <1>5, <1>6, NameStep
<1>8. QED
  BY <1>2, <1>5, <1>7, DeskWritten DEF Accounts!Update

LEMMA StepAddRule ==
  ASSUME ChartInv, NEW d \in Desk, Accounts!AddRule(d)
  PROVE  ChartInv'
<1>1. desk[d].to \in [Accounts!Side -> Accounts!Id] /\ rules \in [DOMAIN rules -> [Accounts!Side -> Accounts!Id]]
  BY DEF ChartInv, ChartShape, DeskKnows, ChartType, Accounts!AddRule
<1>2. DOMAIN rules \subseteq DOMAIN rules' /\ rules' \in [DOMAIN rules' -> [Accounts!Side -> Accounts!Id]]
  BY <1>1 DEF Accounts!AddRule
<1>3. ChartStep /\ chart' \in Seq(ChartAccount) /\ Accounts!Id' = Accounts!Id
  BY SameChart DEF Accounts!AddRule
<1>4. QED
  BY <1>2, <1>3, DeskWritten DEF Accounts!AddRule

LEMMA StepSetLeg ==
  ASSUME ChartInv, NEW d \in Desk, Accounts!SetLeg(d)
  PROVE  ChartInv'
<1>1. /\ desk[d].rule \in DOMAIN rules /\ desk[d].leg \in Accounts!Side /\ desk[d].id \in Accounts!Id
      /\ rules \in [DOMAIN rules -> [Accounts!Side -> Accounts!Id]]
  BY DEF ChartInv, ChartShape, DeskKnows, ChartType, Accounts!SetLeg
<1>2. DOMAIN rules \subseteq DOMAIN rules' /\ rules' \in [DOMAIN rules' -> [Accounts!Side -> Accounts!Id]]
  BY <1>1 DEF Accounts!SetLeg
<1>3. ChartStep /\ chart' \in Seq(ChartAccount) /\ Accounts!Id' = Accounts!Id
  BY SameChart DEF Accounts!SetLeg
<1>4. QED
  BY <1>2, <1>3, DeskWritten DEF Accounts!SetLeg

LEMMA StepPost ==
  ASSUME ChartInv, NEW rule, Accounts!Post(rule)
  PROVE  ChartInv'
<1>1. ChartStep /\ chart' \in Seq(ChartAccount) /\ Accounts!Id' = Accounts!Id
  BY SameChart DEF Accounts!Post
<1>2. posted' \in Seq([Accounts!Side -> Accounts!Id])
  <2>1. rules[rule] \in [Accounts!Side -> Accounts!Id] /\ posted \in Seq([Accounts!Side -> Accounts!Id])
    BY DEF ChartInv, ChartShape, ChartType, Accounts!Post
  <2>2. QED
    BY <2>1 DEF Accounts!Post
<1>3. ChartShape'
  BY <1>1, <1>2 DEF ChartInv, ChartShape, ChartType, SeedPlaced, DeskKnows, Accounts!Post
<1>4. QED
  BY <1>1, <1>3, SeedsRest DEF Accounts!Post

LEMMA StepChart == ChartInv /\ [Accounts!Next]_Accounts!vars => ChartInv'
<1> SUFFICES ASSUME ChartInv, [Accounts!Next]_Accounts!vars PROVE ChartInv'
  OBVIOUS
<1>1. CASE UNCHANGED Accounts!vars
  <2>1. ChartStep /\ chart' \in Seq(ChartAccount) /\ Accounts!Id' = Accounts!Id
    BY <1>1, SameChart DEF Accounts!vars
  <2>2. ChartShape'
    BY <1>1, <2>1 DEF ChartInv, ChartShape, ChartType, SeedPlaced, DeskKnows, Accounts!vars
  <2>3. QED
    BY <1>1, <2>1, <2>2, SeedsRest DEF Accounts!vars
<1>2. ASSUME NEW s \in Seed, Accounts!Look(s) \/ Accounts!Move(s) \/ Accounts!Insert(s) \/ Accounts!SeedRule(s)
      PROVE  ChartInv'
  BY <1>2, StepLook, StepMove, StepInsert, StepSeedRule
<1>3. ASSUME NEW d \in Desk, NEW code \in OwnCode, Accounts!AskCreate(d, code)
      PROVE  ChartInv'
  <2> DEFINE request == [doing |-> "create", code |-> code]
  <2>1. code \in STRING
    BY ChartStanding DEF Accounts!ChartAssumption
  <2>2. Accounts!Ask(d, request) /\ request.doing = "create" /\ request.code \in STRING
    BY <1>3, <2>1 DEF Accounts!AskCreate
  <2> HIDE DEF request
  <2>3. QED
    BY <2>2, StepAsk
<1>4. ASSUME NEW d \in Desk, NEW i \in Accounts!Id, NEW change \in {"rename", "activate", "deactivate"},
             Accounts!AskUpdate(d, i, change)
      PROVE  ChartInv'
  <2> DEFINE request == [doing |-> "update", id |-> i, change |-> change]
  <2>1. Accounts!Ask(d, request) /\ request.doing = "update" /\ request.id = i /\ request.change = change
    BY <1>4 DEF Accounts!AskUpdate
  <2> HIDE DEF request
  <2>2. QED
    BY <2>1, StepAsk
<1>5. ASSUME NEW d \in Desk, NEW rule \in Accounts!Rule, NEW debit \in Accounts!Id, NEW credit \in Accounts!Id,
             Accounts!AskRule(d, rule, debit, credit)
      PROVE  ChartInv'
  <2> DEFINE request == [doing |-> "add", rule |-> rule, to |-> [debit |-> debit, credit |-> credit]]
  <2>1. Accounts!Ask(d, request) /\ request.doing = "add" /\ request.to = [debit |-> debit, credit |-> credit]
    BY <1>5 DEF Accounts!AskRule
  <2>2. [debit |-> debit, credit |-> credit] \in [Accounts!Side -> Accounts!Id]
    BY LegsOf
  <2> HIDE DEF request
  <2>3. QED
    BY <2>1, <2>2, StepAsk
<1>6. ASSUME NEW d \in Desk, NEW rule \in Accounts!Rule, NEW leg \in Accounts!Side, NEW i \in Accounts!Id,
             Accounts!AskSetLeg(d, rule, leg, i)
      PROVE  ChartInv'
  <2> DEFINE request == [doing |-> "set", rule |-> rule, leg |-> leg, id |-> i]
  <2>1. /\ Accounts!Ask(d, request) /\ request.doing = "set" /\ request.rule = rule /\ request.leg = leg
        /\ request.id = i /\ rule \in DOMAIN rules
    BY <1>6 DEF Accounts!AskSetLeg
  <2> HIDE DEF request
  <2>2. QED
    BY <2>1, StepAsk
<1>7. ASSUME NEW d \in Desk, Accounts!Create(d) \/ Accounts!Update(d) \/ Accounts!AddRule(d) \/ Accounts!SetLeg(d)
      PROVE  ChartInv'
  BY <1>7, StepCreate, StepUpdate, StepAddRule, StepSetLeg
<1>8. ASSUME NEW rule \in Accounts!Rule, Accounts!Post(rule) PROVE ChartInv'
  BY <1>8, StepPost
<1>9. QED
  BY <1>1, <1>2, <1>3, <1>4, <1>5, <1>6, <1>7, <1>8 DEF Accounts!Next, Accounts!vars

-----------------------------------------------------------------------------

LEMMA ArrivesFromInv == ChartInv => Accounts!SeedArrives
<1> SUFFICES ASSUME ChartInv, NEW s \in Seed, seed[s].at \in {"failed", "done"}, ~CodeTaken
             PROVE  /\ seed[s].at = "done"
                    /\ \A n \in DOMAIN Standard : \E i \in Accounts!KeyOf(Standard[n].key) : chart[i].code = Standard[n].code
  BY DEF Accounts!SeedArrives, CodeTaken
<1>1. seed[s].at = "done"
  BY DEF ChartInv, NoneFailed
<1>2. \A n \in DOMAIN Standard : Stands(n)
  BY <1>1 DEF ChartInv, FilledStands, Filled
<1>3. QED
  BY <1>1, <1>2 DEF Stands, Accounts!KeyOf

LEMMA BalanceFromInv == ChartInv => Accounts!TotalsBalance
<1> SUFFICES ASSUME ChartInv PROVE Accounts!Total("debit") = Accounts!Total("credit")
  BY DEF Accounts!TotalsBalance, Accounts!Balanced
<1>1. \A n \in DOMAIN posted : posted[n] \in [Accounts!Side -> Accounts!Id]
  BY DEF ChartInv, ChartShape, ChartType
<1>2. {n \in DOMAIN posted : posted[n]["debit"] \in Accounts!Id} = {n \in DOMAIN posted : posted[n]["credit"] \in Accounts!Id}
  BY <1>1 DEF Accounts!Side
<1>3. QED
  BY <1>2 DEF Accounts!Total, Accounts!Sum

LEMMA SeedKeeps ==
  ASSUME ChartInv, Accounts!Next, seed' # seed
  PROVE  /\ \A i \in Accounts!Id :
              \/ chart'[i] = chart[i]
              \/ ~Accounts!Own(i) /\ chart'[i].code # chart[i].code /\ chart'[i].active = chart[i].active
         /\ \A r \in DOMAIN rules : rules'[r] = rules[r]
         /\ \A r \in DOMAIN rules' \ DOMAIN rules : \A leg \in Accounts!Side :
              chart[rules'[r][leg]].key = DefaultRules[r][leg]
<1>1. PICK s \in Seed : Accounts!Look(s) \/ Accounts!Move(s) \/ Accounts!Insert(s) \/ Accounts!SeedRule(s)
  BY DEF Accounts!Next, Accounts!AskCreate, Accounts!AskUpdate, Accounts!AskRule, Accounts!AskSetLeg, Accounts!Ask, Accounts!Create, Accounts!Update, Accounts!AddRule, Accounts!SetLeg, Accounts!Written, Accounts!Post
<1>2. CASE Accounts!Look(s)
  BY <1>2 DEF Accounts!Look
<1>3. CASE Accounts!Move(s)
  <2>1. rules' = rules
    BY <1>3 DEF Accounts!Move
  <2>2. /\ seed[s].i \in DOMAIN Moves /\ seed[s].at = "move"
    BY <1>3 DEF ChartInv, ChartShape, SeedPlaced, Accounts!Move
  <2> PICK k \in DOMAIN Moves : k = seed[s].i
    BY <2>2
  <2> DEFINE mine == Accounts!Moved(Moves[k])
  <2>3. mine = {i \in Accounts!Id : chart[i].key = Moves[k].key /\ chart[i].code = Moves[k].from}
    BY DEF Accounts!Moved, Accounts!KeyOf
  <2> HIDE DEF mine
  <2>4. \/ chart' = chart
        \/ chart' = [i \in Accounts!Id |-> IF i \in mine
                                   THEN [chart[i] EXCEPT !.code = Moves[k].to, !.named = "system"]
                                   ELSE chart[i]]
    BY <1>3 DEF Accounts!Move, Accounts!MoveAt, mine
  <2>5. ASSUME NEW i \in Accounts!Id
        PROVE  \/ chart'[i] = chart[i]
               \/ ~Accounts!Own(i) /\ chart'[i].code # chart[i].code /\ chart'[i].active = chart[i].active
    <3>1. CASE chart' = chart \/ i \notin mine
      BY <3>1, <2>4
    <3>2. CASE i \in mine /\ chart' # chart
      <4>1. chart'[i] = [chart[i] EXCEPT !.code = Moves[k].to, !.named = "system"]
        BY <3>2, <2>4
      <4>2. chart[i] \in ChartAccount
        BY DEF ChartInv, ChartShape, ChartType, Accounts!Id
      <4>3. Moves[k].to \in STRING
        BY MoveTyped
      <4>4. chart'[i].code = Moves[k].to /\ chart'[i].active = chart[i].active
        <5> DEFINE new == [chart[i] EXCEPT !.code = Moves[k].to, !.named = "system"]
        <5>1. new.code = Moves[k].to /\ new.active = chart[i].active
          BY <4>2, <4>3, Renamed
        <5>2. chart'[i] = new
          BY <4>1
        <5> HIDE DEF new
        <5>3. QED
          BY <5>1, <5>2
      <4>5. ~Accounts!Own(i) /\ Moves[k].from # Moves[k].to
        BY <3>2, <2>3, FromOrTo
      <4>6. chart[i].code = Moves[k].from
        BY <3>2, <2>3
      <4>7. QED
        BY <4>4, <4>5, <4>6
    <3>3. QED
      BY <3>1, <3>2
  <2>6. QED
    BY <2>1, <2>5
<1>4. CASE Accounts!Insert(s)
  <2>1. rules' = rules
    BY <1>4 DEF Accounts!Insert
  <2>2. chart' = chart \/ \E a : chart' = Append(chart, a)
    BY <1>4 DEF Accounts!Insert
  <2>3. chart \in Seq(ChartAccount)
    BY DEF ChartInv, ChartShape, ChartType
  <2>4. \A i \in Accounts!Id : chart'[i] = chart[i]
    BY <2>2, <2>3 DEF Accounts!Id
  <2>5. QED
    BY <2>1, <2>4
<1>5. CASE Accounts!SeedRule(s)
  <2> DEFINE rule == Accounts!RuleOrder[seed[s].i]
  <2> DEFINE keys == DefaultRules[rule]
  <2>1. chart' = chart
    BY <1>5 DEF Accounts!SeedRule
  <2>2. CASE rules' = rules
    BY <2>1, <2>2
  <2>3. ASSUME rule \notin DOMAIN rules,
               NEW debit \in Accounts!Standing(keys.debit), NEW credit \in Accounts!Standing(keys.credit),
               rules' = [r \in DOMAIN rules \cup {rule} |->
                           IF r = rule THEN [debit |-> debit, credit |-> credit] ELSE rules[r]]
        PROVE  /\ \A r \in DOMAIN rules : rules'[r] = rules[r]
               /\ \A r \in DOMAIN rules' \ DOMAIN rules : \A leg \in Accounts!Side :
                    chart[rules'[r][leg]].key = DefaultRules[r][leg]
    <3>1. chart[debit].key = keys.debit /\ chart[credit].key = keys.credit
      BY DEF Accounts!Standing, Accounts!KeyOf
    <3>2. \A r \in DOMAIN rules : rules'[r] = rules[r]
      BY <2>3
    <3>3. \A r \in DOMAIN rules' \ DOMAIN rules : r = rule /\ rules'[r] = [debit |-> debit, credit |-> credit]
      BY <2>3
    <3>4. QED
      BY <3>1, <3>2, <3>3 DEF Accounts!Side
  <2>4. QED
    BY <1>5, <2>1, <2>2, <2>3 DEF Accounts!SeedRule
<1>6. QED
  BY <1>1, <1>2, <1>3, <1>4, <1>5

LEMMA SuiteMovesChart == [SuiteNext]_suiteVars => [Accounts!Next]_Accounts!vars
BY DEF SuiteNext, suiteVars, chartVars, Accounts!vars

\* Seeds get through beside each other and a tenant at work, for any standard accounts,
\* moves in order and first charts, any number of seeds and accountants: an account
\* stands at its code or at the legacy one, a move that a seed has behind it leaves its
\* account at the new code, and a standard account that a seed has behind it is there.
THEOREM SeedsStand == SuiteSpec => SeedStands
<1>1. SuiteInit => ChartInv
  BY StartInv DEF SuiteInit
<1>2. ChartInv /\ [SuiteNext]_suiteVars => ChartInv'
  <2> SUFFICES ASSUME ChartInv, [Accounts!Next]_Accounts!vars PROVE ChartInv'
    BY SuiteMovesChart
  <2> QED
    BY StepChart
<1>3. ChartInv => Accounts!SeedArrives /\ Accounts!TotalsBalance
  BY ArrivesFromInv, BalanceFromInv
<1>4. ChartInv /\ [SuiteNext]_suiteVars =>
        [Accounts!SeedStep =>
           /\ \A i \in Accounts!Id :
                \/ chart'[i] = chart[i]
                \/ ~Accounts!Own(i) /\ chart'[i].code # chart[i].code /\ chart'[i].active = chart[i].active
           /\ \A r \in DOMAIN rules : rules'[r] = rules[r]]_Accounts!vars
  BY SuiteMovesChart, SeedKeeps DEF Accounts!SeedStep
<1>5. ChartInv /\ [SuiteNext]_suiteVars =>
        [Accounts!SeedStep =>
           \A r \in DOMAIN rules' \ DOMAIN rules : \A leg \in Accounts!Side :
             chart[rules'[r][leg]].key = DefaultRules[r][leg]]_Accounts!vars
  BY SuiteMovesChart, SeedKeeps DEF Accounts!SeedStep
<1> QED
  BY <1>1, <1>2, <1>3, <1>4, <1>5, PTL
     DEF SuiteSpec, SeedStands, Accounts!SeedKeepsEdits, Accounts!SeededByKey
=============================================================================
