---------------------------- MODULE CounterProofs ----------------------------
(***************************************************************************)
(* What holds of the counter for any constants: payments and refunds are   *)
(* split into revenue and VAT that add up, the sales of a shift are not    *)
(* negative, a closed shift stays what it was counted to be, a user is     *)
(* locked at the threshold and until the lock passes; what is chosen at    *)
(* the till is on offer, and what is sent was quoted.                      *)
(***************************************************************************)
EXTENDS MCCounter, Sums, SequenceTheorems, TLAPS

-----------------------------------------------------------------------------
(* One part of a whole.                                                    *)

LEMMA Quotient ==
  ASSUME NEW a \in Nat, NEW b \in Nat \ {0}
  PROVE  a \div b \in Nat /\ b * (a \div b) <= a /\ a < b * (a \div b) + b
OBVIOUS

\* A share that is rounded stays between nothing and the part it is the share of.
LEMMA ShareWithin ==
  ASSUME NEW g \in Nat, NEW v \in Nat, NEW w \in Nat \ {0}, v <= w
  PROVE  Round(g * v, w) \in Nat /\ Round(g * v, w) <= g
<1> DEFINE n == g * v
           a == 2 * n + w
           b == 2 * w
           q == a \div b
<1>1. n \in Nat /\ n <= g * w /\ g * w \in Nat
  OBVIOUS
<1>2. a \in Nat /\ b \in Nat \ {0}
  BY <1>1
<1>3. q \in Nat /\ b * q <= a
  BY <1>2, Quotient
<1>4. w * q \in Nat /\ b * q = 2 * (w * q)
  BY <1>3
<1>5. 2 * (w * q) <= 2 * (g * w) + w
  BY <1>1, <1>3, <1>4
<1>6. q <= g
  <2> SUFFICES ASSUME q >= g + 1 PROVE FALSE
    BY <1>3
  <2>1. w * q >= w * (g + 1)
    BY <1>3
  <2>2. w * (g + 1) = g * w + w
    OBVIOUS
  <2> QED
    BY <1>1, <1>4, <1>5, <2>1, <2>2
<1> QED
  BY <1>3, <1>6 DEF Round

Tally == [gross : Int, revenue : Int, vat : Int]

Plus(u, p) ==
  [gross |-> u.gross + p.gross, revenue |-> u.revenue + p.revenue, vat |-> u.vat + p.vat]

\* What is split has a gross that is its revenue and VAT, neither negative.
Sound(p) == p.revenue >= 0 /\ p.vat >= 0 /\ p.gross = p.revenue + p.vat

\* A part that is split off what is left of a whole is sound, and with it what is used up
\* still fits into the whole.
LEMMA SplitFits ==
  ASSUME NEW w \in Tally, Sound(w), NEW u \in Tally, Fits(u, w),
         NEW g \in Int, Splits(g, w, u)
  PROVE  LET p == Split(g, w, u)
         IN /\ p \in Parts /\ Sound(p) /\ p.gross = g
            /\ Plus(u, p) \in Tally /\ Fits(Plus(u, p), w)
<1> DEFINE p == Split(g, w, u)
           restRevenue == w.revenue - u.revenue
           restVat == w.vat - u.vat
           share == Round(g * w.vat, w.gross)
           vat == Least(share, restVat)
           revenue == Least(g - vat, restRevenue)
<1>1. /\ w.gross \in Int /\ w.revenue \in Int /\ w.vat \in Int
      /\ u.gross \in Int /\ u.revenue \in Int /\ u.vat \in Int
  BY DEF Tally
<1>2. /\ w.revenue >= 0 /\ w.vat >= 0 /\ w.gross = w.revenue + w.vat
      /\ u.revenue >= 0 /\ u.vat >= 0 /\ u.gross = u.revenue + u.vat
      /\ u.revenue <= w.revenue /\ u.vat <= w.vat
      /\ g > 0 /\ g <= w.gross - u.gross
  BY DEF Sound, Fits, Splits
<1>3. restRevenue \in Nat /\ restVat \in Nat /\ w.gross - u.gross = restRevenue + restVat
  BY <1>1, <1>2
<1>4. CASE g = w.gross - u.gross
  <2>1. p = [gross |-> g, revenue |-> restRevenue, vat |-> restVat]
    BY <1>4 DEF Split
  <2>2. p \in Parts /\ Sound(p) /\ p.gross = g
    BY <1>1, <1>2, <1>3, <1>4, <2>1 DEF Parts, Sound
  <2>3. Plus(u, p) = [gross |-> w.gross, revenue |-> w.revenue, vat |-> w.vat]
    BY <1>1, <1>4, <2>1 DEF Plus
  <2>4. [gross |-> w.gross, revenue |-> w.revenue, vat |-> w.vat] = w
    BY DEF Tally
  <2>5. Fits(w, w)
    BY <1>1, <1>2 DEF Fits
  <2> QED
    BY <2>2, <2>3, <2>4, <2>5
<1>5. CASE g # w.gross - u.gross
  <2>1. p = [gross |-> g, revenue |-> revenue, vat |-> g - revenue]
    BY <1>5 DEF Split
  <2>2. share \in Nat /\ share <= g
    <3>1. g \in Nat /\ w.vat \in Nat /\ w.gross \in Nat \ {0} /\ w.vat <= w.gross
      BY <1>1, <1>2
    <3> QED
      BY <3>1, ShareWithin
  <2>3. vat \in Nat /\ vat <= g /\ vat <= restVat
    <3> HIDE DEF share, restVat
    <3> QED
      BY <1>1, <1>3, <2>2 DEF Least
  <2>4. revenue \in Nat /\ revenue <= restRevenue /\ revenue <= g - vat /\ (revenue = g - vat \/ revenue = restRevenue)
    <3> HIDE DEF vat, restRevenue
    <3> QED
      BY <1>1, <1>3, <2>3 DEF Least
  <2>5. g < restRevenue + restVat
    BY <1>1, <1>2, <1>3, <1>5
  <2>6. g - revenue >= 0 /\ g - revenue <= restVat
    <3> HIDE DEF vat, revenue, restRevenue, restVat
    <3> QED
      BY <1>2, <1>3, <2>3, <2>4, <2>5
  <2>7. p \in Parts /\ Sound(p) /\ p.gross = g
    <3> HIDE DEF revenue
    <3> QED
      BY <1>1, <1>2, <2>1, <2>4, <2>6 DEF Parts, Sound
  <2>8. Plus(u, p) = [gross |-> u.gross + g, revenue |-> u.revenue + revenue, vat |-> u.vat + (g - revenue)]
    BY <2>1 DEF Plus
  <2>9. Plus(u, p) \in Tally /\ Fits(Plus(u, p), w)
    <3> HIDE DEF revenue, p
    <3>1. u.gross + g # w.gross
      BY <1>1, <1>5
    <3>2. /\ u.revenue + revenue >= 0 /\ u.revenue + revenue <= w.revenue
          /\ u.vat + (g - revenue) >= 0 /\ u.vat + (g - revenue) <= w.vat
          /\ u.gross + g = (u.revenue + revenue) + (u.vat + (g - revenue))
      <4>1. revenue \in Int /\ g \in Int /\ revenue >= 0 /\ revenue <= w.revenue - u.revenue
        BY <2>4
      <4>2. g - revenue >= 0 /\ g - revenue <= w.vat - u.vat
        BY <2>6
      <4> QED
        BY <1>1, <1>2, <4>1, <4>2
    <3> QED
      BY <1>1, <2>4, <2>8, <3>1, <3>2 DEF Fits, Tally
  <2> QED
    BY <2>7, <2>9
<1> QED
  BY <1>4, <1>5

-----------------------------------------------------------------------------
(* Rows: payments and refunds in the order in which they are stored.       *)

CapturesIn(q, o) == {i \in DOMAIN q : q[i].order = o /\ q[i].of = 0}
RefundsIn(q, n) == {i \in DOMAIN q : q[i].of = n}

PartsIn(q, rs) ==
  [gross |-> SumFunctionOnSet([i \in DOMAIN q |-> q[i].parts.gross], rs),
   revenue |-> SumFunctionOnSet([i \in DOMAIN q |-> q[i].parts.revenue], rs),
   vat |-> SumFunctionOnSet([i \in DOMAIN q |-> q[i].parts.vat], rs)]

LEMMA RowTypes ==
  ASSUME NEW q \in Seq(Row)
  PROVE  /\ DOMAIN q = 1..Len(q) /\ Len(q) \in Nat /\ IsFiniteSet(DOMAIN q)
         /\ \A rs \in SUBSET DOMAIN q : IsFiniteSet(rs)
         /\ \A i \in DOMAIN q :
              /\ q[i] \in Row /\ q[i].parts \in Tally /\ q[i].of \in Nat
              /\ q[i].parts.gross \in Int /\ q[i].parts.revenue \in Int /\ q[i].parts.vat \in Int
<1>1. DOMAIN q = 1..Len(q) /\ Len(q) \in Nat
  OBVIOUS
<1>2. IsFiniteSet(DOMAIN q)
  BY <1>1, FS_Interval
<1>3. \A rs \in SUBSET DOMAIN q : IsFiniteSet(rs)
  BY <1>2, FS_Subset
<1>4. \A i \in DOMAIN q : q[i] \in Row
  OBVIOUS
<1> QED
  BY <1>1, <1>2, <1>3, <1>4 DEF Row, Parts, Tally

LEMMA PartsType ==
  ASSUME NEW q \in Seq(Row), NEW rs \in SUBSET DOMAIN q
  PROVE  PartsIn(q, rs) \in Tally
<1>1. IsFiniteSet(rs) /\ \A i \in rs : q[i].parts.gross \in Int /\ q[i].parts.revenue \in Int /\ q[i].parts.vat \in Int
  BY RowTypes
<1>2. SumFunctionOnSet([i \in DOMAIN q |-> q[i].parts.gross], rs) \in Int
  BY <1>1, SumType
<1>3. SumFunctionOnSet([i \in DOMAIN q |-> q[i].parts.revenue], rs) \in Int
  BY <1>1, SumType
<1>4. SumFunctionOnSet([i \in DOMAIN q |-> q[i].parts.vat], rs) \in Int
  BY <1>1, SumType
<1> QED
  BY <1>2, <1>3, <1>4 DEF PartsIn, Tally

LEMMA PartsNone ==
  ASSUME NEW q
  PROVE  PartsIn(q, {}) = [gross |-> 0, revenue |-> 0, vat |-> 0]
BY SumOfNone DEF PartsIn

\* Rows that are the same sum to the same.
LEMMA PartsKept ==
  ASSUME NEW q \in Seq(Row), NEW p \in Seq(Row), NEW rs \in SUBSET DOMAIN q,
         rs \subseteq DOMAIN p, \A i \in rs : p[i] = q[i]
  PROVE  PartsIn(p, rs) = PartsIn(q, rs)
<1>1. IsFiniteSet(rs)
  BY RowTypes
<1>2. SumFunctionOnSet([i \in DOMAIN p |-> p[i].parts.gross], rs) = SumFunctionOnSet([i \in DOMAIN q |-> q[i].parts.gross], rs)
  BY <1>1, SumSame
<1>3. SumFunctionOnSet([i \in DOMAIN p |-> p[i].parts.revenue], rs) = SumFunctionOnSet([i \in DOMAIN q |-> q[i].parts.revenue], rs)
  BY <1>1, SumSame
<1>4. SumFunctionOnSet([i \in DOMAIN p |-> p[i].parts.vat], rs) = SumFunctionOnSet([i \in DOMAIN q |-> q[i].parts.vat], rs)
  BY <1>1, SumSame
<1> QED
  BY <1>2, <1>3, <1>4 DEF PartsIn

\* One row more adds what it has.
LEMMA PartsMore ==
  ASSUME NEW q \in Seq(Row), NEW rs \in SUBSET DOMAIN q, NEW k \in DOMAIN q, k \notin rs
  PROVE  PartsIn(q, rs \cup {k}) = Plus(PartsIn(q, rs), q[k].parts)
<1> DEFINE more == rs \cup {k}
           gross == [i \in DOMAIN q |-> q[i].parts.gross]
           revenue == [i \in DOMAIN q |-> q[i].parts.revenue]
           vat == [i \in DOMAIN q |-> q[i].parts.vat]
<1>1. more \in SUBSET DOMAIN q /\ more \ {k} = rs /\ k \in more
  OBVIOUS
<1>2. IsFiniteSet(more) /\ IsFiniteSet(rs)
  BY <1>1, RowTypes
<1>3. \A i \in DOMAIN q : gross[i] \in Int /\ revenue[i] \in Int /\ vat[i] \in Int
  BY RowTypes
<1>4. /\ SumFunctionOnSet(gross, rs) \in Int
      /\ SumFunctionOnSet(revenue, rs) \in Int
      /\ SumFunctionOnSet(vat, rs) \in Int
  <2> HIDE DEF gross, revenue, vat
  <2> QED
    BY <1>2, <1>3, SumType
<1>5. /\ SumFunctionOnSet(gross, more) = SumFunctionOnSet(gross, rs) + gross[k]
      /\ SumFunctionOnSet(revenue, more) = SumFunctionOnSet(revenue, rs) + revenue[k]
      /\ SumFunctionOnSet(vat, more) = SumFunctionOnSet(vat, rs) + vat[k]
  <2> DEFINE rest == more \ {k}
  <2> HIDE DEF gross, revenue, vat, more
  <2>1. SumFunctionOnSet(gross, more) = gross[k] + SumFunctionOnSet(gross, rest)
    BY <1>1, <1>2, <1>3, SumTakeOut
  <2>2. SumFunctionOnSet(revenue, more) = revenue[k] + SumFunctionOnSet(revenue, rest)
    BY <1>1, <1>2, <1>3, SumTakeOut
  <2>3. SumFunctionOnSet(vat, more) = vat[k] + SumFunctionOnSet(vat, rest)
    BY <1>1, <1>2, <1>3, SumTakeOut
  <2>4. gross[k] \in Int /\ revenue[k] \in Int /\ vat[k] \in Int
    BY <1>3
  <2>5. rest = rs
    BY <1>1
  <2>6. /\ SumFunctionOnSet(gross, rest) = SumFunctionOnSet(gross, rs)
        /\ SumFunctionOnSet(revenue, rest) = SumFunctionOnSet(revenue, rs)
        /\ SumFunctionOnSet(vat, rest) = SumFunctionOnSet(vat, rs)
    BY <2>5, Zenon
  <2> HIDE DEF rest
  <2>7. SumFunctionOnSet(gross, more) = SumFunctionOnSet(gross, rs) + gross[k]
    BY <1>4, <2>1, <2>4, <2>6
  <2>8. SumFunctionOnSet(revenue, more) = SumFunctionOnSet(revenue, rs) + revenue[k]
    BY <1>4, <2>2, <2>4, <2>6
  <2>9. SumFunctionOnSet(vat, more) = SumFunctionOnSet(vat, rs) + vat[k]
    BY <1>4, <2>3, <2>4, <2>6
  <2> QED
    BY <2>7, <2>8, <2>9
<1>6. gross[k] = q[k].parts.gross /\ revenue[k] = q[k].parts.revenue /\ vat[k] = q[k].parts.vat
  OBVIOUS
<1>7. /\ PartsIn(q, more) = [gross |-> SumFunctionOnSet(gross, more), revenue |-> SumFunctionOnSet(revenue, more),
                             vat |-> SumFunctionOnSet(vat, more)]
      /\ PartsIn(q, rs) = [gross |-> SumFunctionOnSet(gross, rs), revenue |-> SumFunctionOnSet(revenue, rs),
                           vat |-> SumFunctionOnSet(vat, rs)]
  BY DEF PartsIn
<1> HIDE DEF gross, revenue, vat, more
<1>8. PartsIn(q, more) = Plus(PartsIn(q, rs), q[k].parts)
  BY <1>5, <1>6, <1>7 DEF Plus
<1> QED
  BY <1>8 DEF more

\* What a row that is appended changes.
LEMMA Appended ==
  ASSUME NEW q \in Seq(Row), NEW r \in Row
  PROVE  LET p == Append(q, r)
             n == Len(q) + 1
         IN /\ p \in Seq(Row) /\ Len(p) = n /\ DOMAIN p = DOMAIN q \cup {n} /\ n \notin DOMAIN q
            /\ n \in Nat \ {0} /\ \A i \in DOMAIN q : i \in Nat \ {0} /\ i < n
            /\ p[n] = r /\ \A i \in DOMAIN q : p[i] = q[i]
OBVIOUS

LEMMA CapturesMore ==
  ASSUME NEW q \in Seq(Row), NEW r \in Row, NEW o
  PROVE  CapturesIn(Append(q, r), o) =
           IF r.order = o /\ r.of = 0 THEN CapturesIn(q, o) \cup {Len(q) + 1} ELSE CapturesIn(q, o)
<1> DEFINE p == Append(q, r)
           n == Len(q) + 1
<1>1. /\ DOMAIN p = DOMAIN q \cup {n} /\ n \notin DOMAIN q
      /\ p[n] = r /\ \A i \in DOMAIN q : p[i] = q[i]
  BY Appended
<1> HIDE DEF p, n
<1>2. CapturesIn(p, o) = IF r.order = o /\ r.of = 0 THEN CapturesIn(q, o) \cup {n} ELSE CapturesIn(q, o)
  BY <1>1 DEF CapturesIn
<1> QED
  BY <1>2 DEF p, n

LEMMA RefundsMore ==
  ASSUME NEW q \in Seq(Row), NEW r \in Row, NEW m
  PROVE  RefundsIn(Append(q, r), m) =
           IF r.of = m THEN RefundsIn(q, m) \cup {Len(q) + 1} ELSE RefundsIn(q, m)
<1> DEFINE p == Append(q, r)
           n == Len(q) + 1
<1>1. /\ DOMAIN p = DOMAIN q \cup {n} /\ n \notin DOMAIN q
      /\ p[n] = r /\ \A i \in DOMAIN q : p[i] = q[i]
  BY Appended
<1> HIDE DEF p, n
<1>2. RefundsIn(p, m) = IF r.of = m THEN RefundsIn(q, m) \cup {n} ELSE RefundsIn(q, m)
  BY <1>1 DEF RefundsIn
<1> QED
  BY <1>2 DEF p, n


-----------------------------------------------------------------------------
(* Rows that fit: every row is sound, what is captured for an order fits   *)
(* into the order, and what is refunded of a payment into the payment.     *)

RowSound(q, given, i) ==
  /\ Sound(q[i].parts) /\ q[i].parts.gross > 0
  /\ IF q[i].of = 0 THEN given[q[i].order] # <<>>
     ELSE LET p == q[i].of
          IN p \in DOMAIN q /\ p < i /\ q[p].of = 0 /\ q[p].shift = q[i].shift /\ q[p].method = q[i].method

CapturesFit(q, given) ==
  \A o \in Order : CapturesIn(q, o) # {} => Fits(PartsIn(q, CapturesIn(q, o)), Whole(given[o]))

RefundsFit(q) ==
  \A n \in DOMAIN q : q[n].of = 0 => Fits(PartsIn(q, RefundsIn(q, n)), q[n].parts)

Fitted(q, given) ==
  /\ q \in Seq(Row)
  /\ \A i \in DOMAIN q : RowSound(q, given, i)
  /\ CapturesFit(q, given)
  /\ RefundsFit(q)

\* Nothing is used up of a whole that is sound.
LEMMA NothingFits ==
  ASSUME NEW w \in Tally, Sound(w), w.gross > 0
  PROVE  Fits([gross |-> 0, revenue |-> 0, vat |-> 0], w)
BY DEF Fits, Tally, Sound

\* The parts that a quote is made of.
LEMMA QuoteSound ==
  ASSUME NEW q \in QuoteOf, q.total > 0
  PROVE  Whole(q) \in Tally /\ Sound(Whole(q)) /\ Whole(q).gross = q.total
<1>1. q.total \in Nat /\ q.vat \in Nat /\ q.vat <= q.total
  BY ShiftsAssumption
<1> QED
  BY <1>1 DEF Whole, Tally, Sound

LEMMA QuoteIsRecord ==
  ASSUME NEW q \in QuoteOf
  PROVE  q # <<>>
<1>1. q \in [total : Nat, vat : Nat]
  BY ShiftsAssumption
<1>2. "total" \in DOMAIN q
  BY <1>1
<1>3. DOMAIN <<>> = {}
  OBVIOUS
<1> QED
  BY <1>2, <1>3

\* A sum of parts that is not negative, whether it is of nothing or fits into a whole.
LEMMA FitsOrNone ==
  ASSUME NEW w \in Tally, Sound(w), w.gross > 0, NEW q \in Seq(Row), NEW rs \in SUBSET DOMAIN q,
         rs # {} => Fits(PartsIn(q, rs), w)
  PROVE  Fits(PartsIn(q, rs), w)
<1>1. CASE rs = {}
  <2>1. PartsIn(q, rs) = [gross |-> 0, revenue |-> 0, vat |-> 0]
    BY <1>1, PartsNone
  <2> QED
    BY <2>1, NothingFits
<1> QED
  BY <1>1

\* The rows of others, and their orders, are as they were.
LEMMA RestFits ==
  ASSUME NEW q, NEW given, Fitted(q, given), NEW r \in Row
  PROVE  LET p == Append(q, r)
         IN /\ \A i \in DOMAIN q : RowSound(p, given, i)
            /\ \A o \in Order : (r.order # o \/ r.of # 0) /\ CapturesIn(p, o) # {} =>
                                  Fits(PartsIn(p, CapturesIn(p, o)), Whole(given[o]))
            /\ \A m \in DOMAIN q : p[m].of = 0 /\ r.of # m =>
                                     Fits(PartsIn(p, RefundsIn(p, m)), p[m].parts)
<1> DEFINE p == Append(q, r)
<1>1. /\ q \in Seq(Row) /\ \A i \in DOMAIN q : RowSound(q, given, i)
      /\ CapturesFit(q, given) /\ RefundsFit(q)
  BY DEF Fitted
<1>2. /\ p \in Seq(Row) /\ DOMAIN q \subseteq DOMAIN p /\ \A i \in DOMAIN q : p[i] = q[i]
  BY <1>1, Appended
<1>3. \A o : r.order # o \/ r.of # 0 => CapturesIn(p, o) = CapturesIn(q, o)
  BY <1>1, CapturesMore
<1>4. \A m : r.of # m => RefundsIn(p, m) = RefundsIn(q, m)
  BY <1>1, RefundsMore
<1> HIDE DEF p
<1>5. ASSUME NEW i \in DOMAIN q PROVE RowSound(p, given, i)
  <2>1. RowSound(q, given, i)
    BY <1>1
  <2> QED
    BY <1>2, <2>1 DEF RowSound
<1>6. ASSUME NEW o \in Order, r.order # o \/ r.of # 0, CapturesIn(p, o) # {}
      PROVE  Fits(PartsIn(p, CapturesIn(p, o)), Whole(given[o]))
  <2>1. CapturesIn(p, o) = CapturesIn(q, o)
    BY <1>3, <1>6
  <2>2. CapturesIn(q, o) \in SUBSET DOMAIN q
    BY DEF CapturesIn
  <2>3. PartsIn(p, CapturesIn(q, o)) = PartsIn(q, CapturesIn(q, o))
    BY <1>1, <1>2, <2>2, PartsKept
  <2> QED
    BY <1>1, <1>6, <2>1, <2>3 DEF CapturesFit
<1>7. ASSUME NEW m \in DOMAIN q, p[m].of = 0, r.of # m
      PROVE  Fits(PartsIn(p, RefundsIn(p, m)), p[m].parts)
  <2>1. RefundsIn(p, m) = RefundsIn(q, m) /\ p[m] = q[m]
    BY <1>2, <1>4, <1>7
  <2>2. RefundsIn(q, m) \in SUBSET DOMAIN q
    BY DEF RefundsIn
  <2>3. PartsIn(p, RefundsIn(q, m)) = PartsIn(q, RefundsIn(q, m))
    BY <1>1, <1>2, <2>2, PartsKept
  <2> QED
    BY <1>1, <1>7, <2>1, <2>3 DEF RefundsFit
<1>8. /\ \A i \in DOMAIN q : RowSound(p, given, i)
      /\ \A o \in Order : (r.order # o \/ r.of # 0) /\ CapturesIn(p, o) # {} =>
                            Fits(PartsIn(p, CapturesIn(p, o)), Whole(given[o]))
      /\ \A m \in DOMAIN q : p[m].of = 0 /\ r.of # m =>
                               Fits(PartsIn(p, RefundsIn(p, m)), p[m].parts)
  BY <1>5, <1>6, <1>7
<1> QED
  BY <1>8 DEF p

\* A row more of a set of rows that fits: what it was split into fits on top of the others.
LEMMA MoreFits ==
  ASSUME NEW q \in Seq(Row), NEW r \in Row, NEW rs \in SUBSET DOMAIN q, NEW w,
         Fits(Plus(PartsIn(q, rs), r.parts), w)
  PROVE  Fits(PartsIn(Append(q, r), rs \cup {Len(q) + 1}), w)
<1> DEFINE p == Append(q, r)
           n == Len(q) + 1
<1>1. /\ p \in Seq(Row) /\ DOMAIN p = DOMAIN q \cup {n} /\ n \notin DOMAIN q
      /\ p[n] = r /\ \A i \in DOMAIN q : p[i] = q[i]
  BY Appended
<1> HIDE DEF p, n
<1>2. rs \in SUBSET DOMAIN p /\ n \in DOMAIN p /\ n \notin rs
  BY <1>1
<1>3. PartsIn(p, rs \cup {n}) = Plus(PartsIn(p, rs), p[n].parts)
  BY <1>1, <1>2, PartsMore
<1>4. PartsIn(p, rs) = PartsIn(q, rs)
  BY <1>1, <1>2, PartsKept
<1>5. Fits(PartsIn(p, rs \cup {n}), w)
  BY <1>1, <1>3, <1>4
<1> QED
  BY <1>5 DEF p, n

\* A payment that is split off what is left of its order.
LEMMA CaptureFits ==
  ASSUME NEW q, NEW given, Fitted(q, given), NEW o \in Order, given[o] \in QuoteOf,
         NEW m \in Method, NEW s \in Shift \cup {NoShift}, NEW g \in Int,
         Splits(g, Whole(given[o]), PartsIn(q, CapturesIn(q, o))),
         NEW r, r = [order |-> o, method |-> m, shift |-> s, of |-> 0,
                     parts |-> Split(g, Whole(given[o]), PartsIn(q, CapturesIn(q, o)))]
  PROVE  r \in Row /\ r.parts.gross = g /\ Fitted(Append(q, r), given)
<1> DEFINE w == Whole(given[o])
           rs == CapturesIn(q, o)
           u == PartsIn(q, rs)
           n == Len(q) + 1
           p == Append(q, r)
<1>1. /\ q \in Seq(Row) /\ \A i \in DOMAIN q : RowSound(q, given, i)
      /\ CapturesFit(q, given) /\ RefundsFit(q)
  BY DEF Fitted
<1>2. rs \in SUBSET DOMAIN q
  BY DEF CapturesIn
<1>3. u \in Tally
  BY <1>1, <1>2, PartsType
<1>4. given[o].total > 0
  <2>1. given[o].total \in Nat /\ given[o].vat \in Nat
    BY ShiftsAssumption
  <2>2. g > 0 /\ g <= w.gross - u.gross /\ w.gross = given[o].total
    BY DEF Splits, Whole
  <2>3. u.gross >= 0
    <3>1. CASE rs = {}
      <4>1. u = [gross |-> 0, revenue |-> 0, vat |-> 0]
        BY <3>1, PartsNone
      <4> QED
        BY <4>1
    <3>2. CASE rs # {}
      <4>1. Fits(u, w)
        BY <1>1, <3>2 DEF CapturesFit
      <4> QED
        BY <1>3, <4>1 DEF Fits, Tally
    <3> QED
      BY <3>1, <3>2
  <2>4. u.gross \in Int
    BY <1>3 DEF Tally
  <2> QED
    BY <2>1, <2>2, <2>3, <2>4
<1>5. w \in Tally /\ Sound(w) /\ w.gross > 0
  BY <1>4, QuoteSound
<1>6. Fits(u, w)
  <2>1. rs # {} => Fits(u, w)
    BY <1>1 DEF CapturesFit
  <2> HIDE DEF w, rs
  <2> QED
    BY <1>1, <1>2, <1>5, <2>1, FitsOrNone
<1>7. /\ Split(g, w, u) \in Parts /\ Sound(Split(g, w, u)) /\ Split(g, w, u).gross = g
      /\ Fits(Plus(u, Split(g, w, u)), w)
  <2>1. Splits(g, w, u)
    OBVIOUS
  <2> HIDE DEF w, u
  <2> QED
    BY <1>3, <1>5, <1>6, <2>1, SplitFits
<1>8. r.order = o /\ r.of = 0 /\ r.method = m /\ r.shift = s /\ r.parts = Split(g, w, u)
  OBVIOUS
<1>9. r \in Row
  BY <1>7 DEF Row
<1>10. /\ p \in Seq(Row) /\ DOMAIN p = DOMAIN q \cup {n} /\ n \notin DOMAIN q /\ p[n] = r
       /\ \A i \in DOMAIN q : p[i] = q[i]
  BY <1>1, <1>9, Appended
<1>11. CapturesIn(p, o) = rs \cup {n}
  BY <1>1, <1>8, <1>9, CapturesMore
<1>12. RefundsIn(p, n) = {}
  <2>1. n # 0
    BY <1>1
  <2>2. RefundsIn(p, n) = RefundsIn(q, n)
    BY <1>1, <1>8, <1>9, <2>1, RefundsMore
  <2>3. \A i \in DOMAIN q : q[i].of # n
    BY <1>1, <1>10, <2>1 DEF RowSound
  <2> QED
    BY <2>2, <2>3 DEF RefundsIn
<1>13. /\ \A i \in DOMAIN q : RowSound(p, given, i)
       /\ \A x \in Order : x # o /\ CapturesIn(p, x) # {} => Fits(PartsIn(p, CapturesIn(p, x)), Whole(given[x]))
       /\ \A x \in DOMAIN q : p[x].of = 0 => Fits(PartsIn(p, RefundsIn(p, x)), p[x].parts)
  <2>1. \A x \in DOMAIN q : r.of # x
    BY <1>1, <1>8
  <2> QED
    BY <1>8, <1>9, <2>1, RestFits
<1>14. Fits(PartsIn(p, CapturesIn(p, o)), w)
  <2>1. Fits(Plus(PartsIn(q, rs), r.parts), w)
    BY <1>7, <1>8
  <2> HIDE DEF w, rs
  <2> QED
    BY <1>1, <1>2, <1>9, <1>11, <2>1, MoreFits
<1>15. given[o] # <<>>
  BY QuoteIsRecord
<1> HIDE DEF p, n
<1>16. Sound(p[n].parts) /\ p[n].parts.gross > 0 /\ p[n].of = 0 /\ p[n].order = o /\ p[n].parts \in Tally
  BY <1>7, <1>8, <1>10 DEF Parts, Tally, Splits
<1>17. RowSound(p, given, n)
  BY <1>15, <1>16 DEF RowSound
<1>18. Fits(PartsIn(p, RefundsIn(p, n)), p[n].parts)
  <2>1. PartsIn(p, RefundsIn(p, n)) = [gross |-> 0, revenue |-> 0, vat |-> 0]
    BY <1>12, PartsNone
  <2> QED
    BY <1>16, <2>1, NothingFits
<1>19. Fitted(p, given)
  <2>1. \A i \in DOMAIN p : RowSound(p, given, i)
    BY <1>10, <1>13, <1>17
  <2>2. CapturesFit(p, given)
    BY <1>13, <1>14 DEF CapturesFit
  <2>3. RefundsFit(p)
    BY <1>10, <1>13, <1>18 DEF RefundsFit
  <2> QED
    BY <1>10, <2>1, <2>2, <2>3 DEF Fitted
<1> QED
  BY <1>7, <1>8, <1>9, <1>19 DEF p

\* A refund that is split off what is left of its payment.
LEMMA RefundFits ==
  ASSUME NEW q, NEW given, Fitted(q, given), NEW m \in DOMAIN q, q[m].of = 0, NEW g \in Int,
         Splits(g, q[m].parts, PartsIn(q, RefundsIn(q, m))),
         NEW r, r = [order |-> q[m].order, method |-> q[m].method, shift |-> q[m].shift, of |-> m,
                     parts |-> Split(g, q[m].parts, PartsIn(q, RefundsIn(q, m)))]
  PROVE  r \in Row /\ r.parts.gross = g /\ Fitted(Append(q, r), given)
<1> DEFINE w == q[m].parts
           rs == RefundsIn(q, m)
           u == PartsIn(q, rs)
           n == Len(q) + 1
           p == Append(q, r)
<1>1. /\ q \in Seq(Row) /\ \A i \in DOMAIN q : RowSound(q, given, i)
      /\ CapturesFit(q, given) /\ RefundsFit(q)
  BY DEF Fitted
<1>2. rs \in SUBSET DOMAIN q
  BY DEF RefundsIn
<1>3. u \in Tally
  BY <1>1, <1>2, PartsType
<1>4. m \in Nat \ {0} /\ q[m] \in Row
  BY <1>1
<1>5. w \in Tally /\ Sound(w) /\ w.gross > 0
  BY <1>1, RowTypes DEF RowSound
<1>6. Fits(u, w)
  BY <1>1 DEF RefundsFit
<1>7. /\ Split(g, w, u) \in Parts /\ Sound(Split(g, w, u)) /\ Split(g, w, u).gross = g
      /\ Fits(Plus(u, Split(g, w, u)), w)
  <2>1. Splits(g, w, u)
    OBVIOUS
  <2> HIDE DEF w, u
  <2> QED
    BY <1>3, <1>5, <1>6, <2>1, SplitFits
<1>8. /\ r.order = q[m].order /\ r.of = m /\ r.method = q[m].method /\ r.shift = q[m].shift
      /\ r.parts = Split(g, w, u)
  OBVIOUS
<1>9. r \in Row
  BY <1>4, <1>7 DEF Row
<1>10. /\ p \in Seq(Row) /\ DOMAIN p = DOMAIN q \cup {n} /\ n \notin DOMAIN q /\ p[n] = r
       /\ n \in Nat /\ m < n /\ \A i \in DOMAIN q : p[i] = q[i]
  BY <1>1, <1>9, Appended
<1>11. RefundsIn(p, m) = rs \cup {n}
  BY <1>1, <1>8, <1>9, RefundsMore
<1>12. /\ \A i \in DOMAIN q : RowSound(p, given, i)
       /\ \A x \in Order : CapturesIn(p, x) # {} => Fits(PartsIn(p, CapturesIn(p, x)), Whole(given[x]))
       /\ \A x \in DOMAIN q : x # m /\ p[x].of = 0 => Fits(PartsIn(p, RefundsIn(p, x)), p[x].parts)
  <2>1. r.of # 0
    BY <1>4, <1>8
  <2> QED
    BY <1>8, <1>9, <2>1, RestFits
<1>13. Fits(PartsIn(p, RefundsIn(p, m)), p[m].parts)
  <2>1. Fits(Plus(PartsIn(q, rs), r.parts), w)
    BY <1>7, <1>8
  <2>2. Fits(PartsIn(p, RefundsIn(p, m)), w)
    <3> HIDE DEF w, rs
    <3> QED
      BY <1>1, <1>2, <1>9, <1>11, <2>1, MoreFits
  <2> QED
    BY <1>10, <2>2
<1> HIDE DEF p, n
<1>14. RowSound(p, given, n)
  BY <1>4, <1>7, <1>8, <1>10 DEF RowSound, Splits
<1>15. p[n].of # 0
  BY <1>4, <1>8, <1>10
<1>16. Fitted(p, given)
  <2>1. \A i \in DOMAIN p : RowSound(p, given, i)
    BY <1>10, <1>12, <1>14
  <2>2. CapturesFit(p, given)
    BY <1>12 DEF CapturesFit
  <2>3. RefundsFit(p)
    BY <1>10, <1>12, <1>13, <1>15 DEF RefundsFit
  <2> QED
    BY <1>10, <2>1, <2>2, <2>3 DEF Fitted
<1> QED
  BY <1>7, <1>8, <1>9, <1>16 DEF p

-----------------------------------------------------------------------------
(* Cash that the rows of a shift put into its drawer.                      *)

InShift(q, s) == {i \in DOMAIN q : q[i].shift = s}
SalesIn(q, s) == SumFunctionOnSet([i \in DOMAIN q |-> CashOf(q[i])], InShift(q, s))

LEMMA CashType ==
  ASSUME NEW r \in Row
  PROVE  CashOf(r) \in Int /\ (r.of # 0 => CashOf(r) <= 0)
<1>1. r.parts.gross \in Nat
  BY DEF Row, Parts
<1> QED
  BY <1>1 DEF CashOf

LEMMA SalesType ==
  ASSUME NEW q \in Seq(Row), NEW s
  PROVE  SalesIn(q, s) \in Int
<1>1. InShift(q, s) \in SUBSET DOMAIN q
  BY DEF InShift
<1>2. IsFiniteSet(InShift(q, s)) /\ \A i \in InShift(q, s) : CashOf(q[i]) \in Int
  BY <1>1, RowTypes, CashType
<1> QED
  BY <1>1, <1>2, SumType DEF SalesIn

\* A row more adds its cash to its shift and to no other.
LEMMA SalesMore ==
  ASSUME NEW q \in Seq(Row), NEW r \in Row, NEW s
  PROVE  SalesIn(Append(q, r), s) = SalesIn(q, s) + (IF r.shift = s THEN CashOf(r) ELSE 0)
<1> DEFINE p == Append(q, r)
           n == Len(q) + 1
           f == [i \in DOMAIN q |-> CashOf(q[i])]
           g == [i \in DOMAIN p |-> CashOf(p[i])]
           old == InShift(q, s)
           new == InShift(p, s)
<1>1. /\ p \in Seq(Row) /\ DOMAIN p = DOMAIN q \cup {n} /\ n \notin DOMAIN q
      /\ p[n] = r /\ \A i \in DOMAIN q : p[i] = q[i]
  BY Appended
<1> HIDE DEF p, n
<1>2. old \in SUBSET DOMAIN q /\ new \in SUBSET DOMAIN p /\ new = IF r.shift = s THEN old \cup {n} ELSE old
  BY <1>1 DEF InShift
<1>3. IsFiniteSet(old) /\ IsFiniteSet(new)
  BY <1>1, <1>2, RowTypes
<1>4. \A i \in new : g[i] \in Int
  BY <1>1, <1>2, RowTypes, CashType
<1>5. \A i \in old : g[i] = f[i] /\ i \in DOMAIN p
  BY <1>1, <1>2
<1>6. SalesIn(q, s) = SumFunctionOnSet(f, old) /\ SalesIn(p, s) = SumFunctionOnSet(g, new)
  BY DEF SalesIn
<1>7. SalesIn(q, s) \in Int /\ CashOf(r) \in Int
  BY SalesType, CashType
<1>8. n \in new => g[n] = CashOf(r)
  BY <1>1, <1>2
<1> HIDE DEF f, g, new, old
<1>9. SumFunctionOnSet(g, old) = SumFunctionOnSet(f, old)
  BY <1>3, <1>5, SumSame
<1>10. CASE r.shift = s
  <2> DEFINE rest == new \ {n}
  <2>1. n \in new /\ rest = old
    BY <1>1, <1>2, <1>10
  <2>2. SumFunctionOnSet(g, new) = g[n] + SumFunctionOnSet(g, rest)
    BY <1>3, <1>4, <2>1, SumTakeOut
  <2>3. SumFunctionOnSet(g, rest) = SumFunctionOnSet(g, old)
    BY <2>1, Zenon
  <2> HIDE DEF rest
  <2>4. SalesIn(p, s) = CashOf(r) + SalesIn(q, s)
    BY <1>6, <1>8, <1>9, <2>1, <2>2, <2>3
  <2> QED
    BY <1>7, <1>10, <2>4 DEF p
<1>11. CASE r.shift # s
  <2>1. new = old
    BY <1>2, <1>11
  <2>2. SalesIn(p, s) = SalesIn(q, s)
    BY <1>6, <1>9, <2>1, Zenon
  <2> QED
    BY <1>7, <1>11, <2>2 DEF p
<1> QED
  BY <1>10, <1>11

\* A payment and its refunds together leave something, or nothing, in the drawer.
LEMMA LeftOfPayment ==
  ASSUME NEW q, NEW given, Fitted(q, given), NEW t \in DOMAIN q, q[t].of = 0,
         NEW g, \A i \in DOMAIN q : g[i] = CashOf(q[i])
  PROVE  SumFunctionOnSet(g, {t} \cup RefundsIn(q, t)) \in Int
         /\ SumFunctionOnSet(g, {t} \cup RefundsIn(q, t)) >= 0
<1> DEFINE rs == RefundsIn(q, t)
           u == PartsIn(q, rs)
           gross == [i \in DOMAIN q |-> q[i].parts.gross]
<1>1. /\ q \in Seq(Row) /\ \A i \in DOMAIN q : RowSound(q, given, i) /\ RefundsFit(q)
  BY DEF Fitted
<1>2. rs \in SUBSET DOMAIN q /\ \A i \in rs : q[i].of = t /\ q[i].method = q[t].method
  BY <1>1 DEF RefundsIn, RowSound
<1>3. t \in Nat \ {0} /\ t \notin rs
  BY <1>1, <1>2
<1>4. IsFiniteSet({t}) /\ IsFiniteSet(rs) /\ IsFiniteSet({t} \cup rs)
  BY <1>1, <1>2, RowTypes, FS_Singleton, FS_Union
<1>5. \A i \in DOMAIN q : g[i] \in Int /\ gross[i] \in Int /\ gross[i] = q[i].parts.gross
  BY <1>1, RowTypes, CashType
<1>6. q[t].parts.gross - u.gross >= 0 /\ u.gross \in Int /\ q[t].parts.gross \in Nat
  <2>1. Fits(u, q[t].parts) /\ Sound(q[t].parts)
    BY <1>1 DEF RefundsFit, RowSound
  <2>2. u \in Tally /\ q[t].parts \in Tally /\ q[t].parts \in Parts
    BY <1>1, <1>2, PartsType, RowTypes DEF Row
  <2> QED
    BY <2>1, <2>2 DEF Fits, Sound, Tally, Parts
<1>7. u.gross = SumFunctionOnSet(gross, rs)
  BY DEF PartsIn
<1>8. q[t].of = 0 /\ \A i \in rs : g[i] = CashOf(q[i]) /\ g[t] = CashOf(q[t]) /\ i \in DOMAIN q
  BY <1>2
<1>9. g[t] = CashOf(q[t])
  OBVIOUS
<1> HIDE DEF rs, u, gross
<1>10. SumFunctionOnSet(g, {t} \cup rs) = g[t] + SumFunctionOnSet(g, rs)
  <2> DEFINE all == {t} \cup rs
             rest == all \ {t}
  <2>1. rest = rs /\ t \in all /\ \A i \in all : i \in DOMAIN q
    BY <1>2, <1>3
  <2>2. SumFunctionOnSet(g, all) = g[t] + SumFunctionOnSet(g, rest)
    <3> HIDE DEF all
    <3> QED
      BY <1>4, <1>5, <2>1, SumTakeOut DEF all
  <2>3. SumFunctionOnSet(g, rest) = SumFunctionOnSet(g, rs)
    BY <2>1, Zenon
  <2> QED
    BY <2>2, <2>3
<1>11. CASE q[t].method = "cash"
  <2>1. \A i \in rs : gross[i] \in Int /\ g[i] = -gross[i]
    BY <1>2, <1>3, <1>5, <1>8, <1>11 DEF CashOf
  <2>2. SumFunctionOnSet(g, rs) = -u.gross
    BY <1>4, <1>7, <2>1, SumOpposite
  <2>3. g[t] = q[t].parts.gross
    BY <1>9, <1>11 DEF CashOf
  <2>4. SumFunctionOnSet(g, {t} \cup rs) = q[t].parts.gross - u.gross
    BY <1>6, <1>10, <2>2, <2>3
  <2> QED
    BY <1>6, <2>4 DEF rs
<1>12. CASE q[t].method # "cash"
  <2>1. \A i \in rs : g[i] = 0
    BY <1>2, <1>8, <1>12 DEF CashOf
  <2>2. SumFunctionOnSet(g, rs) = 0 /\ g[t] = 0
    BY <1>4, <1>9, <1>12, <2>1, SumOfZeros DEF CashOf
  <2>3. SumFunctionOnSet(g, {t} \cup rs) = 0
    BY <1>10, <2>2
  <2> QED
    BY <2>3 DEF rs
<1> QED
  BY <1>11, <1>12

\* The rows of a shift are its payments, each with its refunds.
LEMMA SalesNonNegative ==
  ASSUME NEW q, NEW given, Fitted(q, given), NEW s
  PROVE  SalesIn(q, s) >= 0
<1> DEFINE rs == InShift(q, s)
           T == {i \in rs : q[i].of = 0}
           f == [i \in rs |-> IF q[i].of = 0 THEN i ELSE q[i].of]
           g == [i \in DOMAIN q |-> CashOf(q[i])]
           group == [t \in T |-> {t} \cup RefundsIn(q, t)]
           h == [t \in T |-> SumFunctionOnSet(g, group[t])]
           z == [t \in T |-> 0]
<1>1. q \in Seq(Row) /\ \A i \in DOMAIN q : RowSound(q, given, i)
  BY DEF Fitted
<1>2. rs \in SUBSET DOMAIN q /\ T \in SUBSET DOMAIN q
  BY DEF InShift
<1>3. IsFiniteSet(rs) /\ IsFiniteSet(T)
  BY <1>1, <1>2, RowTypes
<1>4. \A i \in DOMAIN q : i \in Nat \ {0} /\ g[i] = CashOf(q[i]) /\ g[i] \in Int
  BY <1>1, RowTypes, CashType
<1>5. \A i \in rs : f[i] \in T
  BY <1>1 DEF InShift, RowSound
<1>6. \A t \in T : \A x : x \in group[t] <=> x \in rs /\ f[x] = t
  <2> SUFFICES ASSUME NEW t \in T, NEW x
               PROVE  x \in group[t] <=> x \in rs /\ f[x] = t
    OBVIOUS
  <2>1. t \in DOMAIN q /\ t # 0 /\ q[t].of = 0 /\ q[t].shift = s /\ t \in rs
    BY <1>4 DEF InShift
  <2>2. group[t] = {t} \cup RefundsIn(q, t)
    OBVIOUS
  <2>3. CASE x \in DOMAIN q
    <3>1. RowSound(q, given, x)
      BY <1>1, <2>3
    <3>2. x \in rs <=> q[x].shift = s
      BY <2>3 DEF InShift
    <3>3. x \in RefundsIn(q, t) <=> q[x].of = t
      BY <2>3 DEF RefundsIn
    <3>4. q[x].of = t => q[x].shift = s
      BY <2>1, <3>1 DEF RowSound
    <3>5. x \in rs => f[x] = IF q[x].of = 0 THEN x ELSE q[x].of
      OBVIOUS
    <3> HIDE DEF f, rs, group
    <3> QED
      BY <2>1, <2>2, <3>2, <3>3, <3>4, <3>5
  <2>4. CASE x \notin DOMAIN q
    BY <2>1, <2>2, <2>4 DEF InShift, RefundsIn
  <2> QED
    BY <2>3, <2>4
<1>7. \A t \in T : h[t] \in Int /\ h[t] >= 0
  <2> SUFFICES ASSUME NEW t \in T
               PROVE  h[t] \in Int /\ h[t] >= 0
    OBVIOUS
  <2>1. t \in DOMAIN q /\ q[t].of = 0
    BY <1>2
  <2>2. h[t] = SumFunctionOnSet(g, {t} \cup RefundsIn(q, t))
    OBVIOUS
  <2> HIDE DEF g, h
  <2> QED
    BY <1>4, <2>1, <2>2, LeftOfPayment
<1>8. \A t \in T : h[t] = SumFunctionOnSet(g, group[t]) /\ z[t] = 0 /\ z[t] \in Int
  OBVIOUS
<1>9. \A i \in rs : g[i] \in Int
  BY <1>2, <1>4
<1>10. SalesIn(q, s) = SumFunctionOnSet(g, rs)
  BY DEF SalesIn
<1> HIDE DEF rs, T, f, g, group, h, z
<1>11. SumFunctionOnSet(g, rs) = SumFunctionOnSet(h, T)
  BY <1>3, <1>5, <1>6, <1>8, <1>9, SumByGroups
<1>12. SumFunctionOnSet(z, T) = 0
  BY <1>3, <1>8, SumOfZeros
<1>13. SumFunctionOnSet(z, T) <= SumFunctionOnSet(h, T)
  <2>1. \A t \in T : z[t] \in Int /\ h[t] \in Int /\ z[t] <= h[t]
    BY <1>7, <1>8
  <2> QED
    BY <1>3, <2>1, SumMonotone
<1>14. SumFunctionOnSet(h, T) \in Int
  BY <1>3, <1>7, SumType
<1> QED
  BY <1>10, <1>11, <1>12, <1>13, <1>14

-----------------------------------------------------------------------------
(* The inductive invariant of the shifts: the types of the state, a quote  *)
(* for every order that is being paid, and rows that fit.                  *)

ShiftRecord == [status : {"none", "open", "closed"}, cashier : Cashier, opening : Nat, expected : Int]

Requests ==
  {<<>>}
  \cup [kind : {"open"}, cashier : Cashier, shift : {NoShift}]
  \cup [kind : {"move"}, shift : Shift, amount : Moves]
  \cup [kind : {"close"}, shift : Shift, sums : Seq(Int)]
  \cup [kind : {"sale"}, shift : Shift \cup {NoShift}, method : Method]
  \cup [kind : {"pay"}, shift : Shift \cup {NoShift}, order : Order, method : Method, amount : Amount]

PaysQuoted == \A c \in Client : Asked(c, "pay") => quote[request[c].order] # <<>>

CounterInv ==
  /\ quote \in [Order -> QuoteOf \cup {<<>>}]
  /\ shift \in [Shift -> ShiftRecord]
  /\ moved \in [Shift -> Seq(Int)]
  /\ request \in [Client -> Requests]
  /\ PaysQuoted
  /\ Fitted(rows, quote)

\* The sums of the state are those of its rows.
LEMMA SumsOfRows ==
  ASSUME NEW x, NEW rs
  PROVE  /\ Captures(x) = CapturesIn(rows, x) /\ RefundsOf(x) = RefundsIn(rows, x)
         /\ PartsOf(rs) = PartsIn(rows, rs) /\ CashSales(x) = SalesIn(rows, x)
BY DEF Captures, CapturesIn, RefundsOf, RefundsIn, PartsOf, PartsIn, CashSales, SalesIn, RowsOfShift, InShift

\* A quote for an order that had none concerns no row.
LEMMA QuoteMore ==
  ASSUME NEW q, NEW given \in [Order -> QuoteOf \cup {<<>>}], Fitted(q, given),
         NEW o \in Order, given[o] = <<>>, NEW v \in QuoteOf
  PROVE  Fitted(q, [given EXCEPT ![o] = v])
<1> DEFINE new == [given EXCEPT ![o] = v]
<1>1. /\ q \in Seq(Row) /\ \A i \in DOMAIN q : RowSound(q, given, i)
      /\ CapturesFit(q, given) /\ RefundsFit(q)
  BY DEF Fitted
<1>2. new[o] = v /\ v # <<>> /\ \A x \in Order : x # o => new[x] = given[x]
  BY QuoteIsRecord
<1>3. \A i \in DOMAIN q : q[i].order \in Order
  BY <1>1, RowTypes DEF Row
<1>4. CapturesIn(q, o) = {}
  BY <1>1, <1>3 DEF CapturesIn, RowSound
<1> HIDE DEF new
<1>5. \A i \in DOMAIN q : RowSound(q, new, i)
  BY <1>1, <1>2, <1>3 DEF RowSound
<1>6. CapturesFit(q, new)
  BY <1>1, <1>2, <1>4 DEF CapturesFit
<1>7. Fitted(q, new)
  BY <1>1, <1>5, <1>6 DEF Fitted
<1> QED
  BY <1>7 DEF new

LEMMA CounterInit == Init => CounterInv
<1> SUFFICES ASSUME Init PROVE CounterInv
  OBVIOUS
<1>1. quote \in [Order -> QuoteOf \cup {<<>>}]
  BY DEF Init
<1>2. shift \in [Shift -> ShiftRecord]
  BY DEF Init, ShiftRecord
<1>3. moved \in [Shift -> Seq(Int)]
  BY DEF Init
<1>4. request \in [Client -> Requests] /\ PaysQuoted
  BY DEF Init, Requests, PaysQuoted, Asked
<1>5. Fitted(rows, quote)
  BY DEF Init, Fitted, RowSound, CapturesFit, RefundsFit, CapturesIn
<1> QED
  BY <1>1, <1>2, <1>3, <1>4, <1>5 DEF CounterInv

\* What a request carries.
LEMMA RequestTypes ==
  ASSUME CounterInv, NEW c \in Client
  PROVE  /\ Asked(c, "move") => request[c].shift \in Shift /\ request[c].amount \in Moves
         /\ Asked(c, "close") => request[c].shift \in Shift /\ request[c].sums \in Seq(Int)
         /\ Asked(c, "sale") => request[c].shift \in Shift \cup {NoShift} /\ request[c].method \in Method
         /\ Asked(c, "pay") => /\ request[c].shift \in Shift \cup {NoShift} /\ request[c].method \in Method
                               /\ request[c].order \in Order /\ request[c].amount \in Amount
<1>1. request[c] \in Requests
  BY DEF CounterInv
<1> QED
  BY <1>1 DEF Requests, Asked

\* A request that is over leaves nothing.
LEMMA DoneKeeps ==
  ASSUME CounterInv, NEW c \in Client, Done(c), quote' = quote
  PROVE  request' \in [Client -> Requests] /\ PaysQuoted'
<1>1. <<>> \in Requests /\ request \in [Client -> Requests] /\ PaysQuoted
  BY DEF Requests, CounterInv
<1> QED
  BY <1>1 DEF Done, PaysQuoted, Asked

LEMMA AskKeeps ==
  ASSUME CounterInv, NEW c \in Client, NEW r \in Requests, Ask(c, r),
         r # <<>> /\ r.kind = "pay" => quote[r.order] # <<>>
  PROVE  CounterInv'
<1>1. request' \in [Client -> Requests]
  BY DEF CounterInv, Ask
<1>2. PaysQuoted'
  BY DEF CounterInv, Ask, PaysQuoted, Asked
<1> QED
  BY <1>1, <1>2 DEF CounterInv, Ask

LEMMA SumsAreInts ==
  ASSUME CounterInv, NEW s \in Shift
  PROVE  Sums(s) \in Seq(Int) /\ Len(Sums(s)) = 3
<1>1. CashSales(s) \in Int
  <2>1. rows \in Seq(Row)
    BY DEF CounterInv, Fitted
  <2> QED
    BY <2>1, SumsOfRows, SalesType
<1>2. moved[s] \in Seq(Int)
  BY DEF CounterInv
<1>3. IsFiniteSet(DOMAIN moved[s])
  <2>1. DOMAIN moved[s] = 1..Len(moved[s]) /\ Len(moved[s]) \in Nat
    BY <1>2
  <2> QED
    BY <2>1, FS_Interval
<1>4. CashIn(s) \in Int
  <2> DEFINE g == [i \in DOMAIN moved[s] |-> IF moved[s][i] > 0 THEN moved[s][i] ELSE 0]
  <2>1. \A i \in DOMAIN moved[s] : g[i] \in Int
    BY <1>2
  <2>2. CashIn(s) = SumFunctionOnSet(g, DOMAIN moved[s])
    BY DEF CashIn, Amounts
  <2> HIDE DEF g
  <2> QED
    BY <1>3, <2>1, <2>2, SumType
<1>5. CashOut(s) \in Int
  <2> DEFINE g == [i \in DOMAIN moved[s] |-> IF moved[s][i] < 0 THEN moved[s][i] ELSE 0]
  <2>1. \A i \in DOMAIN moved[s] : g[i] \in Int
    BY <1>2
  <2>2. CashOut(s) = SumFunctionOnSet(g, DOMAIN moved[s])
    BY DEF CashOut, Amounts
  <2> HIDE DEF g
  <2> QED
    BY <1>3, <2>1, <2>2, SumType
<1> QED
  BY <1>1, <1>4, <1>5 DEF Sums

LEMMA OpenKeeps ==
  ASSUME CounterInv, NEW c \in Client, NEW s \in Shift, NEW a \in Opening, Open(c, s, a)
  PROVE  CounterInv'
<1>1. shift' \in [Shift -> ShiftRecord]
  BY ShiftsAssumption DEF CounterInv, Open, ShiftRecord
<1>2. request' \in [Client -> Requests] /\ PaysQuoted'
  BY DoneKeeps DEF Open
<1> QED
  BY <1>1, <1>2 DEF CounterInv, Open

LEMMA MoveKeeps ==
  ASSUME CounterInv, NEW c \in Client, Move(c)
  PROVE  CounterInv'
<1>1. moved' \in [Shift -> Seq(Int)]
  <2>1. request[c].shift \in Shift /\ request[c].amount \in Int
    BY RequestTypes, ShiftsAssumption DEF Move
  <2>2. moved' = [moved EXCEPT ![request[c].shift] = Append(moved[request[c].shift], request[c].amount)]
    BY DEF Move
  <2>3. moved \in [Shift -> Seq(Int)]
    BY DEF CounterInv
  <2> QED
    BY <2>1, <2>2, <2>3
<1>2. request' \in [Client -> Requests] /\ PaysQuoted'
  BY DoneKeeps DEF Move
<1> QED
  BY <1>1, <1>2 DEF CounterInv, Move

LEMMA CountKeeps ==
  ASSUME CounterInv, NEW c \in Client, Count(c)
  PROVE  CounterInv'
<1> DEFINE r == request[c]
           n == Len(r.sums)
           more == Append(r.sums, Sums(r.shift)[n + 1])
<1>1. r \in [kind : {"close"}, shift : Shift, sums : Seq(Int)]
  BY DEF CounterInv, Requests, Count, Asked
<1>2. more \in Seq(Int)
  <2>0. r.shift \in Shift /\ r.sums \in Seq(Int) /\ n < 3
    BY <1>1 DEF Count
  <2>1. Sums(r.shift) \in Seq(Int) /\ Len(Sums(r.shift)) = 3
    <3> HIDE DEF r
    <3> QED
      BY <2>0, SumsAreInts
  <2>2. n \in 0..2
    <3> HIDE DEF r
    <3>1. n \in Nat
      BY <2>0
    <3> HIDE DEF n
    <3> QED
      BY <2>0, <3>1
  <2>3. Sums(r.shift)[n + 1] \in Int
    <3> HIDE DEF n
    <3> QED
      BY <2>1, <2>2
  <2> QED
    BY <1>1, <2>3
<1>3. request' = [request EXCEPT ![c] = [r EXCEPT !.sums = more]]
  BY DEF Count
<1> HIDE DEF more
<1>4. [r EXCEPT !.sums = more] \in [kind : {"close"}, shift : Shift, sums : Seq(Int)]
  BY <1>1, <1>2
<1> DEFINE new == [r EXCEPT !.sums = more]
<1>5. new \in Requests /\ new.kind = "close"
  BY <1>4 DEF Requests
<1> HIDE DEF new, r
<1>6. request' = [request EXCEPT ![c] = new]
  BY <1>3 DEF new
<1>7. request' \in [Client -> Requests]
  BY <1>5, <1>6 DEF CounterInv
<1>8. PaysQuoted'
  BY <1>5, <1>6 DEF CounterInv, PaysQuoted, Asked, Count
<1> QED
  BY <1>7, <1>8 DEF CounterInv, Count

LEMMA CloseKeeps ==
  ASSUME CounterInv, NEW c \in Client, Close(c)
  PROVE  CounterInv'
<1> DEFINE s == request[c].shift
           sums == request[c].sums
           counted == shift[s].opening + sums[1] + sums[2] + sums[3]
<1>1. s \in Shift /\ sums \in Seq(Int) /\ Len(sums) = 3
  BY RequestTypes DEF Close
<1>2. sums[1] \in Int /\ sums[2] \in Int /\ sums[3] \in Int
  BY <1>1
<1>3. shift[s] \in ShiftRecord
  BY <1>1 DEF CounterInv
<1>4. counted \in Int
  BY <1>2, <1>3 DEF ShiftRecord
<1>5. shift' = [shift EXCEPT ![s] = [shift[s] EXCEPT !.status = "closed", !.expected = counted]]
  BY <1>1 DEF Close, CounterInv
<1> HIDE DEF counted, s, sums
<1>6. [shift[s] EXCEPT !.status = "closed", !.expected = counted] \in ShiftRecord
  BY <1>3, <1>4 DEF ShiftRecord
<1>7. shift' \in [Shift -> ShiftRecord]
  BY <1>1, <1>5, <1>6 DEF CounterInv
<1>8. request' \in [Client -> Requests] /\ PaysQuoted'
  BY DoneKeeps DEF Close
<1> QED
  BY <1>7, <1>8 DEF CounterInv, Close

LEMMA DropKeeps ==
  ASSUME CounterInv, NEW c \in Client, Drop(c)
  PROVE  CounterInv'
BY DoneKeeps DEF CounterInv, Drop

LEMMA SellKeeps ==
  ASSUME CounterInv, NEW c \in Client, NEW o \in Order, NEW v \in QuoteOf, Sell(c, o, v)
  PROVE  /\ CounterInv'
         /\ \A s : s # request[c].shift => CashSales(s)' = CashSales(s)
<1> DEFINE m == request[c].method
           t == request[c].shift
           u == PartsIn(rows, CapturesIn(rows, o))
           r == [order |-> o, method |-> m, shift |-> t, of |-> 0, parts |-> Split(v.total, Whole(v), u)]
<1>1. /\ quote \in [Order -> QuoteOf \cup {<<>>}] /\ quote[o] = <<>>
      /\ quote' = [quote EXCEPT ![o] = v]
  BY DEF CounterInv, Sell
<1>2. quote' \in [Order -> QuoteOf \cup {<<>>}] /\ quote'[o] = v /\ v # <<>>
  BY <1>1, QuoteIsRecord
<1>3. Fitted(rows, quote')
  BY <1>1, QuoteMore DEF CounterInv
<1>4. m \in Method /\ t \in Shift \cup {NoShift}
  BY RequestTypes DEF Sell
<1>5. v.total \in Int
  BY ShiftsAssumption
<1>6. Splits(v.total, Whole(v), u) /\ rows' = Append(rows, r)
  BY SumsOfRows DEF Sell, Capture
<1>7. r \in Row /\ Fitted(rows', quote') /\ r.shift = t
  <2>1. /\ quote'[o] \in QuoteOf
        /\ Splits(v.total, Whole(quote'[o]), PartsIn(rows, CapturesIn(rows, o)))
        /\ r = [order |-> o, method |-> m, shift |-> t, of |-> 0,
                parts |-> Split(v.total, Whole(quote'[o]), PartsIn(rows, CapturesIn(rows, o)))]
    BY <1>2, <1>6
  <2>2. r.shift = t
    OBVIOUS
  <2> HIDE DEF r, t, m
  <2> QED
    BY <1>3, <1>4, <1>5, <1>6, <2>1, <2>2, CaptureFits
<1>8. request' \in [Client -> Requests] /\ PaysQuoted'
  <2>1. <<>> \in Requests /\ request \in [Client -> Requests] /\ PaysQuoted
    BY DEF Requests, CounterInv
  <2>2. Done(c)
    BY DEF Sell
  <2>3. request' \in [Client -> Requests]
    BY <2>1, <2>2 DEF Done
  <2>4. \A x : quote'[x] = <<>> => quote[x] = <<>>
    BY <1>1, <1>2
  <2>5. \A d \in Client : request'[d] = <<>> \/ request'[d] = request[d]
    BY <2>1, <2>2 DEF Done
  <2>6. PaysQuoted'
    BY <2>1, <2>4, <2>5 DEF PaysQuoted, Asked
  <2> QED
    BY <2>3, <2>6
<1>9. CounterInv'
  BY <1>2, <1>7, <1>8 DEF CounterInv, Sell
<1>10. ASSUME NEW s, s # t PROVE CashSales(s)' = CashSales(s)
  <2>1. rows \in Seq(Row)
    BY DEF CounterInv, Fitted
  <2>2. SalesIn(rows', s) = SalesIn(rows, s) + 0
    <3> HIDE DEF r
    <3> QED
      BY <1>6, <1>7, <1>10, <2>1, SalesMore
  <2>3. SalesIn(rows, s) \in Int
    BY <2>1, SalesType
  <2>4. SalesIn(rows', s) = SalesIn(rows, s)
    BY <2>2, <2>3
  <2> QED
    BY <2>4 DEF CashSales, SalesIn, RowsOfShift, InShift
<1> QED
  BY <1>9, <1>10

LEMMA SellUnpaidKeeps ==
  ASSUME CounterInv, NEW o \in Order, NEW v \in QuoteOf, SellUnpaid(o, v)
  PROVE  CounterInv'
<1>1. /\ quote \in [Order -> QuoteOf \cup {<<>>}] /\ quote[o] = <<>>
      /\ quote' = [quote EXCEPT ![o] = v] /\ PaysQuoted
  BY DEF CounterInv, SellUnpaid
<1>2. quote' \in [Order -> QuoteOf \cup {<<>>}] /\ quote'[o] = v /\ v # <<>>
  BY <1>1, QuoteIsRecord
<1>3. Fitted(rows, quote')
  BY <1>1, QuoteMore DEF CounterInv
<1>4. \A x : quote'[x] = <<>> => quote[x] = <<>>
  BY <1>1, <1>2
<1>5. PaysQuoted'
  BY <1>1, <1>4 DEF PaysQuoted, Asked, SellUnpaid
<1> QED
  BY <1>2, <1>3, <1>5 DEF CounterInv, SellUnpaid

LEMMA PayKeeps ==
  ASSUME CounterInv, NEW c \in Client, Pay(c)
  PROVE  /\ CounterInv'
         /\ \A s : s # request[c].shift => CashSales(s)' = CashSales(s)
<1> DEFINE o == request[c].order
           m == request[c].method
           t == request[c].shift
           g == request[c].amount
           u == PartsIn(rows, CapturesIn(rows, o))
           r == [order |-> o, method |-> m, shift |-> t, of |-> 0, parts |-> Split(g, Whole(quote[o]), u)]
<1>1. Asked(c, "pay")
  BY DEF Pay
<1>2. o \in Order /\ m \in Method /\ t \in Shift \cup {NoShift} /\ g \in Int
  <2>1. /\ request[c].shift \in Shift \cup {NoShift} /\ request[c].method \in Method
        /\ request[c].order \in Order /\ request[c].amount \in Amount
    <3> HIDE DEF o, m, t, g, u, r
    <3> QED
      BY <1>1, RequestTypes
  <2>2. \A x \in Amount : x \in Int
    BY ShiftsAssumption
  <2>3. request[c].amount \in Int
    BY <2>1, <2>2, Zenon
  <2> QED
    BY <2>1, <2>3
<1>3. quote[o] \in QuoteOf
  <2>1. quote[o] # <<>>
    BY <1>1 DEF CounterInv, PaysQuoted
  <2> QED
    BY <1>2, <2>1 DEF CounterInv
<1>4. Fitted(rows, quote) /\ quote' = quote
  BY DEF CounterInv, Pay
<1>5. Splits(g, Whole(quote[o]), u) /\ rows' = Append(rows, r)
  BY SumsOfRows DEF Pay, Capture
<1>6. r \in Row /\ Fitted(rows', quote) /\ r.shift = t
  <2>1. /\ Splits(g, Whole(quote[o]), PartsIn(rows, CapturesIn(rows, o)))
        /\ r = [order |-> o, method |-> m, shift |-> t, of |-> 0,
                parts |-> Split(g, Whole(quote[o]), PartsIn(rows, CapturesIn(rows, o)))]
    BY <1>5
  <2>2. r.shift = t
    OBVIOUS
  <2> HIDE DEF r, t, m, o, g
  <2> QED
    BY <1>2, <1>3, <1>4, <1>5, <2>1, <2>2, CaptureFits
<1>7. request' \in [Client -> Requests] /\ PaysQuoted'
  BY DoneKeeps DEF Pay
<1>8. CounterInv'
  BY <1>4, <1>6, <1>7 DEF CounterInv, Pay
<1>9. ASSUME NEW s, s # t PROVE CashSales(s)' = CashSales(s)
  <2>1. rows \in Seq(Row)
    BY DEF CounterInv, Fitted
  <2>2. SalesIn(rows', s) = SalesIn(rows, s) + 0
    <3> HIDE DEF r
    <3> QED
      BY <1>5, <1>6, <1>9, <2>1, SalesMore
  <2>3. SalesIn(rows, s) \in Int
    BY <2>1, SalesType
  <2>4. SalesIn(rows', s) = SalesIn(rows, s)
    BY <2>2, <2>3
  <2> QED
    BY <2>4 DEF CashSales, SalesIn, RowsOfShift, InShift
<1> QED
  BY <1>8, <1>9

\* A refund within what is left of its payment, for any rows.
RefundOf(q, n, g) ==
  [order |-> q[n].order, method |-> q[n].method, shift |-> q[n].shift, of |-> n,
   parts |-> Split(g, q[n].parts, PartsIn(q, RefundsIn(q, n)))]

LeftIn(q, n) == q[n].parts.gross - PartsIn(q, RefundsIn(q, n)).gross

LEMMA OneRefund ==
  ASSUME NEW q, NEW given, Fitted(q, given), NEW n \in DOMAIN q, q[n].of = 0,
         NEW g \in Int, g > 0, g <= LeftIn(q, n), NEW s
  PROVE  /\ RefundOf(q, n, g) \in Row /\ Fitted(Append(q, RefundOf(q, n, g)), given)
         /\ SalesIn(Append(q, RefundOf(q, n, g)), s) <= SalesIn(q, s)
<1> DEFINE r == RefundOf(q, n, g)
<1>1. Splits(g, q[n].parts, PartsIn(q, RefundsIn(q, n)))
  BY DEF Splits, LeftIn
<1>2. r \in Row /\ Fitted(Append(q, r), given)
  <2>1. r = [order |-> q[n].order, method |-> q[n].method, shift |-> q[n].shift, of |-> n,
             parts |-> Split(g, q[n].parts, PartsIn(q, RefundsIn(q, n)))]
    BY DEF RefundOf
  <2> HIDE DEF r
  <2> QED
    BY <1>1, <2>1, RefundFits
<1>3. q \in Seq(Row)
  BY DEF Fitted
<1>4. r.of # 0
  BY <1>3 DEF RefundOf
<1> HIDE DEF r
<1>5. SalesIn(Append(q, r), s) = SalesIn(q, s) + (IF r.shift = s THEN CashOf(r) ELSE 0)
  BY <1>2, <1>3, SalesMore
<1>6. SalesIn(q, s) \in Int /\ CashOf(r) \in Int /\ CashOf(r) <= 0
  BY <1>2, <1>3, <1>4, SalesType, CashType
<1>7. SalesIn(Append(q, r), s) <= SalesIn(q, s)
  BY <1>5, <1>6
<1> QED
  BY <1>2, <1>7 DEF r

\* A refund of one payment leaves the others what was left of them.
LEMMA OtherRefund ==
  ASSUME NEW q \in Seq(Row), NEW n \in DOMAIN q, NEW m \in DOMAIN q, n # m, NEW g, NEW h,
         RefundOf(q, n, g) \in Row
  PROVE  LET p == Append(q, RefundOf(q, n, g))
         IN m \in DOMAIN p /\ p[m] = q[m] /\ LeftIn(p, m) = LeftIn(q, m) /\ RefundOf(p, m, h) = RefundOf(q, m, h)
<1> DEFINE r == RefundOf(q, n, g)
           p == Append(q, r)
<1>1. r.of = n /\ r.of # m
  BY DEF RefundOf
<1> HIDE DEF r
<1>2. /\ p \in Seq(Row) /\ DOMAIN q \subseteq DOMAIN p /\ \A i \in DOMAIN q : p[i] = q[i]
  BY Appended DEF r
<1>3. RefundsIn(p, m) = RefundsIn(q, m)
  BY <1>1, RefundsMore DEF r
<1>4. RefundsIn(q, m) \in SUBSET DOMAIN q
  BY DEF RefundsIn
<1> HIDE DEF p
<1>5. PartsIn(p, RefundsIn(p, m)) = PartsIn(q, RefundsIn(q, m))
  <2>1. PartsIn(p, RefundsIn(q, m)) = PartsIn(q, RefundsIn(q, m))
    BY <1>2, <1>4, PartsKept
  <2> QED
    BY <1>3, <2>1
<1>6. m \in DOMAIN p /\ p[m] = q[m]
  BY <1>2
<1>7. LeftIn(p, m) = LeftIn(q, m) /\ RefundOf(p, m, h) = RefundOf(q, m, h)
  BY <1>5, <1>6 DEF LeftIn, RefundOf
<1> QED
  BY <1>6, <1>7 DEF p, r

LEMMA RefundKeeps ==
  ASSUME CounterInv, NEW o \in Order, NEW a \in Amount, Refund(o, a)
  PROVE  /\ CounterInv'
         /\ \A s : CashSales(s)' <= CashSales(s)
<1>1. Fitted(rows, quote) /\ rows \in Seq(Row)
  BY DEF CounterInv, Fitted
<1>2. UNCHANGED <<quote, shift, moved, request>>
  BY DEF Refund
<1>3. a \in Int /\ a > 0
  BY ShiftsAssumption
<1>4. /\ \A n \in Captures(o) : n \in DOMAIN rows /\ rows[n].of = 0
      /\ \A n, g : RefundRow(n, g) = RefundOf(rows, n, g)
      /\ \A n : Left(n) = LeftIn(rows, n)
  BY SumsOfRows DEF Captures, RefundRow, RefundShift, RefundOf, Left, LeftIn
<1>5. Fitted(rows', quote) /\ \A s : SalesIn(rows', s) <= SalesIn(rows, s)
  <2>1. CASE \E n \in Captures(o) : a <= Left(n) /\ rows' = Append(rows, RefundRow(n, a))
    <3>1. PICK n \in Captures(o) : a <= Left(n) /\ rows' = Append(rows, RefundRow(n, a))
      BY <2>1
    <3>2. n \in DOMAIN rows /\ rows[n].of = 0 /\ a <= LeftIn(rows, n) /\ rows' = Append(rows, RefundOf(rows, n, a))
      BY <1>4, <3>1
    <3> QED
      BY <1>1, <1>3, <3>2, OneRefund
  <2>2. CASE \E n, m \in Captures(o) :
                /\ n # m /\ Left(n) > 0 /\ Left(n) < a /\ a - Left(n) <= Left(m)
                /\ rows' = rows \o <<RefundRow(n, Left(n)), RefundRow(m, a - Left(n))>>
    <3>1. PICK n \in Captures(o), m \in Captures(o) :
                /\ n # m /\ Left(n) > 0 /\ Left(n) < a /\ a - Left(n) <= Left(m)
                /\ rows' = rows \o <<RefundRow(n, Left(n)), RefundRow(m, a - Left(n))>>
      BY <2>2
    <3> DEFINE g == LeftIn(rows, n)
               h == a - g
               first == RefundOf(rows, n, g)
               second == RefundOf(rows, m, h)
               p == Append(rows, first)
    <3>2. /\ n \in DOMAIN rows /\ rows[n].of = 0 /\ m \in DOMAIN rows /\ rows[m].of = 0 /\ n # m
          /\ g > 0 /\ g < a /\ h <= LeftIn(rows, m) /\ rows' = rows \o <<first, second>>
      BY <1>4, <3>1
    <3>3. g \in Int
      <4>1. RefundsIn(rows, n) \in SUBSET DOMAIN rows
        BY DEF RefundsIn
      <4>2. PartsIn(rows, RefundsIn(rows, n)) \in Tally /\ rows[n].parts \in Tally
        BY <1>1, <3>2, <4>1, PartsType, RowTypes
      <4> QED
        BY <4>2 DEF LeftIn, Tally
    <3>4. h \in Int /\ h > 0
      BY <1>3, <3>2, <3>3
    <3>5. first \in Row /\ Fitted(p, quote) /\ \A s : SalesIn(p, s) <= SalesIn(rows, s)
      <4>1. g <= LeftIn(rows, n)
        BY <3>3
      <4> HIDE DEF g
      <4> QED
        BY <1>1, <3>2, <3>3, <4>1, OneRefund
    <3>6. /\ m \in DOMAIN p /\ p[m] = rows[m] /\ LeftIn(p, m) = LeftIn(rows, m)
          /\ RefundOf(p, m, h) = second
      <4> HIDE DEF g, h
      <4> QED
        BY <1>1, <3>2, <3>5, OtherRefund
    <3> HIDE DEF g, h, first
    <3>7. second \in Row /\ Fitted(Append(p, second), quote) /\ \A s : SalesIn(Append(p, second), s) <= SalesIn(p, s)
      <4>1. p[m].of = 0 /\ h <= LeftIn(p, m) /\ m \in DOMAIN p
        BY <3>2, <3>6
      <4> HIDE DEF p, second
      <4> QED
        BY <3>4, <3>5, <3>6, <4>1, OneRefund
    <3>8. rows' = Append(p, second)
      <4> HIDE DEF second
      <4> QED
        BY <1>1, <3>2, <3>5, <3>7
    <3>9. ASSUME NEW s PROVE SalesIn(rows', s) <= SalesIn(rows, s)
      <4>1. rows' \in Seq(Row) /\ p \in Seq(Row)
        BY <3>5, <3>7, <3>8 DEF Fitted
      <4>2. SalesIn(rows', s) \in Int /\ SalesIn(p, s) \in Int /\ SalesIn(rows, s) \in Int
        BY <1>1, <4>1, SalesType
      <4>3. SalesIn(rows', s) <= SalesIn(p, s) /\ SalesIn(p, s) <= SalesIn(rows, s)
        BY <3>5, <3>7, <3>8
      <4> QED
        BY <4>2, <4>3
    <3> QED
      BY <3>7, <3>8, <3>9
  <2> QED
    BY <2>1, <2>2 DEF Refund
<1>6. CounterInv'
  BY <1>2, <1>5 DEF CounterInv, PaysQuoted, Asked
<1>7. \A s : CashSales(s)' <= CashSales(s)
  BY <1>5 DEF CashSales, SalesIn, RowsOfShift, InShift
<1> QED
  BY <1>6, <1>7

\* Every step of the shifts keeps the invariant.
LEMMA CounterNext ==
  ASSUME CounterInv, Next
  PROVE  CounterInv'
<1>1. ASSUME NEW c \in Client, NEW k \in Cashier, AskOpen(c, k)
      PROVE  CounterInv'
  <2> DEFINE r == [kind |-> "open", cashier |-> k, shift |-> NoShift]
  <2>1. r \in Requests /\ r.kind # "pay" /\ Ask(c, r)
    BY <1>1 DEF AskOpen, Requests
  <2> HIDE DEF r
  <2> QED
    BY <2>1, AskKeeps
<1>2. ASSUME NEW c \in Client, NEW k \in Cashier, NEW m \in Method, NEW s \in Shift \cup {NoShift},
             AskSale(c, k, m, s)
      PROVE  CounterInv'
  <2> DEFINE r == [kind |-> "sale", shift |-> s, method |-> m]
  <2>1. r \in Requests /\ r.kind # "pay" /\ Ask(c, r)
    BY <1>2 DEF AskSale, Requests
  <2> HIDE DEF r
  <2> QED
    BY <2>1, AskKeeps
<1>3. ASSUME NEW c \in Client, NEW k \in Cashier, NEW m \in Method, NEW s \in Shift \cup {NoShift},
             NEW o \in Order, NEW a \in Amount, AskPay(c, k, o, m, a, s)
      PROVE  CounterInv'
  <2> DEFINE r == [kind |-> "pay", shift |-> s, order |-> o, method |-> m, amount |-> a]
  <2>1. r \in Requests /\ r.order = o /\ quote[o] # <<>> /\ Ask(c, r)
    BY <1>3 DEF AskPay, Requests
  <2> HIDE DEF r
  <2> QED
    BY <2>1, AskKeeps
<1>4. ASSUME NEW c \in Client, NEW s \in Shift, AskClose(c, s)
      PROVE  CounterInv'
  <2> DEFINE r == [kind |-> "close", shift |-> s, sums |-> <<>>]
  <2>1. r \in Requests /\ r.kind # "pay" /\ Ask(c, r)
    BY <1>4 DEF AskClose, Requests
  <2> HIDE DEF r
  <2> QED
    BY <2>1, AskKeeps
<1>5. ASSUME NEW c \in Client, NEW s \in Shift, NEW a \in Moves, AskMove(c, s, a)
      PROVE  CounterInv'
  <2> DEFINE r == [kind |-> "move", shift |-> s, amount |-> a]
  <2>1. r \in Requests /\ r.kind # "pay" /\ Ask(c, r)
    BY <1>5 DEF AskMove, Requests
  <2> HIDE DEF r
  <2> QED
    BY <2>1, AskKeeps
<1>6. ASSUME NEW c \in Client, NEW s \in Shift, NEW a \in Opening, Open(c, s, a)
      PROVE  CounterInv'
  BY <1>6, OpenKeeps
<1>7. ASSUME NEW c \in Client, Move(c) \/ Count(c) \/ Close(c) \/ Pay(c) \/ Drop(c)
      PROVE  CounterInv'
  BY <1>7, MoveKeeps, CountKeeps, CloseKeeps, PayKeeps, DropKeeps
<1>8. ASSUME NEW o \in Order, NEW v \in QuoteOf, SellUnpaid(o, v) \/ \E c \in Client : Sell(c, o, v)
      PROVE  CounterInv'
  BY <1>8, SellUnpaidKeeps, SellKeeps
<1>9. ASSUME NEW o \in Order, NEW a \in Amount, Refund(o, a)
      PROVE  CounterInv'
  BY <1>9, RefundKeeps
<1> QED
  BY <1>1, <1>2, <1>3, <1>4, <1>5, <1>6, <1>7, <1>8, <1>9 DEF Next

LEMMA CounterStep == CounterInv /\ [SuiteNext]_suiteVars => CounterInv'
<1> SUFFICES ASSUME CounterInv, [SuiteNext]_suiteVars
             PROVE  CounterInv'
  OBVIOUS
<1>1. CASE Next
  BY <1>1, CounterNext
<1>2. CASE UNCHANGED shiftsVars
  <2>1. quote' = quote /\ rows' = rows /\ shift' = shift /\ moved' = moved /\ request' = request
    BY <1>2 DEF shiftsVars
  <2> QED
    BY <2>1 DEF CounterInv, PaysQuoted, Asked
<1> QED
  BY <1>1, <1>2 DEF SuiteNext, suiteVars

LEMMA CounterAlways == SuiteSpec => []CounterInv
<1>1. SuiteInit => CounterInv
  BY CounterInit DEF SuiteInit
<1> QED
  BY <1>1, CounterStep, PTL DEF SuiteSpec

\* The invariant says what the runs check.
LEMMA CounterInvSplits == CounterInv => SplitsStand
<1> SUFFICES ASSUME CounterInv PROVE SplitsAddUp /\ ShiftSalesNonNegative
  BY DEF SplitsStand
<1>1. Fitted(rows, quote)
  BY DEF CounterInv
<1>2. SplitsAddUp
  BY <1>1, SumsOfRows DEF SplitsAddUp, Fitted, CapturesFit, RefundsFit
<1>3. ShiftSalesNonNegative
  BY <1>1, SalesNonNegative, SumsOfRows DEF ShiftSalesNonNegative
<1> QED
  BY <1>2, <1>3

\* Over any sequence of payments and refunds, of any amounts, an order's revenue and VAT
\* are split without a rest, and no shift has sales below zero (payments.ts).
THEOREM MoneyAddsUp == SuiteSpec => []SplitsStand
BY CounterAlways, CounterInvSplits, PTL

-----------------------------------------------------------------------------
(* A closed shift that no request is upon stays as it is.                  *)

Final(s) == shift[s].status = "closed" /\ ~Found(s)

StaysFinal(s) ==
  /\ ~Found(s)'
  /\ shift'[s] = shift[s]
  /\ moved'[s] = moved[s]
  /\ CashSales(s)' <= CashSales(s)

LEMMA SalesInt ==
  ASSUME CounterInv, NEW s
  PROVE  CashSales(s) \in Int
<1>1. rows \in Seq(Row)
  BY DEF CounterInv, Fitted
<1> QED
  BY <1>1, SumsOfRows, SalesType

LEMMA AskLeaves ==
  ASSUME CounterInv, NEW s \in Shift, Final(s), NEW c \in Client, NEW r \in Requests, Ask(c, r),
         r = <<>> \/ r.shift # s
  PROVE  StaysFinal(s)
<1>1. ~Found(s)'
  BY DEF CounterInv, Final, Found, Ask
<1>2. CashSales(s)' = CashSales(s)
  BY DEF Ask, CashSales, RowsOfShift
<1> QED
  BY <1>1, <1>2, SalesInt DEF Ask, StaysFinal

LEMMA DoneLeaves ==
  ASSUME CounterInv, NEW s \in Shift, ~Found(s), NEW c \in Client, Done(c)
  PROVE  ~Found(s)'
BY DEF CounterInv, Found, Done

LEMMA NextLeaves ==
  ASSUME CounterInv, Next, NEW s \in Shift, Final(s)
  PROVE  StaysFinal(s)
<1>0. /\ shift \in [Shift -> ShiftRecord] /\ moved \in [Shift -> Seq(Int)]
      /\ shift[s].status = "closed" /\ NoShift # s /\ ~Found(s)
      /\ \A c \in Client : request[c] # <<>> => request[c].shift # s
  BY ShiftsAssumption DEF CounterInv, Final, Found
<1>1. ASSUME NEW c \in Client, NEW k \in Cashier, AskOpen(c, k)
      PROVE  StaysFinal(s)
  <2> DEFINE r == [kind |-> "open", cashier |-> k, shift |-> NoShift]
  <2>1. r \in Requests /\ r.shift # s /\ Ask(c, r)
    BY <1>0, <1>1 DEF AskOpen, Requests
  <2> HIDE DEF r
  <2> QED
    BY <2>1, AskLeaves
<1>2. ASSUME NEW c \in Client, NEW k \in Cashier, NEW m \in Method, NEW t \in Shift \cup {NoShift},
             AskSale(c, k, m, t)
      PROVE  StaysFinal(s)
  <2> DEFINE r == [kind |-> "sale", shift |-> t, method |-> m]
  <2>1. t # s
    BY <1>0, <1>2 DEF AskSale, ShiftsFound, OpenOf, IsOpen
  <2>2. r \in Requests /\ r.shift # s /\ Ask(c, r)
    BY <1>2, <2>1 DEF AskSale, Requests
  <2> HIDE DEF r
  <2> QED
    BY <2>2, AskLeaves
<1>3. ASSUME NEW c \in Client, NEW k \in Cashier, NEW m \in Method, NEW t \in Shift \cup {NoShift},
             NEW o \in Order, NEW a \in Amount, AskPay(c, k, o, m, a, t)
      PROVE  StaysFinal(s)
  <2> DEFINE r == [kind |-> "pay", shift |-> t, order |-> o, method |-> m, amount |-> a]
  <2>1. t # s
    BY <1>0, <1>3 DEF AskPay, ShiftsFound, OpenOf, IsOpen
  <2>2. r \in Requests /\ r.shift # s /\ Ask(c, r)
    BY <1>3, <2>1 DEF AskPay, Requests
  <2> HIDE DEF r
  <2> QED
    BY <2>2, AskLeaves
<1>4. ASSUME NEW c \in Client, NEW t \in Shift, AskClose(c, t)
      PROVE  StaysFinal(s)
  <2> DEFINE r == [kind |-> "close", shift |-> t, sums |-> <<>>]
  <2>1. r \in Requests /\ r.shift # s /\ Ask(c, r)
    BY <1>0, <1>4 DEF AskClose, IsOpen, Requests
  <2> HIDE DEF r
  <2> QED
    BY <2>1, AskLeaves
<1>5. ASSUME NEW c \in Client, NEW t \in Shift, NEW a \in Moves, AskMove(c, t, a)
      PROVE  StaysFinal(s)
  <2> DEFINE r == [kind |-> "move", shift |-> t, amount |-> a]
  <2>1. r \in Requests /\ r.shift # s /\ Ask(c, r)
    BY <1>0, <1>5 DEF AskMove, IsOpen, Requests
  <2> HIDE DEF r
  <2> QED
    BY <2>1, AskLeaves
<1>6. ASSUME rows' = rows PROVE CashSales(s)' <= CashSales(s)
  <2>1. CashSales(s)' = CashSales(s)
    BY <1>6 DEF CashSales, RowsOfShift
  <2> QED
    BY <2>1, SalesInt
<1>7. ASSUME NEW c \in Client, NEW t \in Shift, NEW a \in Opening, Open(c, t, a)
      PROVE  StaysFinal(s)
  <2>1. t # s
    BY <1>0, <1>7 DEF Open, Exists
  <2>2. shift'[s] = shift[s]
    BY <1>0, <1>7, <2>1 DEF Open
  <2>3. ~Found(s)' /\ moved' = moved /\ rows' = rows
    BY <1>0, <1>7, DoneLeaves DEF Open
  <2> QED
    BY <1>6, <2>2, <2>3 DEF StaysFinal
<1>8. ASSUME NEW c \in Client, Move(c)
      PROVE  StaysFinal(s)
  <2>1. request[c].shift # s
    BY <1>0, <1>8 DEF Move, Asked
  <2>2. moved'[s] = moved[s]
    BY <1>0, <1>8, <2>1 DEF Move
  <2>3. ~Found(s)' /\ shift' = shift /\ rows' = rows
    BY <1>0, <1>8, DoneLeaves DEF Move
  <2> QED
    BY <1>6, <2>2, <2>3 DEF StaysFinal
<1>9. ASSUME NEW c \in Client, Count(c)
      PROVE  StaysFinal(s)
  <2>1. request[c].shift # s /\ request[c] # <<>>
    BY <1>0, <1>9 DEF Count, Asked
  <2> DEFINE new == [request[c] EXCEPT !.sums = Append(@, Sums(request[c].shift)[Len(request[c].sums) + 1])]
  <2>2. request' = [request EXCEPT ![c] = new]
    BY <1>9 DEF Count
  <2>3. new.shift # s
    <3>1. request[c] \in [kind : {"close"}, shift : Shift, sums : Seq(Int)]
      BY <1>9 DEF CounterInv, Requests, Count, Asked
    <3> QED
      BY <2>1, <3>1
  <2> HIDE DEF new
  <2>4. ~Found(s)'
    BY <1>0, <2>2, <2>3 DEF CounterInv, Found
  <2> QED
    BY <1>6, <1>9, <2>4 DEF Count, StaysFinal
<1>10. ASSUME NEW c \in Client, Close(c)
       PROVE  StaysFinal(s)
  <2>1. request[c].shift # s
    BY <1>0, <1>10 DEF Close, Asked
  <2>2. shift'[s] = shift[s]
    BY <1>0, <1>10, <2>1 DEF Close
  <2>3. ~Found(s)' /\ moved' = moved /\ rows' = rows
    BY <1>0, <1>10, DoneLeaves DEF Close
  <2> QED
    BY <1>6, <2>2, <2>3 DEF StaysFinal
<1>11. ASSUME NEW c \in Client, Pay(c)
       PROVE  StaysFinal(s)
  <2>1. request[c].shift # s
    BY <1>0, <1>11 DEF Pay, Asked
  <2>2. CashSales(s)' = CashSales(s)
    BY <1>11, <2>1, PayKeeps
  <2>3. ~Found(s)' /\ moved' = moved /\ shift' = shift
    BY <1>0, <1>11, DoneLeaves DEF Pay
  <2> QED
    BY <2>2, <2>3, SalesInt DEF StaysFinal
<1>12. ASSUME NEW c \in Client, Drop(c)
       PROVE  StaysFinal(s)
  <2>1. ~Found(s)'
    BY <1>0, <1>12, DoneLeaves DEF Drop
  <2> QED
    BY <1>6, <1>12, <2>1 DEF Drop, StaysFinal
<1>13. ASSUME NEW o \in Order, NEW v \in QuoteOf, SellUnpaid(o, v)
       PROVE  StaysFinal(s)
  <2>1. ~Found(s)'
    BY <1>0, <1>13 DEF Found, SellUnpaid
  <2> QED
    BY <1>6, <1>13, <2>1 DEF SellUnpaid, StaysFinal
<1>14. ASSUME NEW o \in Order, NEW v \in QuoteOf, NEW c \in Client, Sell(c, o, v)
       PROVE  StaysFinal(s)
  <2>1. request[c].shift # s
    BY <1>0, <1>14 DEF Sell, Asked
  <2>2. CashSales(s)' = CashSales(s)
    BY <1>14, <2>1, SellKeeps
  <2>3. ~Found(s)' /\ moved' = moved /\ shift' = shift
    BY <1>0, <1>14, DoneLeaves DEF Sell
  <2> QED
    BY <2>2, <2>3, SalesInt DEF StaysFinal
<1>15. ASSUME NEW o \in Order, NEW a \in Amount, Refund(o, a)
       PROVE  StaysFinal(s)
  <2>1. CashSales(s)' <= CashSales(s)
    BY <1>15, RefundKeeps
  <2>2. moved' = moved /\ shift' = shift /\ request' = request
    BY <1>15 DEF Refund
  <2>3. ~Found(s)'
    BY <1>0, <2>2 DEF Found
  <2> QED
    BY <2>1, <2>2, <2>3 DEF StaysFinal
<1> QED
  BY <1>1, <1>2, <1>3, <1>4, <1>5, <1>7, <1>8, <1>9, <1>10, <1>11, <1>12, <1>13, <1>14, <1>15 DEF Next

-----------------------------------------------------------------------------
(* Logins: a lock comes with the failure that reaches the threshold and    *)
(* goes by time, or by a login after that.                                 *)

LoginRecord == [step : {"fail", "finalize"}, user : User, bucket : Logins!Bucket]

AccessInv ==
  /\ failed \in [User -> Nat]
  /\ lock \in [User -> {"none", "ahead", "past"}]
  /\ login \in [Attempt -> {<<>>} \cup LoginRecord]
  /\ LockAtThreshold

\* A lock is as it was, or has passed.
LockKept ==
  \A u \in User : lock[u] = "ahead" => lock'[u] \in {"ahead", "past"} /\ failed'[u] = failed[u]

LEMMA AccessInit == Logins!Init => AccessInv
<1> SUFFICES ASSUME Logins!Init PROVE AccessInv
  OBVIOUS
<1>1. Threshold \in Nat \ {0}
  BY CounterAssumption DEF Logins!AccessAssumption
<1>2. /\ failed = [u \in User |-> 0] /\ lock = [u \in User |-> "none"]
      /\ login = [r \in Attempt |-> <<>>]
  BY DEF Logins!Init
<1>3. LockAtThreshold
  BY <1>1, <1>2 DEF LockAtThreshold, Logins!LockAtThreshold
<1> QED
  BY <1>2, <1>3 DEF AccessInv

LEMMA LocksUnchanged ==
  ASSUME AccessInv, failed' = failed, lock' = lock, login' \in [Attempt -> {<<>>} \cup LoginRecord]
  PROVE  AccessInv' /\ LockKept
BY DEF AccessInv, LockKept, LockAtThreshold, Logins!LockAtThreshold

LEMMA LoginStarts ==
  ASSUME AccessInv, NEW r \in Attempt, NEW step \in {"fail", "finalize"}, NEW u \in User,
         NEW k \in Logins!Bucket, Logins!Begin(r, step, u, k)
  PROVE  AccessInv' /\ LockKept
<1> DEFINE new == [step |-> step, user |-> u, bucket |-> k]
<1>1. new \in LoginRecord
  BY DEF LoginRecord
<1>2. login' = [login EXCEPT ![r] = new] /\ failed' = failed /\ lock' = lock
  BY DEF Logins!Begin
<1> HIDE DEF new
<1>3. login' \in [Attempt -> {<<>>} \cup LoginRecord]
  BY <1>1, <1>2 DEF AccessInv
<1> QED
  BY <1>2, <1>3, LocksUnchanged

LEMMA LoginEnds ==
  ASSUME AccessInv, NEW r, Logins!Answer(r)
  PROVE  login' \in [Attempt -> {<<>>} \cup LoginRecord]
BY DEF AccessInv, Logins!Answer

\* The user of a login that is under way.
LEMMA LoginUser ==
  ASSUME AccessInv, NEW r \in Attempt, NEW step, Logins!At(r, step)
  PROVE  login[r].user \in User
BY DEF AccessInv, Logins!At, LoginRecord

LEMMA FailCounts ==
  ASSUME AccessInv, NEW r \in Attempt, Logins!Fail(r)
  PROVE  AccessInv' /\ LockKept
<1> DEFINE v == login[r].user
           n == Logins!BaseCount(v) + 1
<1>1. Threshold \in Nat \ {0}
  BY CounterAssumption DEF Logins!AccessAssumption
<1>2. v \in User
  BY LoginUser DEF Logins!Fail
<1>3. failed \in [User -> Nat] /\ lock \in [User -> {"none", "ahead", "past"}] /\ LockAtThreshold
  BY DEF AccessInv
<1>4. login' \in [Attempt -> {<<>>} \cup LoginRecord]
  BY LoginEnds DEF Logins!Fail
<1>5. CASE active[v] /\ lock[v] # "ahead"
  <2>1. /\ failed' = [failed EXCEPT ![v] = n]
        /\ lock' = [lock EXCEPT ![v] = IF n >= Threshold THEN "ahead" ELSE "none"]
    BY <1>5 DEF Logins!Fail
  <2>2. n \in Nat /\ n <= Threshold
    BY <1>1, <1>2, <1>3, <1>5 DEF LockAtThreshold, Logins!LockAtThreshold, Logins!BaseCount
  <2> HIDE DEF n, v
  <2>3. failed' \in [User -> Nat] /\ lock' \in [User -> {"none", "ahead", "past"}]
    BY <1>3, <2>1, <2>2
  <2>4. LockAtThreshold'
    BY <1>1, <1>3, <2>1, <2>2 DEF LockAtThreshold, Logins!LockAtThreshold
  <2>5. LockKept
    BY <1>3, <1>5, <2>1 DEF LockKept
  <2> QED
    BY <1>4, <2>3, <2>4, <2>5 DEF AccessInv
<1>6. CASE ~(active[v] /\ lock[v] # "ahead")
  <2>1. failed' = failed /\ lock' = lock
    BY <1>6 DEF Logins!Fail
  <2> QED
    BY <1>4, <2>1, LocksUnchanged
<1> QED
  BY <1>5, <1>6

LEMMA FinalizeResets ==
  ASSUME AccessInv, NEW r \in Attempt, Logins!Finalize(r)
  PROVE  AccessInv' /\ LockKept
<1> DEFINE v == login[r].user
<1>1. Threshold \in Nat \ {0}
  BY CounterAssumption DEF Logins!AccessAssumption
<1>2. v \in User
  BY LoginUser DEF Logins!Finalize
<1>3. failed \in [User -> Nat] /\ lock \in [User -> {"none", "ahead", "past"}] /\ LockAtThreshold
  BY DEF AccessInv
<1>4. login' \in [Attempt -> {<<>>} \cup LoginRecord]
  BY LoginEnds DEF Logins!Finalize
<1>5. CASE active[v] /\ lock[v] # "ahead"
  <2>1. failed' = [failed EXCEPT ![v] = 0] /\ lock' = [lock EXCEPT ![v] = "none"]
    BY <1>5 DEF Logins!Finalize, Logins!LockedNow
  <2> HIDE DEF v
  <2>2. failed' \in [User -> Nat] /\ lock' \in [User -> {"none", "ahead", "past"}]
    BY <1>3, <2>1
  <2>3. LockAtThreshold'
    BY <1>1, <1>3, <2>1 DEF LockAtThreshold, Logins!LockAtThreshold
  <2>4. LockKept
    BY <1>3, <1>5, <2>1 DEF LockKept
  <2> QED
    BY <1>4, <2>2, <2>3, <2>4 DEF AccessInv
<1>6. CASE ~(active[v] /\ lock[v] # "ahead")
  <2>1. failed' = failed /\ lock' = lock
    BY <1>6 DEF Logins!Finalize, Logins!LockedNow
  <2> QED
    BY <1>4, <2>1, LocksUnchanged
<1> QED
  BY <1>5, <1>6

LEMMA LockPassing ==
  ASSUME AccessInv, NEW u \in User, Logins!LockPasses(u)
  PROVE  AccessInv' /\ LockKept
<1>1. lock[u] = "ahead" /\ lock' = [lock EXCEPT ![u] = "past"] /\ failed' = failed /\ login' = login
  BY DEF Logins!LockPasses
<1>2. lock' \in [User -> {"none", "ahead", "past"}]
  BY <1>1 DEF AccessInv
<1>3. LockAtThreshold'
  BY <1>1 DEF AccessInv, LockAtThreshold, Logins!LockAtThreshold
<1>4. LockKept
  BY <1>1 DEF AccessInv, LockKept
<1> QED
  BY <1>1, <1>2, <1>3, <1>4 DEF AccessInv

LEMMA AccessNext ==
  ASSUME AccessInv, Logins!Next
  PROVE  AccessInv' /\ LockKept
<1>1. ASSUME NEW r \in Attempt, NEW u \in User, Logins!PinLogin(r, u)
      PROVE  AccessInv' /\ LockKept
  <2>1. "pin" \in Logins!Bucket /\ Logins!Begin(r, "finalize", u, "pin")
    BY <1>1 DEF Logins!Bucket, Logins!PinLogin
  <2> QED
    BY <2>1, LoginStarts
<1>2. ASSUME NEW r \in Attempt, NEW u \in User, NEW matched \in BOOLEAN, Logins!Login(r, u, matched)
      PROVE  AccessInv' /\ LockKept
  <2>1. u \in Logins!Bucket /\ (Logins!Begin(r, "finalize", u, u) \/ Logins!Begin(r, "fail", u, u))
    BY <1>2 DEF Logins!Bucket, Logins!Login
  <2> QED
    BY <2>1, LoginStarts
<1>3. ASSUME NEW r \in Attempt, Logins!Fail(r) \/ Logins!Finalize(r)
      PROVE  AccessInv' /\ LockKept
  BY <1>3, FailCounts, FinalizeResets
<1>4. ASSUME NEW k, Logins!Refuse(k) \/ Logins!WindowPasses(k)
      PROVE  AccessInv' /\ LockKept
  <2>1. failed' = failed /\ lock' = lock /\ login' = login
    BY <1>4 DEF Logins!Refuse, Logins!WindowPasses
  <2> QED
    BY <2>1, LocksUnchanged DEF AccessInv
<1>5. ASSUME NEW u \in User, Logins!LockPasses(u)
      PROVE  AccessInv' /\ LockKept
  BY <1>5, LockPassing
<1>6. ASSUME NEW u \in User, NEW b \in BOOLEAN, Logins!SetActive(u, b)
      PROVE  AccessInv' /\ LockKept
  <2>1. failed' = failed /\ lock' = lock /\ login' = login
    BY <1>6 DEF Logins!SetActive
  <2> QED
    BY <2>1, LocksUnchanged DEF AccessInv
<1>7. ASSUME Logins!Restart
      PROVE  AccessInv' /\ LockKept
  <2>1. failed' = failed /\ lock' = lock /\ login' \in [Attempt -> {<<>>} \cup LoginRecord]
    BY <1>7 DEF Logins!Restart
  <2> QED
    BY <2>1, LocksUnchanged
<1> QED
  BY <1>1, <1>2, <1>3, <1>4, <1>5, <1>6, <1>7 DEF Logins!Next

LEMMA AccessStep == AccessInv /\ [SuiteNext]_suiteVars => AccessInv' /\ LockKept
<1> SUFFICES ASSUME AccessInv, [SuiteNext]_suiteVars
             PROVE  AccessInv' /\ LockKept
  OBVIOUS
<1>1. CASE Logins!Next
  BY <1>1, AccessNext
<1>2. CASE UNCHANGED accessVars
  <2>1. failed' = failed /\ lock' = lock /\ login' = login
    BY <1>2 DEF accessVars
  <2> QED
    BY <2>1, LocksUnchanged DEF AccessInv
<1> QED
  BY <1>1, <1>2 DEF SuiteNext, suiteVars

LEMMA AccessAlways == SuiteSpec => []AccessInv
<1>1. SuiteInit => AccessInv
  BY AccessInit DEF SuiteInit
<1>2. AccessInv /\ [SuiteNext]_suiteVars => AccessInv'
  BY AccessStep
<1> QED
  BY <1>1, <1>2, PTL DEF SuiteSpec

\* For any number of logins at a time and any threshold, the lock comes exactly with the
\* failure that reaches the threshold, and the count stops there (auth.ts).
THEOREM LocksAtThreshold == SuiteSpec => []LockAtThreshold
<1>1. AccessInv => LockAtThreshold
  BY DEF AccessInv
<1> QED
  BY <1>1, AccessAlways, PTL

\* A closed shift that no request is upon keeps its count and its cash, and its sales
\* only shrink; a lock ends by time alone (shifts.ts, auth.ts).
THEOREM ClosedForGood == SuiteSpec => ClosedStays
<1> DEFINE Stand == \A s \in Shift : Final(s) => StaysFinal(s)
<1>1. CounterInv /\ [SuiteNext]_suiteVars => [Stand]_vars
  <2> SUFFICES ASSUME CounterInv, [SuiteNext]_suiteVars
               PROVE  [Stand]_vars
    OBVIOUS
  <2>1. CASE Next
    BY <2>1, NextLeaves
  <2>2. CASE UNCHANGED shiftsVars
    BY <2>2 DEF shiftsVars, vars
  <2> QED
    BY <2>1, <2>2 DEF SuiteNext, suiteVars
<1>2. AccessInv /\ [SuiteNext]_suiteVars => [LockKept]_(Logins!vars)
  BY AccessStep
<1>3. SuiteSpec => [][Stand]_vars
  <2> HIDE DEF Stand
  <2> QED
    BY <1>1, CounterAlways, PTL DEF SuiteSpec
<1>4. SuiteSpec => [][LockKept]_(Logins!vars)
  BY <1>2, AccessAlways, PTL DEF SuiteSpec
<1> QED
  BY <1>3, <1>4 DEF ClosedStays, ClosedStands, Logins!LockHolds, LockKept, Final, StaysFinal

-----------------------------------------------------------------------------
(* The till.                                                               *)


\* The loads of sources that are not cancelled are for the type of the draft, and the
\* sources to choose from are none or those of that type.
ChoicesInv ==
  /\ draft \in Tills!Draft
  /\ sourceCalls \in SUBSET [type : Tills!OrderType, live : BOOLEAN]
  /\ \A c \in sourceCalls : c.live => c.type = draft.type
  /\ sources \in SUBSET Sources
  /\ zones \in SUBSET Zones
  /\ sources = {} \/ sources = SourcesFor[draft.type]
  /\ Tills!ChoicesOffered

SourcesOffered == draft.source # None => draft.source \in sources
ZonesOffered == draft.zone # None => draft.type = "delivery" /\ draft.zone \in zones
AddressIsTheirs == address # None => address = customer

\* The parts of the invariant that an event leaves to show.
LEMMA ChoicesParts ==
  ASSUME draft \in Tills!Draft,
         sourceCalls \in SUBSET [type : Tills!OrderType, live : BOOLEAN],
         \A c \in sourceCalls : c.live => c.type = draft.type,
         sources \in SUBSET Sources, zones \in SUBSET Zones,
         sources = {} \/ sources = SourcesFor[draft.type],
         SourcesOffered, ZonesOffered, AddressIsTheirs
  PROVE  ChoicesInv
BY DEF ChoicesInv, Tills!ChoicesOffered, SourcesOffered, ZonesOffered, AddressIsTheirs

LEMMA ChoicesHave ==
  ASSUME ChoicesInv
  PROVE  SourcesOffered /\ ZonesOffered /\ AddressIsTheirs
BY DEF ChoicesInv, Tills!ChoicesOffered, SourcesOffered, ZonesOffered, AddressIsTheirs

LEMMA ChoicesInit == Tills!Init => ChoicesInv
<1> SUFFICES ASSUME Tills!Init PROVE ChoicesInv
  OBVIOUS
<1>1. draft \in Tills!Draft /\ draft.source = None /\ draft.zone = None
  BY CounterAssumption DEF Tills!TillAssumption, Tills!Init, Tills!Draft, Tills!OrderType
<1>2. sourceCalls = {} /\ sources = {} /\ zones = {} /\ address = None
  BY DEF Tills!Init
<1> QED
  BY <1>1, <1>2 DEF ChoicesInv, Tills!ChoicesOffered

\* An event that leaves the draft and the lists to choose from.
LEMMA ListsKept ==
  ASSUME ChoicesInv, draft' = draft, sources' = sources, zones' = zones,
         sourceCalls' \subseteq sourceCalls, AddressIsTheirs'
  PROVE  ChoicesInv'
BY DEF ChoicesInv, Tills!ChoicesOffered, AddressIsTheirs

\* The sources of the type that is chosen by now.
LEMMA SourcesArrive ==
  ASSUME ChoicesInv, NEW c \in sourceCalls, Tills!SourcesAnswer(c)
  PROVE  ChoicesInv'
<1>1. /\ draft' = draft /\ zones' = zones /\ address' = address /\ customer' = customer
      /\ sourceCalls' = sourceCalls \ {c}
      /\ sources' = IF c.live THEN SourcesFor[c.type] ELSE sources
  BY DEF Tills!SourcesAnswer, Tills!Heard, Tills!delivery
<1>2. CASE c.live
  <2>1. draft.type \in Tills!OrderType /\ sources' = SourcesFor[draft.type] /\ SourcesFor[draft.type] \in SUBSET Sources
    BY <1>1, <1>2, CounterAssumption DEF Tills!TillAssumption, ChoicesInv, Tills!Draft
  <2> QED
    BY <1>1, <2>1 DEF ChoicesInv, Tills!ChoicesOffered
<1>3. CASE ~c.live
  <2>1. AddressIsTheirs'
    BY <1>1, ChoicesHave DEF AddressIsTheirs
  <2> QED
    BY <1>1, <1>3, <2>1, ListsKept
<1> QED
  BY <1>2, <1>3

\* A draft that is reset has no source, and loads that were under way are cancelled.
LEMMA ReloadKeeps ==
  ASSUME ChoicesInv, NEW b, NEW t \in Tills!OrderType, Tills!Reload(b, t),
         draft' \in Tills!Draft, draft'.type = t, draft'.source = None,
         draft'.zone # None => t = "delivery" /\ draft'.zone = draft.zone,
         address' = address, customer' = customer
  PROVE  ChoicesInv'
<1>1. sources' = {}
  BY DEF Tills!Reload
<1> DEFINE Call == [type : Tills!OrderType, live : BOOLEAN]
           asked == [type |-> t, live |-> TRUE]
<1>2. ASSUME NEW c \in Tills!Cancelled(sourceCalls) PROVE c \in Call /\ ~c.live
  <2>1. PICK x \in sourceCalls : c = [x EXCEPT !.live = FALSE]
    BY DEF Tills!Cancelled
  <2>2. x \in Call
    BY DEF ChoicesInv
  <2> QED
    BY <2>1, <2>2
<1>3. \A c \in sourceCalls' : c \in Call /\ (c.live => c.type = t)
  <2>1. \A c \in sourceCalls' : c \in Tills!Cancelled(sourceCalls) \/ c = asked
    BY DEF Tills!Reload
  <2>2. asked \in Call /\ asked.type = t
    OBVIOUS
  <2> QED
    BY <1>2, <2>1, <2>2
<1>4. zones' \in SUBSET Zones /\ (draft'.zone # None => draft'.zone \in zones')
  BY DEF Tills!Reload, ChoicesInv, Tills!ChoicesOffered
<1>5. AddressIsTheirs'
  BY ChoicesHave DEF AddressIsTheirs
<1> QED
  BY <1>1, <1>3, <1>4, <1>5 DEF ChoicesInv, Tills!ChoicesOffered, AddressIsTheirs

\* An edit that keeps the type and the lists.
LEMMA EditKeeps ==
  ASSUME ChoicesInv, draft' \in Tills!Draft, draft'.type = draft.type,
         draft'.source # None => draft'.source = draft.source \/ draft'.source \in sources,
         draft'.zone # None => draft'.zone = draft.zone \/ (draft.type = "delivery" /\ draft'.zone \in zones),
         sources' = sources, zones' = zones, sourceCalls' = sourceCalls, AddressIsTheirs'
  PROVE  ChoicesInv'
<1>1. draft.type \in Tills!OrderType
  BY DEF ChoicesInv, Tills!Draft
<1>2. draft'.source # None => draft'.source \in sources /\ sources = SourcesFor[draft.type]
  BY DEF ChoicesInv, Tills!ChoicesOffered
<1>3. draft'.zone # None => draft.type = "delivery" /\ draft'.zone \in zones
  BY DEF ChoicesInv, Tills!ChoicesOffered
<1> QED
  BY <1>2, <1>3 DEF ChoicesInv, Tills!ChoicesOffered, AddressIsTheirs

LEMMA ChooseBranchKeeps ==
  ASSUME ChoicesInv, NEW b \in Branches, Tills!ChooseBranch(b)
  PROVE  ChoicesInv'
<1> DEFINE t == draft.type
           d == Tills!Reset([draft EXCEPT !.branch = b], t)
<1>1. draft \in Tills!Draft /\ t \in Tills!OrderType
  BY DEF ChoicesInv, Tills!Draft
<1>2. d \in Tills!Draft /\ d.type = t /\ d.source = None /\ d.zone = IF t = "delivery" THEN draft.zone ELSE None
  BY <1>1, CounterAssumption DEF Tills!TillAssumption, Tills!Reset, Tills!Draft
<1>3. draft' = d /\ Tills!Reload(b, t) /\ address' = address /\ customer' = customer
  BY DEF Tills!ChooseBranch, Tills!Becomes, Tills!delivery
<1> HIDE DEF d
<1> QED
  BY <1>1, <1>2, <1>3, ReloadKeeps

LEMMA ChooseTypeKeeps ==
  ASSUME ChoicesInv, NEW t \in Tills!OrderType, Tills!ChooseType(t)
  PROVE  ChoicesInv'
<1> DEFINE d == [Tills!Reset(draft, t) EXCEPT !.zone = None]
<1>1. draft \in Tills!Draft
  BY DEF ChoicesInv
<1>2. d \in Tills!Draft /\ d.type = t /\ d.source = None /\ d.zone = None
  BY <1>1, CounterAssumption DEF Tills!TillAssumption, Tills!Reset, Tills!Draft
<1>3. draft' = d /\ address' = address /\ customer' = customer
  BY DEF Tills!ChooseType, Tills!Becomes, Tills!delivery
<1>4. CASE t = draft.type
  <2>1. sources' = sources /\ zones' = zones /\ sourceCalls' = sourceCalls
    BY <1>4 DEF Tills!ChooseType
  <2>2. AddressIsTheirs'
    BY <1>3, ChoicesHave DEF AddressIsTheirs
  <2> HIDE DEF d
  <2> QED
    BY <1>2, <1>3, <1>4, <2>1, <2>2, EditKeeps
<1>5. CASE t # draft.type
  <2>1. Tills!Reload(draft.branch, t)
    BY <1>5 DEF Tills!ChooseType
  <2> HIDE DEF d
  <2> QED
    BY <1>2, <1>3, <2>1, ReloadKeeps
<1> QED
  BY <1>4, <1>5

LEMMA SettingsAnswerKeeps ==
  ASSUME ChoicesInv, NEW b, Tills!SettingsAnswer(b)
  PROVE  ChoicesInv'
<1> DEFINE other == CHOOSE t \in Tills!OrderType : t # draft.type
           switch == draft.type \notin TypesOf[b] /\ other \in TypesOf[b]
           d == Tills!Reset(draft, other)
<1>1. draft \in Tills!Draft /\ draft.type \in Tills!OrderType
  BY DEF ChoicesInv, Tills!Draft
<1>2. other \in Tills!OrderType /\ other # draft.type
  <2>1. \E t \in Tills!OrderType : t # draft.type
    BY <1>1 DEF Tills!OrderType
  <2> QED
    BY <2>1
<1>3. address' = address /\ customer' = customer
  BY DEF Tills!SettingsAnswer, Tills!delivery
<1>4. CASE switch
  <2>1. draft' = d /\ Tills!Reload(draft.branch, other)
    BY <1>4 DEF Tills!SettingsAnswer, Tills!Becomes
  <2> HIDE DEF other
  <2>2. d \in Tills!Draft /\ d.type = other /\ d.source = None /\ d.zone = IF other = "delivery" THEN draft.zone ELSE None
    BY <1>1, <1>2, CounterAssumption DEF Tills!TillAssumption, Tills!Reset, Tills!Draft
  <2> HIDE DEF d
  <2> QED
    BY <1>2, <1>3, <2>1, <2>2, ReloadKeeps
<1>5. CASE ~switch
  <2>1. draft' = draft /\ sources' = sources /\ zones' = zones /\ sourceCalls' = sourceCalls
    BY <1>5 DEF Tills!SettingsAnswer, Tills!Becomes
  <2>2. AddressIsTheirs'
    BY <1>3, ChoicesHave DEF AddressIsTheirs
  <2> QED
    BY <2>1, <2>2, ListsKept
<1> QED
  BY <1>4, <1>5

LEMMA ZonesAnswerKeeps ==
  ASSUME ChoicesInv, NEW live, NEW on \in SUBSET Zones, Tills!ZonesAnswer(live, on)
  PROVE  ChoicesInv'
<1> DEFINE d == [draft EXCEPT !.zone = IF @ \in on THEN @ ELSE None]
<1>1. draft \in Tills!Draft
  BY DEF ChoicesInv
<1>2. sources' = sources /\ sourceCalls' = sourceCalls /\ address' = address /\ customer' = customer
  BY DEF Tills!ZonesAnswer, Tills!delivery
<1>3. AddressIsTheirs'
  BY <1>2, ChoicesHave DEF AddressIsTheirs
<1>4. CASE live
  <2>1. draft' = d /\ zones' = on
    BY <1>4 DEF Tills!ZonesAnswer, Tills!Becomes
  <2>2. /\ d \in Tills!Draft /\ d.type = draft.type /\ d.source = draft.source
        /\ d.zone = IF draft.zone \in on THEN draft.zone ELSE None
    BY <1>1 DEF Tills!Draft
  <2> HIDE DEF d
  <2> QED
    BY <1>2, <1>3, <2>1, <2>2 DEF ChoicesInv, Tills!ChoicesOffered, AddressIsTheirs
<1>5. CASE ~live
  <2>1. draft' = draft /\ zones' = zones
    BY <1>5 DEF Tills!ZonesAnswer, Tills!Becomes
  <2> QED
    BY <1>2, <1>3, <2>1, ListsKept
<1> QED
  BY <1>4, <1>5

\* The edits of the cashier.
LEMMA CashierKeeps ==
  ASSUME ChoicesInv,
         \/ Tills!AddProduct \/ \E n \in 0..draft.qty : Tills!RemovePieces(n)
         \/ Tills!EnterDiscount
         \/ \E s \in sources \cup {None} : Tills!PickSource(s)
         \/ \E z \in zones \cup {None} : Tills!PickZone(z)
  PROVE  ChoicesInv'
<1>1. draft \in Tills!Draft /\ draft.qty \in 0..MaxQty /\ sources \in SUBSET Sources /\ zones \in SUBSET Zones
  BY DEF ChoicesInv, Tills!Draft
<1>2. ASSUME NEW d, Tills!Edit(d)
      PROVE  /\ draft' = d /\ sources' = sources /\ zones' = zones /\ sourceCalls' = sourceCalls
             /\ AddressIsTheirs'
  BY <1>2, ChoicesHave DEF Tills!Edit, Tills!Becomes, Tills!delivery, AddressIsTheirs
<1>3. ASSUME Tills!AddProduct PROVE ChoicesInv'
  <2> DEFINE d == [draft EXCEPT !.qty = @ + 1]
  <2>1. d \in Tills!Draft /\ d.type = draft.type /\ d.source = draft.source /\ d.zone = draft.zone
    BY <1>1, <1>3, CounterAssumption DEF Tills!TillAssumption, Tills!AddProduct, Tills!Draft
  <2>2. Tills!Edit(d)
    BY <1>3 DEF Tills!AddProduct
  <2> HIDE DEF d
  <2> QED
    BY <1>2, <2>1, <2>2, EditKeeps
<1>4. ASSUME NEW n \in 0..draft.qty, Tills!RemovePieces(n) PROVE ChoicesInv'
  <2> DEFINE d == [draft EXCEPT !.qty = n]
  <2>1. d \in Tills!Draft /\ d.type = draft.type /\ d.source = draft.source /\ d.zone = draft.zone
    BY <1>1, CounterAssumption DEF Tills!TillAssumption, Tills!Draft
  <2>2. Tills!Edit(d)
    BY <1>4 DEF Tills!RemovePieces
  <2> HIDE DEF d
  <2> QED
    BY <1>2, <2>1, <2>2, EditKeeps
<1>5. ASSUME Tills!EnterDiscount PROVE ChoicesInv'
  <2> DEFINE d == [draft EXCEPT !.discount = 1 - @]
  <2>1. d \in Tills!Draft /\ d.type = draft.type /\ d.source = draft.source /\ d.zone = draft.zone
    BY <1>1 DEF Tills!Draft
  <2>2. Tills!Edit(d)
    BY <1>5 DEF Tills!EnterDiscount
  <2> HIDE DEF d
  <2> QED
    BY <1>2, <2>1, <2>2, EditKeeps
<1>6. ASSUME NEW s \in sources \cup {None}, Tills!PickSource(s) PROVE ChoicesInv'
  <2> DEFINE d == [draft EXCEPT !.source = s]
  <2>1. d \in Tills!Draft /\ d.type = draft.type /\ d.source = s /\ d.zone = draft.zone
    BY <1>1 DEF Tills!Draft
  <2>2. Tills!Edit(d)
    BY <1>6 DEF Tills!PickSource
  <2> HIDE DEF d
  <2> QED
    BY <1>2, <2>1, <2>2, EditKeeps
<1>7. ASSUME NEW z \in zones \cup {None}, Tills!PickZone(z) PROVE ChoicesInv'
  <2> DEFINE d == [draft EXCEPT !.zone = z]
  <2>1. d \in Tills!Draft /\ d.type = draft.type /\ d.source = draft.source /\ d.zone = z
    BY <1>1 DEF Tills!Draft
  <2>2. Tills!Edit(d) /\ draft.type = "delivery"
    BY <1>7 DEF Tills!PickZone
  <2> HIDE DEF d
  <2> QED
    BY <1>2, <2>1, <2>2, EditKeeps
<1> QED
  BY <1>3, <1>4, <1>5, <1>6, <1>7

LEMMA AcceptedKeeps ==
  ASSUME ChoicesInv, Tills!OrderAccepted
  PROVE  ChoicesInv'
<1> DEFINE d == [draft EXCEPT !.qty = 0, !.discount = 0, !.zone = None]
<1>1. d \in Tills!Draft /\ d.type = draft.type /\ d.source = draft.source /\ d.zone = None
  <2>1. draft \in Tills!Draft
    BY DEF ChoicesInv
  <2>2. 0 \in 0..MaxQty /\ 0 \in {0, 1} /\ None \in Zones \cup {None}
    BY CounterAssumption DEF Tills!TillAssumption
  <2> QED
    BY <2>1, <2>2 DEF Tills!Draft
<1>2. /\ draft' = d /\ sources' = sources /\ zones' = zones /\ sourceCalls' = sourceCalls
      /\ address' = None
  BY DEF Tills!OrderAccepted, Tills!Becomes, Tills!calls
<1> HIDE DEF d
<1>3. AddressIsTheirs'
  BY <1>2 DEF AddressIsTheirs
<1> QED
  BY <1>1, <1>2, <1>3, EditKeeps

\* Customers, and what the draft does not take part in.
LEMMA OthersKeep ==
  ASSUME ChoicesInv,
         \/ Tills!TimerFires \/ \E ok \in BOOLEAN : Tills!QuoteAnswer(ok)
         \/ Tills!MenuAnswer \/ Tills!LoadFails
         \/ \E c \in Customers \cup {None} : Tills!PickCustomer(c)
         \/ \E a \in {None, customer} : Tills!PickAddress(a)
         \/ \E c \in Customers : Tills!Save(c)
         \/ \E ok \in BOOLEAN : Tills!SaveEnds(ok)
         \/ Tills!FireOrder \/ Tills!OrderFailed \/ Tills!Refreshed
  PROVE  ChoicesInv'
<1>1. draft' = draft /\ sources' = sources /\ zones' = zones /\ sourceCalls' \subseteq sourceCalls
  BY DEF Tills!TimerFires, Tills!QuoteAnswer, Tills!MenuAnswer, Tills!LoadFails, Tills!PickCustomer, Tills!PickAddress, Tills!Save, Tills!SaveEnds,
         Tills!FireOrder, Tills!OrderFailed, Tills!Refreshed, Tills!lists, Tills!calls
<1>2. AddressIsTheirs'
  BY ChoicesHave DEF AddressIsTheirs, Tills!TimerFires, Tills!QuoteAnswer, Tills!MenuAnswer, Tills!LoadFails, Tills!PickCustomer, Tills!PickAddress,
         Tills!Save, Tills!SaveEnds, Tills!Saved, Tills!Select, Tills!FireOrder, Tills!OrderFailed, Tills!Refreshed, Tills!delivery
<1> QED
  BY <1>1, <1>2, ListsKept

LEMMA ChoicesStep == ChoicesInv /\ [SuiteNext]_suiteVars => ChoicesInv'
<1> SUFFICES ASSUME ChoicesInv, [SuiteNext]_suiteVars
             PROVE  ChoicesInv'
  OBVIOUS
<1>1. ASSUME UNCHANGED tillVars PROVE ChoicesInv'
  <2>1. /\ draft' = draft /\ sources' = sources /\ zones' = zones /\ sourceCalls' = sourceCalls
        /\ address' = address /\ customer' = customer
    BY <1>1 DEF tillVars
  <2>2. AddressIsTheirs'
    BY <2>1, ChoicesHave DEF AddressIsTheirs
  <2> QED
    BY <2>1, <2>2, ListsKept
<1>2. ASSUME Tills!Next PROVE ChoicesInv'
  BY <1>2, OthersKeep, CashierKeeps, ChooseBranchKeeps, ChooseTypeKeeps, SettingsAnswerKeeps,
     SourcesArrive, ZonesAnswerKeeps, AcceptedKeeps DEF Tills!Next
<1> QED
  BY <1>1, <1>2 DEF SuiteNext, suiteVars

LEMMA ChoicesAlways == SuiteSpec => []ChoicesInv
<1>1. SuiteInit => ChoicesInv
  BY ChoicesInit DEF SuiteInit
<1> QED
  BY <1>1, ChoicesStep, PTL DEF SuiteSpec

\* Whatever lists arrive, in whatever order, the source, the zone and the address that
\* are chosen are among those that the cashier is shown (pos/Pos.tsx).
THEOREM ChosenIsOffered == SuiteSpec => []ChoicesOffered
<1>1. ChoicesInv => ChoicesOffered
  BY DEF ChoicesInv, ChoicesOffered
<1> QED
  BY <1>1, ChoicesAlways, PTL

LEMMA OnlyFireSends ==
  ASSUME Tills!Next, sending = "no", sending' = "posting"
  PROVE  tillQuote = Tills!Body(draft, settings)
<1>1. Tills!FireOrder
  BY DEF Tills!Next, Tills!TimerFires, Tills!QuoteAnswer, Tills!ChooseBranch, Tills!ChooseType,
         Tills!SettingsAnswer, Tills!SourcesAnswer, Tills!ZonesAnswer, Tills!MenuAnswer,
         Tills!LoadFails, Tills!AddProduct, Tills!RemovePieces, Tills!EnterDiscount,
         Tills!PickSource, Tills!PickZone, Tills!Edit, Tills!PickCustomer, Tills!PickAddress,
         Tills!Save, Tills!SaveEnds, Tills!OrderAccepted, Tills!OrderFailed, Tills!Refreshed
<1> QED
  BY <1>1 DEF Tills!FireOrder, Tills!Ready, Tills!CurrentQuote, Tills!IsCurrent, Tills!Payload, Tills!Body

\* An order goes out only with the server's quote for it (pos/Pos.tsx).
THEOREM QuotedIsSent == SuiteSpec => SentAsQuoted
<1>1. [SuiteNext]_suiteVars =>
        [sending = "no" /\ sending' = "posting" => tillQuote = Tills!Body(draft, settings)]_(Tills!vars)
  <2> SUFFICES ASSUME [SuiteNext]_suiteVars, sending = "no", sending' = "posting"
               PROVE  tillQuote = Tills!Body(draft, settings)
    OBVIOUS
  <2>1. ~UNCHANGED tillVars
    BY DEF tillVars
  <2> QED
    BY <2>1, OnlyFireSends DEF SuiteNext, suiteVars
<1> QED
  BY <1>1, PTL DEF SuiteSpec, SentAsQuoted, Tills!SentAsQuoted
=============================================================================
