-------------------------------- MODULE Sums --------------------------------
(***************************************************************************)
(* Laws of the sums over finite sets that the models of money and stock    *)
(* are built from: SumFunctionOnSet of the community modules, a fold whose *)
(* order of evaluation is left to CHOOSE; and that a finite set has a      *)
(* sequence in a given order.  Induction over finite sets is stated with a *)
(* set of the subsets that have the property, because the provers cannot   *)
(* instantiate a theorem with an operator for a parameter.                 *)
(***************************************************************************)
EXTENDS Integers, Functions, FiniteSetTheorems, WellFoundedInduction, TLAPS

-----------------------------------------------------------------------------
(* Induction.                                                              *)

\* A set of natural numbers that is not empty has a least element.
LEMMA LeastNat ==
  ASSUME NEW T \in SUBSET Nat, T # {}
  PROVE  \E n \in T : \A m \in T : n <= m
<1> DEFINE R == OpToRel(<, Nat)
<1>1. IsWellFoundedOn(R, Nat)
  BY NatLessThanWellFounded
<1>2. \A x, y \in Nat : <<x, y>> \in R <=> x < y
  BY DEF OpToRel
<1> HIDE DEF R
<1>3. PICK n \in T : \A m \in T : <<m, n>> \notin R
  BY <1>1, WFMin
<1>4. ASSUME NEW m \in T
      PROVE  n <= m
  <2>1. m \in Nat /\ n \in Nat
    OBVIOUS
  <2>2. ~(m < n)
    BY <2>1, <1>2, <1>3
  <2> QED
    BY <2>1, <2>2
<1> QED
  BY <1>4

\* Q holds every subset of S when it holds the empty set and each set all of
\* whose elements can be taken away within Q.
LEMMA SubsetInduction ==
  ASSUME NEW S, IsFiniteSet(S), NEW Q,
         \A s \in SUBSET S : (\A a \in s : s \ {a} \in Q) => s \in Q
  PROVE  SUBSET S \subseteq Q
<1> DEFINE Sizes == {Cardinality(s) : s \in (SUBSET S) \ Q}
<1> SUFFICES ASSUME Sizes # {}
             PROVE  FALSE
  OBVIOUS
<1>1. \A s \in SUBSET S : IsFiniteSet(s) /\ Cardinality(s) \in Nat
  BY FS_Subset, FS_CardinalityType
<1>2. Sizes \in SUBSET Nat
  BY <1>1
<1>3. PICK n \in Sizes : \A m \in Sizes : n <= m
  BY <1>2, LeastNat
<1>4. PICK s \in (SUBSET S) \ Q : Cardinality(s) = n
  BY <1>3
<1>5. ASSUME NEW a \in s
      PROVE  s \ {a} \in Q
  <2>1. Cardinality(s \ {a}) = Cardinality(s) - 1
    BY <1>1, FS_RemoveElement
  <2>2. ~(Cardinality(s) <= Cardinality(s \ {a}))
    BY <1>1, <2>1
  <2>3. Cardinality(s \ {a}) \notin Sizes
    BY <1>3, <1>4, <2>2
  <2> QED
    BY <2>3
<1> QED
  BY <1>4, <1>5

-----------------------------------------------------------------------------
(* The recursion that a sum over S is defined by.                          *)

Picked(s) == CHOOSE x \in s : TRUE

\* f holds the sums of g over the subsets of S.
Adds(f, g, S) ==
  f = [s \in SUBSET S |-> IF s = {} THEN 0 ELSE g[Picked(s)] + f[s \ {Picked(s)}]]

\* One step of that recursion.
LEMMA AddsStep ==
  ASSUME NEW S, NEW f, NEW g, Adds(f, g, S), NEW s \in SUBSET S
  PROVE  /\ s = {} => f[s] = 0
         /\ s # {} => /\ Picked(s) \in s
                      /\ f[s] = g[Picked(s)] + f[s \ {Picked(s)}]
<1>1. s # {} => Picked(s) \in s
  BY DEF Picked
<1>2. f[s] = IF s = {} THEN 0 ELSE g[Picked(s)] + f[s \ {Picked(s)}]
  BY DEF Adds
<1> QED
  BY <1>1, <1>2

\* The sum over a set does not depend on the set it is a subset of, nor on what
\* the function is outside it.
LEMMA AddsUnique ==
  ASSUME NEW S, NEW T, NEW f, NEW g, NEW h, NEW k,
         Adds(f, g, S), Adds(h, k, T),
         NEW U, IsFiniteSet(U), U \subseteq S, U \subseteq T, \A x \in U : g[x] = k[x]
  PROVE  f[U] = h[U]
<1> DEFINE Q == {s \in SUBSET U : f[s] = h[s]}
<1>1. ASSUME NEW s \in SUBSET U, \A a \in s : s \ {a} \in Q
      PROVE  s \in Q
  <2>1. s \in SUBSET S /\ s \in SUBSET T
    OBVIOUS
  <2>2. CASE s = {}
    BY <2>1, <2>2, AddsStep
  <2>3. CASE s # {}
    <3> DEFINE p == Picked(s)
    <3>1. p \in s /\ f[s] = g[p] + f[s \ {p}] /\ h[s] = k[p] + h[s \ {p}]
      BY <2>1, <2>3, AddsStep
    <3>2. f[s \ {p}] = h[s \ {p}] /\ g[p] = k[p]
      BY <1>1, <3>1
    <3> QED
      BY <3>1, <3>2
  <2> QED
    BY <2>2, <2>3
<1> HIDE DEF Q
<1>2. SUBSET U \subseteq Q
  BY <1>1, SubsetInduction
<1> QED
  BY <1>2 DEF Q

\* Over a finite set there is such a function.
LEMMA AddsExist ==
  ASSUME NEW S, IsFiniteSet(S), NEW g
  PROVE  \E f : Adds(f, g, S)
<1> DEFINE Q == {s \in SUBSET S : \E f : Adds(f, g, s)}
<1>1. ASSUME NEW s \in SUBSET S, \A a \in s : s \ {a} \in Q
      PROVE  s \in Q
  <2> DEFINE F(a) == CHOOSE f : Adds(f, g, s \ {a})
             h == [t \in SUBSET s |->
                     IF t = {} THEN 0 ELSE g[Picked(t)] + F(Picked(t))[t \ {Picked(t)}]]
  <2>1. ASSUME NEW a \in s
        PROVE  Adds(F(a), g, s \ {a})
    BY <1>1
  <2>2. ASSUME NEW t \in SUBSET s, t # {}
        PROVE  h[t \ {Picked(t)}] = F(Picked(t))[t \ {Picked(t)}]
    <3> DEFINE p == Picked(t)
               u == t \ {p}
               q == Picked(u)
    <3>1. p \in t /\ p \in s
      BY <2>2 DEF Picked
    <3>2. u \in SUBSET s /\ u \in SUBSET (s \ {p})
      BY <3>1
    <3>3. CASE u = {}
      <4>1. h[u] = 0
        BY <3>2, <3>3
      <4>2. F(p)[u] = 0
        BY <2>1, <3>1, <3>2, <3>3, AddsStep
      <4> QED
        BY <4>1, <4>2
    <3>4. CASE u # {}
      <4>1. q \in u /\ q \in s
        BY <3>2, <3>4 DEF Picked
      <4>2. h[u] = g[q] + F(q)[u \ {q}]
        BY <3>2, <3>4
      <4>3. F(p)[u] = g[q] + F(p)[u \ {q}]
        <5>1. Adds(F(p), g, s \ {p})
          BY <2>1, <3>1
        <5> HIDE DEF F, u, p
        <5> QED
          BY <5>1, <3>2, <3>4, AddsStep
      <4>4. F(q)[u \ {q}] = F(p)[u \ {q}]
        <5>1. u \ {q} \subseteq s \ {q} /\ u \ {q} \subseteq s \ {p} /\ IsFiniteSet(u \ {q})
          BY <3>2, FS_Subset
        <5>2. Adds(F(p), g, s \ {p}) /\ Adds(F(q), g, s \ {q})
          BY <2>1, <3>1, <4>1
        <5> HIDE DEF F, q, u, p
        <5> QED
          BY <5>1, <5>2, AddsUnique
      <4> QED
        BY <4>2, <4>3, <4>4
    <3> QED
      BY <3>3, <3>4
  <2>3. Adds(h, g, s)
    <3>1. h = [t \in SUBSET s |->
                 IF t = {} THEN 0 ELSE g[Picked(t)] + F(Picked(t))[t \ {Picked(t)}]]
      OBVIOUS
    <3> HIDE DEF h, F
    <3>2. h = [t \in SUBSET s |-> IF t = {} THEN 0 ELSE g[Picked(t)] + h[t \ {Picked(t)}]]
      BY <2>2, <3>1
    <3> QED
      BY <3>2 DEF Adds
  <2> QED
    BY <2>3
<1> HIDE DEF Q
<1>2. SUBSET S \subseteq Q
  BY <1>1, SubsetInduction
<1> QED
  BY <1>2 DEF Q

-----------------------------------------------------------------------------
(* Laws of sums.                                                           *)

\* SumFunctionOnSet is the recursion of Adds, over S and all its subsets.
LEMMA SumAdds ==
  ASSUME NEW S, IsFiniteSet(S), NEW f, NEW g, Adds(f, g, S), NEW s \in SUBSET S
  PROVE  SumFunctionOnSet(g, s) = f[s]
<1> DEFINE h == CHOOSE k : Adds(k, g, s)
<1>1. IsFiniteSet(s)
  BY FS_Subset
<1>2. Adds(h, g, s)
  BY <1>1, AddsExist
<1>3. SumFunctionOnSet(g, s) = h[s]
  BY DEF SumFunctionOnSet, FoldFunctionOnSet, MapThenFoldSet, Adds, Picked
<1> HIDE DEF h
<1> QED
  BY <1>1, <1>2, <1>3, AddsUnique

\* Nothing adds up to 0.
LEMMA SumOfNone ==
  ASSUME NEW g
  PROVE  SumFunctionOnSet(g, {}) = 0
<1>1. IsFiniteSet({})
  BY FS_EmptySet
<1>2. PICK f : Adds(f, g, {})
  BY <1>1, AddsExist
<1>3. SumFunctionOnSet(g, {}) = f[{}]
  BY <1>1, <1>2, SumAdds
<1> QED
  BY <1>2, <1>3, AddsStep

\* The definition of a sum, as far as it is known: some element is taken first.
LEMMA SumTakePicked ==
  ASSUME NEW s, IsFiniteSet(s), NEW g, s # {}
  PROVE  Picked(s) \in s /\ SumFunctionOnSet(g, s) = g[Picked(s)] + SumFunctionOnSet(g, s \ {Picked(s)})
<1>1. PICK f : Adds(f, g, s)
  BY AddsExist
<1>2. SumFunctionOnSet(g, s) = f[s]
  BY <1>1, SumAdds
<1>3. SumFunctionOnSet(g, s \ {Picked(s)}) = f[s \ {Picked(s)}]
  BY <1>1, SumAdds
<1>4. Picked(s) \in s /\ f[s] = g[Picked(s)] + f[s \ {Picked(s)}]
  BY <1>1, AddsStep
<1> QED
  BY <1>2, <1>3, <1>4

\* A sum of integers is an integer.
LEMMA SumType ==
  ASSUME NEW S, IsFiniteSet(S), NEW g, \A x \in S : g[x] \in Int
  PROVE  SumFunctionOnSet(g, S) \in Int
<1> DEFINE Q == {s \in SUBSET S : SumFunctionOnSet(g, s) \in Int}
<1>1. ASSUME NEW s \in SUBSET S, \A a \in s : s \ {a} \in Q
      PROVE  s \in Q
  <2>1. CASE s = {}
    BY <2>1, SumOfNone
  <2>2. CASE s # {}
    <3>1. IsFiniteSet(s)
      BY FS_Subset
    <3>2. Picked(s) \in s /\ SumFunctionOnSet(g, s) = g[Picked(s)] + SumFunctionOnSet(g, s \ {Picked(s)})
      BY <2>2, <3>1, SumTakePicked
    <3>3. SumFunctionOnSet(g, s \ {Picked(s)}) \in Int /\ g[Picked(s)] \in Int
      BY <1>1, <3>2
    <3> QED
      BY <3>2, <3>3
  <2> QED
    BY <2>1, <2>2
<1> HIDE DEF Q
<1>2. SUBSET S \subseteq Q
  BY <1>1, SubsetInduction
<1> QED
  BY <1>2 DEF Q

\* Any element can be taken out of a sum first.
LEMMA SumTakeOut ==
  ASSUME NEW S, IsFiniteSet(S), NEW g, \A x \in S : g[x] \in Int, NEW a \in S
  PROVE  SumFunctionOnSet(g, S) = g[a] + SumFunctionOnSet(g, S \ {a})
<1> DEFINE Sum(s) == SumFunctionOnSet(g, s)
           Q == {s \in SUBSET S : \A b \in s : Sum(s) = g[b] + Sum(s \ {b})}
<1>1. ASSUME NEW s \in SUBSET S
      PROVE  Sum(s) \in Int
  BY FS_Subset, SumType
<1>2. ASSUME NEW s \in SUBSET S, \A b \in s : s \ {b} \in Q
      PROVE  s \in Q
  <2> SUFFICES ASSUME NEW b \in s
               PROVE  Sum(s) = g[b] + Sum(s \ {b})
    OBVIOUS
  <2> DEFINE p == Picked(s)
             r == (s \ {p}) \ {b}
  <2>1. p \in s /\ Sum(s) = g[p] + Sum(s \ {p})
    BY FS_Subset, SumTakePicked
  <2>2. CASE b = p
    <3>1. Sum(s) = g[p] + Sum(s \ {p})
      BY <2>1
    <3> HIDE DEF p, Sum
    <3> QED
      BY <3>1, <2>2
  <2>3. CASE b # p
    <3>1. s \ {p} \in Q /\ s \ {b} \in Q
      BY <1>2, <2>1
    <3>2. Sum(s \ {p}) = g[b] + Sum(r)
      BY <2>3, <3>1
    <3>3. (s \ {b}) \ {p} = r
      OBVIOUS
    <3>4. Sum(s \ {b}) = g[p] + Sum(r)
      BY <2>1, <2>3, <3>1, <3>3
    <3>5. Sum(r) \in Int /\ g[p] \in Int /\ g[b] \in Int
      <4>1. r \in SUBSET S
        OBVIOUS
      <4>2. Sum(r) \in Int
        BY <1>1, <4>1
      <4> QED
        BY <2>1, <4>2
    <3> HIDE DEF Sum, r, p
    <3> QED
      BY <2>1, <3>2, <3>4, <3>5
  <2> QED
    BY <2>2, <2>3
<1> HIDE DEF Q
<1>3. SUBSET S \subseteq Q
  BY <1>2, SubsetInduction
<1> QED
  BY <1>3 DEF Q

\* Sums of functions that agree are the same.
LEMMA SumSame ==
  ASSUME NEW S, IsFiniteSet(S), NEW g, NEW h, \A x \in S : g[x] = h[x]
  PROVE  SumFunctionOnSet(g, S) = SumFunctionOnSet(h, S)
<1>1. PICK f : Adds(f, g, S)
  BY AddsExist
<1>2. PICK k : Adds(k, h, S)
  BY AddsExist
<1>3. SumFunctionOnSet(g, S) = f[S] /\ SumFunctionOnSet(h, S) = k[S]
  BY <1>1, <1>2, SumAdds
<1> QED
  BY <1>1, <1>2, <1>3, AddsUnique

\* A sum grows with what is summed.
LEMMA SumMonotone ==
  ASSUME NEW S, IsFiniteSet(S), NEW g, NEW h,
         \A x \in S : g[x] \in Int /\ h[x] \in Int /\ g[x] <= h[x]
  PROVE  SumFunctionOnSet(g, S) <= SumFunctionOnSet(h, S)
<1> DEFINE Q == {s \in SUBSET S : SumFunctionOnSet(g, s) <= SumFunctionOnSet(h, s)}
<1>1. ASSUME NEW s \in SUBSET S, \A a \in s : s \ {a} \in Q
      PROVE  s \in Q
  <2>1. CASE s = {}
    BY <2>1, SumOfNone
  <2>2. CASE s # {}
    <3>1. IsFiniteSet(s)
      BY FS_Subset
    <3>2. PICK a \in s : TRUE
      BY <2>2
    <3>3. SumFunctionOnSet(g, s) = g[a] + SumFunctionOnSet(g, s \ {a})
      BY <3>1, SumTakeOut
    <3>4. SumFunctionOnSet(h, s) = h[a] + SumFunctionOnSet(h, s \ {a})
      BY <3>1, SumTakeOut
    <3>5. IsFiniteSet(s \ {a})
      BY <3>1, FS_RemoveElement
    <3>6. SumFunctionOnSet(g, s \ {a}) \in Int /\ SumFunctionOnSet(h, s \ {a}) \in Int
      BY <3>5, SumType
    <3>7. SumFunctionOnSet(g, s \ {a}) <= SumFunctionOnSet(h, s \ {a})
      BY <1>1
    <3>8. g[a] \in Int /\ h[a] \in Int /\ g[a] <= h[a]
      OBVIOUS
    <3> QED
      BY <3>3, <3>4, <3>6, <3>7, <3>8
  <2> QED
    BY <2>1, <2>2
<1> HIDE DEF Q
<1>2. SUBSET S \subseteq Q
  BY <1>1, SubsetInduction
<1> QED
  BY <1>2 DEF Q

\* The sum of a function that is the sum of two others.
LEMMA SumPlus ==
  ASSUME NEW S, IsFiniteSet(S), NEW g, NEW h, NEW k,
         \A x \in S : g[x] \in Int /\ h[x] \in Int /\ k[x] = g[x] + h[x]
  PROVE  SumFunctionOnSet(k, S) = SumFunctionOnSet(g, S) + SumFunctionOnSet(h, S)
<1> DEFINE Q == {s \in SUBSET S :
                   SumFunctionOnSet(k, s) = SumFunctionOnSet(g, s) + SumFunctionOnSet(h, s)}
<1>1. ASSUME NEW s \in SUBSET S, \A a \in s : s \ {a} \in Q
      PROVE  s \in Q
  <2>1. CASE s = {}
    BY <2>1, SumOfNone
  <2>2. CASE s # {}
    <3>1. IsFiniteSet(s)
      BY FS_Subset
    <3>2. PICK a \in s : TRUE
      BY <2>2
    <3> DEFINE r == s \ {a}
    <3>3. SumFunctionOnSet(g, s) = g[a] + SumFunctionOnSet(g, r)
      BY <3>1, SumTakeOut
    <3>4. SumFunctionOnSet(h, s) = h[a] + SumFunctionOnSet(h, r)
      BY <3>1, SumTakeOut
    <3>5. SumFunctionOnSet(k, s) = k[a] + SumFunctionOnSet(k, r)
      BY <3>1, SumTakeOut
    <3>6. IsFiniteSet(r) /\ r \in SUBSET S
      BY <3>1, FS_RemoveElement
    <3>7. SumFunctionOnSet(g, r) \in Int /\ SumFunctionOnSet(h, r) \in Int
      BY <3>6, SumType
    <3>8. SumFunctionOnSet(k, r) = SumFunctionOnSet(g, r) + SumFunctionOnSet(h, r)
      BY <1>1, <3>2
    <3>9. g[a] \in Int /\ h[a] \in Int /\ k[a] = g[a] + h[a]
      BY <3>2
    <3> HIDE DEF r
    <3> QED
      BY <3>3, <3>4, <3>5, <3>7, <3>8, <3>9
  <2> QED
    BY <2>1, <2>2
<1> HIDE DEF Q
<1>2. SUBSET S \subseteq Q
  BY <1>1, SubsetInduction
<1> QED
  BY <1>2 DEF Q

\* A sum of nothing but zeros is zero.
LEMMA SumOfZeros ==
  ASSUME NEW S, IsFiniteSet(S), NEW g, \A x \in S : g[x] = 0
  PROVE  SumFunctionOnSet(g, S) = 0
<1> DEFINE Q == {s \in SUBSET S : SumFunctionOnSet(g, s) = 0}
<1>1. ASSUME NEW s \in SUBSET S, \A a \in s : s \ {a} \in Q
      PROVE  s \in Q
  <2>1. CASE s = {}
    BY <2>1, SumOfNone
  <2>2. CASE s # {}
    <3>1. IsFiniteSet(s)
      BY FS_Subset
    <3>2. Picked(s) \in s /\ SumFunctionOnSet(g, s) = g[Picked(s)] + SumFunctionOnSet(g, s \ {Picked(s)})
      BY <2>2, <3>1, SumTakePicked
    <3>3. SumFunctionOnSet(g, s \ {Picked(s)}) = 0 /\ g[Picked(s)] = 0
      BY <1>1, <3>2
    <3> QED
      BY <3>2, <3>3
  <2> QED
    BY <2>1, <2>2
<1> HIDE DEF Q
<1>2. SUBSET S \subseteq Q
  BY <1>1, SubsetInduction
<1> QED
  BY <1>2 DEF Q

\* Sums whose terms are opposite are opposite.
LEMMA SumOpposite ==
  ASSUME NEW S, IsFiniteSet(S), NEW g, NEW h, \A x \in S : g[x] \in Int /\ h[x] = -g[x]
  PROVE  SumFunctionOnSet(h, S) = -SumFunctionOnSet(g, S)
<1> DEFINE z == [x \in S |-> 0]
<1>1. \A x \in S : g[x] \in Int /\ h[x] \in Int /\ z[x] = g[x] + h[x] /\ z[x] = 0
  OBVIOUS
<1> HIDE DEF z
<1>2. SumFunctionOnSet(z, S) = SumFunctionOnSet(g, S) + SumFunctionOnSet(h, S)
  BY <1>1, SumPlus
<1>3. SumFunctionOnSet(z, S) = 0
  BY <1>1, SumOfZeros
<1>4. SumFunctionOnSet(g, S) \in Int /\ SumFunctionOnSet(h, S) \in Int
  BY <1>1, SumType
<1> QED
  BY <1>2, <1>3, <1>4

\* A sum is the same over other names for its terms.
LEMMA SumRenamed ==
  ASSUME NEW S, IsFiniteSet(S), NEW f, \A x, y \in S : f[x] = f[y] => x = y,
         NEW g, NEW h, \A x \in S : g[f[x]] \in Int /\ h[x] = g[f[x]]
  PROVE  SumFunctionOnSet(g, {f[x] : x \in S}) = SumFunctionOnSet(h, S)
<1> DEFINE Image(s) == {f[x] : x \in s}
           Q == {s \in SUBSET S : /\ IsFiniteSet(Image(s))
                             /\ SumFunctionOnSet(g, Image(s)) = SumFunctionOnSet(h, s)}
<1>1. ASSUME NEW s \in SUBSET S, \A a \in s : s \ {a} \in Q
      PROVE  s \in Q
  <2>1. CASE s = {}
    <3>1. Image(s) = {}
      BY <2>1
    <3> QED
      BY <2>1, <3>1, FS_EmptySet, SumOfNone
  <2>2. CASE s # {}
    <3>1. PICK a \in s : TRUE
      BY <2>2
    <3>2. f[a] \in Image(s) /\ Image(s) \ {f[a]} = Image(s \ {a})
      BY <3>1
    <3>3. IsFiniteSet(s) /\ IsFiniteSet(Image(s))
      <4>1. IsFiniteSet(Image(s \ {a}))
        BY <1>1, <3>1
      <4>2. Image(s) = Image(s \ {a}) \cup {f[a]}
        BY <3>1
      <4> HIDE DEF Image
      <4> QED
        BY <4>1, <4>2, FS_AddElement, FS_Subset
    <3>4. \A y \in Image(s) : g[y] \in Int
      OBVIOUS
    <3>5. SumFunctionOnSet(g, Image(s \ {a})) = SumFunctionOnSet(h, s \ {a})
      BY <1>1, <3>1
    <3>6. SumFunctionOnSet(h, s) = h[a] + SumFunctionOnSet(h, s \ {a})
      BY <3>1, <3>3, SumTakeOut
    <3>7. h[a] = g[f[a]]
      BY <3>1
    <3> HIDE DEF Image
    <3>8. SumFunctionOnSet(g, Image(s)) = g[f[a]] + SumFunctionOnSet(g, Image(s) \ {f[a]})
      BY <3>2, <3>3, <3>4, SumTakeOut
    <3> QED
      BY <3>2, <3>3, <3>5, <3>6, <3>7, <3>8
  <2> QED
    BY <2>1, <2>2
<1> HIDE DEF Q
<1>2. SUBSET S \subseteq Q
  BY <1>1, SubsetInduction
<1> QED
  BY <1>2 DEF Q

\* The sum over a part is the sum of what is zero outside of it.
LEMMA SumOfPart ==
  ASSUME NEW S, IsFiniteSet(S), NEW U \in SUBSET S, NEW g, NEW h,
         \A x \in S : g[x] \in Int /\ h[x] = IF x \in U THEN g[x] ELSE 0
  PROVE  SumFunctionOnSet(g, U) = SumFunctionOnSet(h, S)
<1> DEFINE Q == {s \in SUBSET S : SumFunctionOnSet(g, U \cap s) = SumFunctionOnSet(h, s)}
<1>1. ASSUME NEW s \in SUBSET S, \A a \in s : s \ {a} \in Q
      PROVE  s \in Q
  <2>1. CASE s = {}
    <3>1. U \cap s = {}
      BY <2>1
    <3> QED
      BY <2>1, <3>1, SumOfNone
  <2>2. CASE s # {}
    <3>1. PICK a \in s : TRUE
      BY <2>2
    <3>2. IsFiniteSet(s) /\ IsFiniteSet(U \cap s) /\ IsFiniteSet(s \ {a})
      BY FS_Subset
    <3>3. SumFunctionOnSet(g, U \cap (s \ {a})) = SumFunctionOnSet(h, s \ {a})
      BY <1>1
    <3>4. SumFunctionOnSet(h, s) = h[a] + SumFunctionOnSet(h, s \ {a})
      BY <3>2, SumTakeOut
    <3>5. SumFunctionOnSet(h, s \ {a}) \in Int
      BY <3>2, SumType
    <3>6. SumFunctionOnSet(g, U \cap s) = SumFunctionOnSet(h, s)
      <4>1. CASE a \in U
        <5>1. SumFunctionOnSet(g, U \cap s) = g[a] + SumFunctionOnSet(g, (U \cap s) \ {a})
          BY <3>2, <4>1, SumTakeOut
        <5>2. (U \cap s) \ {a} = U \cap (s \ {a}) /\ h[a] = g[a]
          BY <4>1
        <5> QED
          BY ONLY <3>3, <3>4, <5>1, <5>2
      <4>2. CASE a \notin U
        <5>1. U \cap (s \ {a}) = U \cap s /\ h[a] = 0
          BY <4>2
        <5>2. SumFunctionOnSet(h, s) = SumFunctionOnSet(h, s \ {a})
          BY ONLY <3>4, <3>5, <5>1
        <5> QED
          BY ONLY <3>3, <5>1, <5>2, Zenon
      <4> QED
        BY <4>1, <4>2
    <3> QED
      BY <3>6
  <2> QED
    BY <2>1, <2>2
<1> HIDE DEF Q
<1>2. SUBSET S \subseteq Q
  BY <1>1, SubsetInduction
<1>3. U \cap S = U
  OBVIOUS
<1> QED
  BY <1>2, <1>3 DEF Q

\* The sum over two sets that share nothing.
LEMMA SumOfTwo ==
  ASSUME NEW S, IsFiniteSet(S), NEW T, IsFiniteSet(T), S \cap T = {},
         NEW g, \A x \in S \cup T : g[x] \in Int
  PROVE  SumFunctionOnSet(g, S \cup T) = SumFunctionOnSet(g, S) + SumFunctionOnSet(g, T)
<1> DEFINE a == [x \in S \cup T |-> IF x \in S THEN g[x] ELSE 0]
           b == [x \in S \cup T |-> IF x \in T THEN g[x] ELSE 0]
<1>1. IsFiniteSet(S \cup T)
  BY FS_Union
<1>2. \A x \in S \cup T : a[x] = IF x \in S THEN g[x] ELSE 0
  OBVIOUS
<1>3. \A x \in S \cup T : b[x] = IF x \in T THEN g[x] ELSE 0
  OBVIOUS
<1> HIDE DEF a, b
<1>4. \A x \in S \cup T : a[x] \in Int /\ b[x] \in Int /\ g[x] = a[x] + b[x]
  BY <1>2, <1>3
<1>5. SumFunctionOnSet(g, S \cup T) = SumFunctionOnSet(a, S \cup T) + SumFunctionOnSet(b, S \cup T)
  BY <1>1, <1>4, SumPlus
<1>6. SumFunctionOnSet(g, S) = SumFunctionOnSet(a, S \cup T)
  BY <1>1, <1>2, SumOfPart
<1>7. SumFunctionOnSet(g, T) = SumFunctionOnSet(b, S \cup T)
  BY <1>1, <1>3, SumOfPart
<1> QED
  BY <1>5, <1>6, <1>7

\* The sum over groups is the sum of the groups' sums.
LEMMA SumByGroups ==
  ASSUME NEW S, IsFiniteSet(S), NEW T, IsFiniteSet(T), NEW f, \A x \in S : f[x] \in T,
         NEW g, \A x \in S : g[x] \in Int,
         NEW group, \A t \in T : \A x : x \in group[t] <=> x \in S /\ f[x] = t,
         NEW h, \A t \in T : h[t] = SumFunctionOnSet(g, group[t])
  PROVE  SumFunctionOnSet(g, S) = SumFunctionOnSet(h, T)
<1> DEFINE In(u) == {x \in S : f[x] \in u}
           Q == {u \in SUBSET T : SumFunctionOnSet(g, In(u)) = SumFunctionOnSet(h, u)}
<1>0. \A t \in T : group[t] \subseteq S /\ \A x \in group[t] : g[x] \in Int
  OBVIOUS
<1>1. (\A u : IsFiniteSet(In(u))) /\ (\A t \in T : IsFiniteSet(group[t]))
  BY <1>0, FS_Subset
<1>2. \A t \in T : h[t] \in Int
  BY <1>0, <1>1, SumType
<1>3. ASSUME NEW u \in SUBSET T, \A t \in u : u \ {t} \in Q
      PROVE  u \in Q
  <2>1. CASE u = {}
    <3>1. In(u) = {}
      BY <2>1
    <3> QED
      BY <2>1, <3>1, SumOfNone
  <2>2. CASE u # {}
    <3>1. PICK t \in u : TRUE
      BY <2>2
    <3> DEFINE G == group[t]
    <3>2. In(u) = G \cup In(u \ {t}) /\ G \cap In(u \ {t}) = {}
      BY <3>1
    <3>3. \A x \in G \cup In(u \ {t}) : g[x] \in Int
      OBVIOUS
    <3>4. IsFiniteSet(u)
      BY FS_Subset
    <3>5. SumFunctionOnSet(h, u) = h[t] + SumFunctionOnSet(h, u \ {t})
      BY <1>2, <3>1, <3>4, SumTakeOut
    <3>6. SumFunctionOnSet(g, In(u \ {t})) = SumFunctionOnSet(h, u \ {t})
      BY <1>3, <3>1
    <3>7. h[t] = SumFunctionOnSet(g, G) /\ IsFiniteSet(G) /\ IsFiniteSet(In(u \ {t}))
      BY <1>1
    <3>8. ASSUME NEW A, NEW B, IsFiniteSet(A), IsFiniteSet(B), A \cap B = {}, \A x \in A \cup B : g[x] \in Int
          PROVE  SumFunctionOnSet(g, A \cup B) = SumFunctionOnSet(g, A) + SumFunctionOnSet(g, B)
      BY ONLY <3>8, SumOfTwo
    <3> HIDE DEF In, G
    <3>9. SumFunctionOnSet(g, G \cup In(u \ {t})) = SumFunctionOnSet(g, G) + SumFunctionOnSet(g, In(u \ {t}))
      BY ONLY <3>2, <3>3, <3>7, <3>8
    <3> QED
      BY <3>2, <3>5, <3>6, <3>7, <3>9
  <2> QED
    BY <2>1, <2>2
<1> HIDE DEF Q
<1>4. SUBSET T \subseteq Q
  BY <1>3, SubsetInduction
<1>5. In(T) = S
  OBVIOUS
<1> QED
  BY <1>4, <1>5 DEF Q

\* The sum of a constant.
LEMMA SumOfConstant ==
  ASSUME NEW S, IsFiniteSet(S), NEW c \in Int, NEW g, \A x \in S : g[x] = c
  PROVE  SumFunctionOnSet(g, S) = c * Cardinality(S)
<1> DEFINE Q == {s \in SUBSET S : SumFunctionOnSet(g, s) = c * Cardinality(s)}
<1>1. ASSUME NEW s \in SUBSET S, \A a \in s : s \ {a} \in Q
      PROVE  s \in Q
  <2>1. CASE s = {}
    BY <2>1, SumOfNone, FS_EmptySet
  <2>2. CASE s # {}
    <3>1. PICK a \in s : TRUE
      BY <2>2
    <3>2. IsFiniteSet(s) /\ IsFiniteSet(s \ {a})
      BY FS_Subset
    <3>3. Cardinality(s \ {a}) = Cardinality(s) - 1 /\ Cardinality(s) \in Nat
      BY <3>1, <3>2, FS_RemoveElement, FS_CardinalityType
    <3>4. SumFunctionOnSet(g, s) = g[a] + SumFunctionOnSet(g, s \ {a}) /\ g[a] = c
      BY <3>2, SumTakeOut
    <3>5. SumFunctionOnSet(g, s \ {a}) = c * (Cardinality(s) - 1)
      BY <1>1, <3>1, <3>3
    <3>6. c * (Cardinality(s) - 1) = c * Cardinality(s) - c
      BY <3>3
    <3>7. c * Cardinality(s) \in Int
      BY <3>3
    <3> QED
      BY <3>4, <3>5, <3>6, <3>7
  <2> QED
    BY <2>1, <2>2
<1> HIDE DEF Q
<1>2. SUBSET S \subseteq Q
  BY <1>1, SubsetInduction
<1> QED
  BY <1>2 DEF Q

\* The sum of a multiple.
LEMMA SumTimes ==
  ASSUME NEW S, IsFiniteSet(S), NEW c \in Int, NEW g, NEW h,
         \A x \in S : g[x] \in Int /\ h[x] = c * g[x]
  PROVE  SumFunctionOnSet(h, S) = c * SumFunctionOnSet(g, S)
<1> DEFINE Q == {s \in SUBSET S : SumFunctionOnSet(h, s) = c * SumFunctionOnSet(g, s)}
<1>1. ASSUME NEW s \in SUBSET S, \A a \in s : s \ {a} \in Q
      PROVE  s \in Q
  <2>1. CASE s = {}
    BY <2>1, SumOfNone
  <2>2. CASE s # {}
    <3>1. PICK a \in s : TRUE
      BY <2>2
    <3>2. IsFiniteSet(s) /\ IsFiniteSet(s \ {a})
      BY FS_Subset
    <3>3. SumFunctionOnSet(g, s) = g[a] + SumFunctionOnSet(g, s \ {a})
      BY <3>2, SumTakeOut
    <3>4. \A x \in s : h[x] \in Int
      OBVIOUS
    <3>5. SumFunctionOnSet(h, s) = h[a] + SumFunctionOnSet(h, s \ {a}) /\ h[a] = c * g[a]
      BY <3>2, <3>4, SumTakeOut
    <3>6. SumFunctionOnSet(h, s \ {a}) = c * SumFunctionOnSet(g, s \ {a})
      BY <1>1, <3>1
    <3>7. SumFunctionOnSet(g, s \ {a}) \in Int /\ g[a] \in Int
      BY <3>2, SumType
    <3>8. c * (g[a] + SumFunctionOnSet(g, s \ {a})) = c * g[a] + c * SumFunctionOnSet(g, s \ {a})
      BY <3>7
    <3> QED
      BY <3>3, <3>5, <3>6, <3>8
  <2> QED
    BY <2>1, <2>2
<1> HIDE DEF Q
<1>2. SUBSET S \subseteq Q
  BY <1>1, SubsetInduction
<1> QED
  BY <1>2 DEF Q

-----------------------------------------------------------------------------
(* A finite set in order.                                                  *)

\* The members of S before x.
Below(S, R, x) == {y \in S : <<y, x>> \in R}

StrictOrder(S, R) ==
  /\ \A x \in S : <<x, x>> \notin R
  /\ \A x, y, z \in S : <<x, y>> \in R /\ <<y, z>> \in R => <<x, z>> \in R
  /\ \A x, y \in S : x # y => <<x, y>> \in R \/ <<y, x>> \in R

\* What comes later has more before it.
LEMMA MoreBelow ==
  ASSUME NEW S, NEW R, IsFiniteSet(S), StrictOrder(S, R), NEW x \in S, NEW z \in S, <<x, z>> \in R
  PROVE  Cardinality(Below(S, R, x)) < Cardinality(Below(S, R, z))
<1>1. /\ Below(S, R, x) \subseteq Below(S, R, z)
      /\ x \in Below(S, R, z) /\ x \notin Below(S, R, x)
  BY DEF Below, StrictOrder
<1>2. Below(S, R, z) \subseteq S
  BY DEF Below
<1>3. IsFiniteSet(Below(S, R, z))
  BY <1>2, FS_Subset
<1>4. /\ IsFiniteSet(Below(S, R, x))
      /\ Cardinality(Below(S, R, x)) <= Cardinality(Below(S, R, z))
      /\ Cardinality(Below(S, R, x)) = Cardinality(Below(S, R, z)) => Below(S, R, x) = Below(S, R, z)
  BY <1>1, <1>3, FS_Subset
<1>5. Cardinality(Below(S, R, x)) \in Nat /\ Cardinality(Below(S, R, z)) \in Nat
  BY <1>3, <1>4, FS_CardinalityType
<1> QED
  BY <1>1, <1>4, <1>5

\* A finite set that is strictly ordered has a sequence in that order.
LEMMA InOrder ==
  ASSUME NEW S, NEW R, IsFiniteSet(S), StrictOrder(S, R)
  PROVE  \E q \in [1..Cardinality(S) -> S] :
           /\ \A i, j \in 1..Cardinality(S) : i # j => q[i] # q[j]
           /\ \A i, j \in 1..Cardinality(S) : i < j => <<q[i], q[j]>> \in R
<1> DEFINE n == Cardinality(S)
           D == 1..n
           rank == [x \in S |-> Cardinality(Below(S, R, x)) + 1]
<1>1. n \in Nat
  BY FS_CardinalityType
<1>2. \A x \in S : Cardinality(Below(S, R, x)) \in 0..(n - 1)
  <2> SUFFICES ASSUME NEW x \in S PROVE Cardinality(Below(S, R, x)) \in 0..(n - 1)
    OBVIOUS
  <2>1. Below(S, R, x) \subseteq S /\ x \notin Below(S, R, x)
    BY DEF Below, StrictOrder
  <2>2. /\ IsFiniteSet(Below(S, R, x)) /\ Cardinality(Below(S, R, x)) <= n
        /\ Cardinality(Below(S, R, x)) # n
    BY <2>1, FS_Subset
  <2>3. Cardinality(Below(S, R, x)) \in Nat
    BY <2>2, FS_CardinalityType
  <2> HIDE DEF n
  <2> QED
    BY <1>1, <2>2, <2>3
<1>3. rank \in [S -> D]
  <2> HIDE DEF n
  <2> QED
    BY <1>1, <1>2
<1>4. \A x, z \in S : <<x, z>> \in R => rank[x] < rank[z]
  <2> SUFFICES ASSUME NEW x \in S, NEW z \in S, <<x, z>> \in R PROVE rank[x] < rank[z]
    OBVIOUS
  <2>1. Cardinality(Below(S, R, x)) < Cardinality(Below(S, R, z))
    BY MoreBelow
  <2>2. Cardinality(Below(S, R, x)) \in Nat /\ Cardinality(Below(S, R, z)) \in Nat
    BY <1>2
  <2> QED
    BY <2>1, <2>2
<1> HIDE DEF rank
<1>5. \A x, z \in S : rank[x] = rank[z] => x = z
  <2> SUFFICES ASSUME NEW x \in S, NEW z \in S, rank[x] = rank[z], x # z PROVE FALSE
    OBVIOUS
  <2>1. rank[x] < rank[z] \/ rank[z] < rank[x]
    BY <1>4 DEF StrictOrder
  <2>2. rank[x] \in Nat /\ rank[z] \in Nat
    BY <1>1, <1>3
  <2> QED
    BY <2>1, <2>2
<1>6. rank \in Injection(S, D)
  BY <1>3, <1>5 DEF Injection, IsInjective
<1>7. IsFiniteSet(D) /\ Cardinality(D) = n
  BY <1>1, FS_Interval
<1>8. rank \in Surjection(S, D)
  BY <1>6, <1>7, FS_Injection
<1>9. \A i \in D : \E x \in S : rank[x] = i
  BY <1>8 DEF Surjection
<1> DEFINE q == [i \in D |-> CHOOSE x \in S : rank[x] = i]
<1>10. q \in [D -> S] /\ \A i \in D : rank[q[i]] = i
  BY <1>9
<1> HIDE DEF q
<1>11. \A i, j \in D : i # j => q[i] # q[j]
  BY <1>10
<1>12. \A i, j \in D : i < j => <<q[i], q[j]>> \in R
  <2> SUFFICES ASSUME NEW i \in D, NEW j \in D, i < j PROVE <<q[i], q[j]>> \in R
    OBVIOUS
  <2>1. q[i] \in S /\ q[j] \in S /\ rank[q[i]] = i /\ rank[q[j]] = j
    BY <1>10
  <2>2. q[i] # q[j]
    BY <1>1, <2>1
  <2>3. <<q[j], q[i]>> \notin R
    BY <1>1, <1>4, <2>1
  <2> QED
    BY <2>1, <2>2, <2>3 DEF StrictOrder
<1> QED
  BY <1>10, <1>11, <1>12
=============================================================================
