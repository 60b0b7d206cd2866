-------------------------- MODULE OrderProps_proofs --------------------------
(***************************************************************************)
(* Proofs of the properties of the order desk: for shops whose sessions    *)
(* serve separate products, the shelf and the orders balance and the desk  *)
(* refines the ledger, whatever the number of sessions, products and carts *)
(* and whatever the bounds.                                                *)
(***************************************************************************)
EXTENDS OrderProps, OrderTxns_proofs, FiniteSetTheorems, WellFoundedInduction

-----------------------------------------------------------------------------
(* Sums.  Units and Balance fold a sum over a finite set, one element chosen *)
(* after another; a proof needs that the choice does not matter.             *)

\* A nonempty set of naturals has a least element.
LEMMA LeastNatural ==
  ASSUME NEW S \in SUBSET Nat, S # {}
  PROVE  \E m \in S : \A k \in S : m <= k
<1> DEFINE R == OpToRel(<, Nat)
<1>1. IsWellFoundedOn(R, Nat)
  BY NatLessThanWellFounded
<1>2. \A x, y \in Nat : y < x => <<y, x>> \in R
  BY DEF OpToRel
<1> HIDE DEF R
<1>3. PICK m \in S : \A k \in S : ~ (<<k, m>> \in R)
  BY <1>1, WFMin
<1>4. ASSUME NEW k \in S PROVE m <= k
  <2>1. m \in Nat /\ k \in Nat /\ ~ (k < m)
    BY <1>2, <1>3
  <2> QED BY <2>1
<1> QED BY <1>4

\* A collection that holds a finite set whenever it holds its proper subsets
\* holds every subset of a finite set.
LEMMA SubsetsByParts ==
  ASSUME NEW S, IsFiniteSet(S), NEW G,
         \A T \in SUBSET S : (\A U \in SUBSET T : U # T => U \in G) => T \in G
  PROVE  SUBSET S \subseteq G
<1> SUFFICES ASSUME ~ (SUBSET S \subseteq G) PROVE FALSE
  OBVIOUS
<1> DEFINE bad == {T \in SUBSET S : T \notin G}
           sizes == {Cardinality(T) : T \in bad}
<1>1. \A T \in SUBSET S : IsFiniteSet(T) /\ Cardinality(T) \in Nat
  BY FS_Subset, FS_CardinalityType
<1>2. sizes \in SUBSET Nat /\ sizes # {}
  BY <1>1
<1>3. PICK m \in sizes : \A k \in sizes : m <= k
  BY <1>2, LeastNatural
<1>4. PICK T \in bad : m = Cardinality(T)
  BY <1>3
<1>5. ASSUME NEW U \in SUBSET T, U # T PROVE U \in G
  <2>1. Cardinality(U) < Cardinality(T)
    <3>1. Cardinality(U) \in Nat /\ Cardinality(T) \in Nat /\ IsFiniteSet(T)
      BY <1>1, <1>4
    <3>2. Cardinality(U) <= Cardinality(T) /\ Cardinality(U) # Cardinality(T)
      BY <1>5, <3>1, FS_Subset
    <3> QED BY <3>1, <3>2
  <2>2. ASSUME U \in bad PROVE FALSE
    <3>1. Cardinality(U) \in sizes
      BY <2>2
    <3>2. Cardinality(T) <= Cardinality(U)
      BY <1>3, <1>4, <3>1
    <3>3. Cardinality(U) \in Nat /\ Cardinality(T) \in Nat
      BY <1>1, <1>4
    <3> QED BY <2>1, <3>2, <3>3
  <2> QED BY <2>2, <1>4
<1> QED BY <1>4, <1>5

AnyOf(T) == CHOOSE x \in T : TRUE

\* h adds up g over the subsets of S, as the folds of FiniteSetsExt do.
Adds(h, S, g) ==
  h = [T \in SUBSET S |-> IF T = {} THEN 0 ELSE g[AnyOf(T)] + h[T \ {AnyOf(T)}]]

\* Such an h exists: it is built size by size.
LEMMA SumsExist ==
  ASSUME NEW S, IsFiniteSet(S), NEW g \in [S -> Nat]
  PROVE  \E h : Adds(h, S, g)
<1> DEFINE Part(T, h) == IF T = {} THEN 0 ELSE g[AnyOf(T)] + h[T \ {AnyOf(T)}]
           Upto(h, n) == \A T \in SUBSET S : Cardinality(T) <= n => h[T] = Part(T, h)
           H == [SUBSET S -> Nat]
           none == {n \in Nat : ~ \E h \in H : Upto(h, n)}
<1>1. \A T \in SUBSET S : IsFiniteSet(T) /\ Cardinality(T) \in Nat
  BY FS_Subset, FS_CardinalityType
<1>2. \A T \in SUBSET S : T # {} => /\ AnyOf(T) \in T /\ AnyOf(T) \in S
                                    /\ T \ {AnyOf(T)} \in SUBSET S
                                    /\ Cardinality(T \ {AnyOf(T)}) = Cardinality(T) - 1
  BY <1>1, FS_RemoveElement DEF AnyOf
<1>3. ASSUME NEW n \in none PROVE FALSE
  <2>1. PICK m \in none : \A k \in none : m <= k
    <3>1. none \in SUBSET Nat /\ none # {}
      BY <1>3
    <3> HIDE DEF none
    <3> QED BY <3>1, LeastNatural
  <2>2. CASE m = 0
    <3> DEFINE h == [T \in SUBSET S |-> 0]
    <3>1. h \in H
      OBVIOUS
    <3>2. Upto(h, m)
      <4> SUFFICES ASSUME NEW T \in SUBSET S, Cardinality(T) <= 0 PROVE h[T] = Part(T, h)
        BY <2>2
      <4>1. T = {}
        BY <1>1, FS_EmptySet
      <4> QED BY <4>1
    <3> QED BY <2>1, <3>1, <3>2
  <2>3. CASE m # 0
    <3>1. m \in Nat /\ m - 1 \in Nat /\ m - 1 \notin none
      <4>1. m \in Nat /\ m - 1 \in Nat
        BY <2>1, <2>3
      <4>2. ~ (m <= m - 1)
        BY <4>1
      <4> HIDE DEF none
      <4> QED BY <2>1, <4>1, <4>2
    <3>2. PICK f \in H : Upto(f, m - 1)
      BY <3>1
    <3> DEFINE h == [T \in SUBSET S |-> Part(T, f)]
    <3>3. h \in H
      <4> SUFFICES ASSUME NEW T \in SUBSET S PROVE Part(T, f) \in Nat
        OBVIOUS
      <4>1. CASE T = {}
        BY <4>1
      <4>2. CASE T # {}
        <5>1. g[AnyOf(T)] \in Nat /\ f[T \ {AnyOf(T)}] \in Nat
          BY <1>2, <4>2
        <5> QED BY <4>2, <5>1
      <4> QED BY <4>1, <4>2
    <3>4. Upto(h, m)
      <4> SUFFICES ASSUME NEW T \in SUBSET S, Cardinality(T) <= m PROVE h[T] = Part(T, h)
        OBVIOUS
      <4>1. CASE T = {}
        BY <4>1
      <4>2. CASE T # {}
        <5> DEFINE U == T \ {AnyOf(T)}
        <5>1. U \in SUBSET S /\ Cardinality(U) <= m - 1
          BY <1>1, <1>2, <3>1, <4>2
        <5>2. h[U] = f[U]
          <6>1. f[U] = Part(U, f)
            BY <3>2, <5>1
          <6> QED BY <5>1, <6>1
        <5> QED BY <4>2, <5>2
      <4> QED BY <4>1, <4>2
    <3> QED BY <2>1, <3>3, <3>4
  <2> QED BY <2>2, <2>3
<1>4. Cardinality(S) \in Nat /\ \A T \in SUBSET S : Cardinality(T) <= Cardinality(S)
  BY FS_Subset, FS_CardinalityType
<1>5. PICK h \in H : Upto(h, Cardinality(S))
  BY <1>3, <1>4
<1>6. h = [T \in SUBSET S |-> Part(T, h)]
  BY <1>4, <1>5
<1> QED BY <1>6 DEF Adds

\* It adds up every subset to a natural number, whichever element is taken
\* out first.
Totals(h, S, g) ==
  /\ h[{}] = 0
  /\ \A T \in SUBSET S : h[T] \in Nat
  /\ \A T \in SUBSET S : \A x \in T : h[T] = g[x] + h[T \ {x}]

\* Any element may be taken out of the sum first.
LEMMA SumPulls ==
  ASSUME NEW S, IsFiniteSet(S), NEW g \in [S -> Nat], NEW h, Adds(h, S, g)
  PROVE  Totals(h, S, g)
<1> DEFINE Good(T) == h[T] \in Nat /\ \A x \in T : h[T] = g[x] + h[T \ {x}]
           G == {T \in SUBSET S : Good(T)}
<1>1. h[{}] = 0 /\ \A T \in SUBSET S : T # {} => h[T] = g[AnyOf(T)] + h[T \ {AnyOf(T)}]
  BY DEF Adds
<1>2. ASSUME NEW T \in SUBSET S, \A U \in SUBSET T : U # T => U \in G
      PROVE  T \in G
  <2>1. CASE T = {}
    BY <1>1, <2>1
  <2>2. CASE T # {}
    <3> DEFINE y == AnyOf(T)
    <3>1. y \in T
      BY <2>2 DEF AnyOf
    <3>2. h[T] = g[y] + h[T \ {y}] /\ g[y] \in Nat /\ h[T \ {y}] \in Nat
      BY <1>1, <1>2, <2>2, <3>1
    <3> HIDE DEF y
    <3>3. ASSUME NEW x \in T, x # y PROVE h[T] = g[x] + h[T \ {x}]
      <4> DEFINE U == (T \ {x}) \ {y}
      <4>1. h[T \ {y}] = g[x] + h[(T \ {y}) \ {x}]
        BY <1>2, <3>1, <3>3
      <4>2. h[T \ {x}] = g[y] + h[U]
        BY <1>2, <3>1, <3>3
      <4>3. (T \ {y}) \ {x} = U
        OBVIOUS
      <4>4. g[x] \in Nat /\ g[y] \in Nat /\ h[U] \in Nat
        BY <1>2, <3>1, <3>3
      <4> HIDE DEF U
      <4> QED BY <3>2, <4>1, <4>2, <4>3, <4>4
    <3>4. h[T] \in Nat
      BY <3>2
    <3>5. \A x \in T : h[T] = g[x] + h[T \ {x}]
      BY <3>2, <3>3
    <3> QED BY <3>4, <3>5
  <2> QED BY <2>1, <2>2
<1>3. SUBSET S \subseteq G
  <2> HIDE DEF G
  <2> QED BY <1>2, SubsetsByParts
<1> QED BY <1>1, <1>3 DEF Totals

\* Two sums agree on a set where they add up the same values.
SameOn(T, S, g, R, f) == T \subseteq S /\ T \subseteq R /\ IsFiniteSet(T) /\ \A x \in T : g[x] = f[x]

\* Two sums agree on a set where their summands agree.
LEMMA SumsAgree ==
  ASSUME NEW S, NEW g, NEW h, NEW R, NEW f, NEW e, Totals(h, S, g), Totals(e, R, f),
         NEW T, SameOn(T, S, g, R, f)
  PROVE  h[T] = e[T]
<1> DEFINE G == {U \in SUBSET T : h[U] = e[U]}
<1>1. ASSUME NEW U \in SUBSET T, \A V \in SUBSET U : V # U => V \in G
      PROVE  U \in G
  <2>0. U \in SUBSET S /\ U \in SUBSET R
    BY DEF SameOn
  <2>1. CASE U = {}
    BY <2>1 DEF Totals
  <2>2. CASE U # {}
    <3>1. PICK x \in U : TRUE
      BY <2>2
    <3>2. h[U] = g[x] + h[U \ {x}] /\ e[U] = f[x] + e[U \ {x}]
      BY <2>0 DEF Totals
    <3>3. h[U \ {x}] = e[U \ {x}] /\ g[x] = f[x]
      BY <1>1 DEF SameOn
    <3> QED BY <3>2, <3>3
  <2> QED BY <2>1, <2>2
<1>2. SUBSET T \subseteq G
  <2>1. IsFiniteSet(T)
    BY DEF SameOn
  <2> HIDE DEF G
  <2> QED BY <1>1, <2>1, SubsetsByParts
<1> QED BY <1>2

\* Units adds up the quantities of the lines that name the product.
LEMMA UnitsAdd ==
  ASSUME NEW lines \in Seq(Line), NEW p \in Products
  PROVE  LET S == {k \in DOMAIN lines : lines[k].sku = p}
             g == [k \in S |-> lines[k].qty]
         IN IsFiniteSet(S) /\ g \in [S -> Nat \ {0}] /\ \E h : Adds(h, S, g) /\ Ledger!Units(lines, p) = h[S]
<1> DEFINE S == {k \in DOMAIN lines : lines[k].sku = p}
           g == [k \in S |-> lines[k].qty]
           Folds(h) == h = [T \in SUBSET S |->
                              IF T = {} THEN 0
                              ELSE lines[CHOOSE x \in T : TRUE].qty + h[T \ {CHOOSE x \in T : TRUE}]]
           it == CHOOSE h : Folds(h)
<1>1. IsFiniteSet(S)
  BY FS_Interval, FS_Subset
<1>2. g \in [S -> Nat \ {0}]
  <2>1. \A k \in S : lines[k] \in Line
    OBVIOUS
  <2> QED BY <2>1 DEF Line
<1>3. Ledger!Units(lines, p) = it[S]
  BY DEF Ledger!Units, Ledger!MapThenSumSet, Ledger!MapThenFoldSet
<1>4. \A h : Folds(h) <=> Adds(h, S, g)
  <2> SUFFICES ASSUME NEW h
               PROVE  [T \in SUBSET S |->
                              IF T = {} THEN 0
                              ELSE lines[CHOOSE x \in T : TRUE].qty + h[T \ {CHOOSE x \in T : TRUE}]]
                      = [T \in SUBSET S |-> IF T = {} THEN 0 ELSE g[AnyOf(T)] + h[T \ {AnyOf(T)}]]
    BY DEF Adds
  <2>1. ASSUME NEW T \in SUBSET S, T # {} PROVE g[AnyOf(T)] = lines[CHOOSE x \in T : TRUE].qty
    BY <2>1 DEF AnyOf
  <2> HIDE DEF g
  <2>2. ASSUME NEW T \in SUBSET S
        PROVE (IF T = {} THEN 0 ELSE lines[CHOOSE x \in T : TRUE].qty + h[T \ {CHOOSE x \in T : TRUE}])
              = (IF T = {} THEN 0 ELSE g[AnyOf(T)] + h[T \ {AnyOf(T)}])
    BY <2>1 DEF AnyOf
  <2> QED BY <2>2
<1> HIDE DEF Folds, g, S
<1>5. \E h : Folds(h)
  <2>1. g \in [S -> Nat]
    BY <1>2
  <2> QED BY <1>1, <1>4, <2>1, SumsExist
<1>6. Adds(it, S, g)
  BY <1>4, <1>5
<1>7. IsFiniteSet(S) /\ g \in [S -> Nat \ {0}] /\ \E h : Adds(h, S, g) /\ Ledger!Units(lines, p) = h[S]
  BY <1>1, <1>2, <1>3, <1>6
<1> QED BY <1>7 DEF S, g

\* A product has units in a cart exactly when a line names it, and those of the
\* line when no other line does.
LEMMA UnitsCount ==
  ASSUME NEW lines \in Seq(Line), NEW p \in Products
  PROVE  /\ Ledger!Units(lines, p) \in Nat
         /\ Ledger!Units(lines, p) = 0 <=> \A k \in DOMAIN lines : lines[k].sku # p
         /\ \A k \in DOMAIN lines :
              (\A j \in DOMAIN lines : lines[j].sku = p <=> j = k) => Ledger!Units(lines, p) = lines[k].qty
<1> DEFINE S == {k \in DOMAIN lines : lines[k].sku = p}
           g == [k \in S |-> lines[k].qty]
           u == Ledger!Units(lines, p)
<1>0. \A k \in S : g[k] = lines[k].qty /\ k \in DOMAIN lines /\ lines[k].sku = p
  OBVIOUS
<1>1. IsFiniteSet(S) /\ g \in [S -> Nat \ {0}] /\ \E h : Adds(h, S, g) /\ u = h[S]
  BY UnitsAdd
<1>2. \A k \in DOMAIN lines : lines[k].sku = p => k \in S
  OBVIOUS
<1> HIDE DEF S, g, u
<1>3. g \in [S -> Nat]
  BY <1>1
<1>4. PICK h : Adds(h, S, g) /\ u = h[S]
  BY <1>1
<1>5. h[{}] = 0 /\ h[S] \in Nat /\ \A x \in S : h[S] = g[x] + h[S \ {x}] /\ h[S \ {x}] \in Nat
  <2>1. Totals(h, S, g)
    BY <1>1, <1>3, <1>4, SumPulls
  <2> QED BY <2>1 DEF Totals
<1>6. u = 0 <=> S = {}
  <2>1. ASSUME NEW x \in S PROVE u # 0
    <3>1. g[x] \in Nat \ {0} /\ h[S \ {x}] \in Nat /\ u = g[x] + h[S \ {x}]
      BY <1>1, <1>4, <1>5
    <3> QED BY <3>1
  <2> QED BY <1>4, <1>5, <2>1
<1>7. ASSUME NEW k \in DOMAIN lines, \A j \in DOMAIN lines : lines[j].sku = p <=> j = k
      PROVE u = lines[k].qty
  <2>1. S = {k} /\ g[k] = lines[k].qty
    BY <1>0, <1>2, <1>7
  <2>2. u = g[k] + h[{}] /\ g[k] \in Nat
    BY <1>3, <1>4, <1>5, <2>1
  <2> QED BY <1>5, <2>1, <2>2
<1>8. u \in Nat /\ (u = 0 <=> \A k \in DOMAIN lines : lines[k].sku # p)
  BY <1>0, <1>2, <1>4, <1>5, <1>6
<1> QED BY <1>7, <1>8 DEF u

\* The units of p in an order that stands, and in all the orders of a table.
UnitsIn(o, p) == IF o.status = "cancelled" THEN 0 ELSE Ledger!Units(o.lines, p)
Held(os, p) ==
  MapThenSumSet(LAMBDA i : IF os[i].status = "cancelled" THEN 0
                           ELSE Ledger!Units(os[i].lines, p), DOMAIN os)

\* Balance is the stock and what the orders hold, before and after a step.
LEMMA BalanceHolds == \A p : /\ Balance(p) = products[p].stock + Held(orders, p)
                             /\ Balance(p)' = products'[p].stock + Held(orders', p)
  BY DEF Balance, Held, OrderIds, MapThenSumSet, MapThenFoldSet

\* What the orders of a table hold is such a sum.
LEMMA HeldAdds ==
  ASSUME NEW os \in Seq(OrderRow), NEW p \in Products
  PROVE  LET S == DOMAIN os
             g == [i \in S |-> UnitsIn(os[i], p)]
         IN IsFiniteSet(S) /\ g \in [S -> Nat] /\ \E h : Adds(h, S, g) /\ Held(os, p) = h[S]
<1> DEFINE S == DOMAIN os
           g == [i \in S |-> UnitsIn(os[i], p)]
           Folds(h) == h = [T \in SUBSET S |->
                              IF T = {} THEN 0
                              ELSE (IF os[CHOOSE x \in T : TRUE].status = "cancelled" THEN 0
                                    ELSE Ledger!Units(os[CHOOSE x \in T : TRUE].lines, p))
                                   + h[T \ {CHOOSE x \in T : TRUE}]]
           it == CHOOSE h : Folds(h)
<1>1. IsFiniteSet(S)
  BY FS_Interval
<1>2. g \in [S -> Nat]
  <2> SUFFICES ASSUME NEW i \in S PROVE UnitsIn(os[i], p) \in Nat
    OBVIOUS
  <2>1. os[i] \in OrderRow
    OBVIOUS
  <2>2. os[i].lines \in Seq(Line)
    BY <2>1 DEF OrderRow
  <2> QED BY <2>2, UnitsCount DEF UnitsIn
<1>3. Held(os, p) = it[S]
  BY DEF Held, MapThenSumSet, MapThenFoldSet
<1>4. \A h : Folds(h) <=> Adds(h, S, g)
  <2> SUFFICES ASSUME NEW h
               PROVE  [T \in SUBSET S |->
                              IF T = {} THEN 0
                              ELSE (IF os[CHOOSE x \in T : TRUE].status = "cancelled" THEN 0
                                    ELSE Ledger!Units(os[CHOOSE x \in T : TRUE].lines, p))
                                   + h[T \ {CHOOSE x \in T : TRUE}]]
                      = [T \in SUBSET S |-> IF T = {} THEN 0 ELSE g[AnyOf(T)] + h[T \ {AnyOf(T)}]]
    BY DEF Adds
  <2>1. ASSUME NEW T \in SUBSET S, T # {} PROVE g[AnyOf(T)] = UnitsIn(os[CHOOSE x \in T : TRUE], p)
    BY <2>1 DEF AnyOf
  <2> HIDE DEF g
  <2>2. ASSUME NEW T \in SUBSET S
        PROVE (IF T = {} THEN 0
               ELSE (IF os[CHOOSE x \in T : TRUE].status = "cancelled" THEN 0
                     ELSE Ledger!Units(os[CHOOSE x \in T : TRUE].lines, p))
                    + h[T \ {CHOOSE x \in T : TRUE}])
              = (IF T = {} THEN 0 ELSE g[AnyOf(T)] + h[T \ {AnyOf(T)}])
    BY <2>1 DEF AnyOf, UnitsIn
  <2> QED BY <2>2
<1> HIDE DEF Folds, g, S
<1>5. \E h : Folds(h)
  BY <1>1, <1>2, <1>4, SumsExist
<1>6. Adds(it, S, g)
  BY <1>4, <1>5
<1>7. IsFiniteSet(S) /\ g \in [S -> Nat] /\ \E h : Adds(h, S, g) /\ Held(os, p) = h[S]
  BY <1>1, <1>2, <1>3, <1>6
<1> QED BY <1>7 DEF S, g

\* An order that changes, and an order that is added, change the sum by their
\* own units only.
Written(os, new, i, o) ==
  \/ i \in DOMAIN os /\ new = [os EXCEPT ![i] = o]
  \/ i = Len(os) + 1 /\ new = Append(os, o)

\* A row written in place or appended changes what is held by its own units only.
LEMMA HeldChanges ==
  ASSUME NEW os \in Seq(OrderRow), NEW p \in Products, NEW o \in OrderRow, NEW i, NEW new \in Seq(OrderRow),
         Written(os, new, i, o)
  PROVE  /\ Held(os, p) \in Nat /\ Held(new, p) \in Nat /\ UnitsIn(o, p) \in Nat
         /\ i \in DOMAIN os => UnitsIn(os[i], p) \in Nat
         /\ Held(new, p) = Held(os, p) - (IF i \in DOMAIN os THEN UnitsIn(os[i], p) ELSE 0) + UnitsIn(o, p)
<1> DEFINE S == DOMAIN os
           R == DOMAIN new
           g == [j \in S |-> UnitsIn(os[j], p)]
           f2 == [j \in R |-> UnitsIn(new[j], p)]
           T == S \ {i}
<1>1. /\ R \ {i} = T /\ i \in R /\ new[i] = o /\ \A j \in T : new[j] = os[j]
  <2>1. CASE i \in DOMAIN os /\ new = [os EXCEPT ![i] = o]
    BY <2>1
  <2>2. CASE i = Len(os) + 1 /\ new = Append(os, o)
    <3>1. Len(os) \in Nat /\ DOMAIN os = 1..Len(os) /\ DOMAIN new = 1..(Len(os) + 1)
      BY <2>2, AppendProperties, LenProperties
    <3>2. new[Len(os) + 1] = o /\ \A j \in 1..Len(os) : new[j] = os[j]
      BY <2>2, AppendProperties
    <3> QED BY <2>2, <3>1, <3>2
  <2> QED BY <2>1, <2>2 DEF Written
<1>2. i \in S \/ (T = S /\ i \notin S)
  OBVIOUS
<1>3. IsFiniteSet(S) /\ g \in [S -> Nat] /\ \E h : Adds(h, S, g) /\ Held(os, p) = h[S]
  BY HeldAdds
<1>4. IsFiniteSet(R) /\ f2 \in [R -> Nat] /\ \E h : Adds(h, R, f2) /\ Held(new, p) = h[R]
  BY HeldAdds
<1>5. /\ \A j \in T : g[j] = f2[j]
      /\ f2[i] = UnitsIn(o, p)
      /\ i \in S => g[i] = UnitsIn(os[i], p)
  BY <1>1
<1>6. T \subseteq S /\ T \subseteq R
  BY <1>1
<1> HIDE DEF g, f2, S, R, T
<1>14. IsFiniteSet(S) /\ g \in [S -> Nat] /\ IsFiniteSet(R) /\ f2 \in [R -> Nat]
  BY <1>3, <1>4
<1>7. PICK h : Adds(h, S, g) /\ Held(os, p) = h[S]
  BY <1>3
<1>8. PICK e2 : Adds(e2, R, f2) /\ Held(new, p) = e2[R]
  BY <1>4
<1>9. Totals(h, S, g) /\ Totals(e2, R, f2)
  BY <1>14, <1>7, <1>8, SumPulls
<1>10. h[S] \in Nat /\ h[T] \in Nat /\ (i \in S => h[S] = g[i] + h[S \ {i}] /\ g[i] \in Nat)
  BY <1>9, <1>6, <1>14 DEF Totals
<1>11. e2[R] \in Nat /\ e2[R] = f2[i] + e2[T] /\ f2[i] \in Nat
  BY <1>1, <1>9, <1>14 DEF Totals
<1>15. h[T] = e2[T]
  <2>1. SameOn(T, S, g, R, f2)
    BY <1>5, <1>6, <1>14, FS_Subset DEF SameOn
  <2> QED BY <1>9, <2>1, SumsAgree
<1>12. i \in S => h[S] = g[i] + h[T]
  BY <1>10 DEF T
<1>13. \A a, b, c, d \in Nat : a = b + c => d + c = a - b + d
  OBVIOUS
<1> QED BY <1>2, <1>5, <1>7, <1>8, <1>10, <1>11, <1>12, <1>13, <1>15 DEF S

-----------------------------------------------------------------------------
(* Shops whose sessions serve separate products.  The tables change between  *)
(* two steps of a handler, but not where the handler looks: the products of  *)
(* its requests are in the scope of no other session, and neither are the    *)
(* orders, which have lines and name products of one scope.                  *)

Separate == \A s, u \in Sessions : s # u => Scope[s] \cap Scope[u] = {}

\* No cart names a product on two lines.
NoRepeats == \A cart \in Carts : \A j, k \in DOMAIN cart : cart[j].sku = cart[k].sku => j = k

Restorers == {"cancel", "admincancel", "autocancel"}
Names(lines) == {lines[k].sku : k \in DOMAIN lines}

\* The statements of each handler.
Points(op) ==
  CASE op = "create"            -> CreatePoints
    [] op \in Restorers         -> {"load", "restore", "give", "status", "lookup", "commit", "refund"}
    [] op \in {"repay", "flag"} -> {"status", "commit"}
    [] op = "approve"           -> {"load", "status", "resolve", "commit"}
    [] op = "resend"            -> {"resolve", "commit"}
    [] op = "level"             -> {"level", "commit"}
    [] op = "receipt"           -> {"file"}
    [] op = "refund"            -> {"refund"}
    [] OTHER                    -> {"idle"}

\* The session holds the object of an order that it changes.
Changes(t) == t.id # 0 /\ t.at \notin {"load", "file", "refund"}

\* What a handler makes of the order it read.
Intends(op, old, new) ==
  \/ op \in Restorers /\ MayCancel(op, old.status) /\ new = [old EXCEPT !.status = "cancelled"]
  \/ op = "repay" /\ MayRepay(old.status) /\ \E pay \in PayMethods : new = Repaid(old, pay)
  \/ op = "approve" /\ MayApprove(old.status) /\ new = [old EXCEPT !.status = "paid"]
  \/ op = "flag" /\ new = [old EXCEPT !.flagged = TRUE]

\* Session s in state t keeps to its scope, in the tables of orders O and of
\* receipts V.
Scoped(s, t, O, V) ==
  /\ t.known \cup Names(t.want.lines) \subseteq Scope[s]
  /\ t.id # 0 => Names(O[t.id].lines) \subseteq Scope[s]
  /\ t.rid # 0 /\ V[t.rid].order # 0 => Names(O[V[t.rid].order].lines) \subseteq Scope[s]

\* It is about the order as the table has it, or about a new one.
Meant(t, O) ==
  /\ t.at \in Points(t.op)
  /\ t.op \in {"create", "level", "resend"} \/ (t.op = "approve" /\ t.at = "load") => t.id = 0
  /\ IF t.op = "create" THEN t.want.lines \in Carts /\ t.want.status = StatusFor(t.want.pay) /\ ~ t.want.flagged
     ELSE IF Changes(t) THEN t.row = O[t.id] /\ Intends(t.op, t.row, t.want)
     ELSE t.want.lines = <<>>

\* The lines whose product has been read.
ReadUpTo(t) == CASE t.at \in {"check", "restore"} -> t.n - 1
                 [] t.at = "give"                 -> t.n
                 [] OTHER                         -> Len(t.want.lines)

\* Its objects differ from the rows P in the columns it has sent, and are shown
\* while they have stock; but for a cancellation, stock is only taken.
Synced(t, P) ==
  /\ t.dirty \subseteq t.known \X Columns
  /\ \A p \in t.known : /\ \A c \in Columns : <<p, c>> \notin t.dirty => t.obj[p][c] = P[p][c]
                        /\ t.obj[p].active <=> t.obj[p].stock > 0
                        /\ t.op \notin Restorers \cup {"level"} => t.obj[p].stock <= P[p].stock
  /\ IF t.op = "level"
     THEN /\ t.n \in 0..MaxLevel
          /\ \E p \in Products : t.known = {p}
          /\ t.at = "commit" => \A p \in t.known : t.obj[p] = Levelled(t.n)
     ELSE t.known \subseteq IF t.op \in Restorers \cup {"create"} THEN Names(t.want.lines) ELSE {}
  /\ t.op \in Restorers \cup {"create"} =>
       \A k \in DOMAIN t.want.lines : k <= ReadUpTo(t) => t.want.lines[k].sku \in t.known

\* The lines whose units have moved.
MovedUpTo(t) == CASE t.at = "check"                      -> 0
                  [] t.at \in {"take", "restore", "give"} -> t.n - 1
                  [] OTHER                               -> Len(t.want.lines)
Moved(op, o, qty) == IF op = "create" THEN Decremented(o, qty) ELSE Restored(o, qty)

\* Line by line, its objects are the rows P with the units moved so far.
Exact(t, P) ==
  t.op \in Restorers \cup {"create"} =>
    \A k \in DOMAIN t.want.lines :
      LET p == t.want.lines[k].sku qty == t.want.lines[k].qty IN
      /\ k <= ReadUpTo(t) /\ t.op = "create" => P[p].active /\ P[p].stock >= qty
      /\ k <= MovedUpTo(t) => t.obj[p] = Moved(t.op, P[p], qty)
      /\ k > MovedUpTo(t) /\ p \in t.known => t.obj[p] = P[p]

\* A product is shown exactly while it has stock, in a form for the provers.
Shown == \A p \in Products : products[p].active <=> products[p].stock > 0

FromCarts == \A i \in OrderIds : orders[i].lines \in Carts

Fine(s, t, P, O, V) == Scoped(s, t, O, V) /\ Meant(t, O) /\ Synced(t, P)

ShelfInv ==
  /\ DeskInv
  /\ FromCarts
  /\ Shown
  /\ \A s \in Sessions : Fine(s, txn[s], products, orders, receipts)

ExactInv == \A s \in Sessions : Exact(txn[s], products)

\* What a step of s does to the tables: orders keep their lines and receipts
\* their orders; what else changes is in the scope of s.
TablesMove(s) ==
  /\ \A i \in OrderIds : /\ i \in DOMAIN orders' /\ orders'[i].lines = orders[i].lines
                         /\ orders'[i] = orders[i] \/ Names(orders[i].lines) \subseteq Scope[s]
  /\ \A v \in DOMAIN receipts : v \in DOMAIN receipts' /\ receipts'[v].order = receipts[v].order
  /\ \A p \in Products : products'[p] = products[p] \/ p \in Scope[s]

\* A session that is not the one that moves, or that holds nothing, stays fine.
LEMMA FineKept ==
  ASSUME TypeInv, Separate, NEW s \in Sessions, TablesMove(s), NEW v \in Sessions, NEW t \in Txn, Fits(t),
         Fine(v, t, products, orders, receipts),
         v # s \/ (t.known = {} /\ ~ Changes(t))
  PROVE  Fine(v, t, products', orders', receipts')
<1>1. /\ t.id # 0 => t.id \in OrderIds
      /\ t.rid # 0 => t.rid \in DOMAIN receipts
                      /\ (receipts[t.rid].order # 0 => receipts[t.rid].order \in OrderIds)
  BY TablesTyped DEF Fits
<1>2. Scoped(v, t, orders', receipts')
  <2>1. t.id # 0 => Names(orders'[t.id].lines) \subseteq Scope[v]
    BY <1>1 DEF Fine, Scoped, TablesMove
  <2>2. t.rid # 0 /\ receipts'[t.rid].order # 0 => Names(orders'[receipts'[t.rid].order].lines) \subseteq Scope[v]
    BY <1>1 DEF Fine, Scoped, TablesMove
  <2> QED BY <2>1, <2>2 DEF Fine, Scoped
<1>3. Meant(t, orders')
  <2>1. CASE ~ (t.op # "create" /\ Changes(t))
    BY <2>1 DEF Fine, Meant
  <2>2. CASE t.op # "create" /\ Changes(t)
    <3>1. t.id \in OrderIds /\ t.row = orders[t.id] /\ Names(orders[t.id].lines) \subseteq Scope[v]
      BY <1>1, <2>2 DEF Changes, Fine, Meant, Scoped
    <3>2. Scope[v] \cap Scope[s] = {}
      BY <2>2 DEF Separate
    <3>3. Names(orders[t.id].lines) # {}
      <4>1. orders[t.id] \in OrderRow /\ orders[t.id].lines # <<>>
        BY <3>1, TablesTyped
      <4>2. orders[t.id].lines \in Seq(Line)
        BY <4>1 DEF OrderRow
      <4>3. 1 \in DOMAIN orders[t.id].lines
        BY <4>1, <4>2, EmptySeq
      <4> QED BY <4>3 DEF Names
    <3>4. orders'[t.id] = orders[t.id]
      BY <3>1, <3>2, <3>3 DEF TablesMove
    <3> QED BY <2>2, <3>1, <3>4 DEF Fine, Meant
  <2> QED BY <2>1, <2>2
<1>4. Synced(t, products')
  <2>1. ASSUME NEW p \in t.known PROVE products'[p] = products[p]
    <3>1. p \in Products /\ p \in Scope[v] /\ v # s
      BY <2>1 DEF Txn, Fine, Scoped
    <3> QED BY <3>1 DEF Separate, TablesMove
  <2> QED BY <2>1 DEF Fine, Synced
<1> QED BY <1>2, <1>3, <1>4 DEF Fine

\* A handler that holds no order object and no product.
LEMMA BareFine ==
  ASSUME NEW s \in Sessions, NEW r, r.op \notin {"create", "level"}, r.at \in Points(r.op),
         r.known = {}, r.dirty = {}, r.want.lines = <<>>,
         r.id # 0 => /\ r.op \notin {"resend", "approve"} /\ r.at \in {"load", "file", "refund"}
                     /\ Names(orders[r.id].lines) \subseteq Scope[s],
         r.rid # 0 /\ receipts[r.rid].order # 0 => Names(orders[receipts[r.rid].order].lines) \subseteq Scope[s]
  PROVE  Fine(s, r, products, orders, receipts) /\ ~ Changes(r)
<1>1. ~ Changes(r)
  BY DEF Changes
<1>2. Names(r.want.lines) = {}
  BY DEF Names
<1>3. Scoped(s, r, orders, receipts)
  BY <1>2 DEF Scoped
<1>4. Meant(r, orders)
  BY <1>1 DEF Meant
<1>5. Synced(r, products)
  BY DEF Synced
<1> QED BY <1>1, <1>3, <1>4, <1>5 DEF Fine

\* A handler that has just begun is fine.
LEMMA BegunFine ==
  ASSUME NEW s \in Sessions, NEW op, op \notin {"create", "level"}, NEW at \in Points(op), NEW i, NEW v,
         i # 0 => op \notin {"resend", "approve"} /\ at \in {"load", "file", "refund"} /\ Names(orders[i].lines) \subseteq Scope[s],
         v # 0 /\ receipts[v].order # 0 => Names(orders[receipts[v].order].lines) \subseteq Scope[s]
  PROVE  /\ Fine(s, Begun(op, at, i, v), products, orders, receipts)
         /\ Begun(op, at, i, v).known = {} /\ ~ Changes(Begun(op, at, i, v))
<1> DEFINE r == Begun(op, at, i, v)
<1>1. /\ r.op = op /\ r.at = at /\ r.id = i /\ r.rid = v
      /\ r.known = {} /\ r.dirty = {} /\ r.want.lines = <<>>
  <2>1. Idle.known = {} /\ Idle.dirty = {} /\ Idle.want.lines = <<>>
    BY DEF Idle, Blank
  <2> QED BY <2>1, IdleIsTxn DEF Begun, Txn
<1> HIDE DEF r
<1>2. Fine(s, r, products, orders, receipts) /\ ~ Changes(r)
  BY <1>1, BareFine
<1> QED BY <1>1, <1>2 DEF r

\* An idle session is fine.
LEMMA IdleFine ==
  ASSUME NEW s \in Sessions
  PROVE  /\ Fine(s, Idle, products, orders, receipts)
         /\ Idle.known = {} /\ ~ Changes(Idle)
<1>1. /\ Idle.op = "none" /\ Idle.at = "idle" /\ Idle.id = 0 /\ Idle.rid = 0
      /\ Idle.known = {} /\ Idle.dirty = {} /\ Idle.want.lines = <<>>
  BY DEF Idle, Blank
<1>2. "idle" \in Points("none")
  BY DEF Points, Restorers
<1> QED BY <1>1, <1>2, BareFine

\* A handler that has read order i and means to leave it as w.
LEMMA ChangingFine ==
  ASSUME TypeInv, NEW s \in Sessions, NEW i \in OrderIds, Names(orders[i].lines) \subseteq Scope[s],
         NEW w, w.lines = orders[i].lines,
         NEW op, op \notin {"create", "level", "resend"}, NEW at \in Points(op) \ {"load", "file", "refund"},
         NEW n, op \in Restorers => at = "restore" /\ n = 1, Intends(op, orders[i], w)
  PROVE  Fine(s, Changing(op, at, n, i, w), products, orders, receipts)
<1> DEFINE r == Changing(op, at, n, i, w)
           o == orders[i]
<1>1. r = [Idle EXCEPT !.op = op, !.at = at, !.n = n, !.id = i, !.row = o, !.want = w]
  BY DEF Changing
<1>2. i # 0 /\ Idle.known = {} /\ Idle.dirty = {} /\ Idle.rid = 0
  BY TablesTyped DEF Idle
<1>3. o = orders[i] /\ w.lines = o.lines /\ Names(o.lines) \subseteq Scope[s] /\ Intends(op, o, w)
  OBVIOUS
<1> HIDE DEF r, o
<1>4. /\ r.op = op /\ r.at = at /\ r.n = n /\ r.id = i /\ r.rid = 0 /\ r.row = o /\ r.want = w
      /\ r.known = {} /\ r.dirty = {}
  BY <1>1, <1>2, IdleIsTxn DEF Txn
<1>5. Scoped(s, r, orders, receipts)
  BY <1>3, <1>4 DEF Scoped
<1>6. Meant(r, orders)
  BY <1>2, <1>3, <1>4 DEF Meant, Changes
<1>7. Synced(r, products)
  <2>1. op \in Restorers => ReadUpTo(r) = 0
    BY <1>4 DEF ReadUpTo
  <2>2. \A k \in DOMAIN r.want.lines : k >= 1
    <3>1. o \in OrderRow
      BY TablesTyped DEF o
    <3>2. o.lines \in Seq(Line)
      BY <3>1 DEF OrderRow
    <3> QED BY <1>3, <1>4, <3>2
  <2>3. op \in Restorers \cup {"create"} =>
          \A k \in DOMAIN r.want.lines : k <= ReadUpTo(r) => r.want.lines[k].sku \in r.known
    <3> SUFFICES ASSUME op \in Restorers, NEW k \in DOMAIN r.want.lines, k <= ReadUpTo(r) PROVE FALSE
      OBVIOUS
    <3>1. DOMAIN r.want.lines \subseteq Nat
      <4>1. o \in OrderRow
        BY TablesTyped DEF o
      <4>2. o.lines \in Seq(Line)
        BY <4>1 DEF OrderRow
      <4> QED BY <1>3, <1>4, <4>2
    <3>2. k \in Nat /\ k >= 1 /\ k <= 0
      BY <2>1, <2>2, <3>1
    <3> QED BY <3>2
  <2> QED BY <1>4, <2>3 DEF Synced
<1> QED BY <1>5, <1>6, <1>7 DEF Fine, r

\* A request that arrives is within the scope of its session.
LEMMA ArrivalsFine ==
  ASSUME DeskInv, FromCarts, Shown, NEW s \in Sessions, Arrive(s) \/ ListStale(s)
  PROVE  Fine(s, txn'[s], products, orders, receipts)
<1>0. TypeInv /\ RowInv
  BY DEF DeskInv
<1>1. \A i : InScope(s, i) => Names(orders[i].lines) \subseteq Scope[s]
  BY DEF InScope, Names
<1>2. CASE CreateOrder(s)
  <2>1. PICK cart \in Carts, pay \in PayMethods, c \in Customers :
          /\ \A k \in DOMAIN cart : cart[k].sku \in Scope[s]
          /\ Continue(s, [Idle EXCEPT !.op = "create", !.at = "check", !.n = 1,
                         !.want = [Blank EXCEPT !.cust = c, !.lines = cart, !.pay = pay,
                                                !.status = StatusFor(pay)]])
    BY <1>2 DEF CreateOrder
  <2> DEFINE o == [Blank EXCEPT !.cust = c, !.lines = cart, !.pay = pay, !.status = StatusFor(pay)]
             r == [Idle EXCEPT !.op = "create", !.at = "check", !.n = 1, !.want = o]
  <2>2. o.lines = cart /\ o.pay = pay /\ o.status = StatusFor(pay) /\ o.flagged = FALSE
    BY IdleIsTxn DEF Blank
  <2>3. Continue(s, r)
    BY <2>1
  <2> HIDE DEF o
  <2>4. /\ r.op = "create" /\ r.at = "check" /\ r.want = o /\ r.id = 0 /\ r.rid = 0
        /\ r.known = {} /\ r.dirty = {} /\ r.n = 1
    BY IdleIsTxn DEF Txn, Idle
  <2> HIDE DEF r
  <2>5. Scoped(s, r, orders, receipts)
    BY <2>1, <2>2, <2>4 DEF Scoped, Names
  <2>6. Meant(r, orders)
    <3>1. "check" \in Points("create")
      BY DEF Points, CreatePoints, Restorers
    <3> QED BY <2>2, <2>4, <3>1 DEF Meant
  <2>7. Synced(r, products)
    <3>1. ReadUpTo(r) = 0
      BY <2>4 DEF ReadUpTo
    <3>2. cart \in Seq(Line)
      BY CartsAreCarts
    <3>3. \A k \in DOMAIN r.want.lines : ~ (k <= ReadUpTo(r))
      BY <2>2, <2>4, <3>1, <3>2
    <3> QED BY <2>4, <3>3 DEF Synced
  <2>8. Fine(s, r, products, orders, receipts)
    BY <2>5, <2>6, <2>7 DEF Fine
  <2> QED BY <1>0, <2>3, <2>8, Continued
<1>3. CASE LoadForCancel(s)
  <2>1. PICK op \in {"cancel", "admincancel"}, i \in OrderIds :
          InScope(s, i) /\ MayCancel(op, orders[i].status) /\ Continue(s, Restoring(op, i))
    BY <1>3 DEF LoadForCancel
  <2> DEFINE w == [orders[i] EXCEPT !.status = "cancelled"]
  <2>2. w.lines = orders[i].lines /\ Intends(op, orders[i], w)
    <3>1. w.lines = orders[i].lines
      BY <1>0, TablesTyped DEF OrderRow
    <3> QED BY <2>1, <3>1 DEF Intends, Restorers
  <2>3. /\ "restore" \in Points(op) \ {"load", "file", "refund"}
        /\ op \notin {"create", "level", "resend"}
    BY DEF Points, Restorers
  <2> HIDE DEF w
  <2>4. Fine(s, Changing(op, "restore", 1, i, w), products, orders, receipts)
    BY <1>0, <1>1, <2>1, <2>2, <2>3, ChangingFine
  <2> QED BY <1>0, <2>1, <2>4, Continued DEF Restoring, w
<1>4. CASE LoadForRepay(s)
  <2>1. PICK i \in OrderIds, pay \in PayMethods :
          /\ InScope(s, i) /\ MayRepay(orders[i].status)
          /\ Continue(s, Changing("repay", "status", 0, i, Repaid(orders[i], pay)))
    BY <1>4 DEF LoadForRepay
  <2> DEFINE w == Repaid(orders[i], pay)
  <2>2. w.lines = orders[i].lines /\ Intends("repay", orders[i], w)
    <3>1. w.lines = orders[i].lines
      BY <1>0, TablesTyped DEF OrderRow, Repaid
    <3> QED BY <2>1, <3>1 DEF Intends
  <2>3. "status" \in Points("repay") \ {"load", "file", "refund"} /\ "repay" \notin Restorers
    BY DEF Points, Restorers
  <2> HIDE DEF w
  <2>4. Fine(s, Changing("repay", "status", 0, i, w), products, orders, receipts)
    BY <1>0, <1>1, <2>1, <2>2, <2>3, ChangingFine
  <2> QED BY <1>0, <2>1, <2>4, Continued DEF w
<1>5. CASE LoadForFlag(s)
  <2>1. PICK i \in OrderIds :
          /\ InScope(s, i)
          /\ Continue(s, Changing("flag", "status", 0, i, [orders[i] EXCEPT !.flagged = TRUE]))
    BY <1>5 DEF LoadForFlag
  <2> DEFINE w == [orders[i] EXCEPT !.flagged = TRUE]
  <2>2. w.lines = orders[i].lines /\ Intends("flag", orders[i], w)
    <3>1. w.lines = orders[i].lines
      BY <1>0, TablesTyped DEF OrderRow
    <3> QED BY <3>1 DEF Intends
  <2>3. "status" \in Points("flag") \ {"load", "file", "refund"} /\ "flag" \notin Restorers
    BY DEF Points, Restorers
  <2> HIDE DEF w
  <2>4. Fine(s, Changing("flag", "status", 0, i, w), products, orders, receipts)
    BY <1>0, <1>1, <2>1, <2>2, <2>3, ChangingFine
  <2> QED BY <1>0, <2>1, <2>4, Continued DEF w
<1>6. CASE LoadForLevel(s)
  <2>1. PICK p \in Scope[s], level \in 0..MaxLevel :
          Continue(s, Holding([Idle EXCEPT !.op = "level", !.at = "level", !.n = level], p, products[p]))
    BY <1>6 DEF LoadForLevel
  <2> DEFINE t == [Idle EXCEPT !.op = "level", !.at = "level", !.n = level]
             r == Holding(t, p, products[p])
  <2>2. p \in Products /\ products[p] \in ProductRow /\ level \in Nat /\ "level" \in OpNames
    BY <1>0, SessionsAreScoped, BoundsAreNaturals DEF TypeInv, TypeOK, OpNames
  <2>3. /\ t \in Txn /\ t.op = "level" /\ t.at = "level" /\ t.n = level /\ t.id = 0 /\ t.rid = 0
        /\ t.known = {} /\ t.dirty = {} /\ t.want.lines = <<>>
    <3>1. Idle.id = 0 /\ Idle.rid = 0 /\ Idle.known = {} /\ Idle.dirty = {} /\ Idle.want.lines = <<>>
      BY DEF Idle, Blank
    <3> QED BY <2>2, <3>1, IdleIsTxn DEF Txn
  <2>4. Continue(s, r)
    BY <2>1
  <2> HIDE DEF t
  <2>5. /\ r.op = "level" /\ r.at = "level" /\ r.n = level /\ r.id = 0 /\ r.rid = 0
        /\ r.known = {p} /\ r.want.lines = <<>>
    BY <2>2, <2>3, HoldingIsTxn
  <2>6. r.dirty = {} /\ r.obj[p] = products[p]
    BY <2>2, <2>3 DEF Holding, Txn
  <2> HIDE DEF r
  <2>7. Names(r.want.lines) = {}
    BY <2>5 DEF Names
  <2>8. Scoped(s, r, orders, receipts)
    BY <2>5, <2>7 DEF Scoped
  <2>9. Meant(r, orders)
    BY <2>5 DEF Meant, Changes, Points, Restorers
  <2>10. Synced(r, products)
    BY <2>2, <2>5, <2>6 DEF Synced, Shown, Restorers
  <2>11. Fine(s, r, products, orders, receipts)
    BY <2>8, <2>9, <2>10 DEF Fine
  <2> QED BY <1>0, <2>4, <2>11, Continued
<1>7. CASE ListStale(s)
  <2>1. PICK i \in OrderIds : InScope(s, i) /\ Continue(s, Begun("autocancel", "load", i, 0))
    BY <1>7 DEF ListStale
  <2>2. "load" \in Points("autocancel")
    BY DEF Points, Restorers
  <2> QED BY <1>0, <1>1, <2>1, <2>2, BegunFine, Continued
<1>8. CASE ReadReceipt(s)
  <2>1. PICK i : (i # 0 => InScope(s, i)) /\ Continue(s, Begun("receipt", "file", i, 0))
    BY <1>8 DEF ReadReceipt
  <2>2. "file" \in Points("receipt")
    BY DEF Points, Restorers
  <2> QED BY <1>0, <1>1, <2>1, <2>2, BegunFine, Continued
<1>9. CASE LoadReceipt(s)
  <2>1. PICK op \in {"approve", "resend"}, v \in DOMAIN receipts :
          /\ ReceiptInScope(s, v)
          /\ Continue(s, Begun(op, IF op = "approve" THEN "load" ELSE "resolve", 0, v))
    BY <1>9 DEF LoadReceipt
  <2> DEFINE at == IF op = "approve" THEN "load" ELSE "resolve"
  <2>2. at \in Points(op) /\ Continue(s, Begun(op, at, 0, v))
    BY <2>1 DEF Points, Restorers
  <2>3. v # 0 /\ receipts[v].order # 0 => Names(orders[receipts[v].order].lines) \subseteq Scope[s]
    BY <1>1, <2>1 DEF ReceiptInScope
  <2> HIDE DEF at
  <2> QED BY <1>0, <2>1, <2>2, <2>3, BegunFine, Continued
<1>10. CASE LoadForRefund(s)
  <2>1. PICK i \in OrderIds \cup {0} : (i # 0 => InScope(s, i)) /\ Continue(s, Begun("refund", "refund", i, 0))
    BY <1>10 DEF LoadForRefund
  <2>2. "refund" \in Points("refund")
    BY DEF Points, Restorers
  <2> QED BY <1>0, <1>1, <2>1, <2>2, BegunFine, Continued
<1> QED BY <1>2, <1>3, <1>4, <1>5, <1>6, <1>7, <1>8, <1>9, <1>10 DEF Arrive

\* A step that goes on with a request keeps its scope and its purpose.
LEMMA SameRequest ==
  ASSUME NEW s \in Sessions, NEW t, NEW r, NEW O, NEW V, Scoped(s, t, O, V), Meant(t, O),
         r.op = t.op, r.id = t.id, r.rid = t.rid, r.row = t.row,
         r.want.lines = t.want.lines, r.want.status = t.want.status,
         r.want.pay = t.want.pay, r.want.flagged = t.want.flagged,
         t.op = "create" \/ r.want = t.want,
         r.at \in Points(t.op), r.known \subseteq Scope[s],
         t.at \notin {"load", "file", "refund"}, r.at \notin {"load", "file", "refund"}
  PROVE  Scoped(s, r, O, V) /\ Meant(r, O)
<1>1. Scoped(s, r, O, V)
  BY DEF Scoped
<1>2. Changes(r) <=> Changes(t)
  BY DEF Changes
<1>3. Meant(r, O)
  BY <1>2 DEF Meant
<1> QED BY <1>1, <1>3

\* What the control point says of the operation.
LEMMA AtPoints ==
  ASSUME NEW t, t.at \in Points(t.op)
  PROVE  /\ t.at \in {"check", "take", "count", "insert"} => t.op = "create"
         /\ t.at \in {"restore", "give", "lookup"} => t.op \in Restorers
         /\ t.at = "level" => t.op = "level"
         /\ t.op = "level" => t.at \in {"level", "commit"}
         /\ t.op = "create" => t.at \in CreatePoints
         /\ t.at = "status" => t.op \in Restorers \cup {"repay", "flag", "approve"}
         /\ t.at = "resolve" => t.op \in {"approve", "resend"}
         /\ t.at = "commit" => t.op \notin {"receipt", "refund", "none"}
  BY DEF Points, Restorers, CreatePoints

\* The line that a session works on names a product of its scope.
LEMMA LineInScope ==
  ASSUME DeskInv, NEW s \in Sessions, Fine(s, txn[s], products, orders, receipts),
         txn[s].at \in {"check", "take", "restore", "give"}
  PROVE  /\ CurrentLine(s).sku \in Names(txn[s].want.lines)
         /\ CurrentLine(s).sku \in Scope[s]
<1>1. txn[s].n \in 1..Len(txn[s].want.lines) /\ txn[s].want.lines \in Seq(Line)
  BY LineTyped DEF DeskInv
<1>2. CurrentLine(s).sku \in Names(txn[s].want.lines)
  BY <1>1 DEF CurrentLine, Names
<1> QED BY <1>2 DEF Fine, Scoped

\* What a lookup makes of the session: it holds the product and goes on.
Looked(t, r) ==
  \/ t.at = "check" /\ r.at = "check" /\ r.n = t.n + 1
  \/ t.at = "check" /\ r.at = "take" /\ t.n = Len(t.want.lines) /\ r.n = 1
  \/ t.at = "restore" /\ r.at = "give" /\ r.n = t.n

\* CheckLine and ReadLine do no more than that.
LEMMA LookupSteps ==
  ASSUME TypeInv, NEW s \in Sessions, CheckLine(s) \/ ReadLine(s)
  PROVE  LET t == txn[s] r == txn'[s] p == CurrentLine(s).sku IN
         /\ t.at \in {"check", "restore"}
         /\ r.op = t.op /\ r.id = t.id /\ r.rid = t.rid /\ r.row = t.row /\ r.want = t.want
         /\ r.known = t.known \cup {p} /\ r.dirty = t.dirty
         /\ r.obj = [t.obj EXCEPT ![p] = IF p \in t.known THEN t.obj[p] ELSE products[p]]
         /\ Looked(t, r)
<1> DEFINE t == txn[s]
           p == CurrentLine(s).sku
           o == Seen(s, p)
<1>0. TypeInv /\ t \in Txn
  BY DEF TypeInv, TypeOK
<1>1. t.at \in {"check", "restore"}
  BY DEF CheckLine, ReadLine, At
<1>2. /\ t.n \in 1..Len(t.want.lines) /\ Len(t.want.lines) \in Nat /\ t.want.lines \in Seq(Line)
      /\ p \in Products /\ o \in ProductRow
  BY <1>0, <1>1, LineTyped
<1> DEFINE GoesOn(n, at) ==
             /\ Continue(s, Holding([t EXCEPT !.n = n, !.at = at], p, o))
             /\ \/ t.at = "check" /\ at = "check" /\ n = t.n + 1
                \/ t.at = "check" /\ at = "take" /\ t.n = Len(t.want.lines) /\ n = 1
                \/ t.at = "restore" /\ at = "give" /\ n = t.n
<1>4. PICK n \in Nat, at \in {"check", "take", "give"} : GoesOn(n, at)
  <2>1. CASE CheckLine(s) /\ LastLine(s)
    <3>1. Continue(s, Holding([t EXCEPT !.n = 1, !.at = "take"], p, o))
      BY <2>1 DEF CheckLine
    <3>2. t.at = "check" /\ t.n = Len(t.want.lines)
      BY <2>1 DEF CheckLine, At, LastLine
    <3>3. GoesOn(1, "take")
      BY <3>1, <3>2
    <3> HIDE DEF GoesOn
    <3> QED BY <3>3
  <2>2. CASE CheckLine(s) /\ ~ LastLine(s)
    <3>1. Continue(s, Holding([t EXCEPT !.n = t.n + 1, !.at = "check"], p, o))
      BY <2>2 DEF CheckLine
    <3>2. t.n + 1 \in Nat
      BY <1>2
    <3>3. t.at = "check"
      BY <2>2 DEF CheckLine, At
    <3>4. GoesOn(t.n + 1, "check")
      BY <3>1, <3>3
    <3> HIDE DEF GoesOn, t
    <3> QED BY <3>2, <3>4
  <2>3. CASE ReadLine(s)
    <3>1. t.at = "restore" /\ Continue(s, Holding([t EXCEPT !.at = "give"], p, o))
      BY <2>3 DEF ReadLine
    <3>2. [t EXCEPT !.at = "give"] = [t EXCEPT !.n = t.n, !.at = "give"]
      BY <1>0 DEF Txn
    <3>3. t.n \in Nat
      BY <1>2
    <3>4. GoesOn(t.n, "give")
      BY <3>1, <3>2
    <3> HIDE DEF GoesOn, t
    <3> QED BY <3>3, <3>4
  <2> HIDE DEF GoesOn
  <2> QED BY <2>1, <2>2, <2>3
<1> DEFINE d == [t EXCEPT !.n = n, !.at = at]
           r == Holding(d, p, o)
<1>5. /\ d \in Txn /\ d.op = t.op /\ d.at = at /\ d.n = n /\ d.id = t.id /\ d.rid = t.rid
      /\ d.row = t.row /\ d.want = t.want /\ d.known = t.known /\ d.obj = t.obj /\ d.dirty = t.dirty
  BY <1>0 DEF Txn
<1>6. Continue(s, r)
  BY <1>4
<1> HIDE DEF d
<1>7. /\ r.op = t.op /\ r.at = at /\ r.n = n /\ r.id = t.id /\ r.rid = t.rid
      /\ r.row = t.row /\ r.want = t.want /\ r.known = t.known \cup {p}
  BY <1>2, <1>5, HoldingIsTxn
<1>8. r.dirty = t.dirty /\ r.obj = [t.obj EXCEPT ![p] = o]
  BY <1>2, <1>5 DEF Holding, Txn
<1>9. txn'[s] = r
  BY <1>0, <1>6, Continued
<1> HIDE DEF r
<1>10. o = IF p \in t.known THEN t.obj[p] ELSE products[p]
  BY DEF Seen
<1>11. Looked(t, r)
  BY <1>4, <1>7 DEF Looked
<1> HIDE DEF t, p, o
<1> QED BY <1>1, <1>7, <1>8, <1>9, <1>10, <1>11 DEF t, p

\* A product that is looked up is in step with its row.
LEMMA SeenFine ==
  ASSUME DeskInv, Shown, NEW s \in Sessions, Fine(s, txn[s], products, orders, receipts),
         CheckLine(s) \/ ReadLine(s)
  PROVE  Fine(s, txn'[s], products, orders, receipts)
<1> DEFINE t == txn[s]
           p == CurrentLine(s).sku
           r == txn'[s]
<1>0. TypeInv /\ t \in Txn
  BY DEF DeskInv, TypeInv, TypeOK
<1>1. /\ t.at \in {"check", "restore"}
      /\ r.op = t.op /\ r.id = t.id /\ r.rid = t.rid /\ r.row = t.row /\ r.want = t.want
      /\ r.known = t.known \cup {p} /\ r.dirty = t.dirty
      /\ r.obj = [t.obj EXCEPT ![p] = IF p \in t.known THEN t.obj[p] ELSE products[p]]
      /\ Looked(t, r)
  BY <1>0, LookupSteps
<1>2. /\ t.n \in 1..Len(t.want.lines) /\ Len(t.want.lines) \in Nat /\ t.want.lines \in Seq(Line)
      /\ p \in Products
  BY <1>0, <1>1, LineTyped
<1>3. p \in Names(t.want.lines) /\ p \in Scope[s]
  BY <1>1, LineInScope
<1>4. t.obj \in [Products -> ProductRow] /\ t.known \subseteq Products /\ products \in [Products -> ProductRow]
  BY <1>0 DEF Txn, TypeInv, TypeOK
<1>5. r.at \in {"check", "take", "give"}
  BY <1>1 DEF Looked
<1> HIDE DEF t, p, r
<1>12. Scoped(s, t, orders, receipts) /\ Meant(t, orders) /\ Synced(t, products)
  BY DEF Fine, t
<1>13. t.op \in Restorers \cup {"create"} /\ r.at \in Points(t.op) /\ t.op # "level"
  <2>1. (t.op = "create" /\ t.at = "check") \/ (t.op \in Restorers /\ t.at = "restore")
    <3>1. t.at \in Points(t.op)
      BY <1>12 DEF Meant
    <3>2. /\ t.at \in {"check", "take", "count", "insert"} => t.op = "create"
          /\ t.at \in {"restore", "give", "lookup"} => t.op \in Restorers
      BY <3>1, AtPoints
    <3> QED BY <1>1, <3>2
  <2> QED BY <1>1, <2>1 DEF Looked, Points, CreatePoints, Restorers
<1>14. Scoped(s, r, orders, receipts) /\ Meant(r, orders)
  <2>1. r.known \subseteq Scope[s]
    BY <1>3, <1>1, <1>12 DEF Scoped
  <2>2. t.at \notin {"load", "file", "refund"} /\ r.at \notin {"load", "file", "refund"}
    BY <1>1, <1>5
  <2> QED BY <1>1, <1>12, <1>13, <2>1, <2>2, SameRequest
<1>15. Synced(r, products)
  <2>1. r.dirty \subseteq r.known \X Columns
    BY <1>1, <1>12 DEF Synced
  <2>2. ASSUME NEW q \in r.known
        PROVE /\ \A c \in Columns : <<q, c>> \notin r.dirty => r.obj[q][c] = products[q][c]
              /\ r.obj[q].active <=> r.obj[q].stock > 0
              /\ r.op \notin Restorers \cup {"level"} => r.obj[q].stock <= products[q].stock
    <3>1. CASE q \in t.known
      <4>1. r.obj[q] = t.obj[q]
        BY <1>1, <1>4, <3>1
      <4> QED BY <1>1, <1>12, <3>1, <4>1 DEF Synced
    <3>2. CASE q \notin t.known
      <4>1. q = p /\ r.obj[q] = products[q] /\ q \in Products
        BY <1>2, <1>1, <1>4, <3>2
      <4>2. products[q].stock \in Nat
        BY <1>4, <4>1 DEF ProductRow
      <4> QED BY <4>1, <4>2 DEF Shown
    <3> QED BY <3>1, <3>2
  <2>3. r.known \subseteq Names(r.want.lines)
    BY <1>3, <1>1, <1>12, <1>13 DEF Synced
  <2>4. ASSUME NEW k \in DOMAIN r.want.lines, k <= ReadUpTo(r) PROVE r.want.lines[k].sku \in r.known
    <3>1. k \in Nat /\ k <= Len(t.want.lines) /\ k \in DOMAIN t.want.lines
      BY <1>2, <1>1
    <3>2. k <= t.n
      BY <1>1, <2>4, <3>1, <1>2 DEF ReadUpTo, Looked
    <3>3. CASE k = t.n
      BY <1>1, <3>3 DEF p, t, CurrentLine
    <3>4. CASE k # t.n
      <4>1. k <= t.n - 1 /\ ReadUpTo(t) = t.n - 1
        BY <1>1, <1>2, <3>1, <3>2, <3>4 DEF ReadUpTo
      <4> QED BY <1>1, <1>12, <1>13, <3>1, <4>1 DEF Synced
    <3> QED BY <3>3, <3>4
  <2> QED BY <1>1, <1>13, <2>1, <2>2, <2>3, <2>4 DEF Synced
<1> QED BY <1>14, <1>15 DEF Fine, r

\* A flush makes the new values of a product the session's object of it.
LEMMA FlushedObjects ==
  ASSUME TypeInv, NEW s \in Sessions, txn[s].at \in {"take", "give", "level"},
         NEW next \in Txn, FlushProduct(s, next)
  PROVE  /\ txn'[s].n = next.n
         /\ txn'[s].known = next.known \cup {Target(s)}
         /\ txn'[s].dirty = next.dirty \cup ({Target(s)} \X NewColumns(s))
         /\ txn'[s].obj = [next.obj EXCEPT ![Target(s)] = NewValues(s)]
<1> DEFINE d == [next EXCEPT !.dirty = @ \cup ({Target(s)} \X NewColumns(s))]
           r == Holding(d, Target(s), NewValues(s))
<1>1. /\ d \in Txn /\ d.n = next.n /\ d.known = next.known /\ d.obj = next.obj
      /\ d.dirty = next.dirty \cup ({Target(s)} \X NewColumns(s))
  BY FlushTyped DEF Txn
<1>2. Continue(s, r)
  BY DEF FlushProduct
<1> HIDE DEF d
<1>3. r.n = next.n /\ r.known = next.known \cup {Target(s)}
  BY <1>1, FlushTyped, HoldingIsTxn
<1>4. r.dirty = d.dirty /\ r.obj = [next.obj EXCEPT ![Target(s)] = NewValues(s)]
  BY <1>1, FlushTyped DEF Holding, Txn
<1> HIDE DEF r
<1> QED BY <1>1, <1>2, <1>3, <1>4, Continued

\* How a line is flushed: which control point and line come next.
Onwards(t, next) ==
  \/ t.at = "take" /\ next.at = "take" /\ next.n = t.n + 1
  \/ t.at = "take" /\ next.at = "count" /\ t.n = Len(t.want.lines) /\ next.n = t.n
  \/ t.at = "give" /\ next.at = "restore" /\ next.n = t.n + 1
  \/ t.at = "give" /\ next.at = "status" /\ t.n = Len(t.want.lines) /\ next.n = t.n
  \/ t.at = "level" /\ next.at = "commit" /\ next.n = t.n

\* Every statement that flushes a product is such a step.
LEMMA FlushSteps ==
  ASSUME TypeInv, NEW s \in Sessions, TakeLine(s) \/ GiveLine(s) \/ SetLevel(s)
  PROVE  /\ txn[s].at \in {"take", "give", "level"}
         /\ \E next \in Txn :
              /\ FlushProduct(s, next) /\ Onwards(txn[s], next)
              /\ next.op = txn[s].op /\ next.id = txn[s].id /\ next.rid = txn[s].rid
              /\ next.row = txn[s].row /\ next.want = txn[s].want /\ next.known = txn[s].known
              /\ next.dirty = txn[s].dirty /\ next.obj = txn[s].obj
<1> DEFINE t == txn[s]
           Same(next) == /\ next.op = t.op /\ next.id = t.id /\ next.rid = t.rid
                         /\ next.row = t.row /\ next.want = t.want /\ next.known = t.known
                         /\ next.dirty = t.dirty /\ next.obj = t.obj
<1>1. t.at \in {"take", "give", "level"}
  BY DEF TakeLine, GiveLine, SetLevel, At
<1>2. t \in Txn
  BY DEF TypeInv, TypeOK
<1>3. ASSUME NEW n \in Nat, NEW at \in {"count", "take", "status", "restore", "commit"}
      PROVE  LET d == [t EXCEPT !.n = n, !.at = at]
             IN d \in Txn /\ Same(d) /\ d.n = n /\ d.at = at
  BY <1>2 DEF Txn
<1>4. t.n \in Nat /\ t.n + 1 \in Nat
  BY <1>2 DEF Txn
<1>5. PICK n \in Nat, at \in {"count", "take", "status", "restore", "commit"} :
        /\ FlushProduct(s, [t EXCEPT !.n = n, !.at = at])
        /\ \A next : next.n = n /\ next.at = at => Onwards(t, next)
  <2> DEFINE Flushes(n, at) ==
               /\ FlushProduct(s, [t EXCEPT !.n = n, !.at = at])
               /\ \A next : next.n = n /\ next.at = at => Onwards(t, next)
  <2>1. CASE TakeLine(s) /\ LastLine(s)
    <3>1. Flushes(t.n, "count")
      BY <2>1 DEF TakeLine, LastLine, At, Onwards
    <3> HIDE DEF Flushes, t
    <3> QED BY <1>4, <3>1 DEF Flushes
  <2>2. CASE TakeLine(s) /\ ~ LastLine(s)
    <3>1. Flushes(t.n + 1, "take")
      BY <2>2 DEF TakeLine, At, Onwards
    <3> HIDE DEF Flushes, t
    <3> QED BY <1>4, <3>1 DEF Flushes
  <2>3. CASE GiveLine(s) /\ LastLine(s)
    <3>1. Flushes(t.n, "status")
      BY <2>3 DEF GiveLine, LastLine, Onwards
    <3> HIDE DEF Flushes, t
    <3> QED BY <1>4, <3>1 DEF Flushes
  <2>4. CASE GiveLine(s) /\ ~ LastLine(s)
    <3>1. Flushes(t.n + 1, "restore")
      BY <2>4 DEF GiveLine, Onwards
    <3> HIDE DEF Flushes, t
    <3> QED BY <1>4, <3>1 DEF Flushes
  <2>5. CASE SetLevel(s)
    <3>1. [t EXCEPT !.at = "commit"] = [t EXCEPT !.n = t.n, !.at = "commit"]
      BY <1>2 DEF Txn
    <3>2. FlushProduct(s, [t EXCEPT !.at = "commit"]) /\ t.at = "level"
      BY <2>5 DEF SetLevel, At
    <3>3. Flushes(t.n, "commit")
      BY <3>1, <3>2 DEF Onwards
    <3> HIDE DEF Flushes, t
    <3> QED BY <1>4, <3>3 DEF Flushes
  <2> QED BY <2>1, <2>2, <2>3, <2>4, <2>5
<1> DEFINE d == [t EXCEPT !.n = n, !.at = at]
<1>6. d \in Txn /\ Same(d) /\ Onwards(t, d) /\ FlushProduct(s, d)
  <2>1. d \in Txn /\ Same(d) /\ d.n = n /\ d.at = at
    BY <1>3
  <2>2. FlushProduct(s, d)
    BY <1>5
  <2> HIDE DEF d, t, Same
  <2> QED BY <1>5, <2>1, <2>2
<1> HIDE DEF d
<1> QED BY <1>1, <1>6

\* A product that is flushed stays in step with its row but for the columns
\* that are sent, and is shown while it has stock.
LEMMA FlushFine ==
  ASSUME DeskInv, NEW s \in Sessions, Fine(s, txn[s], products, orders, receipts),
         TakeLine(s) \/ GiveLine(s) \/ SetLevel(s)
  PROVE  Fine(s, txn'[s], products, orders, receipts)
<1> DEFINE t == txn[s]
           p == Target(s)
           new == NewValues(s)
           cols == NewColumns(s)
           r == txn'[s]
           qty == CurrentLine(s).qty
<1>0. TypeInv /\ t \in Txn
  BY DEF DeskInv, TypeInv, TypeOK
<1>1. t.at \in {"take", "give", "level"}
  BY <1>0, FlushSteps
<1>2. PICK next \in Txn :
        /\ FlushProduct(s, next) /\ Onwards(t, next)
        /\ next.op = t.op /\ next.id = t.id /\ next.rid = t.rid
        /\ next.row = t.row /\ next.want = t.want /\ next.known = t.known
        /\ next.dirty = t.dirty /\ next.obj = t.obj
  BY <1>0, FlushSteps
<1>3. /\ r.op = t.op /\ r.at = next.at /\ r.row = t.row /\ r.want = t.want
      /\ r.id = t.id /\ r.rid = t.rid
  BY <1>0, <1>1, <1>2, Flushed
<1>4. /\ r.n = next.n /\ r.known = t.known \cup {p}
      /\ r.dirty = t.dirty \cup ({p} \X cols) /\ r.obj = [t.obj EXCEPT ![p] = new]
  <2>1. /\ r.n = next.n /\ r.known = next.known \cup {p}
        /\ r.dirty = next.dirty \cup ({p} \X cols) /\ r.obj = [next.obj EXCEPT ![p] = new]
    BY <1>0, <1>1, <1>2, FlushedObjects
  <2> QED BY <1>2, <2>1
<1>5. p \in Products /\ new \in ProductRow /\ cols \subseteq Columns
  BY <1>0, <1>1, FlushTyped
<1>6. cols = {c \in Columns : t.obj[p][c] # new[c]}
  BY DEF NewColumns, Changed
<1>7. t.obj \in [Products -> ProductRow] /\ t.known \subseteq Products /\ products \in [Products -> ProductRow]
      /\ t.n \in Nat
  BY <1>0 DEF Txn, TypeInv, TypeOK
<1>8. t.at # "level" => /\ p = t.want.lines[t.n].sku /\ t.n \in 1..Len(t.want.lines)
                        /\ t.want.lines \in Seq(Line) /\ Len(t.want.lines) \in Nat /\ qty \in Nat \ {0}
                        /\ DOMAIN t.want.lines = 1..Len(t.want.lines)
  <2> SUFFICES ASSUME t.at # "level"
               PROVE  /\ p = t.want.lines[t.n].sku /\ t.n \in 1..Len(t.want.lines)
                      /\ t.want.lines \in Seq(Line) /\ Len(t.want.lines) \in Nat /\ qty \in Nat \ {0}
                      /\ DOMAIN t.want.lines = 1..Len(t.want.lines)
    OBVIOUS
  <2>1. p = t.want.lines[t.n].sku
    BY DEF Target, CurrentLine
  <2>2. t.n \in 1..Len(t.want.lines) /\ t.want.lines \in Seq(Line) /\ qty \in Nat \ {0}
    BY <1>0, <1>1, LineTyped
  <2> QED BY <2>1, <2>2, LenProperties
<1>9. new = CASE t.at = "take"  -> Decremented(t.obj[p], qty)
              [] t.at = "give"  -> Restored(t.obj[p], qty)
              [] t.at = "level" -> Levelled(t.n)
  BY DEF NewValues
<1>10. t.at = "level" => t.known # {} /\ p \in t.known
  <2>1. t.at = "level" => t.known # {}
    BY <1>0 DEF TypeInv, Fits
  <2> QED BY <2>1 DEF Target
<1> HIDE DEF t, p, new, cols, r, qty
<1>11. Scoped(s, t, orders, receipts) /\ Meant(t, orders) /\ Synced(t, products)
  BY DEF Fine, t
<1>12. t.at \in Points(t.op)
  BY <1>11 DEF Meant
<1>13. /\ t.at = "take" => t.op = "create"
       /\ t.at = "give" => t.op \in Restorers
       /\ t.at = "level" => t.op = "level"
  <2>1. /\ t.at \in {"check", "take", "count", "insert"} => t.op = "create"
        /\ t.at \in {"restore", "give", "lookup"} => t.op \in Restorers
        /\ t.at = "level" => t.op = "level"
    BY <1>12, AtPoints
  <2> QED BY <2>1
<1>14. r.at \in Points(t.op) /\ r.at \in {"take", "count", "restore", "status", "commit"}
  <2>1. next.at \in {"take", "count", "restore", "status", "commit"}
    BY <1>2 DEF Onwards
  <2>2. next.at \in Points(t.op)
    BY <1>2, <1>13 DEF Onwards, Points, CreatePoints, Restorers
  <2> QED BY <1>3, <2>1, <2>2
<1>15. p \in t.known
  <2>1. CASE t.at = "level"
    BY <1>10, <2>1
  <2>2. CASE t.at # "level"
    <3>1. t.n \in DOMAIN t.want.lines /\ t.n <= ReadUpTo(t)
      BY <1>1, <1>8, <2>2 DEF ReadUpTo
    <3>2. t.op \in Restorers \cup {"create"}
      BY <1>1, <1>13, <2>2
    <3> QED BY <1>8, <1>11, <2>2, <3>1, <3>2 DEF Synced
  <2> QED BY <2>1, <2>2
<1>16. r.known = t.known
  BY <1>4, <1>15
<1>17. Scoped(s, r, orders, receipts) /\ Meant(r, orders)
  <2>1. r.known \subseteq Scope[s]
    BY <1>11, <1>16 DEF Scoped
  <2>2. t.at \notin {"load", "file", "refund"} /\ r.at \notin {"load", "file", "refund"}
    BY <1>1, <1>14
  <2> QED BY <1>3, <1>11, <1>14, <2>1, <2>2, SameRequest
<1>18. Synced(r, products)
  <2>1. r.dirty \subseteq r.known \X Columns
    BY <1>4, <1>5, <1>11, <1>15, <1>16 DEF Synced
  <2>2. ASSUME NEW q \in r.known
        PROVE /\ \A c \in Columns : <<q, c>> \notin r.dirty => r.obj[q][c] = products[q][c]
              /\ r.obj[q].active <=> r.obj[q].stock > 0
              /\ r.op \notin Restorers \cup {"level"} => r.obj[q].stock <= products[q].stock
    <3>1. CASE q # p
      <4>1. r.obj[q] = t.obj[q] /\ q \in t.known
        BY <1>4, <1>7, <1>16, <3>1
      <4>2. \A c \in Columns : <<q, c>> \notin r.dirty => <<q, c>> \notin t.dirty
        BY <1>4
      <4> QED BY <1>3, <1>11, <4>1, <4>2 DEF Synced
    <3>2. CASE q = p
      <4>1. r.obj[p] = new
        BY <1>4, <1>5, <1>7
      <4>2. ASSUME NEW c \in Columns, <<p, c>> \notin r.dirty PROVE new[c] = products[p][c]
        <5>1. <<p, c>> \notin t.dirty /\ c \notin cols
          BY <1>4, <4>2
        <5> QED BY <1>6, <1>11, <1>15, <5>1 DEF Synced
      <4>3. /\ t.obj[p].active <=> t.obj[p].stock > 0
            /\ t.op \notin Restorers \cup {"level"} => t.obj[p].stock <= products[p].stock
        BY <1>11, <1>15 DEF Synced
      <4>4. t.obj[p] \in ProductRow /\ t.obj[p].stock \in Nat /\ t.obj[p].active \in BOOLEAN
            /\ products[p].stock \in Nat
        BY <1>5, <1>7 DEF ProductRow
      <4>5. CASE t.at = "take"
        <5>1. new = Decremented(t.obj[p], qty) /\ qty \in Nat
          BY <1>8, <1>9, <4>5
        <5>2. new.active <=> new.stock > 0
          <6> DEFINE left == IF t.obj[p].stock > qty THEN t.obj[p].stock - qty ELSE 0
          <6>1. new.stock = left /\ (new.active <=> t.obj[p].active /\ left # 0)
            BY <5>1 DEF Decremented
          <6>2. left \in Nat /\ (left # 0 => t.obj[p].stock > 0)
            BY <4>4, <5>1
          <6> HIDE DEF left
          <6> QED BY <4>3, <6>1, <6>2
        <5>3. t.op \notin Restorers \cup {"level"} => new.stock <= products[p].stock
          BY <4>3, <4>4, <5>1 DEF Decremented
        <5> QED BY <1>3, <3>2, <4>1, <4>2, <5>2, <5>3
      <4>6. CASE t.at = "give"
        <5>1. new = Restored(t.obj[p], qty) /\ qty \in Nat \ {0}
          BY <1>8, <1>9, <4>6
        <5>2. new.active <=> new.stock > 0
          <6>1. new.active = TRUE /\ new.stock = t.obj[p].stock + qty
            BY <5>1 DEF Restored
          <6>2. new.stock > 0
            BY <4>4, <5>1, <6>1
          <6> QED BY <6>1, <6>2
        <5> QED BY <1>3, <1>13, <3>2, <4>1, <4>2, <4>6, <5>2
      <4>7. CASE t.at = "level"
        <5>1. new = Levelled(t.n)
          BY <1>9, <4>7
        <5>2. new.active <=> new.stock > 0
          BY <5>1 DEF Levelled
        <5> QED BY <1>3, <1>13, <3>2, <4>1, <4>2, <4>7, <5>2
      <4> QED BY <1>1, <4>5, <4>6, <4>7
    <3> QED BY <3>1, <3>2
  <2>3. CASE t.op = "level"
    <3>1. t.at = "level"
      <4>1. t.op = "level" => t.at \in {"level", "commit"}
        BY <1>12, AtPoints
      <4> QED BY <1>1, <2>3, <4>1
    <3>2. r.at = "commit" /\ r.n = t.n
      BY <1>2, <1>3, <1>4, <3>1 DEF Onwards
    <3>3. t.known = {p} /\ r.obj[p] = Levelled(t.n)
      <4>1. PICK q \in Products : t.known = {q}
        BY <1>11, <2>3 DEF Synced
      <4>2. q = p
        BY <1>15, <4>1
      <4>3. r.obj[p] = new
        BY <1>4, <1>5, <1>7
      <4> QED BY <1>9, <3>1, <4>1, <4>2, <4>3
    <3>4. t.n \in 0..MaxLevel
      BY <1>11, <2>3 DEF Synced
    <3>5. r.op \notin Restorers \cup {"create"}
      BY <1>3, <2>3 DEF Restorers
    <3> QED BY <1>3, <1>5, <1>16, <2>1, <2>2, <2>3, <3>2, <3>3, <3>4, <3>5 DEF Synced
  <2>4. CASE t.op # "level"
    <3>1. t.at # "level"
      BY <1>13, <2>4
    <3>2. r.known \subseteq Names(r.want.lines) /\ r.op \in Restorers \cup {"create"}
      <4>1. t.op \in Restorers \cup {"create"}
        BY <1>1, <1>13, <3>1
      <4> QED BY <1>3, <1>11, <1>16, <2>4, <4>1 DEF Synced
    <3>3. ASSUME NEW k \in DOMAIN r.want.lines, k <= ReadUpTo(r) PROVE r.want.lines[k].sku \in r.known
      <4>1. k \in DOMAIN t.want.lines /\ k \in Nat /\ k <= Len(t.want.lines)
        BY <1>3, <1>8, <3>1
      <4>2. k <= ReadUpTo(t)
        <5>1. CASE t.at = "take"
          <6>1. ReadUpTo(t) = Len(t.want.lines)
            BY <5>1 DEF ReadUpTo
          <6> QED BY <4>1, <6>1
        <5>2. CASE t.at = "give"
          <6>1. ReadUpTo(t) = t.n
            BY <5>2 DEF ReadUpTo
          <6>2. CASE next.at = "restore"
            <7>1. ReadUpTo(r) = r.n - 1 /\ r.n = t.n + 1
              <8>1. next.n = t.n + 1
                BY <1>2, <5>2, <6>2 DEF Onwards
              <8>2. r.at = "restore" /\ r.n = t.n + 1
                BY <1>3, <1>4, <6>2, <8>1
              <8> QED BY <8>2 DEF ReadUpTo
            <7> QED BY <1>7, <3>3, <4>1, <6>1, <7>1
          <6>3. CASE next.at = "status"
            <7>1. t.n = Len(t.want.lines)
              BY <1>2, <5>2, <6>3 DEF Onwards
            <7> QED BY <4>1, <6>1, <7>1
          <6> QED BY <1>2, <5>2, <6>2, <6>3 DEF Onwards
        <5> QED BY <1>1, <3>1, <5>1, <5>2
      <4>3. t.op \in Restorers \cup {"create"}
        BY <1>1, <1>13, <3>1
      <4> QED BY <1>3, <1>11, <1>16, <4>1, <4>2, <4>3 DEF Synced
    <3> QED BY <1>3, <2>1, <2>2, <2>4, <3>2, <3>3 DEF Synced
  <2> QED BY <2>3, <2>4
<1> QED BY <1>17, <1>18 DEF Fine, r

\* A step that changes the control point of a session, or the reference of its
\* order, once its lines are handled.
LEMMA SameFine ==
  ASSUME NEW s \in Sessions, NEW t, NEW r, Fine(s, t, products, orders, receipts),
         r.op = t.op, r.id = t.id, r.rid = t.rid, r.row = t.row,
         r.want.lines = t.want.lines, r.want.status = t.want.status,
         r.want.pay = t.want.pay, r.want.flagged = t.want.flagged,
         t.op = "create" \/ r.want = t.want,
         r.known = t.known, r.dirty = t.dirty, r.obj = t.obj,
         t.at \in {"count", "insert", "status", "resolve"},
         r.at \in {"insert", "commit", "lookup", "resolve"}, r.at \in Points(t.op)
  PROVE  Fine(s, r, products, orders, receipts)
<1>1. Scoped(s, t, orders, receipts) /\ Meant(t, orders) /\ Synced(t, products)
  BY DEF Fine
<1>2. Scoped(s, r, orders, receipts) /\ Meant(r, orders)
  <2>1. r.known \subseteq Scope[s]
    BY <1>1 DEF Scoped
  <2>2. t.at \notin {"load", "file", "refund"} /\ r.at \notin {"load", "file", "refund"}
    OBVIOUS
  <2> QED BY <1>1, <2>1, <2>2, SameRequest
<1>3. t.op # "level"
  <2>1. t.at \in Points(t.op)
    BY <1>1 DEF Meant
  <2>2. t.op = "level" => t.at \in {"level", "commit"}
    BY <2>1, AtPoints
  <2> QED BY <2>2
<1>4. ReadUpTo(r) = ReadUpTo(t)
  BY DEF ReadUpTo
<1>5. Synced(r, products)
  BY <1>1, <1>3, <1>4 DEF Synced
<1> QED BY <1>2, <1>5 DEF Fine

\* The statements that handle no product: they move to the next statement, and
\* one of them sets the reference of the order it creates.
Stepped(t, r) ==
  /\ r.op = t.op /\ r.id = t.id /\ r.rid = t.rid /\ r.row = t.row
  /\ r.want.lines = t.want.lines /\ r.want.status = t.want.status /\ r.want.cust = t.want.cust
  /\ r.want.pay = t.want.pay /\ r.want.flagged = t.want.flagged
  /\ t.op = "create" \/ r.want = t.want
  /\ r.known = t.known /\ r.dirty = t.dirty /\ r.obj = t.obj
  /\ t.at \in {"count", "insert", "status", "resolve"}
  /\ r.at \in {"insert", "commit", "lookup", "resolve"} /\ r.at \in Points(t.op)

\* They do no more than that.
LEMMA StatementSteps ==
  ASSUME TypeInv, NEW s \in Sessions, txn[s].at \in Points(txn[s].op),
         CountOrders(s) \/ InsertOrder(s) \/ FlushOrder(s) \/ ResolveReceipt(s)
  PROVE  Stepped(txn[s], txn'[s])
<1> DEFINE t == txn[s]
<1>0. TypeInv /\ t \in Txn
  BY DEF TypeInv, TypeOK
<1>1. t.at \in Points(t.op)
  OBVIOUS
<1>2. /\ t.at \in {"check", "take", "count", "insert"} => t.op = "create"
      /\ t.at = "status" => t.op \in Restorers \cup {"repay", "flag", "approve"}
      /\ t.at = "resolve" => t.op \in {"approve", "resend"}
  BY <1>1, AtPoints
<1>3. CASE CountOrders(s)
  <2> DEFINE r == [t EXCEPT !.want.ref = Len(orders) + 1, !.at = "insert"]
  <2>1. Continue(s, r) /\ t.op = "create" /\ t.at = "count"
    BY <1>3 DEF CountOrders, At
  <2>2. "insert" \in Points("create")
    BY DEF Points, CreatePoints, Restorers
  <2>3. /\ r.op = t.op /\ r.at = "insert" /\ r.id = t.id /\ r.rid = t.rid /\ r.row = t.row
        /\ r.want.lines = t.want.lines /\ r.want.status = t.want.status
        /\ r.want.pay = t.want.pay /\ r.want.flagged = t.want.flagged /\ r.want.cust = t.want.cust
        /\ r.known = t.known /\ r.dirty = t.dirty /\ r.obj = t.obj
    BY <1>0 DEF Txn, OrderRow
  <2> HIDE DEF r
  <2>4. Stepped(t, r)
    BY <2>1, <2>2, <2>3 DEF Stepped
  <2> QED BY <1>0, <2>1, <2>4, Continued
<1>4. CASE InsertOrder(s) \/ FlushOrder(s) \/ ResolveReceipt(s)
  <2> DEFINE GoesOn(at) == /\ Continue(s, [t EXCEPT !.at = at]) /\ at \in Points(t.op)
                           /\ t.at \in {"insert", "status", "resolve"}
  <2>1. PICK at \in {"commit", "lookup", "resolve"} : GoesOn(at)
    <3>1. CASE InsertOrder(s)
      <4>1. Continue(s, [t EXCEPT !.at = "commit"]) /\ t.op = "create" /\ t.at = "insert"
        BY <3>1 DEF InsertOrder, At
      <4>2. "commit" \in Points("create")
        BY DEF Points, CreatePoints, Restorers
      <4>3. GoesOn("commit")
        BY <4>1, <4>2
      <4> HIDE DEF GoesOn
      <4> QED BY <4>3
    <3>2. CASE ResolveReceipt(s)
      <4>1. Continue(s, [t EXCEPT !.at = "commit"]) /\ t.at = "resolve"
        BY <3>2 DEF ResolveReceipt
      <4>2. t.op \in {"approve", "resend"} => "commit" \in Points(t.op)
        BY DEF Points, Restorers
      <4>3. GoesOn("commit")
        BY <1>2, <4>1, <4>2
      <4> HIDE DEF GoesOn
      <4> QED BY <4>3
    <3>3. CASE FlushOrder(s)
      <4> DEFINE at == CASE t.op = "autocancel" -> "lookup"
                         [] t.op = "approve"    -> "resolve"
                         [] OTHER               -> "commit"
      <4>1. Continue(s, [t EXCEPT !.at = at]) /\ t.at = "status"
        BY <3>3 DEF FlushOrder
      <4>2. at \in Points(t.op) /\ at \in {"commit", "lookup", "resolve"}
        BY <1>2, <4>1 DEF Points, Restorers
      <4> HIDE DEF at
      <4>3. GoesOn(at)
        BY <4>1, <4>2
      <4> HIDE DEF GoesOn
      <4> QED BY <4>2, <4>3
    <3> HIDE DEF GoesOn
    <3> QED BY <1>4, <3>1, <3>2, <3>3
  <2> DEFINE r == [t EXCEPT !.at = at]
  <2>2. /\ r.op = t.op /\ r.at = at /\ r.id = t.id /\ r.rid = t.rid /\ r.row = t.row /\ r.want = t.want
        /\ r.known = t.known /\ r.dirty = t.dirty /\ r.obj = t.obj
    BY <1>0 DEF Txn
  <2>3. Continue(s, r)
    BY <2>1
  <2> HIDE DEF r
  <2>4. Stepped(t, r)
    BY <2>1, <2>2 DEF Stepped
  <2> QED BY <1>0, <2>3, <2>4, Continued
<1> QED BY <1>3, <1>4

\* They leave a session fine.
LEMMA StatementsFine ==
  ASSUME DeskInv, NEW s \in Sessions, Fine(s, txn[s], products, orders, receipts),
         CountOrders(s) \/ InsertOrder(s) \/ FlushOrder(s) \/ ResolveReceipt(s)
  PROVE  Fine(s, txn'[s], products, orders, receipts)
<1>1. Stepped(txn[s], txn'[s])
  BY StatementSteps DEF DeskInv, Fine, Meant
<1> QED BY <1>1, SameFine DEF Stepped

\* The approval of a receipt takes the order that the receipt names.
LEMMA ApproveFine ==
  ASSUME DeskInv, NEW s \in Sessions, Fine(s, txn[s], products, orders, receipts), LoadForApprove(s)
  PROVE  Fine(s, txn'[s], products, orders, receipts)
<1> DEFINE t == txn[s]
           i == receipts[t.rid].order
           o == orders[i]
           w == [o EXCEPT !.status = "paid"]
           r == [t EXCEPT !.at = "status", !.id = i, !.row = o, !.want = w]
           q == [t EXCEPT !.at = "resolve"]
<1>0. TypeInv /\ t \in Txn /\ t.op = "approve" /\ t.at = "load"
  BY DEF DeskInv, TypeInv, TypeOK, LoadForApprove, At
<1>1. t.rid # 0 /\ i \in 0..Len(orders)
  <2>1. Fits(t)
    BY <1>0 DEF TypeInv
  <2> QED BY <1>0, <2>1, TablesTyped DEF Fits
<1>2. Scoped(s, t, orders, receipts) /\ Meant(t, orders) /\ Synced(t, products)
  BY DEF Fine
<1>3. t.id = 0 /\ t.want.lines = <<>> /\ ~ Changes(t)
  BY <1>0, <1>2 DEF Meant, Changes
<1>4. t.known = {} /\ t.dirty = {}
  <2>1. Names(t.want.lines) = {}
    BY <1>3 DEF Names
  <2>2. t.known \subseteq Names(t.want.lines)
    BY <1>0, <1>2 DEF Synced
  <2> QED BY <1>2, <2>1, <2>2 DEF Synced
<1>5. i # 0 => Names(o.lines) \subseteq Scope[s]
  BY <1>1, <1>2 DEF Scoped
<1>6. "resolve" \in Points("approve") /\ "status" \in Points("approve") /\ "approve" \notin Restorers
  BY DEF Points, Restorers
<1>7. CASE i # 0 /\ MayApprove(o.status)
  <2>1. Continue(s, r)
    BY <1>7 DEF LoadForApprove
  <2>2. i \in OrderIds /\ o \in OrderRow
    BY <1>0, <1>1, <1>7, TablesTyped
  <2>3. w.lines = o.lines /\ Intends("approve", o, w)
    <3>1. w.lines = o.lines
      BY <2>2 DEF OrderRow
    <3> QED BY <1>7, <3>1 DEF Intends
  <2> HIDE DEF i, w
  <2>4. /\ r.op = "approve" /\ r.at = "status" /\ r.id = i /\ r.rid = t.rid /\ r.row = o /\ r.want = w
        /\ r.known = {} /\ r.dirty = {}
    BY <1>0, <1>4 DEF Txn
  <2> HIDE DEF r
  <2>5. Scoped(s, r, orders, receipts)
    BY <1>2, <1>5, <1>7, <2>3, <2>4 DEF Scoped
  <2>6. Meant(r, orders)
    BY <1>6, <1>7, <2>3, <2>4 DEF Meant, Changes
  <2>7. Synced(r, products)
    BY <1>6, <2>4 DEF Synced
  <2>8. Fine(s, r, products, orders, receipts)
    BY <2>5, <2>6, <2>7 DEF Fine
  <2> QED BY <1>0, <2>1, <2>8, Continued
<1>8. CASE ~ (i # 0 /\ MayApprove(o.status))
  <2>1. Continue(s, q)
    BY <1>8 DEF LoadForApprove
  <2>2. /\ q.op = "approve" /\ q.at = "resolve" /\ q.id = 0 /\ q.rid = t.rid /\ q.want = t.want
        /\ q.known = {} /\ q.dirty = {}
    BY <1>0, <1>3, <1>4 DEF Txn
  <2> HIDE DEF q
  <2>3. Fine(s, q, products, orders, receipts)
    <3>1. q.want.lines = <<>> /\ q.at \in Points(q.op)
      BY <1>3, <1>6, <2>2
    <3>2. q.rid # 0 /\ receipts[q.rid].order # 0 => Names(orders[receipts[q.rid].order].lines) \subseteq Scope[s]
      BY <1>2, <2>2 DEF Scoped
    <3> QED BY <2>2, <3>1, <3>2, BareFine
  <2> QED BY <1>0, <2>1, <2>3, Continued
<1> QED BY <1>7, <1>8

\* The sweep takes the order that it listed.
LEMMA StaleFine ==
  ASSUME DeskInv, NEW s \in Sessions, Fine(s, txn[s], products, orders, receipts), LoadStale(s)
  PROVE  Fine(s, txn'[s], products, orders, receipts)
<1> DEFINE i == txn[s].id
           w == [orders[i] EXCEPT !.status = "cancelled"]
<1>1. TypeInv /\ txn[s] \in Txn
  BY DEF DeskInv, TypeInv, TypeOK
<1>2. i \in OrderIds /\ i # 0
  <2>1. Fits(txn[s])
    BY <1>1 DEF TypeInv
  <2> QED BY <1>1, <2>1, TablesTyped DEF Fits, LoadStale, At
<1>3. /\ MayCancel("autocancel", orders[i].status)
      /\ Continue(s, Changing("autocancel", "restore", 1, i, w))
  BY DEF LoadStale, Restoring
<1>4. Names(orders[i].lines) \subseteq Scope[s]
  BY <1>2 DEF Fine, Scoped
<1>5. w.lines = orders[i].lines /\ Intends("autocancel", orders[i], w)
  <2>1. w.lines = orders[i].lines
    BY <1>1, <1>2, TablesTyped DEF OrderRow
  <2> QED BY <1>3, <2>1 DEF Intends, Restorers
<1>6. "restore" \in Points("autocancel") \ {"load", "file", "refund"}
  BY DEF Points, Restorers
<1> HIDE DEF i, w
<1>7. Fine(s, Changing("autocancel", "restore", 1, i, w), products, orders, receipts)
  BY <1>1, <1>2, <1>4, <1>5, <1>6, ChangingFine
<1> QED BY <1>1, <1>3, <1>7, Continued

\* A commit and the end of a request leave nothing held.
LEMMA EndFine ==
  ASSUME DeskInv, NEW s \in Sessions, Fine(s, txn[s], products, orders, receipts),
         \/ RefuseLine(s) \/ InsertCollides(s) \/ StaleIsClosed(s) \/ SweepRaises(s)
         \/ DeadlockVictim(s) \/ Die(s) \/ CommitNewOrder(s) \/ FileRefund(s) \/ FileReceipt(s)
         \/ Commit(s)
  PROVE  /\ Fine(s, txn'[s], products, orders, receipts)
         /\ txn'[s].known = {} /\ ~ Changes(txn'[s]) /\ Fits(txn'[s])
<1>0. TypeInv
  BY DEF DeskInv
<1>1. CASE Continue(s, Idle)
  <2>1. txn'[s] = Idle
    BY <1>0, <1>1, Continued
  <2>2. Fits(Idle)
    BY <1>0, TablesTyped DEF Fits, Idle
  <2> QED BY <2>1, <2>2, IdleFine
<1>2. CASE Commit(s) /\ FilesRefund(s)
  <2> DEFINE i == txn[s].id
             r == Begun("admincancel", "refund", i, 0)
  <2>1. txn'[s] = r
    BY <1>0, <1>2, Continued DEF Commit
  <2>2. i # 0 => Names(orders[i].lines) \subseteq Scope[s]
    BY DEF Fine, Scoped
  <2>3. "refund" \in Points("admincancel")
    BY DEF Points, Restorers
  <2>4. Fits(r)
    <3>1. i \in 0..Len(orders)
      BY <1>0 DEF TypeInv, Fits
    <3>2. 0 \in 0..Len(receipts)
      BY <1>0, TablesTyped
    <3>3. "admincancel" \in OpNames
      BY DEF OpNames
    <3> HIDE DEF i
    <3> QED BY <1>0, <3>1, <3>2, <3>3, BegunTyped
  <2> HIDE DEF i
  <2>5. Fine(s, r, products, orders, receipts) /\ r.known = {} /\ ~ Changes(r)
    BY <2>2, <2>3, BegunFine
  <2> QED BY <2>1, <2>4, <2>5
<1>3. Continue(s, Idle) \/ (Commit(s) /\ FilesRefund(s))
  BY DEF RefuseLine, InsertCollides, StaleIsClosed, SweepRaises, DeadlockVictim, Die,
     CommitNewOrder, FileRefund, FileReceipt, Commit
<1> QED BY <1>1, <1>2, <1>3

-----------------------------------------------------------------------------
(* The tables.  A commit stores the objects the session holds, whole, since  *)
(* the columns it did not send are those of the rows.                        *)

Merged(t, P) == [p \in Products |-> IF p \in t.known THEN t.obj[p] ELSE P[p]]

\* CommittedProducts is the merge.
LEMMA CommitMerges ==
  ASSUME TypeInv, NEW s \in Sessions, Synced(txn[s], products)
  PROVE  CommittedProducts(s) = Merged(txn[s], products)
<1> DEFINE t == txn[s]
<1>1. t \in Txn /\ products \in [Products -> ProductRow]
  BY DEF TypeInv, TypeOK
<1>2. t.obj \in [Products -> ProductRow] /\ t.dirty \subseteq t.known \X Columns
  BY <1>1 DEF Txn, Synced
<1>3. ASSUME NEW p \in Products
      PROVE  [stock  |-> IF <<p, "stock">> \in t.dirty THEN t.obj[p].stock ELSE products[p].stock,
              active |-> IF <<p, "active">> \in t.dirty THEN t.obj[p].active ELSE products[p].active]
             = IF p \in t.known THEN t.obj[p] ELSE products[p]
  <2> DEFINE o == t.obj[p]
             q == products[p]
  <2>1. o \in ProductRow /\ q \in ProductRow
    BY <1>1, <1>2
  <2>2. o = [stock |-> o.stock, active |-> o.active] /\ q = [stock |-> q.stock, active |-> q.active]
    <3> HIDE DEF o, q
    <3> QED BY <2>1 DEF ProductRow
  <2>3. CASE p \in t.known
    <3>1. \A c \in Columns : <<p, c>> \notin t.dirty => o[c] = q[c]
      BY <2>3 DEF Synced
    <3>2. /\ <<p, "stock">> \notin t.dirty => o.stock = q.stock
          /\ <<p, "active">> \notin t.dirty => o.active = q.active
      <4>1. "stock" \in Columns /\ "active" \in Columns
        BY DEF Columns
      <4> HIDE DEF o, q
      <4> QED BY <3>1, <4>1
    <3> HIDE DEF o, q
    <3>3. [stock  |-> IF <<p, "stock">> \in t.dirty THEN o.stock ELSE q.stock,
           active |-> IF <<p, "active">> \in t.dirty THEN o.active ELSE q.active] = o
      BY <2>2, <3>2
    <3> QED BY <2>3, <3>3 DEF o, q
  <2>4. CASE p \notin t.known
    <3>1. <<p, "stock">> \notin t.dirty /\ <<p, "active">> \notin t.dirty
      BY <1>2, <2>4
    <3> QED BY <2>2, <2>4, <3>1
  <2> QED BY <2>3, <2>4
<1> QED BY <1>3 DEF CommittedProducts, Merged

\* What a step makes of the products: nothing, or a commit.
LEMMA ProductsStep ==
  ASSUME DeskInv, NEW s \in Sessions, Fine(s, txn[s], products, orders, receipts),
         Arrive(s) \/ ListStale(s) \/ Proceed(s) \/ Die(s)
  PROVE  \/ UNCHANGED products
         \/ /\ CommitNewOrder(s) \/ Commit(s)
            /\ products' = Merged(txn[s], products)
<1>0. CommittedProducts(s) = Merged(txn[s], products)
  BY CommitMerges DEF DeskInv, Fine
<1>1. CASE Commit(s) \/ CommitNewOrder(s)
  BY <1>0, <1>1 DEF Commit, CommitNewOrder
<1>2. CASE Arrive(s) \/ ListStale(s) \/ Die(s)
  BY <1>2 DEF Arrive, CreateOrder, LoadForCancel, LoadForRepay, LoadForFlag, LoadForLevel,
     ReadReceipt, LoadReceipt, LoadForRefund, ListStale, Die
<1>3. CASE Proceed(s) /\ ~ Commit(s) /\ ~ CommitNewOrder(s)
  BY <1>3 DEF Proceed, CheckLine, RefuseLine, TakeLine, CountOrders, InsertOrder, InsertCollides,
     LoadStale, StaleIsClosed, ReadLine, GiveLine, FlushOrder, SweepRaises, FileRefund, SetLevel,
     FileReceipt, LoadForApprove, ResolveReceipt, DeadlockVictim
<1> QED BY <1>1, <1>2, <1>3

\* A commit writes in the scope of its session.
LEMMA StepMovesTables ==
  ASSUME DeskInv, NEW s \in Sessions, Fine(s, txn[s], products, orders, receipts),
         Arrive(s) \/ ListStale(s) \/ Proceed(s) \/ Die(s)
  PROVE  TablesMove(s)
<1>0. TypeInv /\ txn[s] \in Txn
  BY DEF DeskInv, TypeInv, TypeOK
<1>1. ASSUME NEW p \in Products PROVE products'[p] = products[p] \/ p \in Scope[s]
  BY ProductsStep DEF Merged, Fine, Scoped
<1>2. ASSUME NEW v \in DOMAIN receipts PROVE v \in DOMAIN receipts' /\ receipts'[v].order = receipts[v].order
  BY <1>0, ReceiptsOnlyGrow DEF ReceiptsGrow
<1>3. ASSUME NEW i \in OrderIds
      PROVE /\ i \in DOMAIN orders' /\ orders'[i].lines = orders[i].lines
            /\ orders'[i] = orders[i] \/ Names(orders[i].lines) \subseteq Scope[s]
  <2>1. CASE UNCHANGED orders
    BY <2>1 DEF OrderIds
  <2>2. CASE CommitNewOrder(s) /\ orders' = Append(orders, txn[s].want)
    <3>1. txn[s].want \in OrderRow
      BY <1>0 DEF Txn
    <3>2. i \in DOMAIN orders' /\ orders'[i] = orders[i]
      BY <1>0, <2>2, <3>1, TablesTyped, AppendProperties, LenProperties
    <3> QED BY <3>2
  <2>3. CASE /\ txn[s].id \in OrderIds
             /\ orders' = [orders EXCEPT ![txn[s].id] = CommittedOrder(s, orders[txn[s].id])]
    <3> DEFINE j == txn[s].id
               o == CommittedOrder(s, orders[j])
    <3>1. j \in OrderIds /\ orders' = [orders EXCEPT ![j] = o] /\ j # 0
      BY <1>0, <2>3, TablesTyped
    <3>2. o.lines = orders[j].lines
      BY <1>0, <3>1, TablesTyped DEF CommittedOrder, OrderRow
    <3>3. Names(orders[j].lines) \subseteq Scope[s]
      BY <3>1 DEF Fine, Scoped
    <3> HIDE DEF j, o
    <3>4. i \in DOMAIN orders' /\ orders'[i] = IF i = j THEN o ELSE orders[i]
      BY <3>1 DEF OrderIds
    <3> QED BY <3>2, <3>3, <3>4
  <2> QED BY <1>0, <2>1, <2>2, <2>3, OrdersStep
<1> QED BY <1>1, <1>2, <1>3 DEF TablesMove

\* The session that moves is fine in the tables as it read them.
LEMMA StepFine ==
  ASSUME DeskInv, FromCarts, Shown, NEW s \in Sessions, Fine(s, txn[s], products, orders, receipts),
         Arrive(s) \/ ListStale(s) \/ Proceed(s) \/ Die(s)
  PROVE  /\ Fine(s, txn'[s], products, orders, receipts)
         /\ \/ UNCHANGED <<products, orders, receipts>>
            \/ txn'[s].known = {} /\ ~ Changes(txn'[s]) /\ Fits(txn'[s])
<1>1. CASE \/ RefuseLine(s) \/ InsertCollides(s) \/ StaleIsClosed(s) \/ SweepRaises(s)
           \/ DeadlockVictim(s) \/ Die(s) \/ CommitNewOrder(s) \/ FileRefund(s) \/ FileReceipt(s)
           \/ Commit(s)
  BY <1>1, EndFine
<1>2. CASE Arrive(s) \/ ListStale(s)
  <2>1. UNCHANGED <<products, orders, receipts>>
    BY <1>2 DEF Arrive, CreateOrder, LoadForCancel, LoadForRepay, LoadForFlag, LoadForLevel,
     ReadReceipt, LoadReceipt, LoadForRefund, ListStale
  <2> QED BY <1>2, <2>1, ArrivalsFine
<1>3. CASE \/ CheckLine(s) \/ ReadLine(s) \/ TakeLine(s) \/ GiveLine(s) \/ SetLevel(s)
           \/ CountOrders(s) \/ InsertOrder(s) \/ FlushOrder(s) \/ ResolveReceipt(s)
           \/ LoadForApprove(s) \/ LoadStale(s)
  <2>1. UNCHANGED <<products, orders, receipts>>
    BY <1>3 DEF CheckLine, ReadLine, TakeLine, GiveLine, SetLevel, CountOrders, InsertOrder,
       FlushOrder, ResolveReceipt, LoadForApprove, LoadStale
  <2> QED BY <1>3, <2>1, SeenFine, FlushFine, StatementsFine, ApproveFine, StaleFine
<1> QED BY <1>1, <1>2, <1>3 DEF Proceed

\* A step of s leaves the state of the others, and goes on in a well-typed one.
LEMMA StepIsOne ==
  ASSUME TypeInv, [Next]_vars, NEW s \in Sessions, Arrive(s) \/ ListStale(s) \/ Proceed(s) \/ Die(s)
  PROVE  /\ \A u \in Sessions \ {s} : txn'[u] = txn[u]
         /\ txn'[s] \in Txn
<1>1. \E r : Continue(s, r)
  BY DEF Arrive, CreateOrder, LoadForCancel, LoadForRepay, LoadForFlag, LoadForLevel,
     ReadReceipt, LoadReceipt, LoadForRefund, ListStale, Die, Proceed, CheckLine, RefuseLine,
     TakeLine, CountOrders, InsertOrder, InsertCollides, CommitNewOrder, LoadStale,
     StaleIsClosed, ReadLine, GiveLine, FlushOrder, SweepRaises, Commit, FileRefund, SetLevel,
     FileReceipt, LoadForApprove, ResolveReceipt, DeadlockVictim, FlushProduct
<1>2. TypeInv'
  BY TypeStep
<1> QED BY <1>1, <1>2, Continued DEF TypeInv, TypeOK

-----------------------------------------------------------------------------
(* The invariant of the shelf. *)

\* The products stay shown exactly while they have stock.
LEMMA ShownStep ==
  ASSUME DeskInv, Shown, NEW s \in Sessions, Fine(s, txn[s], products, orders, receipts),
         Arrive(s) \/ ListStale(s) \/ Proceed(s) \/ Die(s)
  PROVE  Shown'
<1>1. CASE UNCHANGED products
  BY <1>1 DEF Shown
<1>2. CASE products' = Merged(txn[s], products)
  <2> DEFINE t == txn[s]
  <2>1. \A p \in t.known : t.obj[p].active <=> t.obj[p].stock > 0
    BY DEF Fine, Synced
  <2> SUFFICES ASSUME NEW p \in Products PROVE products'[p].active <=> products'[p].stock > 0
    BY DEF Shown
  <2>2. products'[p] = IF p \in t.known THEN t.obj[p] ELSE products[p]
    BY <1>2 DEF Merged
  <2>3. products[p].active <=> products[p].stock > 0
    BY DEF Shown
  <2> HIDE DEF t
  <2> QED BY <2>1, <2>2, <2>3
<1> QED BY <1>1, <1>2, ProductsStep

\* The orders keep the lines of the carts they were placed with.
LEMMA CartsStep ==
  ASSUME DeskInv, FromCarts, NEW s \in Sessions, Fine(s, txn[s], products, orders, receipts),
         Arrive(s) \/ ListStale(s) \/ Proceed(s) \/ Die(s)
  PROVE  FromCarts'
<1>0. TypeInv /\ txn[s] \in Txn
  BY DEF DeskInv, TypeInv, TypeOK
<1>1. \A i \in OrderIds : orders'[i].lines = orders[i].lines
  BY StepMovesTables DEF TablesMove
<1>2. CASE UNCHANGED orders
  BY <1>2 DEF FromCarts, OrderIds
<1>3. CASE CommitNewOrder(s) /\ orders' = Append(orders, txn[s].want)
  <2> DEFINE w == txn[s].want
  <2>1. w \in OrderRow /\ w.lines \in Carts
    BY <1>0, <1>3 DEF Txn, Fine, Meant, CommitNewOrder, At
  <2> HIDE DEF w
  <2>2. orders' = Append(orders, w)
    BY <1>3 DEF w
  <2>3. /\ DOMAIN orders' = 1..(Len(orders) + 1) /\ orders'[Len(orders) + 1] = w
        /\ OrderIds = 1..Len(orders) /\ Len(orders) \in Nat
    BY <1>0, <2>1, <2>2, TablesTyped, AppendProperties
  <2> SUFFICES ASSUME NEW i \in DOMAIN orders' PROVE orders'[i].lines \in Carts
    BY DEF FromCarts, OrderIds
  <2>4. i \in OrderIds \/ i = Len(orders) + 1
    BY <2>3
  <2> QED BY <1>1, <2>1, <2>3, <2>4 DEF FromCarts
<1>4. CASE orders' = [orders EXCEPT ![txn[s].id] = CommittedOrder(s, orders[txn[s].id])]
  <2>1. DOMAIN orders' = OrderIds
    BY <1>4 DEF OrderIds
  <2> QED BY <1>1, <2>1 DEF FromCarts, OrderIds
<1> QED BY <1>0, <1>2, <1>3, <1>4, OrdersStep

\* A step of any handler keeps the invariant of the shelf.
LEMMA ShelfStep ==
  ASSUME Separate
  PROVE  ShelfInv /\ [Next]_vars => ShelfInv'
<1> SUFFICES ASSUME ShelfInv, [Next]_vars PROVE ShelfInv'
  OBVIOUS
<1>0. /\ DeskInv /\ TypeInv /\ FromCarts /\ Shown
      /\ \A u \in Sessions : Fine(u, txn[u], products, orders, receipts) /\ Fits(txn[u]) /\ txn[u] \in Txn
  BY DEF ShelfInv, DeskInv, TypeInv, TypeOK
<1>1. DeskInv'
  BY <1>0, DeskStep
<1>2. CASE UNCHANGED vars
  BY <1>0, <1>1, <1>2 DEF vars, ShelfInv, FromCarts, OrderIds, Shown
<1>3. ASSUME NEW s \in Sessions, Arrive(s) \/ ListStale(s) \/ Proceed(s) \/ Die(s)
      PROVE ShelfInv'
  <2>1. FromCarts' /\ Shown' /\ TablesMove(s)
    BY <1>0, <1>3, CartsStep, ShownStep, StepMovesTables
  <2>2. (\A u \in Sessions \ {s} : txn'[u] = txn[u]) /\ txn'[s] \in Txn
    BY <1>0, <1>3, StepIsOne
  <2>3. /\ Fine(s, txn'[s], products, orders, receipts)
        /\ \/ UNCHANGED <<products, orders, receipts>>
           \/ txn'[s].known = {} /\ ~ Changes(txn'[s]) /\ Fits(txn'[s])
    BY <1>0, <1>3, StepFine
  <2>4. Fine(s, txn'[s], products', orders', receipts')
    <3>1. CASE UNCHANGED <<products, orders, receipts>>
      BY <2>3, <3>1
    <3>2. CASE txn'[s].known = {} /\ ~ Changes(txn'[s]) /\ Fits(txn'[s])
      BY <1>0, <2>1, <2>2, <2>3, <3>2, FineKept
    <3> QED BY <2>3, <3>1, <3>2
  <2>5. ASSUME NEW u \in Sessions \ {s} PROVE Fine(u, txn'[u], products', orders', receipts')
    <3>1. Fine(u, txn[u], products', orders', receipts')
      BY <1>0, <2>1, FineKept
    <3> QED BY <2>2, <3>1
  <2> QED BY <1>1, <2>1, <2>4, <2>5 DEF ShelfInv
<1> QED BY <1>2, <1>3 DEF Next

\* It holds before the first request.
LEMMA ShelfInit == Init => ShelfInv
<1> SUFFICES ASSUME Init PROVE ShelfInv
  OBVIOUS
<1>1. DeskInv
  BY DeskInit
<1>2. FromCarts
  BY DEF Init, FromCarts, OrderIds
<1>3. Shown
  <2>1. PICK level \in [Products -> 0..MaxLevel] : products = [p \in Products |-> Levelled(level[p])]
    BY DEF Init
  <2> SUFFICES ASSUME NEW p \in Products PROVE products[p].active <=> products[p].stock > 0
    BY DEF Shown
  <2> QED BY <2>1 DEF Levelled
<1>4. \A s \in Sessions : Fine(s, txn[s], products, orders, receipts)
  BY IdleFine DEF Init
<1> QED BY <1>1, <1>2, <1>3, <1>4 DEF ShelfInv

\* In shops whose sessions serve separate products, the objects of every
\* handler agree with the rows but for the columns it has sent, it means to
\* leave the order as the handler's code changes it, and a product is shown
\* while it has stock (db/crud.py, create_order, cancel_order,
\* set_product_stock, decrement_product_stock).
THEOREM ShelvesHold ==
  ASSUME Separate
  PROVE  Spec => []ShelfInv
<1>1. ShelfInv /\ [Next]_vars => ShelfInv'
  BY ShelfStep
<1> QED BY <1>1, ShelfInit, PTL DEF Spec

\* No product is sold out and shown, or in stock and hidden, whatever order
\* taking, cancellation and change of level overlapped: decrement_product_stock
\* hides at zero, cancel_order and set_product_stock show again.
THEOREM SoldOutIsHidden ==
  ASSUME Separate
  PROVE  Spec => []SoldOutIffHidden
<1>1. ShelfInv => SoldOutIffHidden
  <2> SUFFICES ASSUME ShelfInv, NEW p \in Products PROVE products[p].active = (products[p].stock > 0)
    BY DEF SoldOutIffHidden
  <2>1. products[p] \in ProductRow /\ (products[p].active <=> products[p].stock > 0)
    BY DEF ShelfInv, DeskInv, TypeInv, TypeOK, Shown
  <2>2. products[p].active \in BOOLEAN
    BY <2>1 DEF ProductRow
  <2> QED BY <2>1, <2>2
<1> QED BY <1>1, ShelvesHold, PTL

-----------------------------------------------------------------------------
(* Stock grows once for a cancelled order. *)

\* A cart that names a product has units of it.
LEMMA NamedUnits ==
  ASSUME NEW lines \in Seq(Line), NEW p \in Names(lines)
  PROVE  p \in Products /\ Ledger!Units(lines, p) > 0
<1>1. PICK k \in DOMAIN lines : lines[k].sku = p
  BY DEF Names
<1>2. lines[k] \in Line
  OBVIOUS
<1>3. p \in Products
  BY <1>1, <1>2 DEF Line
<1>4. Ledger!Units(lines, p) \in Nat /\ Ledger!Units(lines, p) # 0
  BY <1>1, <1>3, UnitsCount
<1> QED BY <1>3, <1>4

\* What the commit of a cancellation does to the order it read.
LEMMA CancellationCommits ==
  ASSUME DeskInv, NEW s \in Sessions, Fine(s, txn[s], products, orders, receipts),
         Commit(s), txn[s].op \in Restorers, txn[s].want.lines # <<>>
  PROVE  /\ txn[s].id \in OrderIds /\ txn[s].row = orders[txn[s].id]
         /\ MayCancel(txn[s].op, orders[txn[s].id].status)
         /\ txn[s].want = [orders[txn[s].id] EXCEPT !.status = "cancelled"]
         /\ orders' = [orders EXCEPT ![txn[s].id] = [orders[txn[s].id] EXCEPT !.status = "cancelled"]]
<1> DEFINE t == txn[s]
           o == orders[t.id]
           w == [o EXCEPT !.status = "cancelled"]
<1>0. TypeInv /\ t \in Txn
  BY DEF DeskInv, TypeInv, TypeOK
<1>1. t.op # "create" /\ t.op \in Restorers
  BY DEF Restorers
<1>2. Changes(t) /\ t.row = o /\ Intends(t.op, t.row, t.want)
  BY <1>1 DEF Fine, Meant
<1>3. MayCancel(t.op, o.status) /\ t.want = w
  BY <1>1, <1>2 DEF Intends, Restorers
<1>4. t.id \in OrderIds /\ o \in OrderRow /\ t.id # 0
  <2>1. Fits(t) /\ t.id # 0
    BY <1>0, <1>2 DEF TypeInv, Changes
  <2>2. t.id \in OrderIds
    BY <1>0, <2>1, TablesTyped DEF Fits
  <2> QED BY <1>0, <2>1, <2>2, TablesTyped
<1>5. CommittedOrder(s, o) = w
  <2>1. t.row = o /\ t.want = w
    BY <1>2, <1>3
  <2>2. o.status # "cancelled"
    BY <1>3 DEF MayCancel, Open
  <2>3. w = [o EXCEPT !.pay = o.pay, !.status = "cancelled", !.flagged = o.flagged]
    <3> HIDE DEF o
    <3> QED BY <1>4 DEF OrderRow
  <2>4. w.pay = o.pay /\ w.status = "cancelled" /\ w.flagged = o.flagged
    <3> HIDE DEF o
    <3> QED BY <1>4 DEF OrderRow
  <2>5. CommittedOrder(s, o) = [o EXCEPT !.pay = IF o.pay # w.pay THEN w.pay ELSE o.pay,
            !.status  = IF o.status # w.status THEN w.status ELSE o.status,
            !.flagged = IF o.flagged # w.flagged THEN w.flagged ELSE o.flagged]
    <3> HIDE DEF w, o
    <3> QED BY <2>1 DEF CommittedOrder
  <2> HIDE DEF w
  <2> QED BY <2>2, <2>3, <2>4, <2>5
<1>6. orders' = [orders EXCEPT ![t.id] = CommittedOrder(s, o)]
  BY <1>4 DEF Commit
<1> QED BY <1>2, <1>3, <1>4, <1>5, <1>6

\* A commit that makes stock grow cancels an order of the product or sets its level.
LEMMA GrowthIsDue ==
  ASSUME DeskInv, NEW s \in Sessions, Fine(s, txn[s], products, orders, receipts),
         Arrive(s) \/ ListStale(s) \/ Proceed(s) \/ Die(s),
         NEW p \in Products, products'[p].stock > products[p].stock
  PROVE  \/ LevelIsSet(p)
         \/ \E i \in OrderIds : /\ orders[i].status # "cancelled"
                                /\ orders'[i].status = "cancelled"
                                /\ Ledger!Units(orders[i].lines, p) > 0
<1> DEFINE t == txn[s]
<1>0. TypeInv /\ t \in Txn /\ products \in [Products -> ProductRow]
  BY DEF DeskInv, TypeInv, TypeOK
<1>1. products[p] \in ProductRow /\ t.obj \in [Products -> ProductRow] /\ t.obj[p] \in ProductRow
  BY <1>0 DEF Txn
<1>2. products[p].stock \in Nat /\ t.obj[p].stock \in Nat
  BY <1>1 DEF ProductRow
<1>3. CommitNewOrder(s) \/ Commit(s)
  BY <1>2, ProductsStep
<1>4. p \in t.known /\ products'[p] = t.obj[p]
  BY <1>2, ProductsStep DEF Merged
<1>5. t.op \in Restorers \cup {"level"}
  BY <1>2, <1>4 DEF Fine, Synced
<1>6. Commit(s) /\ t.at = "commit"
  BY <1>3, <1>5 DEF CommitNewOrder, Commit, At, Restorers
<1>7. CASE t.op = "level"
  <2>1. t.obj[p] = Levelled(t.n)
    BY <1>4, <1>6, <1>7 DEF Fine, Synced
  <2>2. products'[p].stock = t.n
    BY <1>4, <2>1 DEF Levelled
  <2>3. txn'[s] = Idle
    <3>1. Continue(s, Idle)
      BY <1>6, <1>7 DEF Commit, FilesRefund
    <3> QED BY <1>0, <3>1, Continued
  <2> QED BY <1>4, <1>6, <1>7, <2>2, <2>3 DEF LevelIsSet, At
<1>8. CASE t.op \in Restorers
  <2>0. t.op # "level"
    BY <1>8 DEF Restorers
  <2>1. p \in Names(t.want.lines)
    BY <1>4, <2>0 DEF Fine, Synced
  <2>2. t.want.lines # <<>>
    BY <2>1 DEF Names
  <2> DEFINE i == t.id
             o == orders[i]
  <2>3. /\ i \in OrderIds /\ MayCancel(t.op, o.status)
        /\ t.want = [o EXCEPT !.status = "cancelled"]
        /\ orders' = [orders EXCEPT ![i] = [o EXCEPT !.status = "cancelled"]]
    BY <1>6, <1>8, <2>2, CancellationCommits
  <2>4. o \in OrderRow
    BY <1>0, <2>3, TablesTyped
  <2> HIDE DEF i
  <2>5. o.status # "cancelled"
    BY <2>3 DEF MayCancel, Open
  <2>6. orders'[i].status = "cancelled" /\ t.want.lines = o.lines
    <3>1. [o EXCEPT !.status = "cancelled"].status = "cancelled" /\ [o EXCEPT !.status = "cancelled"].lines = o.lines
      <4> HIDE DEF o
      <4> QED BY <2>4 DEF OrderRow
    <3>2. orders'[i] = [o EXCEPT !.status = "cancelled"]
      BY <2>3 DEF OrderIds
    <3> QED BY <2>3, <3>1, <3>2
  <2>7. o.lines \in Seq(Line)
    <3> HIDE DEF o
    <3> QED BY <2>4 DEF OrderRow
  <2>8. Ledger!Units(o.lines, p) > 0
    BY <2>1, <2>6, <2>7, NamedUnits
  <2> QED BY <2>3, <2>5, <2>6, <2>8
<1> QED BY <1>5, <1>7, <1>8

\* Stock comes back once: it grows only in the commit that turns an order of the
\* product into a cancelled one, or in the dashboard's change of its level,
\* although the customer's tool, the dashboard and the sweep all run
\* cancel_order and each checks the status it read earlier.
THEOREM CancellationsRestoreOnce ==
  ASSUME Separate
  PROVE  Spec => CancelRestoresOnce
<1> DEFINE A == \A p \in Products :
       products'[p].stock > products[p].stock =>
         \/ LevelIsSet(p)
         \/ \E i \in OrderIds : /\ orders[i].status # "cancelled"
                                /\ orders'[i].status = "cancelled"
                                /\ Ledger!Units(orders[i].lines, p) > 0
<1>1. ShelfInv /\ [Next]_vars => [A]_vars
  <2> SUFFICES ASSUME ShelfInv, [Next]_vars, ~ UNCHANGED vars PROVE A
    OBVIOUS
  <2>1. PICK s \in Sessions : Arrive(s) \/ ListStale(s) \/ Proceed(s) \/ Die(s)
    BY DEF Next
  <2>2. DeskInv /\ Fine(s, txn[s], products, orders, receipts)
    BY DEF ShelfInv
  <2> SUFFICES ASSUME NEW p \in Products, products'[p].stock > products[p].stock
               PROVE  \/ LevelIsSet(p)
                      \/ \E i \in OrderIds : /\ orders[i].status # "cancelled"
                                             /\ orders'[i].status = "cancelled"
                                             /\ Ledger!Units(orders[i].lines, p) > 0
    OBVIOUS
  <2> QED BY <2>1, <2>2, GrowthIsDue
<1> QED BY <1>1, ShelvesHold, PTL DEF Spec, CancelRestoresOnce

-----------------------------------------------------------------------------
(* The objects line by line, for carts that name each product once. *)

\* A handler that moves no units has nothing to be exact about.
LEMMA NoLinesExact ==
  ASSUME NEW t, NEW P, t.op \notin Restorers \cup {"create"} \/ t.want.lines = <<>>
  PROVE  Exact(t, P)
  BY DEF Exact

\* It stays exact while the rows of its own products do not change.
LEMMA ExactKept ==
  ASSUME NEW t, NEW P, NEW Q, Exact(t, P), \A q \in Names(t.want.lines) : Q[q] = P[q]
  PROVE  Exact(t, Q)
<1> SUFFICES ASSUME t.op \in Restorers \cup {"create"}, NEW k \in DOMAIN t.want.lines
             PROVE LET p == t.want.lines[k].sku qty == t.want.lines[k].qty IN
                   /\ k <= ReadUpTo(t) /\ t.op = "create" => Q[p].active /\ Q[p].stock >= qty
                   /\ k <= MovedUpTo(t) => t.obj[p] = Moved(t.op, Q[p], qty)
                   /\ k > MovedUpTo(t) /\ p \in t.known => t.obj[p] = Q[p]
  BY DEF Exact
<1>1. Q[t.want.lines[k].sku] = P[t.want.lines[k].sku]
  BY DEF Names
<1> QED BY <1>1 DEF Exact

\* The cart that a creation or a cancellation works on names no product twice.
LEMMA LinesOnce ==
  ASSUME DeskInv, FromCarts, NoRepeats, NEW s \in Sessions, Fine(s, txn[s], products, orders, receipts),
         txn[s].op \in Restorers \cup {"create"}
  PROVE  /\ txn[s].want.lines \in Seq(Line) /\ Len(txn[s].want.lines) \in Nat
         /\ DOMAIN txn[s].want.lines = 1..Len(txn[s].want.lines)
         /\ \A k \in DOMAIN txn[s].want.lines : /\ txn[s].want.lines[k].sku \in Products
                                                /\ txn[s].want.lines[k].qty \in Nat \ {0}
         /\ \A j, k \in DOMAIN txn[s].want.lines :
              txn[s].want.lines[j].sku = txn[s].want.lines[k].sku => j = k
<1> DEFINE t == txn[s]
           lines == t.want.lines
<1>0. TypeInv /\ t \in Txn
  BY DEF DeskInv, TypeInv, TypeOK
<1>1. lines \in Seq(Line)
  BY <1>0 DEF Txn, OrderRow
<1>2. lines = <<>> \/ lines \in Carts
  <2>1. CASE t.op = "create"
    BY <2>1 DEF Fine, Meant
  <2>2. CASE t.op # "create" /\ ~ Changes(t)
    BY <2>2 DEF Fine, Meant
  <2>3. CASE t.op # "create" /\ Changes(t)
    <3> DEFINE o == orders[t.id]
    <3>1. t.row = o /\ Intends(t.op, t.row, t.want)
      BY <2>3 DEF Fine, Meant
    <3>2. t.want = [o EXCEPT !.status = "cancelled"]
      BY <2>3, <3>1 DEF Intends, Restorers
    <3>3. t.id \in OrderIds
      <4>1. Fits(t) /\ t.id # 0
        BY <1>0, <2>3 DEF TypeInv, Changes
      <4> QED BY <1>0, <4>1, TablesTyped DEF Fits
    <3>4. o \in OrderRow /\ o.lines \in Carts
      BY <1>0, <3>3, TablesTyped DEF FromCarts
    <3> HIDE DEF o
    <3>5. t.want.lines = o.lines
      BY <3>2, <3>4 DEF OrderRow
    <3> QED BY <3>4, <3>5
  <2> QED BY <2>1, <2>2, <2>3
<1> HIDE DEF lines
<1>3. \A k \in DOMAIN lines : lines[k] \in Line
  BY <1>1
<1>4. \A j, k \in DOMAIN lines : lines[j].sku = lines[k].sku => j = k
  BY <1>2 DEF NoRepeats
<1>5. Len(lines) \in Nat /\ DOMAIN lines = 1..Len(lines)
  BY <1>1
<1>6. \A k \in DOMAIN lines : lines[k].sku \in Products /\ lines[k].qty \in Nat \ {0}
  BY <1>3 DEF Line
<1> QED BY <1>1, <1>4, <1>5, <1>6 DEF lines

\* A lookup holds the row of the product.
LEMMA LookupExact ==
  ASSUME DeskInv, FromCarts, NoRepeats, NEW s \in Sessions, Fine(s, txn[s], products, orders, receipts),
         Exact(txn[s], products), CheckLine(s) \/ ReadLine(s)
  PROVE  Exact(txn'[s], products)
<1> DEFINE t == txn[s]
           r == txn'[s]
           p == CurrentLine(s).sku
           lines == t.want.lines
<1>0. TypeInv /\ t \in Txn
  BY DEF DeskInv, TypeInv, TypeOK
<1>1. /\ t.at \in {"check", "restore"}
      /\ r.op = t.op /\ r.want = t.want /\ r.known = t.known \cup {p}
      /\ r.obj = [t.obj EXCEPT ![p] = IF p \in t.known THEN t.obj[p] ELSE products[p]]
      /\ Looked(t, r)
  BY <1>0, LookupSteps
<1>2. t.n \in 1..Len(lines) /\ Len(lines) \in Nat /\ t.n \in Nat /\ p \in Products /\ p = lines[t.n].sku
  <2>1. t.n \in 1..Len(lines) /\ lines \in Seq(Line) /\ p \in Products
    BY <1>0, <1>1, LineTyped
  <2>2. p = lines[t.n].sku
    BY DEF CurrentLine
  <2> HIDE DEF lines, p
  <2> QED BY <2>1, <2>2, LenProperties
<1>3. t.obj \in [Products -> ProductRow] /\ t.known \subseteq Products
  BY <1>0 DEF Txn
<1>4. t.at \in Points(t.op)
  BY DEF Fine, Meant
<1>5. /\ t.at = "check" => t.op = "create"
      /\ t.at = "restore" => t.op \in Restorers
  <2>1. /\ t.at \in {"check", "take", "count", "insert"} => t.op = "create"
        /\ t.at \in {"restore", "give", "lookup"} => t.op \in Restorers
    BY <1>4, AtPoints
  <2> QED BY <2>1
<1>6. t.op \in Restorers \cup {"create"}
  BY <1>1, <1>5
<1>7. /\ DOMAIN lines = 1..Len(lines)
      /\ \A k \in DOMAIN lines : lines[k].sku \in Products
      /\ \A j, k \in DOMAIN lines : lines[j].sku = lines[k].sku => j = k
  BY <1>6, LinesOnce
<1>8. t.op = "create" => Seen(s, p).active /\ Seen(s, p).stock >= lines[t.n].qty
  <2>1. t.op = "create" => CheckLine(s)
    BY <1>5 DEF ReadLine, Restorers
  <2> QED BY <2>1 DEF CheckLine, CurrentLine
<1>9. Seen(s, p) = IF p \in t.known THEN t.obj[p] ELSE products[p]
  BY DEF Seen
<1>10. Exact(t, products)
  OBVIOUS
<1> DEFINE o == Seen(s, p)
<1>11. r.obj = [t.obj EXCEPT ![p] = o]
  BY <1>1, <1>9
<1> HIDE DEF t, r, p, lines, o
<1>12. ReadUpTo(t) = t.n - 1 /\ ReadUpTo(r) = t.n /\ MovedUpTo(r) = MovedUpTo(t) /\ MovedUpTo(t) < t.n
       /\ MovedUpTo(t) \in Nat
  <2>1. ReadUpTo(t) = t.n - 1
    BY <1>1 DEF ReadUpTo
  <2>2. ReadUpTo(r) = t.n
    BY <1>1, <1>2 DEF ReadUpTo, Looked, lines
  <2>3. MovedUpTo(r) = MovedUpTo(t) /\ MovedUpTo(t) < t.n /\ MovedUpTo(t) \in Nat
    BY <1>1, <1>2 DEF MovedUpTo, Looked
  <2> QED BY <2>1, <2>2, <2>3
<1>13. o = products[p]
  <2>1. CASE p \in t.known
    <3>1. t.n \in DOMAIN lines /\ t.n > MovedUpTo(t)
      BY <1>2, <1>7, <1>12
    <3>2. t.obj[p] = products[p]
      BY <1>2, <1>6, <1>10, <2>1, <3>1 DEF Exact, lines
    <3> QED BY <1>9, <2>1, <3>2 DEF o
  <2> QED BY <1>9, <2>1 DEF o
<1>14. ASSUME NEW k \in DOMAIN lines
       PROVE LET q == lines[k].sku qty == lines[k].qty IN
             /\ k <= ReadUpTo(r) /\ t.op = "create" => products[q].active /\ products[q].stock >= qty
             /\ k <= MovedUpTo(r) => r.obj[q] = Moved(t.op, products[q], qty)
             /\ k > MovedUpTo(r) /\ q \in r.known => r.obj[q] = products[q]
  <2> DEFINE q == lines[k].sku
             qty == lines[k].qty
  <2>1. /\ k <= ReadUpTo(t) /\ t.op = "create" => products[q].active /\ products[q].stock >= qty
        /\ k <= MovedUpTo(t) => t.obj[q] = Moved(t.op, products[q], qty)
        /\ k > MovedUpTo(t) /\ q \in t.known => t.obj[q] = products[q]
    BY <1>6, <1>10 DEF Exact, lines
  <2>2. k \in Nat /\ q \in Products
    BY <1>2, <1>7
  <2>3. CASE k = t.n
    <3>1. q = p /\ r.obj[q] = products[q]
      BY <1>2, <1>3, <1>11, <1>13, <2>3
    <3>2. t.op = "create" => products[q].active /\ products[q].stock >= qty
      BY <1>8, <1>13, <2>3, <3>1 DEF o
    <3> QED BY <1>2, <1>12, <2>3, <3>1, <3>2
  <2>4. CASE k # t.n
    <3>1. q # p
      BY <1>2, <1>7, <2>4
    <3>2. r.obj[q] = t.obj[q] /\ (q \in r.known => q \in t.known)
      BY <1>1, <1>3, <1>11, <2>2, <3>1
    <3>3. k <= ReadUpTo(r) => k <= ReadUpTo(t)
      BY <1>2, <1>12, <2>2, <2>4
    <3> QED BY <1>12, <2>1, <3>2, <3>3
  <2> QED BY <2>3, <2>4
<1> QED BY <1>1, <1>14 DEF Exact, lines, r

\* A flush moves the units of its line.
LEMMA FlushExact ==
  ASSUME DeskInv, FromCarts, NoRepeats, NEW s \in Sessions, Fine(s, txn[s], products, orders, receipts),
         Exact(txn[s], products), TakeLine(s) \/ GiveLine(s)
  PROVE  Exact(txn'[s], products)
<1> DEFINE t == txn[s]
           r == txn'[s]
           p == Target(s)
           new == NewValues(s)
           lines == t.want.lines
           qty == CurrentLine(s).qty
<1>0. TypeInv /\ t \in Txn
  BY DEF DeskInv, TypeInv, TypeOK
<1>1. t.at \in {"take", "give"}
  BY DEF TakeLine, GiveLine, At
<1>2. PICK next \in Txn :
        /\ FlushProduct(s, next) /\ Onwards(t, next)
        /\ next.op = t.op /\ next.id = t.id /\ next.rid = t.rid
        /\ next.row = t.row /\ next.want = t.want /\ next.known = t.known
        /\ next.dirty = t.dirty /\ next.obj = t.obj
  BY <1>0, FlushSteps
<1>3. r.op = t.op /\ r.at = next.at /\ r.want = t.want
  BY <1>0, <1>1, <1>2, Flushed
<1>4. r.n = next.n /\ r.known = t.known \cup {p} /\ r.obj = [t.obj EXCEPT ![p] = new]
  <2>1. r.n = next.n /\ r.known = next.known \cup {p} /\ r.obj = [next.obj EXCEPT ![p] = new]
    BY <1>0, <1>1, <1>2, FlushedObjects
  <2> QED BY <1>2, <2>1
<1>5. p \in Products /\ t.obj \in [Products -> ProductRow] /\ t.n \in Nat
  BY <1>0, <1>1, FlushTyped DEF Txn
<1>6. p = lines[t.n].sku /\ qty = lines[t.n].qty /\ t.n \in 1..Len(lines) /\ Len(lines) \in Nat
  BY <1>0, <1>1, LineTyped DEF Target, CurrentLine
<1>7. new = CASE t.at = "take"  -> Decremented(t.obj[p], qty)
              [] t.at = "give"  -> Restored(t.obj[p], qty)
              [] t.at = "level" -> Levelled(t.n)
  BY DEF NewValues
<1>8. t.at \in Points(t.op) /\ Synced(t, products) /\ Exact(t, products)
  BY DEF Fine, Meant
<1>9. /\ t.at = "take" => t.op = "create"
      /\ t.at = "give" => t.op \in Restorers
  <2>1. /\ t.at \in {"check", "take", "count", "insert"} => t.op = "create"
        /\ t.at \in {"restore", "give", "lookup"} => t.op \in Restorers
    BY <1>8, AtPoints
  <2> QED BY <2>1
<1>10. t.op \in Restorers \cup {"create"}
  BY <1>1, <1>9
<1>11. /\ DOMAIN lines = 1..Len(lines)
       /\ \A k \in DOMAIN lines : lines[k].sku \in Products
       /\ \A j, k \in DOMAIN lines : lines[j].sku = lines[k].sku => j = k
  BY <1>10, LinesOnce
<1> HIDE DEF t, r, p, new, lines, qty
<1>12. new = Moved(t.op, t.obj[p], qty)
  BY <1>1, <1>7, <1>9 DEF Moved, Restorers
<1>13. /\ MovedUpTo(t) = t.n - 1 /\ MovedUpTo(r) = t.n
       /\ ReadUpTo(t) >= t.n /\ ReadUpTo(r) <= ReadUpTo(t)
  <2>1. MovedUpTo(t) = t.n - 1
    BY <1>1 DEF MovedUpTo
  <2>2. MovedUpTo(r) = t.n
    BY <1>1, <1>2, <1>3, <1>4, <1>5, <1>6 DEF MovedUpTo, Onwards, lines
  <2>3. ReadUpTo(t) >= t.n
    BY <1>1, <1>5, <1>6 DEF ReadUpTo, lines
  <2>4. ReadUpTo(r) <= ReadUpTo(t)
    BY <1>1, <1>2, <1>3, <1>4, <1>5, <1>6 DEF ReadUpTo, Onwards, lines
  <2> QED BY <2>1, <2>2, <2>3, <2>4
<1>14. p \in t.known /\ t.obj[p] = products[p]
  <2>1. t.n \in DOMAIN lines /\ t.n > MovedUpTo(t)
    BY <1>5, <1>6, <1>11, <1>13
  <2>2. p \in t.known
    BY <1>6, <1>8, <1>10, <1>13, <2>1 DEF Synced, lines
  <2> QED BY <1>6, <1>8, <1>10, <2>1, <2>2 DEF Exact, lines
<1>15. ASSUME NEW k \in DOMAIN lines
       PROVE LET q == lines[k].sku u == lines[k].qty IN
             /\ k <= ReadUpTo(r) /\ t.op = "create" => products[q].active /\ products[q].stock >= u
             /\ k <= MovedUpTo(r) => r.obj[q] = Moved(t.op, products[q], u)
             /\ k > MovedUpTo(r) /\ q \in r.known => r.obj[q] = products[q]
  <2> DEFINE q == lines[k].sku
             u == lines[k].qty
  <2>1. /\ k <= ReadUpTo(t) /\ t.op = "create" => products[q].active /\ products[q].stock >= u
        /\ k <= MovedUpTo(t) => t.obj[q] = Moved(t.op, products[q], u)
        /\ k > MovedUpTo(t) /\ q \in t.known => t.obj[q] = products[q]
    BY <1>8, <1>10 DEF Exact, lines
  <2>2. k \in Nat /\ q \in Products /\ (k <= ReadUpTo(r) => k <= ReadUpTo(t))
    <3>1. k \in Nat /\ q \in Products
      BY <1>6, <1>11
    <3>2. ReadUpTo(r) \in Int /\ ReadUpTo(t) \in Int
      BY <1>1, <1>2, <1>3, <1>4, <1>5, <1>6 DEF ReadUpTo, Onwards, lines
    <3> QED BY <1>13, <3>1, <3>2
  <2>3. CASE k = t.n
    <3>1. q = p /\ u = qty /\ r.obj[q] = new
      BY <1>4, <1>5, <1>6, <2>3
    <3>2. r.obj[q] = Moved(t.op, products[q], u)
      BY <1>12, <1>14, <3>1
    <3> QED BY <1>5, <1>13, <2>1, <2>2, <2>3, <3>2
  <2>4. CASE k # t.n
    <3>1. q # p
      BY <1>6, <1>11, <2>4
    <3>2. r.obj[q] = t.obj[q] /\ (q \in r.known => q \in t.known)
      BY <1>4, <1>5, <2>2, <3>1
    <3>3. (k <= MovedUpTo(r) => k <= MovedUpTo(t)) /\ (k > MovedUpTo(r) => k > MovedUpTo(t))
      BY <1>5, <1>13, <2>2, <2>4
    <3> QED BY <2>1, <2>2, <3>2, <3>3
  <2> QED BY <2>3, <2>4
<1> QED BY <1>3, <1>15 DEF Exact, lines, r

\* A request at its first line has moved nothing and holds nothing.
LEMMA FreshExact ==
  ASSUME NEW t, NEW P, t.known = {}, t.n = 1, t.at \in {"check", "restore"}, t.want.lines \in Seq(Line)
  PROVE  Exact(t, P)
<1>1. ReadUpTo(t) = 0 /\ MovedUpTo(t) = 0
  BY DEF ReadUpTo, MovedUpTo
<1>2. \A k \in DOMAIN t.want.lines : k \in Nat /\ k >= 1
  OBVIOUS
<1>3. \A k \in DOMAIN t.want.lines : ~ (k <= 0)
  BY <1>2
<1> QED BY <1>1, <1>3 DEF Exact

\* A request that has read nothing.
LEMMA RestoringExact ==
  ASSUME TypeInv, NEW op, NEW i \in OrderIds, NEW P
  PROVE  Exact(Restoring(op, i), P)
<1> DEFINE w == [orders[i] EXCEPT !.status = "cancelled"]
           r == Changing(op, "restore", 1, i, w)
<1>1. w.lines \in Seq(Line)
  <2>1. orders[i] \in OrderRow
    BY TablesTyped
  <2> QED BY <2>1 DEF OrderRow
<1> HIDE DEF w
<1>2. r.known = {} /\ r.n = 1 /\ r.at = "restore" /\ r.want = w
  <2>1. Idle.known = {}
    BY DEF Idle
  <2> QED BY <2>1, IdleIsTxn DEF Changing, Txn
<1> HIDE DEF r
<1>3. Exact(r, P)
  BY <1>1, <1>2, FreshExact
<1> QED BY <1>3 DEF r, w, Restoring

\* A request that arrives, or an order the sweep has read again, starts exact.
LEMMA ArrivalsExact ==
  ASSUME TypeInv, NEW s \in Sessions, Arrive(s) \/ ListStale(s) \/ LoadStale(s), NEW P
  PROVE  Exact(txn'[s], P)
<1>1. CASE CreateOrder(s)
  <2>1. PICK cart \in Carts, pay \in PayMethods, c \in Customers :
          Continue(s, [Idle EXCEPT !.op = "create", !.at = "check", !.n = 1,
                         !.want = [Blank EXCEPT !.cust = c, !.lines = cart, !.pay = pay,
                                                !.status = StatusFor(pay)]])
    BY <1>1 DEF CreateOrder
  <2> DEFINE o == [Blank EXCEPT !.cust = c, !.lines = cart, !.pay = pay, !.status = StatusFor(pay)]
             r == [Idle EXCEPT !.op = "create", !.at = "check", !.n = 1, !.want = o]
  <2>2. o.lines \in Seq(Line)
    BY CartsAreCarts DEF Blank
  <2>3. Continue(s, r)
    BY <2>1
  <2> HIDE DEF o
  <2>4. r.known = {} /\ r.n = 1 /\ r.at = "check" /\ r.want = o
    BY DEF Idle
  <2> HIDE DEF r
  <2>5. Exact(r, P)
    BY <2>2, <2>4, FreshExact
  <2> QED BY <2>3, <2>5, Continued
<1>2. CASE LoadForCancel(s)
  <2>1. PICK op \in {"cancel", "admincancel"}, i \in OrderIds : Continue(s, Restoring(op, i))
    BY <1>2 DEF LoadForCancel
  <2> QED BY <2>1, RestoringExact, Continued
<1>3. CASE LoadStale(s)
  <2> DEFINE i == txn[s].id
  <2>1. i \in OrderIds
    <3>1. Fits(txn[s])
      BY DEF TypeInv
    <3> QED BY <1>3, <3>1, TablesTyped DEF Fits, LoadStale, At
  <2>2. Continue(s, Restoring("autocancel", i))
    BY <1>3 DEF LoadStale
  <2> HIDE DEF i
  <2> QED BY <2>1, <2>2, RestoringExact, Continued
<1>4. CASE LoadForRepay(s) \/ LoadForFlag(s)
  <2>0. PICK op \in {"repay", "flag"} : \E i, w : Continue(s, Changing(op, "status", 0, i, w))
    BY <1>4 DEF LoadForRepay, LoadForFlag
  <2>1. PICK i, w : Continue(s, Changing(op, "status", 0, i, w))
    BY <2>0
  <2> DEFINE r == Changing(op, "status", 0, i, w)
  <2>2. r.op = op
    BY DEF Changing, Idle
  <2>3. Continue(s, r)
    BY <2>1
  <2> HIDE DEF r
  <2>4. txn'[s].op = op
    BY <2>2, <2>3, Continued
  <2> QED BY <2>4, NoLinesExact DEF Restorers
<1>5. CASE LoadForLevel(s)
  <2>1. PICK p \in Scope[s], level \in 0..MaxLevel :
          Continue(s, Holding([Idle EXCEPT !.op = "level", !.at = "level", !.n = level], p, products[p]))
    BY <1>5 DEF LoadForLevel
  <2> DEFINE t == [Idle EXCEPT !.op = "level", !.at = "level", !.n = level]
  <2>2. t \in Txn /\ t.op = "level"
    <3>1. level \in Nat /\ "level" \in OpNames
      BY BoundsAreNaturals DEF OpNames
    <3> QED BY <3>1, IdleIsTxn DEF Txn
  <2>3. p \in Products /\ products[p] \in ProductRow /\ Continue(s, Holding(t, p, products[p]))
    BY <2>1, SessionsAreScoped DEF TypeInv, TypeOK
  <2> HIDE DEF t
  <2>4. Holding(t, p, products[p]).op = "level"
    BY <2>2, <2>3, HoldingIsTxn
  <2>5. txn'[s].op = "level"
    BY <2>3, <2>4, Continued
  <2> QED BY <2>5, NoLinesExact DEF Restorers
<1>6. CASE ListStale(s) \/ ReadReceipt(s) \/ LoadReceipt(s) \/ LoadForRefund(s)
  <2>1. PICK op, at, i, v : Continue(s, Begun(op, at, i, v))
    BY <1>6 DEF ListStale, ReadReceipt, LoadReceipt, LoadForRefund
  <2>2. txn'[s].want.lines = <<>>
    <3>1. Begun(op, at, i, v).want = Blank /\ Blank.lines = <<>>
      BY DEF Begun, Idle, Blank
    <3> QED BY <2>1, <3>1, Continued
  <2> QED BY <2>2, NoLinesExact
<1> QED BY <1>1, <1>2, <1>3, <1>4, <1>5, <1>6 DEF Arrive

\* The end of a request, and the commit.
LEMMA EndExact ==
  ASSUME TypeInv, NEW s \in Sessions, NEW P,
         \/ RefuseLine(s) \/ InsertCollides(s) \/ StaleIsClosed(s) \/ SweepRaises(s)
         \/ DeadlockVictim(s) \/ Die(s) \/ CommitNewOrder(s) \/ FileRefund(s) \/ FileReceipt(s)
         \/ Commit(s)
  PROVE  Exact(txn'[s], P)
<1>1. \/ Continue(s, Idle)
      \/ Continue(s, Begun("admincancel", "refund", txn[s].id, 0))
  BY DEF RefuseLine, InsertCollides, StaleIsClosed, SweepRaises, DeadlockVictim, Die,
     CommitNewOrder, FileRefund, FileReceipt, Commit
<1>2. Idle.want = Blank /\ Blank.lines = <<>> /\ Begun("admincancel", "refund", txn[s].id, 0).want = Blank
  BY DEF Begun, Idle, Blank
<1>3. txn'[s].want.lines = <<>>
  BY <1>1, <1>2, Continued
<1> QED BY <1>3, NoLinesExact

\* The statements that move no unit.
LEMMA RestExact ==
  ASSUME DeskInv, NEW s \in Sessions, Fine(s, txn[s], products, orders, receipts), Exact(txn[s], products),
         \/ CountOrders(s) \/ InsertOrder(s) \/ FlushOrder(s) \/ ResolveReceipt(s)
         \/ SetLevel(s) \/ LoadForApprove(s)
  PROVE  Exact(txn'[s], products)
<1> DEFINE t == txn[s]
           r == txn'[s]
<1>0. TypeInv /\ t \in Txn
  BY DEF DeskInv, TypeInv, TypeOK
<1>1. CASE CountOrders(s) \/ InsertOrder(s) \/ FlushOrder(s) \/ ResolveReceipt(s)
  <2>1. Stepped(t, r)
    BY <1>0, <1>1, StatementSteps DEF Fine, Meant
  <2> HIDE DEF t, r
  <2>2. /\ ReadUpTo(t) = Len(t.want.lines) /\ MovedUpTo(t) = Len(t.want.lines)
        /\ ReadUpTo(r) = Len(t.want.lines) /\ MovedUpTo(r) = Len(t.want.lines)
    BY <2>1 DEF Stepped, ReadUpTo, MovedUpTo
  <2>3. r.op = t.op /\ r.want.lines = t.want.lines /\ r.known = t.known /\ r.obj = t.obj
    BY <2>1 DEF Stepped
  <2>4. Exact(t, products)
    BY DEF t
  <2>5. Exact(r, products)
    BY <2>2, <2>3, <2>4 DEF Exact
  <2> QED BY <2>5 DEF r
<1>2. CASE SetLevel(s)
  <2>1. PICK next \in Txn : FlushProduct(s, next) /\ next.op = t.op
    BY <1>0, <1>2, FlushSteps
  <2>2. t.at = "level" /\ t.op = "level"
    BY <1>2 DEF SetLevel, At
  <2>3. r.op = "level"
    BY <1>0, <2>1, <2>2, Flushed
  <2> QED BY <2>3, NoLinesExact DEF Restorers
<1>3. CASE LoadForApprove(s)
  <2>1. PICK v : Continue(s, v) /\ v.op = t.op
    <3> DEFINE i == receipts[t.rid].order
               a == [t EXCEPT !.at = "status", !.id = i, !.row = orders[i],
                              !.want = [orders[i] EXCEPT !.status = "paid"]]
               b == [t EXCEPT !.at = "resolve"]
    <3>1. Continue(s, a) \/ Continue(s, b)
      BY <1>3 DEF LoadForApprove
    <3>2. a.op = t.op /\ b.op = t.op
      BY <1>0 DEF Txn
    <3> HIDE DEF a, b
    <3> QED BY <3>1, <3>2
  <2>2. r.op = "approve"
    BY <1>0, <1>3, <2>1, Continued DEF LoadForApprove, At
  <2> QED BY <2>2, NoLinesExact DEF Restorers
<1> QED BY <1>1, <1>2, <1>3

\* A step of any handler keeps every session exact.
LEMMA ExactStep ==
  ASSUME Separate, NoRepeats
  PROVE  ShelfInv /\ ExactInv /\ [Next]_vars => ExactInv'
<1> SUFFICES ASSUME ShelfInv, ExactInv, [Next]_vars PROVE ExactInv'
  OBVIOUS
<1>0. /\ DeskInv /\ TypeInv /\ FromCarts /\ Shown
      /\ \A u \in Sessions : Fine(u, txn[u], products, orders, receipts) /\ txn[u] \in Txn
                             /\ Exact(txn[u], products)
  BY DEF ShelfInv, DeskInv, TypeInv, TypeOK, ExactInv
<1>1. CASE UNCHANGED vars
  BY <1>1 DEF vars, ExactInv
<1>2. ASSUME NEW s \in Sessions, Arrive(s) \/ ListStale(s) \/ Proceed(s) \/ Die(s)
      PROVE  ExactInv'
  <2>1. \A u \in Sessions \ {s} : txn'[u] = txn[u]
    BY <1>0, <1>2, StepIsOne
  <2>2. TablesMove(s)
    BY <1>0, <1>2, StepMovesTables
  <2>3. ASSUME NEW u \in Sessions \ {s} PROVE Exact(txn'[u], products')
    <3>1. ASSUME NEW q \in Names(txn[u].want.lines) PROVE products'[q] = products[q]
      <4>1. q \in Scope[u] /\ q \in Products
        BY <1>0, SessionsAreScoped DEF Fine, Scoped
      <4> QED BY <2>2, <4>1 DEF TablesMove, Separate
    <3>2. Exact(txn[u], products')
      BY <1>0, <3>1, ExactKept
    <3> QED BY <2>1, <3>2
  <2>4. Exact(txn'[s], products')
    <3>1. CASE \/ RefuseLine(s) \/ InsertCollides(s) \/ StaleIsClosed(s) \/ SweepRaises(s)
               \/ DeadlockVictim(s) \/ Die(s) \/ CommitNewOrder(s) \/ FileRefund(s) \/ FileReceipt(s)
               \/ Commit(s)
      BY <1>0, <3>1, EndExact
    <3>2. CASE Arrive(s) \/ ListStale(s) \/ LoadStale(s)
      BY <1>0, <3>2, ArrivalsExact
    <3>3. CASE \/ CheckLine(s) \/ ReadLine(s) \/ TakeLine(s) \/ GiveLine(s)
               \/ CountOrders(s) \/ InsertOrder(s) \/ FlushOrder(s) \/ ResolveReceipt(s)
               \/ SetLevel(s) \/ LoadForApprove(s)
      <4>1. Exact(txn'[s], products)
        BY <1>0, <3>3, LookupExact, FlushExact, RestExact
      <4>2. UNCHANGED products
        BY <3>3 DEF CheckLine, ReadLine, TakeLine, GiveLine, CountOrders, InsertOrder, FlushOrder,
           ResolveReceipt, SetLevel, LoadForApprove
      <4> QED BY <4>1, <4>2
    <3> QED BY <1>2, <3>1, <3>2, <3>3 DEF Proceed
  <2> QED BY <2>3, <2>4 DEF ExactInv
<1> QED BY <1>1, <1>2 DEF Next

\* Idle sessions are exact.
LEMMA ExactInit == Init => ExactInv
<1> SUFFICES ASSUME Init, NEW s \in Sessions PROVE Exact(txn[s], products)
  BY DEF ExactInv
<1>1. txn[s].want.lines = <<>>
  BY DEF Init, Idle, Blank
<1> QED BY <1>1, NoLinesExact

\* If no cart names a product twice, the objects of create_order and cancel_order
\* are at each statement the committed rows with the units of the lines done so
\* far moved, and the lines create_order has checked are in stock.
THEOREM ObjectsAreExact ==
  ASSUME Separate, NoRepeats
  PROVE  Spec => [](ShelfInv /\ ExactInv)
<1>1. ShelfInv /\ ExactInv /\ [Next]_vars => ExactInv' /\ ShelfInv'
  BY ExactStep, ShelfStep
<1> QED BY <1>1, ShelfInit, ExactInit, PTL DEF Spec

-----------------------------------------------------------------------------
(* Each commit is a step of the ledger. *)

\* What a creation or a cancellation has made of product p when it commits.
LEMMA CommitMoves ==
  ASSUME DeskInv, FromCarts, NoRepeats, NEW s \in Sessions, Fine(s, txn[s], products, orders, receipts),
         Exact(txn[s], products), txn[s].at = "commit", txn[s].op \in Restorers \cup {"create"},
         NEW p \in Products
  PROVE  LET u == Ledger!Units(txn[s].want.lines, p) IN
         /\ u \in Nat
         /\ Merged(txn[s], products)[p] = IF u = 0 THEN products[p] ELSE Moved(txn[s].op, products[p], u)
         /\ txn[s].op = "create" /\ u # 0 => products[p].active /\ products[p].stock >= u
<1> DEFINE t == txn[s]
           lines == t.want.lines
           u == Ledger!Units(lines, p)
<1>1. /\ lines \in Seq(Line) /\ Len(lines) \in Nat /\ DOMAIN lines = 1..Len(lines)
      /\ \A j, k \in DOMAIN lines : lines[j].sku = lines[k].sku => j = k
      /\ \A k \in DOMAIN lines : lines[k].qty \in Nat \ {0}
  BY LinesOnce
<1>2. /\ u \in Nat
      /\ u = 0 <=> \A k \in DOMAIN lines : lines[k].sku # p
      /\ \A k \in DOMAIN lines :
           (\A j \in DOMAIN lines : lines[j].sku = p <=> j = k) => u = lines[k].qty
  <2>1. lines \in Seq(Line)
    BY <1>1
  <2> HIDE DEF lines
  <2> QED BY <2>1, UnitsCount
<1>3. Synced(t, products) /\ Exact(t, products)
  BY DEF Fine
<1>4. ReadUpTo(t) = Len(lines) /\ MovedUpTo(t) = Len(lines)
  BY DEF ReadUpTo, MovedUpTo
<1>5. t.op # "level"
  BY DEF Restorers
<1>6. t.op \in Restorers \cup {"create"}
  OBVIOUS
<1> HIDE DEF t, lines, u
<1>7. CASE u = 0
  <2>1. p \notin Names(lines)
    BY <1>2, <1>7 DEF Names
  <2>2. p \notin t.known
    BY <1>3, <1>5, <1>6, <2>1 DEF Synced, lines
  <2>3. Merged(t, products)[p] = products[p]
    BY <2>2 DEF Merged
  <2> QED BY <1>2, <1>7, <2>3 DEF t, lines, u
<1>8. CASE u # 0
  <2>1. PICK k \in DOMAIN lines : lines[k].sku = p
    BY <1>2, <1>8
  <2>2. u = lines[k].qty
    BY <1>1, <1>2, <2>1
  <2>3. k \in Nat /\ k <= Len(lines)
    BY <1>1
  <2>4. p \in t.known
    BY <1>3, <1>4, <1>6, <2>1, <2>3 DEF Synced, lines
  <2>5. /\ t.op = "create" => products[p].active /\ products[p].stock >= u
        /\ t.obj[p] = Moved(t.op, products[p], u)
    BY <1>3, <1>4, <1>6, <2>1, <2>2, <2>3 DEF Exact, lines
  <2>6. Merged(t, products)[p] = t.obj[p]
    BY <2>4 DEF Merged
  <2> QED BY <1>2, <1>8, <2>5, <2>6 DEF t, lines, u
<1> QED BY <1>7, <1>8

\* The commit of a new order places it.
LEMMA CreationPlaces ==
  ASSUME DeskInv, FromCarts, NoRepeats, NEW s \in Sessions, Fine(s, txn[s], products, orders, receipts),
         Exact(txn[s], products), CommitNewOrder(s)
  PROVE  \E cart \in Carts, pay \in {"bank_transfer", "cod"}, c \in Customers : Ledger!Place(cart, pay, c)
<1> DEFINE t == txn[s]
           w == t.want
           cart == w.lines
           new == [ref |-> Len(orders) + 1, cust |-> w.cust, lines |-> cart, pay |-> w.pay,
                   status |-> Ledger!AwaitedBy(w.pay), flagged |-> FALSE]
<1>0. TypeInv /\ t \in Txn /\ products \in [Products -> ProductRow]
  BY DEF DeskInv, TypeInv, TypeOK
<1>1. t.op = "create" /\ t.at = "commit" /\ orders' = Append(orders, w)
  BY DEF CommitNewOrder, At
<1>2. products' = Merged(t, products)
  BY CommitMerges DEF CommitNewOrder, Fine, DeskInv
<1>3. cart \in Carts /\ w.status = StatusFor(w.pay) /\ ~ w.flagged
  BY <1>1 DEF Fine, Meant
<1>4. w \in OrderRow
  BY <1>0 DEF Txn
<1>5. w.ref = Len(orders) + 1
  BY <1>1 DEF DeskInv, RefInv, HoldsRef, At
<1>6. \A p \in Products :
        LET u == Ledger!Units(cart, p) IN
        /\ u \in Nat
        /\ Merged(t, products)[p] = IF u = 0 THEN products[p] ELSE Moved(t.op, products[p], u)
        /\ t.op = "create" /\ u # 0 => products[p].active /\ products[p].stock >= u
  BY <1>1, CommitMoves
<1>7. w = new
  <2>1. Ledger!AwaitedBy(w.pay) = w.status
    BY <1>3 DEF Ledger!AwaitedBy, StatusFor
  <2>2. w.flagged = FALSE
    <3> HIDE DEF w
    <3> QED BY <1>3, <1>4 DEF OrderRow
  <2> HIDE DEF w
  <2> QED BY <1>4, <1>5, <2>1, <2>2 DEF OrderRow
<1>8. w.cust \in Customers /\ w.pay \in {"bank_transfer", "cod"}
  <2> HIDE DEF w
  <2> QED BY <1>4 DEF OrderRow, PayMethods
<1>9. orders' = Append(orders, new)
  BY <1>1, <1>7
<1> HIDE DEF w, t, cart
<1>10. \A p \in Products : Ledger!Units(cart, p) > 0 =>
         products[p].active /\ products[p].stock >= Ledger!Units(cart, p)
  BY <1>1, <1>6
<1>11. products' = [p \in Products |->
         LET left == products[p].stock - Ledger!Units(cart, p) IN
         IF Ledger!Units(cart, p) = 0 THEN products[p]
         ELSE [stock |-> left, active |-> left > 0]]
  <2>1. ASSUME NEW p \in Products
        PROVE  Merged(t, products)[p] =
                 LET left == products[p].stock - Ledger!Units(cart, p) IN
                 IF Ledger!Units(cart, p) = 0 THEN products[p]
                 ELSE [stock |-> left, active |-> left > 0]
    <3> DEFINE u == Ledger!Units(cart, p)
               o == products[p]
    <3>1. u \in Nat /\ o.stock \in Nat
      BY <1>0, <1>6 DEF ProductRow
    <3>2. CASE u = 0
      BY <1>6, <3>2
    <3>3. CASE u # 0
      <4>1. Merged(t, products)[p] = Decremented(o, u) /\ o.active /\ o.stock >= u
        BY <1>1, <1>6, <3>3 DEF Moved
      <4> HIDE DEF u, o
      <4> DEFINE left == o.stock - u
      <4>2. (IF o.stock > u THEN o.stock - u ELSE 0) = left /\ left \in Nat
        BY <3>1, <4>1
      <4>3. Decremented(o, u) = [stock |-> left, active |-> o.active /\ left # 0]
        <5> HIDE DEF left
        <5> QED BY <4>2 DEF Decremented
      <4>4. (o.active /\ left # 0) = (left > 0)
        BY <4>1, <4>2
      <4>5. Decremented(o, u) = [stock |-> left, active |-> left > 0]
        BY <4>3, <4>4
      <4> QED BY <3>3, <4>1, <4>5 DEF u, o
    <3> QED BY <3>2, <3>3
  <2> QED BY <1>2, <2>1 DEF Merged
<1>12. Ledger!Place(cart, w.pay, w.cust)
  <2> HIDE DEF new
  <2>1. new = [ref |-> Len(orders) + 1, cust |-> w.cust, lines |-> cart, pay |-> w.pay,
               status |-> Ledger!AwaitedBy(w.pay), flagged |-> FALSE]
    BY DEF new
  <2> QED BY <1>9, <1>10, <1>11, <2>1 DEF Ledger!Place
<1> QED BY <1>3, <1>8, <1>12 DEF cart

\* The commit of a cancellation gives the units of the order back.
LEMMA CancellationCancels ==
  ASSUME DeskInv, FromCarts, NoRepeats, NEW s \in Sessions, Fine(s, txn[s], products, orders, receipts),
         Exact(txn[s], products), Commit(s), txn[s].op \in Restorers
  PROVE  UNCHANGED <<products, orders>> \/ \E i \in OrderIds : Ledger!Cancel(i)
<1> DEFINE t == txn[s]
           i == t.id
           o == orders[i]
<1>0. TypeInv /\ t \in Txn /\ products \in [Products -> ProductRow]
  BY DEF DeskInv, TypeInv, TypeOK
<1>1. t.at = "commit" /\ products' = Merged(t, products) /\ t.op # "create" /\ t.op # "level"
  BY CommitMerges DEF Commit, Fine, DeskInv, Restorers
<1>2. CASE t.want.lines = <<>>
  <2>1. t.known = {}
    <3>1. t.known \subseteq Names(t.want.lines)
      BY <1>1 DEF Fine, Synced
    <3> QED BY <1>2, <3>1 DEF Names
  <2>2. products' = products
    <3>1. \A p \in Products : Merged(t, products)[p] = products[p]
      BY <2>1 DEF Merged
    <3>2. Merged(t, products) = [p \in Products |-> Merged(t, products)[p]]
      BY DEF Merged
    <3> HIDE DEF t
    <3> QED BY <1>0, <1>1, <3>1, <3>2
  <2>3. i = 0
    <3>1. ~ Changes(t)
      <4> SUFFICES ASSUME Changes(t) PROVE FALSE
        OBVIOUS
      <4>1. t.row = o /\ Intends(t.op, t.row, t.want)
        BY <1>1 DEF Fine, Meant
      <4>2. t.want = [o EXCEPT !.status = "cancelled"]
        BY <1>1, <4>1 DEF Intends, Restorers
      <4>3. i \in OrderIds
        <5>1. Fits(t) /\ t.id # 0
          BY <1>0 DEF TypeInv, Changes
        <5> QED BY <1>0, <5>1, TablesTyped DEF Fits
      <4>4. o \in OrderRow /\ o.lines # <<>>
        BY <1>0, <4>3, TablesTyped
      <4>5. t.want.lines = o.lines
        <5> HIDE DEF o
        <5> QED BY <4>2, <4>4 DEF OrderRow
      <4> QED BY <1>2, <4>4, <4>5
    <3> QED BY <1>1, <3>1 DEF Changes
  <2>4. orders' = orders
    BY <2>3 DEF Commit
  <2> QED BY <2>2, <2>4
<1>3. CASE t.want.lines # <<>>
  <2>1. /\ i \in OrderIds /\ MayCancel(t.op, o.status)
        /\ t.want = [o EXCEPT !.status = "cancelled"]
        /\ orders' = [orders EXCEPT ![i] = [o EXCEPT !.status = "cancelled"]]
    BY <1>3, CancellationCommits
  <2>2. o \in OrderRow
    BY <1>0, <2>1, TablesTyped
  <2>3. t.want.lines = o.lines
    <3> HIDE DEF o
    <3> QED BY <2>1, <2>2 DEF OrderRow
  <2>4. \A p \in Products :
          LET u == Ledger!Units(t.want.lines, p) IN
          /\ u \in Nat
          /\ Merged(t, products)[p] = IF u = 0 THEN products[p] ELSE Moved(t.op, products[p], u)
    BY <1>1, CommitMoves
  <2>5. products' = [p \in Products |->
          LET back == Ledger!Units(orders[i].lines, p) IN
          IF back = 0 THEN products[p]
          ELSE [stock |-> products[p].stock + back, active |-> TRUE]]
    <3>1. ASSUME NEW p \in Products
          PROVE  Merged(t, products)[p] =
                   LET back == Ledger!Units(orders[i].lines, p) IN
                   IF back = 0 THEN products[p]
                   ELSE [stock |-> products[p].stock + back, active |-> TRUE]
      BY <1>1, <2>3, <2>4 DEF Moved, Restored
    <3> QED BY <1>1, <3>1 DEF Merged
  <2>6. orders[i].status \in {"awaiting_payment", "pending_delivery"} \cup {"paid"}
    BY <2>1 DEF MayCancel, Open
  <2>7. Ledger!Cancel(i)
    <3> HIDE DEF i, t
    <3> QED BY <2>1, <2>5, <2>6 DEF Ledger!Cancel, Ledger!Unpaid
  <2> QED BY <2>1, <2>7
<1> QED BY <1>2, <1>3

\* The merge of the columns an order object differs in.
LEMMA MergeIsWant ==
  ASSUME NEW s \in Sessions, NEW o \in OrderRow, txn[s].row = o, txn[s].want \in OrderRow,
         txn[s].want.ref = o.ref, txn[s].want.cust = o.cust, txn[s].want.lines = o.lines
  PROVE  CommittedOrder(s, o) = txn[s].want
<1> DEFINE w == txn[s].want
           c == [o EXCEPT !.pay     = IF o.pay # w.pay THEN w.pay ELSE o.pay,
                          !.status  = IF o.status # w.status THEN w.status ELSE o.status,
                          !.flagged = IF o.flagged # w.flagged THEN w.flagged ELSE o.flagged]
<1>1. CommittedOrder(s, o) = c
  BY DEF CommittedOrder
<1>2. w \in OrderRow /\ w.ref = o.ref /\ w.cust = o.cust /\ w.lines = o.lines
  OBVIOUS
<1> HIDE DEF w
<1>3. c = [o EXCEPT !.pay = w.pay, !.status = w.status, !.flagged = w.flagged]
  OBVIOUS
<1>4. w = [o EXCEPT !.pay = w.pay, !.status = w.status, !.flagged = w.flagged]
  BY <1>2 DEF OrderRow
<1> QED BY <1>1, <1>3, <1>4 DEF w

\* The commits that change the order row alone.
LEMMA ChangesAreLedgers ==
  ASSUME DeskInv, FromCarts, NEW s \in Sessions, Fine(s, txn[s], products, orders, receipts),
         Commit(s), txn[s].op \notin Restorers \cup {"create", "level"}
  PROVE  \/ UNCHANGED <<products, orders>>
         \/ \E i \in OrderIds : \/ Ledger!AcceptPayment(i) \/ Ledger!AskToCancel(i)
                                \/ \E pay \in {"bank_transfer", "cod"} : Ledger!ChangePayment(i, pay)
<1> DEFINE t == txn[s]
           i == t.id
           o == orders[i]
           w == t.want
<1>0. TypeInv /\ t \in Txn /\ products \in [Products -> ProductRow]
  BY DEF DeskInv, TypeInv, TypeOK
<1>1. t.at = "commit" /\ products' = Merged(t, products) /\ t.op # "create" /\ t.op # "level"
  BY CommitMerges DEF Commit, Fine, DeskInv
<1>2. products' = products
  <2>1. t.known = {}
    BY <1>1 DEF Fine, Synced
  <2>2. \A p \in Products : Merged(t, products)[p] = products[p]
    BY <2>1 DEF Merged
  <2>3. Merged(t, products) = [p \in Products |-> Merged(t, products)[p]]
    BY DEF Merged
  <2> HIDE DEF t
  <2> QED BY <1>0, <1>1, <2>2, <2>3
<1>3. CASE i = 0
  BY <1>2, <1>3 DEF Commit
<1>4. CASE i # 0
  <2>1. Changes(t)
    BY <1>1, <1>4 DEF Changes
  <2>2. t.row = o /\ Intends(t.op, o, w)
    BY <1>1, <2>1 DEF Fine, Meant
  <2>3. i \in OrderIds
    <3>1. Fits(t)
      BY <1>0 DEF TypeInv
    <3> QED BY <1>0, <1>4, <3>1, TablesTyped DEF Fits
  <2>4. o \in OrderRow /\ w \in OrderRow /\ RowOK(o) /\ orders \in Seq(OrderRow)
    BY <1>0, <2>3, TablesTyped DEF Txn, DeskInv, RowInv
  <2>5. orders' = [orders EXCEPT ![i] = CommittedOrder(s, o)]
    BY <1>4 DEF Commit
  <2>6. /\ \/ t.op = "repay" /\ MayRepay(o.status) /\ \E pay \in PayMethods : w = Repaid(o, pay)
           \/ t.op = "approve" /\ MayApprove(o.status) /\ w = [o EXCEPT !.status = "paid"]
           \/ t.op = "flag" /\ w = [o EXCEPT !.flagged = TRUE]
    BY <2>2 DEF Intends
  <2>7. w.ref = o.ref /\ w.cust = o.cust /\ w.lines = o.lines
    <3> HIDE DEF o, w
    <3> QED BY <2>4, <2>6 DEF OrderRow, Repaid
  <2>8. CommittedOrder(s, o) = w
    BY <2>2, <2>4, <2>7, MergeIsWant
  <2>9. orders' = [orders EXCEPT ![i] = w]
    BY <2>5, <2>8
  <2> HIDE DEF i, w, t
  <2>10. CASE \E pay \in PayMethods : MayRepay(o.status) /\ w = Repaid(o, pay)
    <3>1. PICK pay \in PayMethods : w = Repaid(o, pay)
      BY <2>10
    <3>2. w = [o EXCEPT !.pay = pay, !.status = Ledger!AwaitedBy(pay)]
      BY <3>1 DEF Repaid, StatusFor, Ledger!AwaitedBy
    <3>3. o.status \in {"awaiting_payment", "pending_delivery"}
      <4> HIDE DEF o
      <4> QED BY <2>4, <2>10 DEF MayRepay, RowOK, OrderRow, Statuses
    <3>4. orders' = [orders EXCEPT ![i].pay = pay, ![i].status = Ledger!AwaitedBy(pay)]
      BY <2>3, <2>4, <2>9, <3>2 DEF OrderIds, OrderRow
    <3>5. Ledger!ChangePayment(i, pay)
      BY <1>2, <3>3, <3>4 DEF Ledger!ChangePayment, Ledger!Unpaid
    <3> QED BY <2>3, <3>5 DEF PayMethods
  <2>11. CASE MayApprove(o.status) /\ w = [o EXCEPT !.status = "paid"]
    <3>1. Ledger!AcceptPayment(i)
      BY <1>2, <2>9, <2>11 DEF Ledger!AcceptPayment, MayApprove
    <3> QED BY <2>3, <3>1
  <2>12. CASE w = [o EXCEPT !.flagged = TRUE]
    <3>1. Ledger!AskToCancel(i)
      BY <1>2, <2>9, <2>12 DEF Ledger!AskToCancel
    <3> QED BY <2>3, <3>1
  <2> QED BY <2>6, <2>10, <2>11, <2>12
<1> QED BY <1>3, <1>4

\* The commit of a level sets it.
LEMMA LevelSets ==
  ASSUME DeskInv, NEW s \in Sessions, Fine(s, txn[s], products, orders, receipts),
         Commit(s), txn[s].op = "level"
  PROVE  \E p \in Products, level \in 0..MaxLevel : Ledger!SetStock(p, level) /\ LevelIsSet(p)
<1> DEFINE t == txn[s]
<1>0. TypeInv /\ t \in Txn /\ products \in [Products -> ProductRow]
  BY DEF DeskInv, TypeInv, TypeOK
<1>1. t.at = "commit" /\ products' = Merged(t, products)
  BY CommitMerges DEF Commit, Fine, DeskInv
<1>2. PICK p \in Products : t.known = {p}
  BY DEF Fine, Synced
<1>3. t.n \in 0..MaxLevel /\ t.obj[p] = Levelled(t.n)
  BY <1>1, <1>2 DEF Fine, Synced
<1>4. orders' = orders
  <2>1. t.id = 0
    BY DEF Fine, Meant
  <2> QED BY <2>1 DEF Commit
<1>5. txn'[s] = Idle
  <2>1. Continue(s, Idle)
    BY DEF Commit, FilesRefund
  <2> QED BY <1>0, <2>1, Continued
<1>6. products' = [products EXCEPT ![p] = [stock |-> t.n, active |-> t.n > 0]]
  <2> HIDE DEF t
  <2> QED BY <1>0, <1>1, <1>2, <1>3 DEF Merged, Levelled
<1>7. Ledger!SetStock(p, t.n)
  BY <1>4, <1>6 DEF Ledger!SetStock
<1>8. LevelIsSet(p)
  <2>1. products'[p].stock = t.n
    <3> HIDE DEF t
    <3> QED BY <1>0, <1>6
  <2> QED BY <1>1, <1>2, <1>5, <2>1 DEF LevelIsSet, At
<1> QED BY <1>3, <1>7, <1>8

\* What a step of the desk is to the ledger.
LedgerMoves ==
  \/ UNCHANGED <<products, orders>>
  \/ \E cart \in Carts, pay \in {"bank_transfer", "cod"}, c \in Customers : Ledger!Place(cart, pay, c)
  \/ \E i \in OrderIds : \/ Ledger!Cancel(i) \/ Ledger!AcceptPayment(i) \/ Ledger!AskToCancel(i)
                         \/ \E pay \in {"bank_transfer", "cod"} : Ledger!ChangePayment(i, pay)
  \/ \E p \in Products, level \in 0..MaxLevel : Ledger!SetStock(p, level) /\ LevelIsSet(p)

\* Every step of the desk is a step of the ledger, or leaves its tables alone.
LEMMA StepsAreLedgers ==
  ASSUME NoRepeats
  PROVE  ShelfInv /\ ExactInv /\ [Next]_vars => LedgerMoves
<1> SUFFICES ASSUME ShelfInv, ExactInv, [Next]_vars PROVE LedgerMoves
  OBVIOUS
<1>1. CASE UNCHANGED vars
  BY <1>1 DEF vars, LedgerMoves
<1>2. ASSUME NEW s \in Sessions, Arrive(s) \/ ListStale(s) \/ Proceed(s) \/ Die(s)
      PROVE  LedgerMoves
  <2>0. /\ DeskInv /\ TypeInv /\ FromCarts
        /\ Fine(s, txn[s], products, orders, receipts) /\ Exact(txn[s], products)
    BY DEF ShelfInv, DeskInv, ExactInv
  <2>1. CASE CommitNewOrder(s)
    BY <2>0, <2>1, CreationPlaces DEF LedgerMoves
  <2>2. CASE Commit(s)
    <3>1. txn[s].op # "create"
      BY <2>2 DEF Commit
    <3>2. CASE txn[s].op \in Restorers
      BY <2>0, <2>2, <3>2, CancellationCancels DEF LedgerMoves
    <3>3. CASE txn[s].op = "level"
      BY <2>0, <2>2, <3>3, LevelSets DEF LedgerMoves
    <3>4. CASE txn[s].op \notin Restorers \cup {"create", "level"}
      BY <2>0, <2>2, <3>4, ChangesAreLedgers DEF LedgerMoves
    <3> QED BY <3>1, <3>2, <3>3, <3>4
  <2>3. CASE ~ CommitNewOrder(s) /\ ~ Commit(s)
    <3>1. UNCHANGED products
      BY <1>2, <2>0, <2>3, ProductsStep
    <3>2. UNCHANGED orders
      BY <1>2, <2>0, <2>3, OrdersStep
    <3> QED BY <3>1, <3>2 DEF LedgerMoves
  <2> QED BY <2>1, <2>2, <2>3
<1> QED BY <1>1, <1>2 DEF Next

\* The desk implements the ledger: handlers cut at every await, with rows read
\* without a lock, crashes and database deadlocks, come out as indivisible
\* orders, cancellations, payments and changes of level.
THEOREM DeskRefinesLedger ==
  ASSUME Separate, NoRepeats
  PROVE  Spec => RefinesLedger
<1>1. Init => Ledger!LedgerInit
  <2> SUFFICES ASSUME Init PROVE Ledger!LedgerInit
    OBVIOUS
  <2>1. PICK level \in [Products -> 0..MaxLevel] : products = [p \in Products |-> Levelled(level[p])]
    BY DEF Init
  <2>2. ASSUME NEW p \in Products
        PROVE  products[p].stock \in Nat /\ products[p].active = (products[p].stock > 0)
    <3>1. level[p] \in Nat
      BY BoundsAreNaturals
    <3>2. products[p] = [stock |-> level[p], active |-> level[p] > 0]
      BY <2>1 DEF Levelled
    <3> QED BY <3>1, <3>2
  <2> QED BY <2>2 DEF Init, Ledger!LedgerInit
<1>2. ShelfInv /\ ExactInv /\ [Next]_vars => [Ledger!LedgerNext]_<<products, orders>>
  <2>1. LedgerMoves => [Ledger!LedgerNext]_<<products, orders>>
    BY DEF LedgerMoves, Ledger!LedgerNext, OrderIds
  <2> QED BY <2>1, StepsAreLedgers
<1> QED BY <1>1, <1>2, ObjectsAreExact, PTL DEF Spec, RefinesLedger, Ledger!LedgerSpec, Ledger!lvars

-----------------------------------------------------------------------------
(* Units are conserved: a step of the ledger moves them between the shelf and *)
(* the orders, or is the dashboard's change of a level.                       *)

\* An order that is rewritten in place, and what it holds of p.
LEMMA RewritesHold ==
  ASSUME TypeInv, NEW p \in Products, NEW i \in OrderIds, NEW o \in OrderRow,
         orders' = [orders EXCEPT ![i] = o], orders' \in Seq(OrderRow), o.lines = orders[i].lines
  PROVE  /\ Held(orders, p) \in Nat /\ Held(orders', p) \in Nat
         /\ Ledger!Units(o.lines, p) \in Nat
         /\ Held(orders', p) = Held(orders, p)
              - (IF orders[i].status = "cancelled" THEN 0 ELSE Ledger!Units(o.lines, p))
              + (IF o.status = "cancelled" THEN 0 ELSE Ledger!Units(o.lines, p))
<1>1. orders \in Seq(OrderRow) /\ i \in DOMAIN orders
  BY TablesTyped DEF OrderIds
<1>2. /\ Held(orders, p) \in Nat /\ Held(orders', p) \in Nat
      /\ Held(orders', p) = Held(orders, p) - UnitsIn(orders[i], p) + UnitsIn(o, p)
  <2> DEFINE os == orders
             new == orders'
  <2>1. os \in Seq(OrderRow) /\ new \in Seq(OrderRow) /\ i \in DOMAIN os /\ new = [os EXCEPT ![i] = o]
    BY <1>1
  <2> HIDE DEF os, new
  <2>2. /\ Held(os, p) \in Nat /\ Held(new, p) \in Nat
        /\ Held(new, p) = Held(os, p) - (IF i \in DOMAIN os THEN UnitsIn(os[i], p) ELSE 0) + UnitsIn(o, p)
    BY <2>1, HeldChanges DEF Written
  <2> QED BY <2>1, <2>2 DEF os, new
<1>3. Ledger!Units(o.lines, p) \in Nat
  <2>1. o.lines \in Seq(Line)
    BY DEF OrderRow
  <2> QED BY <2>1, UnitsCount
<1> QED BY <1>2, <1>3 DEF UnitsIn

\* A step of the ledger conserves the units of each product, or sets its level.
LEMMA MovesConserve ==
  ASSUME TypeInv, TypeInv', LedgerMoves, NEW p \in Products
  PROVE  Balance(p)' = Balance(p) \/ LevelIsSet(p)
<1> DEFINE now == products[p].stock + Held(orders, p)
           then == products'[p].stock + Held(orders', p)
<1>0. /\ products \in [Products -> ProductRow] /\ products' \in [Products -> ProductRow]
      /\ orders \in Seq(OrderRow) /\ orders' \in Seq(OrderRow)
      /\ products[p].stock \in Nat /\ products'[p].stock \in Nat
      /\ \A i \in OrderIds : orders[i] \in OrderRow
  <2>1. /\ products \in [Products -> ProductRow] /\ products' \in [Products -> ProductRow]
        /\ orders \in Seq(OrderRow) /\ orders' \in Seq(OrderRow)
    BY DEF TypeInv, TypeOK
  <2>2. products[p] \in ProductRow /\ products'[p] \in ProductRow
    BY <2>1
  <2>3. products[p].stock \in Nat /\ products'[p].stock \in Nat
    BY <2>2 DEF ProductRow
  <2> QED BY <2>1, <2>3, TablesTyped
<1>1. Balance(p) = now /\ Balance(p)' = then
  BY BalanceHolds
<1>2. CASE UNCHANGED <<products, orders>>
  BY <1>1, <1>2
<1>3. ASSUME NEW cart \in Carts, NEW pay \in {"bank_transfer", "cod"}, NEW c \in Customers,
             Ledger!Place(cart, pay, c)
      PROVE  then = now
  <2> DEFINE u == Ledger!Units(cart, p)
             o == [ref |-> Len(orders) + 1, cust |-> c, lines |-> cart, pay |-> pay,
                   status |-> Ledger!AwaitedBy(pay), flagged |-> FALSE]
             os == orders
             new == orders'
  <2>1. cart \in Seq(Line) /\ u \in Nat
    BY CartsAreCarts, UnitsCount
  <2>2. o \in OrderRow /\ o.status # "cancelled" /\ o.lines = cart
    <3>1. Ledger!AwaitedBy(pay) \in Statuses \ {"cancelled"} /\ pay \in PayMethods
      BY DEF Ledger!AwaitedBy, Statuses, PayMethods
    <3>2. Len(orders) + 1 \in Nat
      BY <1>0
    <3> QED BY <2>1, <3>1, <3>2 DEF OrderRow
  <2>3. new = Append(os, o) /\ os \in Seq(OrderRow) /\ new \in Seq(OrderRow)
    BY <1>0, <1>3 DEF Ledger!Place
  <2>4. products'[p].stock = products[p].stock - u
    <3> DEFINE left == products[p].stock - u
    <3>1. products'[p] = IF u = 0 THEN products[p] ELSE [stock |-> left, active |-> left > 0]
      BY <1>3 DEF Ledger!Place
    <3> HIDE DEF u
    <3> QED BY <1>0, <3>1
  <2>5. UnitsIn(o, p) = u
    BY <2>2 DEF UnitsIn
  <2> HIDE DEF o, os, new, u
  <2> DEFINE j == Len(os) + 1
  <2>6. j = Len(os) + 1 /\ j \notin DOMAIN os
    BY <2>3
  <2> HIDE DEF j
  <2>7. /\ Held(os, p) \in Nat
        /\ Held(new, p) = Held(os, p) - (IF j \in DOMAIN os THEN UnitsIn(os[j], p) ELSE 0) + UnitsIn(o, p)
    <3>1. Written(os, new, j, o)
      BY <2>3, <2>6 DEF Written
    <3>2. os \in Seq(OrderRow) /\ new \in Seq(OrderRow) /\ o \in OrderRow
      BY <2>2, <2>3
    <3> QED BY <3>1, <3>2, HeldChanges
  <2>8. Held(os, p) \in Nat /\ Held(new, p) = Held(os, p) + u
    BY <2>1, <2>5, <2>6, <2>7
  <2> QED BY <1>0, <2>1, <2>4, <2>8 DEF os, new
<1>4. ASSUME NEW i \in OrderIds, Ledger!Cancel(i)
      PROVE  then = now
  <2> DEFINE o == [orders[i] EXCEPT !.status = "cancelled"]
             u == Ledger!Units(orders[i].lines, p)
  <2>1. o \in OrderRow /\ o.lines = orders[i].lines /\ o.status = "cancelled" /\ orders' = [orders EXCEPT ![i] = o]
    BY <1>0, <1>4 DEF Ledger!Cancel, OrderRow, Statuses
  <2>2. orders[i].status # "cancelled"
    BY <1>4 DEF Ledger!Cancel, Ledger!Unpaid
  <2>3. products'[p] = IF u = 0 THEN products[p] ELSE [stock |-> products[p].stock + u, active |-> TRUE]
    BY <1>4 DEF Ledger!Cancel
  <2> HIDE DEF o
  <2>4. /\ Held(orders, p) \in Nat /\ Held(orders', p) \in Nat /\ Ledger!Units(o.lines, p) \in Nat
        /\ Held(orders', p) = Held(orders, p)
              - (IF orders[i].status = "cancelled" THEN 0 ELSE Ledger!Units(o.lines, p))
              + (IF o.status = "cancelled" THEN 0 ELSE Ledger!Units(o.lines, p))
    BY <1>0, <2>1, RewritesHold
  <2>5. u \in Nat /\ Held(orders', p) = Held(orders, p) - u
    BY <2>1, <2>2, <2>4
  <2>6. products'[p].stock = products[p].stock + u
    <3> HIDE DEF u
    <3> QED BY <1>0, <2>3, <2>5
  <2> HIDE DEF u
  <2> QED BY <1>0, <2>4, <2>5, <2>6
<1>5. ASSUME NEW i \in OrderIds,
             \/ Ledger!AcceptPayment(i) \/ Ledger!AskToCancel(i)
             \/ \E pay \in {"bank_transfer", "cod"} : Ledger!ChangePayment(i, pay)
      PROVE  then = now
  <2>1. PICK o \in OrderRow : /\ orders' = [orders EXCEPT ![i] = o] /\ o.lines = orders[i].lines
                              /\ (o.status = "cancelled" <=> orders[i].status = "cancelled")
    <3>0. orders[i] \in OrderRow
      BY <1>0
    <3>1. CASE Ledger!AcceptPayment(i)
      <4> DEFINE o == [orders[i] EXCEPT !.status = "paid"]
      <4>1. orders' = [orders EXCEPT ![i] = o] /\ orders[i].status # "cancelled"
        BY <3>1 DEF Ledger!AcceptPayment
      <4>2. o \in OrderRow /\ o.lines = orders[i].lines /\ o.status = "paid"
        BY <3>0 DEF OrderRow, Statuses
      <4> HIDE DEF o
      <4> QED BY <4>1, <4>2
    <3>2. CASE Ledger!AskToCancel(i)
      <4> DEFINE o == [orders[i] EXCEPT !.flagged = TRUE]
      <4>1. orders' = [orders EXCEPT ![i] = o]
        BY <3>2 DEF Ledger!AskToCancel
      <4>2. o \in OrderRow /\ o.lines = orders[i].lines /\ o.status = orders[i].status
        BY <3>0 DEF OrderRow, Statuses
      <4> HIDE DEF o
      <4> QED BY <4>1, <4>2
    <3>3. ASSUME NEW pay \in {"bank_transfer", "cod"}, Ledger!ChangePayment(i, pay)
          PROVE  \E o \in OrderRow : /\ orders' = [orders EXCEPT ![i] = o] /\ o.lines = orders[i].lines
                                     /\ (o.status = "cancelled" <=> orders[i].status = "cancelled")
      <4> DEFINE o == [orders[i] EXCEPT !.pay = pay, !.status = Ledger!AwaitedBy(pay)]
      <4>1. orders' = [orders EXCEPT ![i] = o] /\ orders[i].status # "cancelled"
        BY <1>0, <3>0, <3>3 DEF Ledger!ChangePayment, Ledger!Unpaid, OrderIds
      <4>2. Ledger!AwaitedBy(pay) \in Statuses \ {"cancelled"} /\ pay \in PayMethods
        BY DEF Ledger!AwaitedBy, Statuses, PayMethods
      <4>3. o \in OrderRow /\ o.lines = orders[i].lines /\ o.status # "cancelled"
        BY <3>0, <4>2 DEF OrderRow
      <4> HIDE DEF o
      <4> QED BY <4>1, <4>3
    <3> QED BY <1>5, <3>1, <3>2, <3>3
  <2>2. products'[p].stock = products[p].stock
    BY <1>5 DEF Ledger!AcceptPayment, Ledger!AskToCancel, Ledger!ChangePayment
  <2>3. /\ Held(orders, p) \in Nat /\ Held(orders', p) \in Nat /\ Ledger!Units(o.lines, p) \in Nat
        /\ Held(orders', p) = Held(orders, p)
              - (IF orders[i].status = "cancelled" THEN 0 ELSE Ledger!Units(o.lines, p))
              + (IF o.status = "cancelled" THEN 0 ELSE Ledger!Units(o.lines, p))
    BY <1>0, <2>1, RewritesHold
  <2>4. Held(orders', p) = Held(orders, p)
    BY <2>1, <2>3
  <2> QED BY <2>2, <2>4
<1>6. ASSUME NEW q \in Products, NEW level \in 0..MaxLevel, Ledger!SetStock(q, level), LevelIsSet(q)
      PROVE  then = now \/ LevelIsSet(p)
  <2>1. orders' = orders /\ products' = [products EXCEPT ![q] = [stock |-> level, active |-> level > 0]]
    BY <1>6 DEF Ledger!SetStock
  <2>2. CASE p = q
    BY <1>6, <2>2
  <2>3. CASE p # q
    <3>1. products'[p] = products[p]
      BY <1>0, <2>1, <2>3
    <3> QED BY <2>1, <3>1
  <2> QED BY <2>2, <2>3
<1> HIDE DEF now, then
<1> QED BY <1>1, <1>2, <1>3, <1>4, <1>5, <1>6 DEF LedgerMoves

\* No unit of stock is lost or invented between the shelf and the orders that
\* stand, but by the dashboard's change of a level.
THEOREM UnitsStay ==
  ASSUME Separate, NoRepeats
  PROVE  Spec => UnitsAreConserved
<1> DEFINE A == \A p \in Products : Balance(p)' = Balance(p) \/ LevelIsSet(p)
<1>1. ShelfInv /\ ExactInv /\ [Next]_vars => [A]_vars
  <2> SUFFICES ASSUME ShelfInv, ExactInv, [Next]_vars, ~ UNCHANGED vars PROVE A
    OBVIOUS
  <2>1. TypeInv /\ TypeInv'
    BY TypeStep DEF ShelfInv, DeskInv
  <2>2. LedgerMoves
    BY StepsAreLedgers
  <2> QED BY <2>1, <2>2, MovesConserve
<1> QED BY <1>1, ObjectsAreExact, PTL DEF Spec, UnitsAreConserved
-----------------------------------------------------------------------------
(* The desk never stands still.  While requests are at work one of them goes *)
(* on: if they all waited, some would wait in a circle, and the database     *)
(* breaks that.                                                              *)

\* In a finite set whose members each wait for another one there is a part in
\* which each waits and is waited for: a smallest part that is left by nobody.
LEMMA SomeWaitInCircle ==
  ASSUME NEW B, IsFiniteSet(B), B # {}, NEW W,
         \A g \in B : \E f \in B : <<g, f>> \in W,
         \A g \in B : <<g, g>> \notin W
  PROVE  \E C \in SUBSET B :
           /\ C # {}
           /\ \A g \in C : (\E f \in C : <<g, f>> \in W) /\ (\E f \in C : <<f, g>> \in W)
<1> DEFINE Shut(C) == \A g \in C : \E f \in C : <<g, f>> \in W
           R == StrictSubsetOrdering(B)
           shut == {C \in SUBSET B : C # {} /\ Shut(C)}
<1>1. IsWellFoundedOn(R, SUBSET B)
  BY FS_StrictSubsetOrderingWellFounded, FS_FiniteSubsetsOfFinite
<1>2. B \in shut
  OBVIOUS
<1>3. \A C, D \in SUBSET B : C \subseteq D /\ C # D => <<C, D>> \in R
  BY DEF StrictSubsetOrdering
<1>4. PICK C \in shut : \A D \in shut : ~ (<<D, C>> \in R)
  <2> HIDE DEF R
  <2> QED BY <1>1, <1>2, WFMin
<1>5. \A D \in shut : D \subseteq C => D = C
  <2> HIDE DEF R
  <2> QED BY <1>3, <1>4
<1> HIDE DEF R
<1>6. ASSUME NEW f \in C, \A g \in C : <<g, f>> \notin W
      PROVE  FALSE
  <2> DEFINE D == C \ {f}
  <2>1. PICK g \in C : <<f, g>> \in W
    BY <1>4
  <2>2. g \in D
    BY <1>4, <2>1
  <2>3. Shut(D)
    BY <1>4, <1>6
  <2>4. D \in shut
    BY <1>4, <2>2, <2>3
  <2> QED BY <1>5, <2>4
<1> QED BY <1>4, <1>6

\* Where a handler may be.  An idle session is as it was at first.
Place(op, at) ==
  /\ at # "idle"
  /\ at \in {"check", "take", "count", "insert"} => op = "create"
  /\ op = "create" => at \in CreatePoints
  /\ at = "load" => op \in {"autocancel", "approve"}
  /\ at = "file" => op = "receipt"
  /\ at = "level" => op = "level"
  /\ at = "lookup" => op = "autocancel"

Placed(t) == t = Idle \/ Place(t.op, t.at)
PlacedInv == \A s \in Sessions : Placed(txn[s])

LEMMA ArrivalsPlaced ==
  ASSUME TypeInv, NEW s \in Sessions, Arrive(s) \/ ListStale(s)
  PROVE  \E r : Continue(s, r) /\ Placed(r)
<1> USE DEF Place, Placed, CreatePoints
<1>1. ASSUME NEW op, NEW at, NEW i, NEW v, Place(op, at), Continue(s, Begun(op, at, i, v))
      PROVE  \E r : Continue(s, r) /\ Placed(r)
  <2> DEFINE r == Begun(op, at, i, v)
  <2>1. r.op = op /\ r.at = at
    BY IdleIsTxn DEF Begun, Txn
  <2> HIDE DEF r
  <2>2. Placed(r)
    BY <1>1, <2>1
  <2> QED BY <1>1, <2>2 DEF r
<1>2. ASSUME NEW op, NEW at, NEW n, NEW i, NEW w, Place(op, at), Continue(s, Changing(op, at, n, i, w))
      PROVE  \E r : Continue(s, r) /\ Placed(r)
  <2> DEFINE o == orders[i]
             r == Changing(op, at, n, i, w)
  <2>1. r = [Idle EXCEPT !.op = op, !.at = at, !.n = n, !.id = i, !.row = o, !.want = w]
    BY DEF Changing
  <2> HIDE DEF o, r
  <2>2. r.op = op /\ r.at = at
    BY <2>1, IdleIsTxn DEF Txn
  <2>3. Placed(r)
    BY <1>2, <2>2
  <2> QED BY <1>2, <2>3 DEF r
<1>3. CASE CreateOrder(s)
  <2>1. PICK cart \in Carts, pay \in PayMethods, c \in Customers :
          Continue(s, [Idle EXCEPT !.op = "create", !.at = "check", !.n = 1,
                         !.want = [Blank EXCEPT !.cust = c, !.lines = cart, !.pay = pay,
                                                !.status = StatusFor(pay)]])
    BY <1>3 DEF CreateOrder
  <2> DEFINE o == [Blank EXCEPT !.cust = c, !.lines = cart, !.pay = pay, !.status = StatusFor(pay)]
             r == [Idle EXCEPT !.op = "create", !.at = "check", !.n = 1, !.want = o]
  <2>2. Continue(s, r)
    BY <2>1
  <2> HIDE DEF o
  <2>3. r.op = "create" /\ r.at = "check"
    BY IdleIsTxn DEF Txn
  <2> HIDE DEF r
  <2>4. Placed(r)
    BY <2>3
  <2> QED BY <2>2, <2>4
<1>4. CASE LoadForCancel(s)
  <2>1. PICK op \in {"cancel", "admincancel"}, i \in OrderIds :
          Continue(s, Changing(op, "restore", 1, i, [orders[i] EXCEPT !.status = "cancelled"]))
    BY <1>4 DEF LoadForCancel, Restoring
  <2> QED BY <1>2, <2>1
<1>5. CASE LoadForRepay(s)
  <2>1. PICK i \in OrderIds, pay \in PayMethods :
          Continue(s, Changing("repay", "status", 0, i, Repaid(orders[i], pay)))
    BY <1>5 DEF LoadForRepay
  <2> QED BY <1>2, <2>1
<1>6. CASE LoadForFlag(s)
  <2>1. PICK i \in OrderIds :
          Continue(s, Changing("flag", "status", 0, i, [orders[i] EXCEPT !.flagged = TRUE]))
    BY <1>6 DEF LoadForFlag
  <2> QED BY <1>2, <2>1
<1>7. CASE LoadForLevel(s)
  <2>1. PICK p \in Scope[s], level \in 0..MaxLevel :
          Continue(s, Holding([Idle EXCEPT !.op = "level", !.at = "level", !.n = level], p, products[p]))
    BY <1>7 DEF LoadForLevel
  <2> DEFINE t == [Idle EXCEPT !.op = "level", !.at = "level", !.n = level]
             r == Holding(t, p, products[p])
  <2>2. p \in Products /\ products[p] \in ProductRow /\ level \in Nat /\ "level" \in OpNames
    BY SessionsAreScoped, BoundsAreNaturals DEF TypeInv, TypeOK, OpNames
  <2>3. t \in Txn /\ t.op = "level" /\ t.at = "level"
    BY <2>2, IdleIsTxn DEF Txn
  <2>4. Continue(s, r)
    BY <2>1
  <2> HIDE DEF t
  <2>5. r.op = "level" /\ r.at = "level"
    BY <2>2, <2>3, HoldingIsTxn
  <2> HIDE DEF r
  <2>6. Placed(r)
    BY <2>5
  <2> QED BY <2>4, <2>6
<1>8. CASE ListStale(s) \/ ReadReceipt(s) \/ LoadReceipt(s) \/ LoadForRefund(s)
  <2>1. \E op, at, i, v : Place(op, at) /\ Continue(s, Begun(op, at, i, v))
    <3>1. CASE ListStale(s)
      BY <3>1 DEF ListStale
    <3>2. CASE ReadReceipt(s)
      BY <3>2 DEF ReadReceipt
    <3>3. CASE LoadReceipt(s)
      <4>1. PICK op \in {"approve", "resend"}, v \in DOMAIN receipts :
              Continue(s, Begun(op, IF op = "approve" THEN "load" ELSE "resolve", 0, v))
        BY <3>3 DEF LoadReceipt
      <4>2. Place(op, IF op = "approve" THEN "load" ELSE "resolve")
        OBVIOUS
      <4> QED BY <4>1, <4>2
    <3>4. CASE LoadForRefund(s)
      BY <3>4 DEF LoadForRefund
    <3> QED BY <1>8, <3>1, <3>2, <3>3, <3>4
  <2> QED BY <1>1, <2>1
<1> QED BY <1>3, <1>4, <1>5, <1>6, <1>7, <1>8 DEF Arrive
LEMMA StepsPlaced ==
  ASSUME TypeInv, NEW s \in Sessions, Placed(txn[s]), Proceed(s) \/ Die(s)
  PROVE  Placed(txn'[s]) /\ \A u \in Sessions \ {s} : txn'[u] = txn[u]
<1> DEFINE Goal == Placed(txn'[s]) /\ \A u \in Sessions \ {s} : txn'[u] = txn[u]
<1> USE DEF Place, Placed, CreatePoints
<1>1. txn[s] \in Txn /\ Idle.at = "idle" /\ Idle.op = "none"
  BY DEF TypeInv, TypeOK, Idle
<1>2. ASSUME NEW r, Continue(s, r), Placed(r) PROVE Goal
  BY <1>2, Continued
<1>3. CASE \/ RefuseLine(s) \/ InsertCollides(s) \/ StaleIsClosed(s) \/ SweepRaises(s)
           \/ DeadlockVictim(s) \/ Die(s) \/ CommitNewOrder(s) \/ FileRefund(s) \/ FileReceipt(s)
  BY <1>2, <1>3 DEF RefuseLine, InsertCollides, StaleIsClosed, SweepRaises, DeadlockVictim, Die,
     CommitNewOrder, FileRefund, FileReceipt
<1>4. CASE CheckLine(s)
  <2> DEFINE p == CurrentLine(s).sku
             n == IF LastLine(s) THEN 1 ELSE txn[s].n + 1
             at == IF LastLine(s) THEN "take" ELSE "check"
             t == [txn[s] EXCEPT !.n = n, !.at = at]
             r == Holding(t, p, Seen(s, p))
  <2>1. At(s, "create", "check") /\ Continue(s, r)
    BY <1>4 DEF CheckLine
  <2>2. p \in Products /\ Seen(s, p) \in ProductRow /\ txn[s].n \in Nat
    BY <1>1, <2>1, LineTyped DEF Txn, At
  <2>3. n \in Nat /\ at \in {"take", "check"}
    BY <2>2
  <2> HIDE DEF n, at
  <2>4. t \in Txn /\ t.op = "create" /\ t.at = at
    BY <1>1, <2>1, <2>3 DEF Txn, At
  <2> HIDE DEF t
  <2>5. r.op = "create" /\ r.at = at
    BY <2>2, <2>4, HoldingIsTxn
  <2> HIDE DEF r
  <2> QED BY <1>2, <2>1, <2>3, <2>5
<1>5. CASE ReadLine(s)
  <2> DEFINE p == CurrentLine(s).sku
             t == [txn[s] EXCEPT !.at = "give"]
             r == Holding(t, p, Seen(s, p))
  <2>1. txn[s].at = "restore" /\ Continue(s, r)
    BY <1>5 DEF ReadLine
  <2>2. p \in Products /\ Seen(s, p) \in ProductRow
    BY <2>1, LineTyped
  <2>3. t \in Txn /\ t.op = txn[s].op /\ t.at = "give" /\ txn[s].op # "create"
    BY <1>1, <2>1 DEF Txn
  <2> HIDE DEF t
  <2>4. r.op = txn[s].op /\ r.at = "give"
    BY <2>2, <2>3, HoldingIsTxn
  <2> HIDE DEF r
  <2> QED BY <1>2, <2>1, <2>3, <2>4
<1>6. ASSUME txn[s].at \in {"take", "give", "level"}, NEW n \in Nat,
             NEW at \in {"count", "take", "status", "restore", "commit"}, Place(txn[s].op, at),
             FlushProduct(s, [txn[s] EXCEPT !.n = n, !.at = at])
      PROVE  Goal
  <2> DEFINE next == [txn[s] EXCEPT !.n = n, !.at = at]
  <2>1. next \in Txn /\ next.op = txn[s].op /\ next.at = at
    BY <1>1 DEF Txn
  <2>2. FlushProduct(s, next)
    BY <1>6
  <2> HIDE DEF next
  <2>3. /\ txn'[s].op = txn[s].op /\ txn'[s].at = at
        /\ \A u \in Sessions \ {s} : txn'[u] = txn[u]
    BY <1>6, <2>1, <2>2, Flushed
  <2> QED BY <1>6, <2>3
<1>7. CASE TakeLine(s)
  <2> DEFINE n == IF LastLine(s) THEN txn[s].n ELSE txn[s].n + 1
             at == IF LastLine(s) THEN "count" ELSE "take"
  <2>1. At(s, "create", "take") /\ FlushProduct(s, [txn[s] EXCEPT !.n = n, !.at = at])
    BY <1>7 DEF TakeLine
  <2>2. n \in Nat /\ at \in {"count", "take"}
    BY <1>1 DEF Txn
  <2> HIDE DEF n, at
  <2> QED BY <1>6, <2>1, <2>2 DEF At
<1>8. CASE GiveLine(s)
  <2> DEFINE n == IF LastLine(s) THEN txn[s].n ELSE txn[s].n + 1
             at == IF LastLine(s) THEN "status" ELSE "restore"
  <2>1. txn[s].at = "give" /\ FlushProduct(s, [txn[s] EXCEPT !.n = n, !.at = at])
    BY <1>8 DEF GiveLine
  <2>2. n \in Nat /\ at \in {"status", "restore"} /\ txn[s].op # "create"
    BY <1>1, <2>1 DEF Txn
  <2> HIDE DEF n, at
  <2> QED BY <1>6, <2>1, <2>2
<1>9. CASE SetLevel(s)
  <2>1. At(s, "level", "level") /\ FlushProduct(s, [txn[s] EXCEPT !.at = "commit"])
    BY <1>9 DEF SetLevel
  <2>2. [txn[s] EXCEPT !.at = "commit"] = [txn[s] EXCEPT !.n = txn[s].n, !.at = "commit"] /\ txn[s].n \in Nat
    BY <1>1 DEF Txn
  <2> QED BY <1>6, <2>1, <2>2 DEF At
<1>10. CASE CountOrders(s) \/ InsertOrder(s)
  <2> DEFINE q == [txn[s] EXCEPT !.at = "commit"]
             r == [txn[s] EXCEPT !.want.ref = Len(orders) + 1, !.at = "insert"]
  <2>1. Continue(s, q) \/ Continue(s, r)
    BY <1>10 DEF CountOrders, InsertOrder
  <2>2. /\ txn[s].op = "create"
        /\ q.op = txn[s].op /\ q.at = "commit" /\ r.op = txn[s].op /\ r.at = "insert"
    BY <1>1, <1>10 DEF Txn, CountOrders, InsertOrder, At
  <2> HIDE DEF q, r
  <2>3. Placed(q) /\ Placed(r)
    BY <2>2
  <2> QED BY <1>2, <2>1, <2>3
<1>11. CASE FlushOrder(s) \/ ResolveReceipt(s)
  <2>1. /\ txn[s].op # "create"
        /\ \E at \in {"lookup", "resolve", "commit"} : /\ at = "lookup" => txn[s].op = "autocancel"
                                                  /\ Continue(s, [txn[s] EXCEPT !.at = at])
    BY <1>1, <1>11 DEF FlushOrder, ResolveReceipt
  <2>2. PICK at \in {"lookup", "resolve", "commit"} : /\ at = "lookup" => txn[s].op = "autocancel"
                                                     /\ Continue(s, [txn[s] EXCEPT !.at = at])
    BY <2>1
  <2> DEFINE r == [txn[s] EXCEPT !.at = at]
  <2>3. r.op = txn[s].op /\ r.at = at
    BY <1>1 DEF Txn
  <2> HIDE DEF r
  <2>4. Placed(r)
    BY <2>1, <2>2, <2>3
  <2> QED BY <1>2, <2>2, <2>4 DEF r
<1>12. CASE LoadForApprove(s)
  <2> DEFINE i == receipts[txn[s].rid].order
             o == orders[i]
             w == [o EXCEPT !.status = "paid"]
             q == [txn[s] EXCEPT !.at = "resolve"]
             r == [txn[s] EXCEPT !.at = "status", !.id = i, !.row = o, !.want = w]
  <2>1. At(s, "approve", "load") /\ (Continue(s, q) \/ Continue(s, r))
    BY <1>12 DEF LoadForApprove
  <2> HIDE DEF i, o, w
  <2>2. q.op = "approve" /\ q.at = "resolve" /\ r.op = "approve" /\ r.at = "status"
    BY <1>1, <2>1 DEF Txn, At
  <2> HIDE DEF q, r
  <2>3. Placed(q) /\ Placed(r)
    BY <2>2
  <2> QED BY <1>2, <2>1, <2>3
<1>13. CASE LoadStale(s)
  <2> DEFINE i == txn[s].id
             o == orders[i]
             w == [o EXCEPT !.status = "cancelled"]
             r == [Idle EXCEPT !.op = "autocancel", !.at = "restore", !.n = 1, !.id = i,
                               !.row = o, !.want = w]
  <2>1. Continue(s, r)
    BY <1>13 DEF LoadStale, Restoring, Changing
  <2> HIDE DEF i, o, w
  <2>2. r.op = "autocancel" /\ r.at = "restore"
    BY IdleIsTxn DEF Txn
  <2> HIDE DEF r
  <2> QED BY <1>2, <2>1, <2>2
<1>14. CASE Commit(s)
  <2> DEFINE r == Begun("admincancel", "refund", txn[s].id, 0)
  <2>1. Continue(s, Idle) \/ Continue(s, r)
    BY <1>14 DEF Commit
  <2>2. r.op = "admincancel" /\ r.at = "refund"
    BY IdleIsTxn DEF Begun, Txn
  <2> HIDE DEF r
  <2> QED BY <1>2, <2>1, <2>2
<1> QED
  BY <1>3, <1>4, <1>5, <1>7, <1>8, <1>9, <1>10, <1>11, <1>12, <1>13, <1>14 DEF Proceed

LEMMA PlacedInvariant == Spec => [](TypeInv /\ PlacedInv)
<1>1. Init => PlacedInv
  BY DEF Init, PlacedInv, Placed
<1>2. TypeInv /\ PlacedInv /\ [Next]_vars => PlacedInv'
  <2> SUFFICES ASSUME TypeInv, PlacedInv, [Next]_vars PROVE PlacedInv'
    OBVIOUS
  <2>1. CASE UNCHANGED vars
    BY <2>1 DEF vars, PlacedInv, Placed
  <2>2. ASSUME NEW s \in Sessions, Placed(txn'[s]), \A u \in Sessions \ {s} : txn'[u] = txn[u]
        PROVE  PlacedInv'
    <3>1. \A u \in Sessions : Placed(txn'[u])
      BY <2>2 DEF PlacedInv
    <3> QED BY <3>1 DEF PlacedInv, Placed
  <2>3. ASSUME NEW s \in Sessions, Arrive(s) \/ ListStale(s) PROVE PlacedInv'
    <3>1. PICK r : Continue(s, r) /\ Placed(r)
      BY <2>3, ArrivalsPlaced
    <3> QED BY <2>2, <3>1, Continued
  <2>4. ASSUME NEW s \in Sessions, Proceed(s) \/ Die(s) PROVE PlacedInv'
    <3>1. Placed(txn[s])
      BY DEF PlacedInv
    <3> QED BY <2>2, <2>4, <3>1, StepsPlaced
  <2> QED BY <2>1, <2>3, <2>4 DEF Next
<1> QED BY <1>1, <1>2, Typed, PTL DEF Spec

\* A statement that has to wait for a row, or for a reference.
Blocked(s) ==
  \/ txn[s].at \in {"take", "give", "level"} /\ NewColumns(s) # {} /\ ProductLocked(s, Target(s))
  \/ txn[s].at = "status" /\ txn[s].row # txn[s].want /\ OrderLocked(s, txn[s].id)
  \/ At(s, "create", "insert") /\ Unique(txn[s].want.ref) /\ RefTaken(s, txn[s].want.ref)
  \/ txn[s].at = "resolve" /\ ReceiptLocked(s, txn[s].rid)

\* A request at work is ready unless it waits, and not in a circle: the sessions
\* that Proceed of the model can serve.
Ready(s) == txn[s] # Idle /\ (Blocked(s) => InCircle(s))

SomebodyGoesOn == (\E s \in Sessions : txn[s] # Idle) => \E s \in Sessions : Ready(s)

\* Who waits waits for a request at work.
LEMMA BlockedWaits ==
  ASSUME NEW s \in Sessions, Blocked(s)
  PROVE  \E t \in Sessions : Waits(s, t) /\ txn[t] # Idle
<1>1. /\ Idle.dirty = {} /\ Idle.id = 0 /\ Idle.rid = 0 /\ Idle.op = "none"
  BY DEF Idle
<1>2. CASE txn[s].at \in {"take", "give", "level"}
  <2>1. NewColumns(s) # {} /\ ProductLocked(s, Target(s))
    BY <1>2 DEF Blocked, At
  <2>2. PICK t \in Sessions \ {s}, c \in Columns : <<Target(s), c>> \in txn[t].dirty
    BY <2>1 DEF ProductLocked
  <2>3. Waits(s, t)
    BY <1>2, <2>1, <2>2 DEF Waits
  <2> QED BY <1>1, <2>2, <2>3
<1>3. CASE txn[s].at \notin {"take", "give", "level"}
  BY <1>1, <1>3 DEF Blocked, Waits, OrderLocked, HoldsOrder, RefTaken, HoldsRef, ReceiptLocked,
     HoldsReceipt, At
<1> QED BY <1>2, <1>3

LEMMA SomebodyReady == SomebodyGoesOn
<1> SUFFICES ASSUME \E s \in Sessions : txn[s] # Idle, \A s \in Sessions : ~ Ready(s)
             PROVE  FALSE
  BY DEF SomebodyGoesOn
<1> DEFINE B == {s \in Sessions : txn[s] # Idle}
           W == {p \in Sessions \X Sessions : Waits(p[1], p[2])}
<1>1. IsFiniteSet(B) /\ B # {}
  BY SessionsAreFinite, FS_Subset
<1>2. \A s, t \in Sessions : <<s, t>> \in W <=> Waits(s, t)
  OBVIOUS
<1>3. ASSUME NEW s \in B PROVE ~ InCircle(s) /\ \E t \in B : Waits(s, t)
  <2>1. Blocked(s) /\ ~ InCircle(s)
    BY DEF Ready
  <2> QED BY <2>1, BlockedWaits
<1>4. \A s \in B : \E t \in B : <<s, t>> \in W
  BY <1>2, <1>3
<1>5. \A s \in B : <<s, s>> \notin W
  BY <1>2 DEF Waits
<1>6. PICK C \in SUBSET B :
        /\ C # {}
        /\ \A s \in C : (\E t \in C : <<s, t>> \in W) /\ (\E t \in C : <<t, s>> \in W)
  <2> HIDE DEF B, W
  <2> QED BY <1>1, <1>4, <1>5, SomeWaitInCircle
<1>7. PICK s \in C : TRUE
  BY <1>6
<1>8. \A u \in C : (\E t \in C : Waits(u, t)) /\ (\E t \in C : Waits(t, u))
  BY <1>2, <1>6
<1>9. InCircle(s)
  BY <1>7, <1>8 DEF InCircle
<1> QED BY <1>3, <1>7, <1>9

\* While any request is at work at the desk one of them can go on, whatever rows
\* their statements lock and in whatever order.
THEOREM DeskGoesOn == Spec => []SomebodyGoesOn
<1> QED BY SomebodyReady, PTL
\* The step of a session that is ready.  A session that waits in a circle is the
\* database's victim.
Successor(s) ==
  LET t == txn[s]
      Into(k) == [txn EXCEPT ![s] = k]
      Only(k) == <<products, orders, receipts, refunds, Into(k), served, crashes>>
      p == CurrentLine(s).sku
      o == Seen(s, p)
      named == receipts[t.rid].order
      Flushes(next) ==
        Only(Holding([next EXCEPT !.dirty = @ \cup ({Target(s)} \X NewColumns(s))],
                     Target(s), NewValues(s)))
      Step ==
        CASE t.at = "check" ->
               Only(IF o.active /\ o.stock >= CurrentLine(s).qty
                    THEN Holding([t EXCEPT !.n = IF LastLine(s) THEN 1 ELSE @ + 1,
                                           !.at = IF LastLine(s) THEN "take" ELSE "check"], p, o)
                    ELSE Idle)
          [] t.at = "take" ->
               Flushes([t EXCEPT !.n = IF LastLine(s) THEN @ ELSE @ + 1,
                                 !.at = IF LastLine(s) THEN "count" ELSE "take"])
          [] t.at = "count" -> Only([t EXCEPT !.want.ref = Len(orders) + 1, !.at = "insert"])
          [] t.at = "insert" -> Only(IF Unique(t.want.ref) THEN [t EXCEPT !.at = "commit"] ELSE Idle)
          [] t.at = "load" /\ t.op = "autocancel" ->
               Only(IF MayCancel("autocancel", orders[t.id].status)
                    THEN Restoring("autocancel", t.id) ELSE Idle)
          [] t.at = "load" /\ t.op # "autocancel" ->
               Only(IF named # 0 /\ MayApprove(orders[named].status)
                    THEN [t EXCEPT !.at = "status", !.id = named, !.row = orders[named],
                                   !.want = [orders[named] EXCEPT !.status = "paid"]]
                    ELSE [t EXCEPT !.at = "resolve"])
          [] t.at = "restore" -> Only(Holding([t EXCEPT !.at = "give"], p, o))
          [] t.at = "give" ->
               Flushes([t EXCEPT !.n = IF LastLine(s) THEN @ ELSE @ + 1,
                                 !.at = IF LastLine(s) THEN "status" ELSE "restore"])
          [] t.at = "level" -> Flushes([t EXCEPT !.at = "commit"])
          [] t.at = "status" ->
               Only([t EXCEPT !.at = CASE t.op = "autocancel" -> "lookup"
                                       [] t.op = "approve"    -> "resolve"
                                       [] OTHER               -> "commit"])
          [] t.at = "lookup" -> Only(Idle)
          [] t.at = "resolve" -> Only([t EXCEPT !.at = "commit"])
          [] t.at = "file" ->
               <<products, orders, Append(receipts, [order |-> t.id, status |-> "pending"]), refunds,
                 Into(Idle), served, crashes>>
          [] t.at = "refund" ->
               <<products, orders, receipts, Append(refunds, t.id), Into(Idle), served, crashes>>
          [] t.at = "commit" /\ t.op = "create" ->
               <<CommittedProducts(s), Append(orders, t.want), receipts, refunds, Into(Idle),
                 served, crashes>>
          [] t.at = "commit" /\ t.op # "create" ->
               <<CommittedProducts(s),
                 IF t.id = 0 THEN orders ELSE [orders EXCEPT ![t.id] = CommittedOrder(s, @)],
                 CommittedReceipts(s), refunds,
                 Into(IF FilesRefund(s) THEN Begun("admincancel", "refund", t.id, 0) ELSE Idle),
                 served, crashes>>
  IN IF Blocked(s) THEN Only(Idle) ELSE Step

\* A line has its units, or it is refused.
LEMMA CheckDecides ==
  ASSUME TypeInv, NEW s \in Sessions, txn[s].at = "check"
  PROVE  LET o == Seen(s, CurrentLine(s).sku) IN
         (o.active /\ o.stock >= CurrentLine(s).qty) <=> ~ (~ o.active \/ o.stock < CurrentLine(s).qty)
<1> DEFINE have == Seen(s, CurrentLine(s).sku).stock
           qty == CurrentLine(s).qty
<1>1. have \in Nat /\ qty \in Nat
  BY LineTyped DEF ProductRow
<1> HIDE DEF have, qty
<1>2. have >= qty <=> ~ (have < qty)
  BY <1>1
<1> QED BY <1>2 DEF have, qty

\* A request that is ready has a step to take.
THEOREM ReadyHasStep ==
  ASSUME TypeInv, PlacedInv, NEW s \in Sessions, Ready(s), vars' = Successor(s)
  PROVE  Proceed(s)
<1> DEFINE t == txn[s]
<1>T. t \in Txn /\ t.at # "idle" /\ Place(t.op, t.at)
  BY DEF Ready, TypeInv, TypeOK, PlacedInv, Placed, Place
<1> USE DEF vars, At, Continue, Successor
<1>0. CASE Blocked(s)
  BY <1>0 DEF Ready, DeadlockVictim, Proceed
<1>1. CASE t.at = "check" /\ ~ Blocked(s)
  <2>1. CheckLine(s) \/ RefuseLine(s)
    <3> DEFINE o == Seen(s, CurrentLine(s).sku)
               qty == CurrentLine(s).qty
    <3>1. CASE o.active /\ o.stock >= qty
      BY <1>T, <1>1, <3>1 DEF CheckLine, Place
    <3>2. CASE ~ o.active \/ o.stock < qty
      BY <1>T, <1>1, <3>2, CheckDecides DEF RefuseLine, Place
    <3> QED BY <1>1, <3>1, <3>2, CheckDecides
  <2> QED BY <2>1 DEF Proceed
<1>2. CASE t.at = "take" /\ ~ Blocked(s)
  <2>1. TakeLine(s)
    BY <1>T, <1>2 DEF TakeLine, FlushProduct, Blocked, Place
  <2> QED BY <2>1 DEF Proceed
<1>3. CASE t.at = "count" /\ ~ Blocked(s)
  BY <1>T, <1>3 DEF CountOrders, Place, Proceed
<1>4. CASE t.at = "insert" /\ ~ Blocked(s)
  BY <1>T, <1>4 DEF InsertOrder, InsertCollides, Blocked, Place, Proceed
<1>5. CASE t.at = "load" /\ t.op = "autocancel" /\ ~ Blocked(s)
  BY <1>5 DEF LoadStale, StaleIsClosed, Proceed
<1>6. CASE t.at = "load" /\ t.op # "autocancel" /\ ~ Blocked(s)
  <2>1. LoadForApprove(s)
    BY <1>T, <1>6 DEF LoadForApprove, Place
  <2> QED BY <2>1 DEF Proceed
<1>7. CASE t.at = "restore" /\ ~ Blocked(s)
  BY <1>7 DEF ReadLine, Proceed
<1>8. CASE t.at = "give" /\ ~ Blocked(s)
  <2>1. GiveLine(s)
    BY <1>8 DEF GiveLine, FlushProduct, Blocked
  <2> QED BY <2>1 DEF Proceed
<1>9. CASE t.at = "level" /\ ~ Blocked(s)
  <2>1. SetLevel(s)
    BY <1>T, <1>9 DEF SetLevel, FlushProduct, Blocked, Place
  <2> QED BY <2>1 DEF Proceed
<1>10. CASE t.at = "status" /\ ~ Blocked(s)
  BY <1>10 DEF FlushOrder, Blocked, Proceed
<1>11. CASE t.at = "lookup" /\ ~ Blocked(s)
  BY <1>T, <1>11 DEF SweepRaises, Place, Proceed
<1>12. CASE t.at = "resolve" /\ ~ Blocked(s)
  BY <1>12 DEF ResolveReceipt, Blocked, Proceed
<1>13. CASE t.at = "file" /\ ~ Blocked(s)
  BY <1>T, <1>13 DEF FileReceipt, Place, Proceed
<1>14. CASE t.at = "refund" /\ ~ Blocked(s)
  BY <1>14 DEF FileRefund, Proceed
<1>15. CASE t.at = "commit" /\ t.op = "create" /\ ~ Blocked(s)
  BY <1>15 DEF CommitNewOrder, Proceed
<1>16. CASE t.at = "commit" /\ t.op # "create" /\ ~ Blocked(s)
  <2>1. Commit(s)
    BY <1>16 DEF Commit
  <2> QED BY <2>1 DEF Proceed
<1>17. t.at \in {"check", "take", "count", "insert", "load", "restore", "give", "level", "status",
               "lookup", "resolve", "file", "refund", "commit"}
  BY <1>T DEF Txn
<1> QED
  BY <1>0, <1>1, <1>2, <1>3, <1>4, <1>5, <1>6, <1>7, <1>8, <1>9, <1>10, <1>11, <1>12, <1>13,
     <1>14, <1>15, <1>16, <1>17
=============================================================================
