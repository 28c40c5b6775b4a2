------------------------------ MODULE DataLemmas ------------------------------
(***************************************************************************)
(* Facts about finite sets and about functions defined by recursion over   *)
(* an interval, which the theorems on the models rest on.  The library     *)
(* states its own with an operator as a parameter; these have a function   *)
(* in its place, so that they can be cited.                                *)
(***************************************************************************)
EXTENDS Integers, FiniteSets, FiniteSetTheorems, WellFoundedInduction, TLAPS

(* The union of a finite family of sets of at most m elements each.        *)
LEMMA UnionBound ==
    ASSUME NEW R, IsFiniteSet(R), NEW m \in Nat, NEW F,
           \A r \in R : IsFiniteSet(F[r]) /\ Cardinality(F[r]) <= m
    PROVE  /\ IsFiniteSet(UNION {F[r] : r \in R})
           /\ Cardinality(UNION {F[r] : r \in R}) <= Cardinality(R) * m
<1> DEFINE U == UNION {F[r] : r \in R}
           Size(r) == Cardinality(F[r])
           Owner(p) == CHOOSE r \in R : p \in F[r]
           Order(r) == CHOOSE b : b \in Bijection(1..Size(r), F[r])
           Place(p) == CHOOSE i \in 1..Size(Owner(p)) : Order(Owner(p))[i] = p
           number == [p \in U |-> <<Owner(p), Place(p)>>]
<1>1. \A r \in R : Order(r) \in Bijection(1..Size(r), F[r])
  <2> SUFFICES ASSUME NEW r \in R PROVE Order(r) \in Bijection(1..Size(r), F[r])
    OBVIOUS
  <2>1. \E b : b \in Bijection(1..Size(r), F[r])
    BY FS_CardinalityType DEF ExistsBijection
  <2> QED BY <2>1
<1>2. \A p \in U : Owner(p) \in R /\ p \in F[Owner(p)]
  OBVIOUS
<1>3. ASSUME NEW p \in U
      PROVE  Place(p) \in 1..Size(Owner(p)) /\ Order(Owner(p))[Place(p)] = p
  <2>1. Order(Owner(p)) \in Surjection(1..Size(Owner(p)), F[Owner(p)])
    BY <1>1, <1>2 DEF Bijection
  <2>2. \E i \in 1..Size(Owner(p)) : Order(Owner(p))[i] = p
    BY <1>2, <2>1 DEF Surjection
  <2> QED BY <2>2
<1>4. \A r \in R : Size(r) \in Nat /\ Size(r) <= m
  BY FS_CardinalityType
<1> HIDE DEF U, Size, Owner, Order, Place
<1>5. number \in [U -> R \X (1..m)]
  <2>1. \A p \in U : Place(p) \in 1..m
    BY <1>2, <1>3, <1>4
  <2> QED BY <1>2, <2>1
<1>6. \A p, q \in U : number[p] = number[q] => p = q
  <2> SUFFICES ASSUME NEW p \in U, NEW q \in U, number[p] = number[q] PROVE p = q
    OBVIOUS
  <2>1. <<Owner(p), Place(p)>> = <<Owner(q), Place(q)>>
    OBVIOUS
  <2>2. Owner(p) = Owner(q) /\ Place(p) = Place(q)
    BY <2>1
  <2>3. Order(Owner(p))[Place(p)] = p /\ Order(Owner(q))[Place(q)] = q
    BY <1>3
  <2> QED BY <2>2, <2>3
<1> HIDE DEF number
<1>7. number \in Injection(U, R \X (1..m))
  BY <1>5, <1>6 DEF Injection, IsInjective
<1>8. IsFiniteSet(1..m) /\ Cardinality(1..m) = m
  BY FS_Interval
<1>9. IsFiniteSet(R \X (1..m)) /\ Cardinality(R \X (1..m)) = Cardinality(R) * m
  BY <1>8, FS_Product
<1>10. IsFiniteSet(U) /\ Cardinality(U) <= Cardinality(R) * m
  BY <1>7, <1>9, FS_Injection
<1> QED BY <1>10 DEF U

(* Induction over 0..n, with a set in the place of the predicate.          *)
LEMMA IntervalInduction ==
    ASSUME NEW n \in Nat, NEW P, 0 \in P, \A i \in 1..n : i - 1 \in P => i \in P
    PROVE  \A i \in 0..n : i \in P
<1> DEFINE Less == {ss \in Nat \X Nat : ss[1] < ss[2]}
           Fails == {i \in 0..n : i \notin P}
<1> SUFFICES ASSUME Fails # {} PROVE FALSE
  OBVIOUS
<1>1. Fails \subseteq Nat
  OBVIOUS
<1>2. \A i, j \in Nat : i < j => <<i, j>> \in Less
  OBVIOUS
<1>3. IsWellFoundedOn(Less, Nat)
  BY NatLessThanWellFounded DEF OpToRel
<1> HIDE DEF Less
<1>4. PICK i \in Fails : \A j \in Fails : <<j, i>> \notin Less
  BY <1>1, <1>3, WFMin
<1>5. i \in 1..n /\ i - 1 \in 0..n /\ i - 1 < i
  OBVIOUS
<1>6. i - 1 \notin Fails
  BY <1>1, <1>2, <1>4, <1>5
<1> QED BY <1>5, <1>6

(* A function on 0..n is defined by its first value and the step from each *)
(* value to the next.                                                      *)
Iterates(f, n, S, b, step) ==
    /\ f \in [0..n -> S] /\ f[0] = b
    /\ \A i \in 1..n : f[i] = step[<<f[i - 1], i>>]

LEMMA IntervalRecursion ==
    ASSUME NEW n \in Nat, NEW S, NEW b \in S, NEW step \in [S \X (1..n) -> S]
    PROVE  \E f : Iterates(f, n, S, b, step)
<1> DEFINE Defined(f, m) == /\ f \in [0..m -> S] /\ f[0] = b
                            /\ \A i \in 1..m : f[i] = step[<<f[i - 1], i>>]
           P == {m \in 0..n : \E f : Defined(f, m)}
<1>1. 0 \in P
  <2>1. Defined([i \in 0..0 |-> b], 0)
    OBVIOUS
  <2> HIDE DEF Defined
  <2> QED BY <2>1
<1>2. ASSUME NEW m \in 1..n, m - 1 \in P PROVE m \in P
  <2>1. PICK f : Defined(f, m - 1)
    BY <1>2
  <2> DEFINE g == [i \in 0..m |-> IF i = m THEN step[<<f[m - 1], m>>] ELSE f[i]]
  <2>2. f[m - 1] \in S
    BY <2>1
  <2>3. step[<<f[m - 1], m>>] \in S
    BY <2>2
  <2>4. g \in [0..m -> S]
    BY <2>1, <2>3
  <2>5. g[0] = b
    BY <2>1
  <2>6. ASSUME NEW i \in 1..m PROVE g[i] = step[<<g[i - 1], i>>]
    <3>1. i - 1 \in 0..(m - 1) /\ g[i - 1] = f[i - 1]
      OBVIOUS
    <3>2. CASE i = m
      <4>1. g[m] = step[<<f[m - 1], m>>] /\ g[m - 1] = f[m - 1]
        BY <3>1, <3>2
      <4> HIDE DEF g
      <4> QED BY <3>2, <4>1
    <3>3. CASE i # m
      <4>1. i \in 1..(m - 1)
        BY <3>3
      <4> QED BY <2>1, <3>1, <3>3, <4>1
    <3> QED BY <3>2, <3>3
  <2>7. Defined(g, m)
    BY <2>4, <2>5, <2>6
  <2> HIDE DEF Defined
  <2> QED BY <2>7
<1>3. n \in P
  <2> HIDE DEF P
  <2>1. \A i \in 0..n : i \in P
    BY <1>1, <1>2, IntervalInduction
  <2> QED BY <2>1
<1>4. \E f : Defined(f, n)
  BY <1>3
<1> QED BY <1>4 DEF Iterates

=============================================================================
