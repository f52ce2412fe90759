---------------------------- MODULE NaturalLemmas ----------------------------
(***************************************************************************)
(* Least and greatest elements of sets of naturals, induction and          *)
(* recursion on naturals without operator parameters, sums over finite     *)
(* sets, and sequences with an element put in.                             *)
(***************************************************************************)
EXTENDS
  Integers, SequencesExt, FiniteSetTheorems, SequenceTheorems, WellFoundedInduction, TLAPS

(* A nonempty set of naturals has a least element.  (The induction theorem *)
(* of the library takes an operator; proper inclusion of the intervals     *)
(* below the elements is well-founded without one.)                        *)
LEMMA SmallestNat ==
  ASSUME NEW S \in SUBSET Nat, S # {}
  PROVE  \E x \in S : \A y \in S : x <= y
<1> DEFINE Below(n) == 0..(n - 1)
           Belows == {Below(n) : n \in S}
<1>1. Belows \subseteq FiniteSubsetsOf(Nat) /\ Belows # {}
  <2>1. \A n \in S : Below(n) \in SUBSET Nat /\ IsFiniteSet(Below(n))
    BY FS_Interval
  <2>2. QED BY <2>1 DEF FiniteSubsetsOf
<1>2. IsWellFoundedOn(StrictSubsetOrdering(Nat), FiniteSubsetsOf(Nat))
  BY FS_StrictSubsetOrderingWellFounded
<1>3. \E X \in Belows : \A Y \in Belows : <<Y, X>> \notin StrictSubsetOrdering(Nat)
  BY <1>1, <1>2, WFMin
<1>4. PICK m \in S :
        \A y \in S : <<Below(y), Below(m)>> \notin StrictSubsetOrdering(Nat)
  BY <1>3
<1>5. ASSUME NEW y \in S, ~(m <= y) PROVE FALSE
  <2>1. Below(y) \subseteq Below(m) /\ Below(y) # Below(m) /\ Below(m) \subseteq Nat
    <3>1. y \in Below(m) /\ y \notin Below(y)
      BY <1>5
    <3>2. QED BY <1>5, <3>1
  <2>2. QED BY <2>1, <1>4 DEF StrictSubsetOrdering
<1>6. QED
  BY <1>5

LEMMA MinIsLeast ==
  ASSUME NEW S \in SUBSET Nat, S # {}
  PROVE  Min(S) \in S /\ \A y \in S : Min(S) <= y
BY SmallestNat DEF Min

(* The distances of the elements from n have a least one.                  *)
LEMMA MaxIsGreatest ==
  ASSUME NEW n \in Nat, NEW S \in SUBSET (0..n), S # {}
  PROVE  Max(S) \in S /\ \A y \in S : y <= Max(S)
<1> DEFINE D == {d \in 0..n : n - d \in S}
<1>1. D \in SUBSET Nat /\ D # {}
  <2>1. PICK x \in S : TRUE
    OBVIOUS
  <2>2. x \in 0..n /\ n - x \in 0..n /\ n - (n - x) = x
    OBVIOUS
  <2>3. n - x \in D
    BY <2>2
  <2>4. D \subseteq Nat
    OBVIOUS
  <2>5. QED BY <2>3, <2>4
<1> HIDE DEF D
<1>2. PICK d \in D : \A y \in D : d <= y
  BY <1>1, SmallestNat
<1>3. d \in 0..n /\ n - d \in S
  BY DEF D
<1>4. ASSUME NEW y \in S PROVE n - d >= y
  <2>1. y \in 0..n /\ n - y \in 0..n /\ n - (n - y) = y
    OBVIOUS
  <2>2. n - y \in D
    BY <2>1 DEF D
  <2>3. d <= n - y
    BY <1>2, <2>2
  <2>4. QED BY <1>3, <2>1, <2>3
<1>5. n - d \in S /\ \A y \in S : n - d >= y
  BY <1>3, <1>4
<1>6. Max(S) \in S /\ \A y \in S : Max(S) >= y
  BY <1>5 DEF Max
<1>7. QED
  <2>1. \A y \in S : Max(S) \in 0..n /\ y \in 0..n
    BY <1>6
  <2>2. QED BY <1>6, <2>1

(* Induction, for a set of naturals.                                       *)
LEMMA NaturalInduction ==
  ASSUME NEW S \in SUBSET Nat, 0 \in S, \A n \in S : n + 1 \in S
  PROVE  S = Nat
<1> DEFINE Rest == Nat \ S
<1>1. CASE Rest = {}
  BY <1>1
<1>2. CASE Rest # {}
  <2>1. PICK x \in Rest : \A y \in Rest : x <= y
    <3>1. Rest \in SUBSET Nat
      OBVIOUS
    <3> HIDE DEF Rest
    <3>2. QED BY <1>2, <3>1, SmallestNat
  <2>2. x # 0 /\ x - 1 \in Nat
    OBVIOUS
  <2>3. x - 1 \in S
    BY <2>1, <2>2
  <2>4. (x - 1) + 1 \in S
    BY <2>3
  <2>5. QED BY <2>1, <2>2, <2>4
<1>3. QED BY <1>1, <1>2

(* A value and a function for each step determine an iteration.            *)
LEMMA IterationExists ==
  ASSUME NEW D, NEW d \in D, NEW g \in [Nat -> [D -> D]], NEW n \in Nat
  PROVE  \E f \in [0..n -> D] :
           f[0] = d /\ \A k \in 1..n : f[k] = g[k][f[k - 1]]
<1> DEFINE Meets(f, m) == f[0] = d /\ \A k \in 1..m : f[k] = g[k][f[k - 1]]
           S == {m \in Nat : \E f \in [0..m -> D] : Meets(f, m)}
<1>1. 0 \in S
  <2>1. [k \in 0..0 |-> d] \in [0..0 -> D] /\ Meets([k \in 0..0 |-> d], 0)
    OBVIOUS
  <2>2. QED BY <2>1
<1>2. ASSUME NEW m \in S PROVE m + 1 \in S
  <2>1. PICK f \in [0..m -> D] : Meets(f, m)
    OBVIOUS
  <2> DEFINE h == [k \in 0..(m + 1) |-> IF k = m + 1 THEN g[m + 1][f[m]] ELSE f[k]]
  <2>2. g[m + 1][f[m]] \in D
    OBVIOUS
  <2>3. h \in [0..(m + 1) -> D]
    BY <2>2
  <2>4. h[0] = d
    BY <2>1
  <2>5. ASSUME NEW k \in 1..(m + 1) PROVE h[k] = g[k][h[k - 1]]
    <3>1. CASE k = m + 1
      <4>1. k - 1 = m /\ m \in 0..(m + 1) /\ k \in 0..(m + 1) /\ m # m + 1
        BY <3>1
      <4>2. h[k - 1] = f[m]
        BY <4>1
      <4>3. h[k] = g[m + 1][f[m]]
        BY <3>1, <4>1
      <4>4. QED BY <3>1, <4>2, <4>3
    <3>2. CASE k # m + 1
      <4>1. k \in 1..m /\ h[k] = f[k] /\ h[k - 1] = f[k - 1]
        BY <3>2
      <4>2. QED BY <2>1, <4>1
    <3>3. QED BY <3>1, <3>2
  <2> HIDE DEF h, Meets
  <2>6. Meets(h, m + 1)
    BY <2>4, <2>5 DEF Meets
  <2>7. QED BY <2>3, <2>6
<1> HIDE DEF S
<1>3. S = Nat
  <2>1. S \in SUBSET Nat
    BY DEF S
  <2>2. QED BY <1>1, <1>2, <2>1, NaturalInduction
<1>4. QED BY <1>3 DEF S

-----------------------------------------------------------------------------
(* Sums over finite sets.                                                  *)

(* Some element of a set, the one that the sums take first.                *)
Some(s) == CHOOSE x \in s : TRUE

(* g is the sum of F over each subset of S.                                *)
IsSum(F, S, g) ==
  g = [s \in SUBSET S |-> IF s = {} THEN 0 ELSE F[Some(s)] + g[s \ {Some(s)}]]

(* g is a sum of F, whichever element is taken first.                      *)
Stepwise(F, S, g) ==
  /\ g[{}] = 0
  /\ \A s \in SUBSET S : g[s] \in Int /\ \A n \in s : g[s] = F[n] + g[s \ {n}]

(* The sum of F over S.                                                    *)
Total(F, S) == MapThenSumSet(LAMBDA x : F[x], S)

(* Some element is one.                                                    *)
LEMMA SomeIsElement ==
  ASSUME NEW s, s # {}
  PROVE  Some(s) \in s
BY Zenon DEF Some

(* Induction over the subsets of a finite set, element by element.         *)
LEMMA SubsetInduction ==
  ASSUME NEW S, IsFiniteSet(S), NEW C, {} \in C,
         \A s \in SUBSET S : \A n \in S : s \in C /\ n \notin s => s \cup {n} \in C
  PROVE  \A s \in SUBSET S : s \in C
<1> DEFINE K == {k \in Nat : \A s \in SUBSET S : Cardinality(s) = k => s \in C}
<1>1. \A s \in SUBSET S : IsFiniteSet(s) /\ Cardinality(s) \in Nat
  BY FS_Subset, FS_CardinalityType
<1>2. 0 \in K
  <2>1. ASSUME NEW s \in SUBSET S, Cardinality(s) = 0 PROVE s \in C
    <3>1. s = {}
      BY <1>1, <2>1, FS_EmptySet
    <3>2. QED BY <3>1
  <2>2. QED BY <2>1
<1>3. ASSUME NEW k \in K PROVE k + 1 \in K
  <2>1. ASSUME NEW s \in SUBSET S, Cardinality(s) = k + 1 PROVE s \in C
    <3>1. s # {}
      BY <2>1, FS_EmptySet
    <3>2. PICK n \in s : TRUE
      BY <3>1
    <3>3. PICK r : r = s \ {n}
      OBVIOUS
    <3>4. Cardinality(r) = k
      <4>1. IsFiniteSet(s) /\ k \in Nat
        BY <1>1
      <4>2. Cardinality(s \ {n}) = Cardinality(s) - 1
        BY <4>1, FS_RemoveElement
      <4>3. QED BY <2>1, <3>3, <4>1, <4>2
    <3>5. r \in C
      BY <3>3, <3>4
    <3>6. r \in SUBSET S /\ n \in S /\ n \notin r /\ s = r \cup {n}
      BY <3>3
    <3>7. QED BY <3>5, <3>6
  <2>2. QED BY <2>1
<1> HIDE DEF K
<1>4. K = Nat
  <2>1. K \in SUBSET Nat
    BY DEF K
  <2>2. QED BY <1>2, <1>3, <2>1, NaturalInduction
<1>5. QED BY <1>1, <1>4 DEF K

(* A sum is an integer and does not depend on the order.                   *)
LEMMA SumInAnyOrder ==
  ASSUME NEW S, IsFiniteSet(S), NEW F, \A x \in S : F[x] \in Int, NEW g, IsSum(F, S, g)
  PROVE  \A s \in SUBSET S : g[s] \in Int /\ \A n \in s : g[s] = F[n] + g[s \ {n}]
<1>0. \A s \in SUBSET S : g[s] = IF s = {} THEN 0 ELSE F[Some(s)] + g[s \ {Some(s)}]
  BY Zenon DEF IsSum
<1> DEFINE Good(s) == g[s] \in Int /\ \A n \in s : g[s] = F[n] + g[s \ {n}]
           K == {k \in Nat : \A s \in SUBSET S : Cardinality(s) <= k => Good(s)}
<1>1. \A s \in SUBSET S : IsFiniteSet(s) /\ Cardinality(s) \in Nat
  BY FS_Subset, FS_CardinalityType
<1>2. g[{}] = 0
  BY <1>0
<1>3. 0 \in K
  <2>1. ASSUME NEW s \in SUBSET S, Cardinality(s) <= 0 PROVE s = {}
    BY <1>1, <2>1, FS_EmptySet
  <2>2. Good({})
    BY <1>2
  <2> HIDE DEF Good
  <2>3. QED BY <2>1, <2>2
<1>4. ASSUME NEW k \in K PROVE k + 1 \in K
  <2>1. ASSUME NEW s \in SUBSET S, Cardinality(s) <= k + 1, s # {}
        PROVE  Good(s)
    <3>1. PICK x \in s : x = Some(s)
      BY <2>1, SomeIsElement
    <3>2. g[s] = F[x] + g[s \ {x}]
      BY <1>0, <2>1, <3>1
    <3>3. ASSUME NEW n \in s
          PROVE  /\ s \ {n} \in SUBSET S /\ Cardinality(s \ {n}) <= k
                 /\ g[s \ {n}] \in Int
      <4>1. Cardinality(s \ {n}) = Cardinality(s) - 1
        BY <1>1, FS_RemoveElement
      <4>2. Cardinality(s \ {n}) <= k
        BY <1>1, <2>1, <4>1
      <4>3. QED BY <4>2
    <3>4. g[s] \in Int
      BY <3>2, <3>3
    <3>5. ASSUME NEW n \in s, n # x PROVE g[s] = F[n] + g[s \ {n}]
      <4>1. PICK a, b, r : a = s \ {x} /\ b = s \ {n} /\ r = (s \ {x}) \ {n}
        OBVIOUS
      <4>2. n \in a /\ x \in b /\ r = a \ {n} /\ r = b \ {x}
        BY <3>5, <4>1
      <4>3. g[a] = F[n] + g[r]
        <5>1. a \in SUBSET S /\ Cardinality(a) <= k
          BY <3>3, <4>1
        <5>2. QED BY <4>2, <5>1
      <4>4. g[b] = F[x] + g[r]
        <5>1. b \in SUBSET S /\ Cardinality(b) <= k
          BY <3>3, <4>1
        <5>2. \A m \in b : g[b] = F[m] + g[b \ {m}]
          BY <5>1
        <5>3. g[b] = F[x] + g[b \ {x}]
          BY <4>2, <5>2
        <5>4. QED BY <4>2, <5>3
      <4>5. g[r] \in Int
        <5>1. r \in SUBSET S /\ Cardinality(r) <= k
          <6>1. IsFiniteSet(a) /\ n \in a /\ a \in SUBSET S /\ Cardinality(a) \in Nat
            BY <1>1, <4>1, <4>2
          <6>2. Cardinality(a \ {n}) = Cardinality(a) - 1
            BY <6>1, FS_RemoveElement
          <6>3. Cardinality(a) <= k
            BY <3>3, <4>1
          <6>4. QED BY <4>2, <6>1, <6>2, <6>3
        <5>2. QED BY <5>1
      <4>6. F[n] \in Int /\ F[x] \in Int
        OBVIOUS
      <4>7. g[s] = F[x] + g[a]
        BY <3>2, <4>1
      <4>8. g[s] = F[n] + g[b]
        BY <4>3, <4>4, <4>5, <4>6, <4>7
      <4>9. QED BY <4>1, <4>8
    <3>6. \A n \in s : g[s] = F[n] + g[s \ {n}]
      BY <3>2, <3>5
    <3>7. QED BY <3>4, <3>6
  <2>2. \A s \in SUBSET S : Cardinality(s) <= k + 1 => Good(s)
    <3>1. Good({})
      BY <1>2
    <3>2. ASSUME NEW s \in SUBSET S, Cardinality(s) <= k + 1, s # {} PROVE Good(s)
      BY <2>1, <3>2
    <3> HIDE DEF Good
    <3>3. QED BY <3>1, <3>2
  <2> HIDE DEF Good
  <2>3. QED BY <2>2
<1> HIDE DEF K
<1>5. K = Nat
  <2>1. K \in SUBSET Nat
    BY DEF K
  <2>2. QED BY <1>3, <1>4, <2>1, NaturalInduction
<1>6. ASSUME NEW s \in SUBSET S
      PROVE  g[s] \in Int /\ \A n \in s : g[s] = F[n] + g[s \ {n}]
  <2>1. PICK k \in Nat : k = Cardinality(s)
    BY <1>1
  <2>2. k \in K
    BY <1>5
  <2>3. QED BY <2>1, <2>2 DEF K
<1>7. QED BY <1>6

(* The sum that starts with some element is one.                           *)
LEMMA SumIsStepwise ==
  ASSUME NEW S, IsFiniteSet(S), NEW F, \A x \in S : F[x] \in Int, NEW g, IsSum(F, S, g)
  PROVE  Stepwise(F, S, g)
<1>1. g[{}] = 0
  BY Zenon DEF IsSum
<1>2. \A s \in SUBSET S : g[s] \in Int /\ \A n \in s : g[s] = F[n] + g[s \ {n}]
  BY SumInAnyOrder
<1>3. QED BY <1>1, <1>2 DEF Stepwise

(* Every set has a sum over its subsets.                                   *)
LEMMA SumExists ==
  ASSUME NEW S, IsFiniteSet(S), NEW F, \A x \in S : F[x] \in Int
  PROVE  \E g : IsSum(F, S, g)
<1> DEFINE C == {s \in SUBSET S : \E g : IsSum(F, s, g)}
<1>1. {} \in C
  <2>1. PICK g : g = [s \in SUBSET {} |-> 0]
    OBVIOUS
  <2>2. g = [s \in SUBSET {} |-> IF s = {} THEN 0 ELSE F[Some(s)] + g[s \ {Some(s)}]]
    BY <2>1
  <2>3. IsSum(F, {}, g)
    BY <2>2, Zenon DEF IsSum
  <2>4. QED BY <2>3
<1>2. ASSUME NEW s \in SUBSET S, NEW n \in S, s \in C, n \notin s PROVE s \cup {n} \in C
  <2>1. PICK g : IsSum(F, s, g)
    BY <1>2
  <2>2. \A r \in SUBSET s : g[r] \in Int /\ \A x \in r : g[r] = F[x] + g[r \ {x}]
    <3>1. IsFiniteSet(s) /\ \A x \in s : F[x] \in Int
      BY FS_Subset
    <3>2. QED BY <2>1, <3>1, SumInAnyOrder
  <2>3. \A r \in SUBSET s : g[r] = IF r = {} THEN 0 ELSE F[Some(r)] + g[r \ {Some(r)}]
    BY <2>1, Zenon DEF IsSum
  <2>4. PICK t : t = s \cup {n}
    OBVIOUS
  <2>5. PICK h : h = [r \in SUBSET t |-> IF n \in r THEN F[n] + g[r \ {n}] ELSE g[r]]
    OBVIOUS
  <2>6. \A r \in SUBSET t : h[r] = IF n \in r THEN F[n] + g[r \ {n}] ELSE g[r]
    BY <2>5
  <2>7. ASSUME NEW r \in SUBSET t
        PROVE  h[r] = IF r = {} THEN 0 ELSE F[Some(r)] + h[r \ {Some(r)}]
    <3>1. CASE n \notin r
      <4>1. r \in SUBSET s /\ r \ {Some(r)} \in SUBSET t /\ n \notin r \ {Some(r)}
        BY <2>4, <3>1
      <4>2. h[r] = g[r] /\ h[r \ {Some(r)}] = g[r \ {Some(r)}]
        BY <2>6, <3>1, <4>1
      <4>3. QED BY <2>3, <4>1, <4>2
    <3>2. CASE n \in r
      <4>1. PICK x \in r : x = Some(r)
        BY <3>2, SomeIsElement
      <4>2. PICK a, b : a = r \ {n} /\ b = r \ {x}
        OBVIOUS
      <4>3. a \in SUBSET s /\ b \in SUBSET t
        BY <2>4, <4>2
      <4>4. h[r] = F[n] + g[a]
        BY <2>6, <3>2, <4>2
      <4>5. h[r] = F[x] + h[b]
        <5>1. CASE x = n
          <6>1. h[b] = g[b]
            BY <2>6, <4>2, <4>3, <5>1
          <6>2. QED BY <4>2, <4>4, <5>1, <6>1
        <5>2. CASE x # n
          <6>1. PICK e : e = b \ {n}
            OBVIOUS
          <6>2. e = a \ {x} /\ e \in SUBSET s /\ x \in a /\ n \in b
            BY <2>4, <3>2, <4>2, <5>2, <6>1
          <6>3. h[b] = F[n] + g[e]
            BY <2>6, <4>3, <6>1, <6>2
          <6>4. g[a] = F[x] + g[e]
            BY <2>2, <4>3, <6>2
          <6>5. F[n] \in Int /\ F[x] \in Int /\ g[e] \in Int
            BY <2>2, <2>4, <6>2
          <6>6. QED BY <4>4, <6>3, <6>4, <6>5
        <5>3. QED BY <5>1, <5>2
      <4>6. r # {}
        BY <3>2
      <4>7. QED BY <4>1, <4>2, <4>5, <4>6
    <3>3. QED BY <3>1, <3>2
  <2>8. h = [r \in SUBSET t |-> IF r = {} THEN 0 ELSE F[Some(r)] + h[r \ {Some(r)}]]
    BY <2>5, <2>7
  <2>9. IsSum(F, t, h)
    BY <2>8, Zenon DEF IsSum
  <2>10. QED BY <2>4, <2>9
<1> HIDE DEF C
<1>3. \A s \in SUBSET S : s \in C
  BY <1>1, <1>2, SubsetInduction
<1>4. S \in C
  BY <1>3
<1>5. QED BY <1>4 DEF C

(* The fold of the community modules is such a sum.                        *)
LEMMA TotalIsSum ==
  ASSUME NEW S, IsFiniteSet(S), NEW F, \A x \in S : F[x] \in Int
  PROVE  \E g : IsSum(F, S, g) /\ Total(F, S) = g[S]
<1>1. PICK g : IsSum(F, S, g)
  BY SumExists
<1>2. g = [s \in SUBSET S |-> IF s = {} THEN 0 ELSE F[Some(s)] + g[s \ {Some(s)}]]
  BY <1>1, Zenon DEF IsSum
<1>3. PICK f : /\ f = [s \in SUBSET S |-> IF s = {} THEN 0
                       ELSE F[CHOOSE x \in s : TRUE] + f[s \ {CHOOSE x \in s : TRUE}]]
               /\ Total(F, S) = f[S]
  BY <1>2, Zenon DEF Some, Total, MapThenSumSet, MapThenFoldSet
<1>4. f = [s \in SUBSET S |-> IF s = {} THEN 0 ELSE F[Some(s)] + f[s \ {Some(s)}]]
  BY <1>3, Zenon DEF Some
<1>5. IsSum(F, S, f)
  BY <1>4, Zenon DEF IsSum
<1>6. QED BY <1>3, <1>5

(* Sums of the same values agree, whatever sets they were made for.        *)
LEMMA SumsAgree ==
  ASSUME NEW S, IsFiniteSet(S), NEW F, \A x \in S : F[x] \in Int,
         NEW T \in SUBSET S, NEW G, \A x \in T : G[x] = F[x],
         NEW g, Stepwise(F, S, g), NEW h, Stepwise(G, T, h)
  PROVE  \A s \in SUBSET T : g[s] = h[s]
<1> DEFINE C == {s \in SUBSET T : g[s] = h[s]}
<1>1. {} \in C
  BY DEF Stepwise
<1>2. ASSUME NEW s \in SUBSET T, NEW n \in T, s \in C, n \notin s PROVE s \cup {n} \in C
  <2>1. PICK t : t = s \cup {n}
    OBVIOUS
  <2>2. t \in SUBSET T /\ t \in SUBSET S /\ n \in t /\ t \ {n} = s
    BY <1>2, <2>1
  <2>3. g[t] = F[n] + g[s] /\ h[t] = G[n] + h[s]
    BY <2>2 DEF Stepwise
  <2>4. g[t] = h[t]
    BY <1>2, <2>3
  <2>5. QED BY <2>1, <2>2, <2>4
<1> HIDE DEF C
<1>3. \A s \in SUBSET T : s \in C
  <2>1. IsFiniteSet(T)
    BY FS_Subset
  <2>2. QED BY <1>1, <1>2, <2>1, SubsetInduction
<1>4. QED BY <1>3 DEF C

(* The sum of no values.                                                   *)
LEMMA TotalOfNone ==
  ASSUME NEW F
  PROVE  Total(F, {}) = 0
<1>1. PICK g : IsSum(F, {}, g) /\ Total(F, {}) = g[{}]
  BY FS_EmptySet, TotalIsSum
<1>2. QED BY <1>1, Zenon DEF IsSum

(* One sum gives the totals over all subsets.                              *)
LEMMA TotalsOfSubsets ==
  ASSUME NEW S, IsFiniteSet(S), NEW F, \A x \in S : F[x] \in Int
  PROVE  \E g : /\ IsSum(F, S, g)
                /\ \A s \in SUBSET S : Total(F, s) = g[s]
<1>1. PICK g : IsSum(F, S, g)
  BY SumExists
<1>2. Stepwise(F, S, g)
  BY <1>1, SumIsStepwise
<1>3. ASSUME NEW s \in SUBSET S PROVE Total(F, s) = g[s]
  <2>1. IsFiniteSet(s) /\ \A x \in s : F[x] \in Int
    BY FS_Subset
  <2>2. PICK h : IsSum(F, s, h) /\ Total(F, s) = h[s]
    BY <2>1, TotalIsSum
  <2>3. Stepwise(F, s, h)
    BY <2>1, <2>2, SumIsStepwise
  <2>4. \A x \in s : F[x] = F[x]
    OBVIOUS
  <2>5. \A r \in SUBSET s : g[r] = h[r]
    BY <1>2, <2>3, <2>4, SumsAgree
  <2>6. QED BY <2>2, <2>5
<1>4. QED BY <1>1, <1>3

(* Totals, element by element.                                             *)
LEMMA TotalsStep ==
  ASSUME NEW S, IsFiniteSet(S), NEW F, \A x \in S : F[x] \in Int
  PROVE  \A s \in SUBSET S :
           /\ Total(F, s) \in Int
           /\ \A n \in s : Total(F, s) = F[n] + Total(F, s \ {n})
<1>1. PICK g : /\ IsSum(F, S, g)
               /\ \A s \in SUBSET S : Total(F, s) = g[s]
  BY TotalsOfSubsets
<1>2. \A s \in SUBSET S : g[s] \in Int /\ \A n \in s : g[s] = F[n] + g[s \ {n}]
  BY <1>1, SumInAnyOrder
<1>3. QED BY <1>1, <1>2

(* Equal values have equal totals.                                         *)
LEMMA TotalsAgree ==
  ASSUME NEW S, IsFiniteSet(S), NEW F, \A x \in S : F[x] \in Int,
         NEW G, \A x \in S : G[x] = F[x]
  PROVE  Total(G, S) = Total(F, S)
<1>1. PICK g : IsSum(F, S, g) /\ Total(F, S) = g[S]
  BY TotalIsSum
<1>2. PICK h : IsSum(G, S, h) /\ Total(G, S) = h[S]
  <2>1. \A x \in S : G[x] \in Int
    OBVIOUS
  <2>2. QED BY <2>1, TotalIsSum
<1>3. \A s \in SUBSET S : g[s] = h[s]
  <2>1. Stepwise(F, S, g)
    BY <1>1, SumIsStepwise
  <2>2. \A x \in S : G[x] \in Int
    OBVIOUS
  <2>3. Stepwise(G, S, h)
    BY <1>2, <2>2, SumIsStepwise
  <2>4. S \in SUBSET S
    OBVIOUS
  <2>5. QED BY <2>1, <2>3, <2>4, SumsAgree
<1>4. QED BY <1>1, <1>2, <1>3

(* A total when one of the values changes.                                 *)
LEMMA TotalChanges ==
  ASSUME NEW S, IsFiniteSet(S), NEW F, \A x \in S : F[x] \in Int,
         NEW G, \A x \in S : G[x] \in Int,
         NEW n \in S, \A x \in S : x # n => G[x] = F[x]
  PROVE  Total(G, S) = Total(F, S) + (G[n] - F[n])
<1>1. PICK r : r = S \ {n}
  OBVIOUS
<1>2. IsFiniteSet(r) /\ r \in SUBSET S /\ S \in SUBSET S
  BY <1>1, FS_Subset
<1>3. /\ Total(F, S) = F[n] + Total(F, r)
      /\ Total(F, r) \in Int
  BY <1>1, <1>2, TotalsStep
<1>4. Total(G, S) = G[n] + Total(G, r)
  BY <1>1, <1>2, TotalsStep
<1>5. Total(G, r) = Total(F, r)
  <2>1. (\A x \in r : F[x] \in Int) /\ \A x \in r : G[x] = F[x]
    BY <1>1
  <2>2. QED BY <1>2, <2>1, TotalsAgree
<1>6. F[n] \in Int /\ G[n] \in Int
  OBVIOUS
<1>7. QED BY <1>3, <1>4, <1>5, <1>6

(* The total of sums is the sum of the totals.                             *)
LEMMA TotalOfSums ==
  ASSUME NEW S, IsFiniteSet(S), NEW F, \A x \in S : F[x] \in Int,
         NEW G, \A x \in S : G[x] \in Int,
         NEW H, \A x \in S : H[x] = F[x] + G[x]
  PROVE  Total(H, S) = Total(F, S) + Total(G, S)
<1> DEFINE C == {s \in SUBSET S : Total(H, s) = Total(F, s) + Total(G, s)}
<1>1. {} \in C
  BY TotalOfNone
<1>2. ASSUME NEW s \in SUBSET S, NEW n \in S, s \in C, n \notin s PROVE s \cup {n} \in C
  <2>1. PICK t : t = s \cup {n}
    OBVIOUS
  <2>2. t \in SUBSET S /\ n \in t /\ t \ {n} = s
    BY <1>2, <2>1
  <2>3. Total(F, t) = F[n] + Total(F, s) /\ Total(F, s) \in Int
    BY <2>2, TotalsStep
  <2>4. Total(G, t) = G[n] + Total(G, s) /\ Total(G, s) \in Int
    BY <2>2, TotalsStep
  <2>5. Total(H, t) = H[n] + Total(H, s)
    <3>1. \A x \in S : H[x] \in Int
      OBVIOUS
    <3>2. QED BY <2>2, <3>1, TotalsStep
  <2>6. Total(H, s) = Total(F, s) + Total(G, s)
    BY <1>2
  <2>7. F[n] \in Int /\ G[n] \in Int /\ H[n] = F[n] + G[n]
    OBVIOUS
  <2>8. Total(H, t) = Total(F, t) + Total(G, t)
    BY <2>3, <2>4, <2>5, <2>6, <2>7
  <2>9. QED BY <2>1, <2>2, <2>8
<1> HIDE DEF C
<1>3. \A s \in SUBSET S : s \in C
  BY <1>1, <1>2, SubsetInduction
<1>4. S \in C
  BY <1>3
<1>5. QED BY <1>4 DEF C

(* Values that are 0 do not count.                                         *)
LEMMA TotalWithoutZeros ==
  ASSUME NEW S, IsFiniteSet(S), NEW F, \A x \in S : F[x] \in Int,
         NEW T \in SUBSET S, \A x \in S : x \notin T => F[x] = 0
  PROVE  Total(F, S) = Total(F, T)
<1> DEFINE C == {s \in SUBSET S : Total(F, s) = Total(F, s \cap T)}
<1>1. {} \in C
  <2>1. {} \cap T = {} /\ {} \in SUBSET S
    OBVIOUS
  <2>2. QED BY <2>1
<1>2. ASSUME NEW s \in SUBSET S, NEW n \in S, s \in C, n \notin s PROVE s \cup {n} \in C
  <2>1. PICK t, a, b : t = s \cup {n} /\ a = s \cap T /\ b = t \cap T
    OBVIOUS
  <2>2. t \in SUBSET S /\ n \in t /\ t \ {n} = s /\ a \in SUBSET S /\ b \in SUBSET S
    BY <1>2, <2>1
  <2>3. Total(F, s) = Total(F, a)
    BY <1>2, <2>1
  <2>4. Total(F, t) = F[n] + Total(F, s) /\ Total(F, s) \in Int
    BY <2>2, TotalsStep
  <2>5. CASE n \in T
    <3>1. n \in b /\ b \ {n} = a
      BY <1>2, <2>1, <2>5
    <3>2. Total(F, b) = F[n] + Total(F, a)
      BY <2>2, <3>1, TotalsStep
    <3>3. Total(F, t) = Total(F, b)
      BY <2>3, <2>4, <3>2
    <3>4. QED BY <2>1, <2>2, <3>3
  <2>6. CASE n \notin T
    <3>1. b = a /\ F[n] = 0
      BY <2>1, <2>6
    <3>2. Total(F, t) = Total(F, b)
      BY <2>3, <2>4, <3>1
    <3>3. QED BY <2>1, <2>2, <3>2
  <2>7. QED BY <2>5, <2>6
<1> HIDE DEF C
<1>3. \A s \in SUBSET S : s \in C
  BY <1>1, <1>2, SubsetInduction
<1>4. S \in C /\ S \cap T = T
  BY <1>3
<1>5. QED BY <1>4 DEF C

(* A total of zeros.                                                       *)
LEMMA TotalOfZeros ==
  ASSUME NEW S, IsFiniteSet(S), NEW F, \A x \in S : F[x] = 0
  PROVE  Total(F, S) = 0
<1>1. {} \in SUBSET S /\ (\A x \in S : F[x] \in Int) /\ \A x \in S : x \notin {} => F[x] = 0
  OBVIOUS
<1>2. Total(F, S) = Total(F, {})
  BY <1>1, TotalWithoutZeros
<1>3. QED BY <1>2, TotalOfNone

-----------------------------------------------------------------------------
(* Sequences.                                                              *)

(* The elements of a sequence with n put in at place i.                    *)
LEMMA InsertAtPosition ==
  ASSUME NEW S, NEW p \in Seq(S), NEW i \in 1..(Len(p) + 1), NEW n \in S
  PROVE  /\ InsertAt(p, i, n) \in Seq(S)
         /\ Len(InsertAt(p, i, n)) = Len(p) + 1
         /\ \A j \in 1..(Len(p) + 1) :
              InsertAt(p, i, n)[j] = IF j < i THEN p[j] ELSE IF j = i THEN n ELSE p[j - 1]
<1>1. PICK a \in Seq(S), b \in Seq(S), c \in Seq(S) :
        a = SubSeq(p, 1, i - 1) /\ b = <<n>> /\ c = SubSeq(p, i, Len(p))
  <2>1. SubSeq(p, 1, i - 1) \in Seq(S) /\ <<n>> \in Seq(S) /\ SubSeq(p, i, Len(p)) \in Seq(S)
    OBVIOUS
  <2>2. QED BY <2>1
<1>2. Len(a) = i - 1 /\ \A j \in 1..(i - 1) : a[j] = p[j]
  BY <1>1
<1>3. Len(b) = 1 /\ b[1] = n
  BY <1>1
<1>4. Len(c) = Len(p) - i + 1 /\ \A j \in 1..(Len(p) - i + 1) : c[j] = p[j + i - 1]
  BY <1>1
<1>5. InsertAt(p, i, n) = (a \o b) \o c
  BY <1>1 DEF InsertAt
<1>6. PICK k \in Nat : k = Len(p)
  OBVIOUS
<1>7. a \o b \in Seq(S) /\ Len(a \o b) = i
  <2>1. a \o b \in Seq(S) /\ Len(a \o b) = Len(a) + Len(b)
    BY ConcatProperties
  <2>2. QED BY <1>2, <1>3, <2>1
<1>8. (a \o b) \o c \in Seq(S) /\ Len((a \o b) \o c) = k + 1
  BY <1>4, <1>6, <1>7
<1>9. ASSUME NEW j \in 1..(k + 1)
      PROVE  ((a \o b) \o c)[j] = IF j < i THEN p[j] ELSE IF j = i THEN n ELSE p[j - 1]
  <2>1. ((a \o b) \o c)[j] = IF j <= i THEN (a \o b)[j] ELSE c[j - i]
    BY <1>4, <1>6, <1>7, ConcatProperties
  <2>2. CASE j <= i
    <3>1. (a \o b)[j] = IF j < i THEN a[j] ELSE b[j - (i - 1)]
      BY <1>2, <1>3, <1>7, <2>2, ConcatProperties
    <3>2. QED BY <1>2, <1>3, <2>1, <2>2, <3>1
  <2>3. CASE j > i
    <3>1. j - i \in 1..(k - i + 1) /\ (j - i) + i - 1 = j - 1
      BY <1>6, <2>3
    <3>2. c[j - i] = p[j - 1]
      BY <1>4, <1>6, <3>1
    <3>3. ~(j <= i) /\ ~(j < i) /\ j # i
      BY <2>3
    <3>4. QED BY <2>1, <3>2, <3>3
  <2>4. j <= i \/ j > i
    OBVIOUS
  <2>5. QED BY <2>2, <2>3, <2>4
<1>10. QED BY <1>5, <1>6, <1>8, <1>9

=============================================================================
