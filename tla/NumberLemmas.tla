----------------------------- MODULE NumberLemmas -----------------------------
(***************************************************************************)
(* Facts about numbers that the proofs share.  The library states induction*)
(* and recursion for a predicate and a step that are operators; here they  *)
(* are stated for a set of numbers and for a step that is a function.      *)
(***************************************************************************)
EXTENDS Integers, FiniteSetsExt, FiniteSetTheorems, WellFoundedInduction, TLAPS

\* A set of numbers has a least one: of the intervals 0 .. n there is a smallest, and
\* it is finite.
LEMMA Least ==
    ASSUME NEW S \in SUBSET Nat, S # {}
    PROVE  \E x \in S : \A y \in S : x <= y
<1> DEFINE R == StrictSubsetOrdering(Nat)
           T == {0 .. n : n \in S}
<1>1. T \subseteq FiniteSubsetsOf(Nat) /\ T # {}
  <2>1. \A n \in S : 0 .. n \in SUBSET Nat /\ IsFiniteSet(0 .. n)
    BY FS_Interval
  <2> QED BY <2>1 DEF FiniteSubsetsOf
<1>2. \E X \in T : \A Y \in T : ~ (<<Y, X>> \in R)
  <2> HIDE DEF T, R
  <2>1. IsWellFoundedOn(R, FiniteSubsetsOf(Nat))
    BY FS_StrictSubsetOrderingWellFounded DEF R
  <2> QED BY <1>1, <2>1, WFMin
<1>3. PICK x \in S : \A y \in S : ~ (<<0 .. y, 0 .. x>> \in R)
  BY <1>2
<1>4. ASSUME NEW y \in S PROVE x <= y
  <2>1. SUFFICES ASSUME y < x PROVE FALSE
    OBVIOUS
  <2>2. 0 .. y \subseteq 0 .. x /\ x \in 0 .. x /\ x \notin 0 .. y
    BY <2>1
  <2>3. 0 .. y \in SUBSET Nat /\ 0 .. x \in SUBSET Nat /\ 0 .. y # 0 .. x
    BY <2>2
  <2> QED BY <1>3, <2>2, <2>3 DEF StrictSubsetOrdering
<1> QED BY <1>4

\* The minimum of a set of numbers is its least member.
LEMMA MinIs ==
    ASSUME NEW S \in SUBSET Nat, S # {}
    PROVE  Min(S) \in S /\ \A y \in S : Min(S) <= y
BY Least DEF Min

\* Of two numbers.
LEMMA MinOfTwo ==
    ASSUME NEW a \in Nat, NEW b \in Nat
    PROVE  Min({a, b}) = IF a <= b THEN a ELSE b
<1>1. Min({a, b}) \in {a, b} /\ \A y \in {a, b} : Min({a, b}) <= y
  BY MinIs
<1> QED BY <1>1

\* The maximum of a set of numbers that has a bound is its largest member: of the bounds
\* there is a least, and it is in the set.
LEMMA MaxIs ==
    ASSUME NEW S \in SUBSET Nat, S # {}, NEW n \in Nat, \A y \in S : y <= n
    PROVE  Max(S) \in S /\ \A y \in S : y <= Max(S)
<1> DEFINE B == {b \in Nat : \A y \in S : y <= b}
<1>1. PICK x \in B : \A b \in B : x <= b
  BY Least
<1>2. x \in S
  <2>1. SUFFICES ASSUME x \notin S PROVE FALSE
    OBVIOUS
  <2>2. PICK y \in S : TRUE
    OBVIOUS
  <2>3. x \in Nat /\ \A z \in S : z < x
    BY <1>1, <2>1
  <2>4. x - 1 \in B
    BY <2>2, <2>3
  <2> QED BY <1>1, <2>3, <2>4
<1>3. \E m \in S : \A y \in S : m >= y
  BY <1>1, <1>2
<1> QED BY <1>3 DEF Max

\* A finite set of numbers has its greatest: of the sets of those above one of them
\* there is a smallest.
LEMMA MaxOfFinite ==
    ASSUME NEW S \in SUBSET Nat, S # {}, IsFiniteSet(S)
    PROVE  Max(S) \in S
<1> DEFINE R == StrictSubsetOrdering(Nat)
           Above(x) == {y \in S : y > x}
           T == {Above(x) : x \in S}
<1>1. \A x \in S : Above(x) \in SUBSET Nat /\ IsFiniteSet(Above(x))
  BY FS_Subset
<1>2. T \subseteq FiniteSubsetsOf(Nat) /\ T # {}
  <2> HIDE DEF Above
  <2> QED BY <1>1 DEF FiniteSubsetsOf
<1>3. \E X \in T : \A Y \in T : ~ (<<Y, X>> \in R)
  <2> HIDE DEF T, R
  <2>1. IsWellFoundedOn(R, FiniteSubsetsOf(Nat))
    BY FS_StrictSubsetOrderingWellFounded DEF R
  <2> QED BY <1>2, <2>1, WFMin
<1>4. PICK x \in S : \A y \in S : ~ (<<Above(y), Above(x)>> \in R)
  <2> HIDE DEF Above, R
  <2> QED BY <1>3
<1>5. ASSUME NEW y \in S, ~ (x >= y) PROVE FALSE
  <2>1. Above(y) \subseteq Above(x) /\ y \in Above(x) /\ y \notin Above(y)
    <3>1. S \subseteq Nat /\ y > x
      BY <1>5
    <3>2. (\A z \in S : z > y => z > x) /\ ~ (y > y)
      <4>1. x \in Nat /\ y \in Nat /\ \A z \in S : z \in Nat
        BY <3>1
      <4> QED BY <3>1, <4>1
    <3> QED BY <3>1, <3>2
  <2>2. Above(y) \in SUBSET Nat /\ Above(x) \in SUBSET Nat /\ Above(y) # Above(x)
    BY <2>1
  <2> HIDE DEF Above
  <2> QED BY <1>4, <2>1, <2>2 DEF StrictSubsetOrdering
<1> QED BY <1>5 DEF Max

\* Of two numbers.
LEMMA MaxOfTwo ==
    ASSUME NEW a \in Nat, NEW b \in Nat
    PROVE  Max({a, b}) = IF a <= b THEN b ELSE a
<1>1. \A y \in {a, b} : y <= a + b
  OBVIOUS
<1>2. Max({a, b}) \in {a, b} /\ \A y \in {a, b} : y <= Max({a, b})
  BY <1>1, MaxIs
<1> QED BY <1>2

\* Induction: a set that has 0, and with a number its successor, has them all.
LEMMA Induction ==
    ASSUME NEW A \in SUBSET Nat, 0 \in A, \A n \in A : n + 1 \in A
    PROVE  A = Nat
<1>1. SUFFICES ASSUME Nat \ A # {} PROVE FALSE
  OBVIOUS
<1>2. PICK x \in Nat \ A : \A y \in Nat \ A : x <= y
  BY <1>1, Least
<1>3. x # 0 /\ x - 1 \in Nat
  BY <1>2
<1>4. x - 1 \in A
  BY <1>2, <1>3
<1> QED BY <1>2, <1>4

-----------------------------------------------------------------------------
\* Recursion, as far as n.
Begun(f, z, g, n) == f[0] = z /\ \A k \in 0 .. n - 1 : f[k + 1] = g[k][f[k]]

\* Two functions that begin alike are alike.
LEMMA BegunOnce ==
    ASSUME NEW f, NEW h, NEW z, NEW g, NEW m \in Nat, NEW n \in Nat,
           Begun(f, z, g, m), Begun(h, z, g, n)
    PROVE  \A k \in Nat : k <= m /\ k <= n => f[k] = h[k]
<1> DEFINE A == {k \in Nat : k <= m /\ k <= n => f[k] = h[k]}
<1>1. 0 \in A
  BY DEF Begun
<1>2. ASSUME NEW k \in A PROVE k + 1 \in A
  <2>1. SUFFICES ASSUME k + 1 <= m, k + 1 <= n PROVE f[k + 1] = h[k + 1]
    OBVIOUS
  <2>2. k \in 0 .. m - 1 /\ k \in 0 .. n - 1 /\ f[k] = h[k]
    BY <2>1
  <2> QED BY <2>2 DEF Begun
<1>3. A = Nat
  <2> HIDE DEF A
  <2>1. A \in SUBSET Nat
    BY DEF A
  <2> QED BY <1>1, <1>2, <2>1, Induction
<1> QED BY <1>3

\* A first value and a step for each number define a function.
LEMMA Recursion ==
    ASSUME NEW z \in Nat, NEW g, \A n, v \in Nat : g[n][v] \in Nat
    PROVE  \E f \in [Nat -> Nat] : f[0] = z /\ \A n \in Nat : f[n + 1] = g[n][f[n]]
<1> DEFINE A == {n \in Nat : \E f \in [Nat -> Nat] : Begun(f, z, g, n)}
<1>1. 0 \in A
  <2> DEFINE f == [k \in Nat |-> z]
  <2>1. f \in [Nat -> Nat] /\ Begun(f, z, g, 0)
    BY DEF Begun
  <2> QED BY <2>1
<1>2. ASSUME NEW n \in Nat, n \in A PROVE n + 1 \in A
  <2>1. PICK f \in [Nat -> Nat] : Begun(f, z, g, n)
    BY <1>2
  <2> DEFINE h == [f EXCEPT ![n + 1] = g[n][f[n]]]
  <2>2. h \in [Nat -> Nat] /\ h[n + 1] = g[n][f[n]] /\ \A k \in 0 .. n : h[k] = f[k]
    <3>1. g[n][f[n]] \in Nat /\ n + 1 \in Nat /\ \A k \in 0 .. n : k \in Nat /\ k # n + 1
      OBVIOUS
    <3> QED BY <3>1
  <2>3. ASSUME NEW k \in 0 .. n PROVE h[k + 1] = g[k][h[k]]
    <3>1. CASE k = n
      BY <2>2, <3>1
    <3>2. CASE k # n
      <4>1. k \in 0 .. n - 1 /\ k + 1 \in 0 .. n
        BY <3>2
      <4> QED BY <2>1, <2>2, <4>1 DEF Begun
    <3> QED BY <3>1, <3>2
  <2>4. h[0] = z
    BY <2>1, <2>2 DEF Begun
  <2> HIDE DEF h
  <2>5. Begun(h, z, g, n + 1)
    BY <2>3, <2>4 DEF Begun
  <2>6. \E d \in [Nat -> Nat] : Begun(d, z, g, n + 1)
    BY <2>2, <2>5
  <2>7. n + 1 \in Nat
    OBVIOUS
  <2> QED BY <2>6, <2>7
<1>3. A = Nat
  <2> HIDE DEF A
  <2>1. A \in SUBSET Nat
    BY DEF A
  <2> QED BY <1>1, <1>2, <2>1, Induction
<1> DEFINE F == [n \in Nat |-> CHOOSE f \in [Nat -> Nat] : Begun(f, z, g, n)]
<1>4. \A n \in Nat : F[n] \in [Nat -> Nat] /\ Begun(F[n], z, g, n)
  BY <1>3
<1> DEFINE f == [n \in Nat |-> F[n][n]]
<1> HIDE DEF F
<1>5. f \in [Nat -> Nat] /\ f[0] = z
  BY <1>4 DEF Begun
<1>6. ASSUME NEW n \in Nat PROVE f[n + 1] = g[n][f[n]]
  <2>1. F[n + 1][n + 1] = g[n][F[n + 1][n]]
    <3>1. n + 1 \in Nat /\ n \in 0 .. (n + 1) - 1
      OBVIOUS
    <3>2. Begun(F[n + 1], z, g, n + 1)
      BY <1>4, <3>1
    <3> QED BY <3>1, <3>2 DEF Begun
  <2>2. F[n + 1][n] = F[n][n]
    <3>1. n + 1 \in Nat /\ n <= n + 1 /\ n <= n
      OBVIOUS
    <3>2. Begun(F[n + 1], z, g, n + 1) /\ Begun(F[n], z, g, n)
      BY <1>4, <3>1
    <3>3. \A p, q : \A m \in Nat : n <= m /\ Begun(p, z, g, m) /\ Begun(q, z, g, n) => p[n] = q[n]
      BY BegunOnce, <3>1
    <3> QED BY <3>1, <3>2, <3>3
  <2> QED BY <2>1, <2>2
<1> QED BY <1>5, <1>6
=============================================================================
