----------------------------- MODULE LeastNumber -----------------------------
(***************************************************************************)
(* A non-empty set of numbers below a bound has a least element.  The      *)
(* scans of the code (the first slot that matches, the first call that     *)
(* crosses the end of the ring) are chosen with it.  The library's         *)
(* induction theorems take an operator, which the provers used here cannot *)
(* instantiate; the well-foundedness of strict inclusion on finite sets is *)
(* a first-order fact and is enough.                                       *)
(***************************************************************************)
EXTENDS Naturals, FiniteSetTheorems, WellFoundedInduction, TLAPS

\* The least element, from a least interval 0 .. i.
THEOREM LeastElement ==
  ASSUME NEW n \in Nat, NEW S \in SUBSET (0 .. n), S # {}
  PROVE  \E i \in S : \A j \in S : i <= j
<1> DEFINE U == 0 .. n
           T == {0 .. i : i \in S}
<1>1. IsFiniteSet(U)
  BY FS_Interval
<1>2. IsWellFoundedOn(StrictSubsetOrdering(U), FiniteSubsetsOf(U))
  BY <1>1, FS_StrictSubsetOrderingWellFounded
<1>3. T \subseteq FiniteSubsetsOf(U) /\ T # {}
  <2>1. ASSUME NEW i \in S PROVE 0 .. i \in FiniteSubsetsOf(U)
    <3>1. IsFiniteSet(0 .. i)
      BY FS_Interval
    <3>2. 0 .. i \in SUBSET U
      OBVIOUS
    <3> QED
      BY <3>1, <3>2 DEF FiniteSubsetsOf
  <2> QED
    BY <2>1
<1> HIDE DEF T
<1>4. PICK x \in T : \A y \in T : ~ (<<y, x>> \in StrictSubsetOrdering(U))
  BY <1>2, <1>3, WFMin
<1>5. PICK i \in S : x = 0 .. i
  BY DEF T
<1>6. ASSUME NEW j \in S, j < i PROVE FALSE
  <2>1. 0 .. j \in T
    BY DEF T
  <2>2. <<0 .. j, x>> \in StrictSubsetOrdering(U)
    BY <1>5, <1>6 DEF StrictSubsetOrdering
  <2> QED
    BY <1>4, <2>1, <2>2
<1> QED
  BY <1>6

\* What holds of 0 and goes on from each number to the next holds of all up to n.
THEOREM InductionUpTo ==
  ASSUME NEW n \in Nat, NEW S \in SUBSET (0 .. n), 0 \in S,
         \A i \in 1 .. n : i - 1 \in S => i \in S
  PROVE  S = 0 .. n
<1> SUFFICES ASSUME S # 0 .. n PROVE FALSE
  OBVIOUS
<1> DEFINE T == (0 .. n) \ S
<1>1. T \in SUBSET (0 .. n) /\ T # {}
  OBVIOUS
<1>2. PICK i \in T : \A j \in T : i <= j
  BY <1>1, LeastElement
<1>3. i \in 1 .. n
  BY <1>2
<1>4. i - 1 \in 0 .. n /\ ~ (i <= i - 1)
  BY <1>3
<1>5. i - 1 \in S
  BY <1>2, <1>4
<1> QED
  BY <1>2, <1>3, <1>5

\* A function is given by its first value and by what each value makes of the one before.
Recurs(f, n, first, next) ==
  f[0] = first /\ \A i \in 1 .. n : f[i] = next[i][f[i - 1]]

\* There is such a function.
THEOREM RecursionUpTo ==
  ASSUME NEW n \in Nat, NEW V, NEW first \in V, NEW next \in [1 .. n -> [V -> V]]
  PROVE  \E f \in [0 .. n -> V] : Recurs(f, n, first, next)
<1> DEFINE Up(m, f) == Recurs(f, m, first, next)
           S == {m \in 0 .. n : \E f \in [0 .. n -> V] : Up(m, f)}
<1>1. 0 \in S
  <2>1. Up(0, [i \in 0 .. n |-> first]) /\ [i \in 0 .. n |-> first] \in [0 .. n -> V]
    BY DEF Recurs
  <2>2. 0 \in 0 .. n
    OBVIOUS
  <2> HIDE DEF Up
  <2> QED
    BY <2>1, <2>2
<1>2. ASSUME NEW m \in 1 .. n, m - 1 \in S PROVE m \in S
  <2>1. PICK f \in [0 .. n -> V] : Up(m - 1, f)
    BY <1>2
  <2> DEFINE g == [f EXCEPT ![m] = next[m][f[m - 1]]]
  <2>2. m \in 0 .. n /\ m - 1 \in 0 .. n
    OBVIOUS
  <2>3. g \in [0 .. n -> V]
    BY <2>2
  <2>4. \A i \in 0 .. n : i # m => g[i] = f[i]
    OBVIOUS
  <2>5. g[m] = next[m][f[m - 1]]
    BY <2>2
  <2> HIDE DEF g
  <2>6. g[0] = first
    BY <2>1, <2>4 DEF Recurs
  <2>7. ASSUME NEW i \in 1 .. m PROVE g[i] = next[i][g[i - 1]]
    <3>1. i - 1 \in 0 .. n /\ i - 1 # m
      OBVIOUS
    <3>2. g[i - 1] = f[i - 1]
      BY <2>4, <3>1
    <3>3. CASE i = m
      BY <2>5, <3>2, <3>3
    <3>4. CASE i # m
      <4>1. i \in 1 .. m - 1 /\ i \in 0 .. n
        BY <3>4
      <4>2. g[i] = f[i] /\ f[i] = next[i][f[i - 1]]
        BY <2>1, <2>4, <3>4, <4>1 DEF Recurs
      <4> QED
        BY <3>2, <4>2
    <3> QED
      BY <3>3, <3>4
  <2>8. Up(m, g)
    BY <2>6, <2>7 DEF Recurs
  <2> HIDE DEF Up
  <2> QED
    BY <2>2, <2>3, <2>8
<1>3. S = 0 .. n
  <2>1. S \in SUBSET (0 .. n)
    OBVIOUS
  <2> HIDE DEF S
  <2> QED
    BY <1>1, <1>2, <2>1, InductionUpTo
<1>4. n \in S
  <2> HIDE DEF S
  <2> QED
    BY <1>3
<1> QED
  BY <1>4

\* A non-empty set of numbers up to a bound has a greatest element, too.
THEOREM GreatestElement ==
  ASSUME NEW n \in Nat, NEW S \in SUBSET (0 .. n), S # {}
  PROVE  \E i \in S : \A j \in S : i >= j
<1> DEFINE T == {n - i : i \in S}
<1>1. T \in SUBSET (0 .. n) /\ T # {}
  <2>1. ASSUME NEW i \in S PROVE n - i \in 0 .. n
    OBVIOUS
  <2>2. PICK i \in S : TRUE
    OBVIOUS
  <2>3. n - i \in T
    OBVIOUS
  <2> QED
    BY <2>1, <2>3
<1>2. PICK t \in T : \A u \in T : t <= u
  <2> HIDE DEF T
  <2> QED
    BY <1>1, LeastElement
<1>3. PICK i \in S : t = n - i
  OBVIOUS
<1>4. \A j \in S : i >= j
  <2> SUFFICES ASSUME NEW j \in S PROVE i >= j
    OBVIOUS
  <2>1. n - j \in T
    OBVIOUS
  <2>2. n - i <= n - j
    BY <1>2, <1>3, <2>1
  <2>3. i \in 0 .. n /\ j \in 0 .. n
    OBVIOUS
  <2> HIDE DEF T
  <2> QED
    BY <2>2, <2>3
<1> QED
  BY <1>4

\* Finitely many numbers have a bound.
THEOREM BoundUpTo ==
  ASSUME NEW n \in Nat, NEW f \in [1 .. n -> Nat]
  PROVE  \E b \in Nat : \A i \in 1 .. n : f[i] <= b
<1> DEFINE S == {m \in 0 .. n : \E b \in Nat : \A i \in 1 .. m : f[i] <= b}
<1>1. 0 \in S
  <2>1. 0 \in 0 .. n /\ 0 \in Nat /\ 1 .. 0 = {}
    OBVIOUS
  <2> QED
    BY <2>1
<1>2. ASSUME NEW m \in 1 .. n, m - 1 \in S PROVE m \in S
  <2>1. PICK b \in Nat : \A i \in 1 .. m - 1 : f[i] <= b
    BY <1>2
  <2>2. PICK c \in Nat : c >= b /\ c >= f[m]
    <3>1. f[m] \in Nat
      OBVIOUS
    <3>2. b >= f[m] \/ f[m] >= b
      BY <3>1
    <3>3. b >= b /\ f[m] >= f[m]
      BY <3>1
    <3> QED
      BY <3>1, <3>2, <3>3
  <2>3. ASSUME NEW i \in 1 .. m PROVE f[i] <= c
    <3>1. f[i] \in Nat
      OBVIOUS
    <3>2. i = m \/ i \in 1 .. m - 1
      OBVIOUS
    <3> QED
      BY <2>1, <2>2, <3>1, <3>2
  <2>4. m \in 0 .. n
    OBVIOUS
  <2> QED
    BY <2>3, <2>4
<1>3. S = 0 .. n
  <2>1. S \in SUBSET (0 .. n)
    OBVIOUS
  <2> HIDE DEF S
  <2> QED
    BY <1>1, <1>2, <2>1, InductionUpTo
<1>4. n \in S
  <2> HIDE DEF S
  <2> QED
    BY <1>3
<1> QED
  BY <1>4

=============================================================================
