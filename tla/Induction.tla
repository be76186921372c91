------------------------------ MODULE Induction -----------------------------
(***************************************************************************)
(* Induction and recursion over the natural numbers.  A claim is stated as *)
(* the set of the numbers it holds for, and a step as a function: unlike   *)
(* an operator, these can be given to a lemma.                             *)
(***************************************************************************)
EXTENDS Integers, FiniteSets, FiniteSetTheorems, TLAPS

\* Induction for a set of numbers, from the pigeonhole principle.
LEMMA SetInduction ==
    ASSUME NEW S, 0 \in S, \A n \in Nat : n \in S => n + 1 \in S
    PROVE  \A n \in Nat : n \in S
<1> SUFFICES ASSUME NEW n \in Nat, n \notin S
             PROVE  FALSE
  OBVIOUS
<1> DEFINE T == {k \in 0..n : k \notin S}
           U == T \ {n}
           f == [k \in T |-> k - 1]
<1>1. IsFiniteSet(0..n)
  BY FS_Interval
<1>2. IsFiniteSet(T)
  BY <1>1, FS_Subset
<1>3. n \in T
  OBVIOUS
<1>4. IsFiniteSet(U) /\ Cardinality(U) < Cardinality(T)
  <2>1. IsFiniteSet(U) /\ Cardinality(U) = Cardinality(T) - 1
    BY <1>2, <1>3, FS_RemoveElement
  <2>2. Cardinality(T) \in Nat
    BY <1>2, FS_CardinalityType
  <2>3. QED
    BY <2>1, <2>2
<1>5. ASSUME NEW k \in T
      PROVE  k - 1 \in U
  <2>1. k \in 0..n /\ k \notin S /\ k # 0
    OBVIOUS
  <2>2. k - 1 \in Nat /\ k - 1 \in 0..n /\ k - 1 # n /\ (k - 1) + 1 = k
    BY <2>1
  <2>3. k - 1 \notin S
    BY <2>1, <2>2
  <2>4. QED
    BY <2>2, <2>3
<1>6. f \in [T -> U]
  BY <1>5
<1> HIDE DEF U
<1>7. \E x, y \in T : x # y /\ f[x] = f[y]
  <2> HIDE DEF T, f
  <2>1. QED
    BY <1>2, <1>4, <1>6, FS_PigeonHole
<1>8. PICK x, y \in T : x # y /\ f[x] = f[y]
  BY <1>7
<1>9. x \in 0..n /\ y \in 0..n /\ x - 1 = y - 1
  BY <1>8
<1>10. QED
  BY <1>8, <1>9

\* A function on numbers that starts from b and goes on by g.
Recursive(f, S, b, g) ==
    f \in [Nat -> S] /\ f[0] = b /\ \A n \in Nat \ {0} : f[n] = g[n][f[n - 1]]

\* There is one.
LEMMA Recursion ==
    ASSUME NEW S, NEW b \in S, NEW g, \A n \in Nat : \A s \in S : g[n][s] \in S
    PROVE  \E f : Recursive(f, S, b, g)
<1> DEFINE Is(f, n) == f \in [0..n -> S] /\ f[0] = b /\ \A i \in 1..n : f[i] = g[i][f[i - 1]]
           First(n) == CHOOSE f : Is(f, n)
<1>1. \A n \in Nat : \E f : Is(f, n)
  <2> DEFINE T == {n \in Nat : \E f : Is(f, n)}
  <2>1. 0 \in T
    <3>1. Is([i \in 0..0 |-> b], 0)
      OBVIOUS
    <3>2. QED
      BY <3>1
  <2>2. ASSUME NEW n \in Nat, n \in T
        PROVE  n + 1 \in T
    <3>1. PICK f : Is(f, n)
      BY <2>2
    <3> DEFINE h == [i \in 0..(n + 1) |-> IF i = n + 1 THEN g[i][f[n]] ELSE f[i]]
    <3>2. g[n + 1][f[n]] \in S
      BY <3>1
    <3>3. h \in [0..(n + 1) -> S]
      BY <3>1, <3>2
    <3>4. h[0] = b
      BY <3>1
    <3>5. ASSUME NEW i \in 1..(n + 1)
          PROVE  h[i] = g[i][h[i - 1]]
      <4>1. CASE i = n + 1
        <5>1. h[i] = g[i][f[n]] /\ h[i - 1] = f[n]
          BY <4>1
        <5>2. QED
          BY <5>1
      <4>2. CASE i # n + 1
        <5>1. i \in 1..n /\ h[i] = f[i] /\ h[i - 1] = f[i - 1]
          BY <4>2
        <5>2. QED
          BY <3>1, <5>1
      <4>3. QED
        BY <4>1, <4>2
    <3> HIDE DEF h
    <3>6. Is(h, n + 1)
      BY <3>3, <3>4, <3>5
    <3>7. QED
      BY <3>6
  <2> HIDE DEF T
  <2>3. \A n \in Nat : n \in T
    BY <2>1, <2>2, SetInduction
  <2>4. QED
    BY <2>3 DEF T
<1>2. \A n \in Nat : Is(First(n), n)
  BY <1>1
<1> HIDE DEF First
<1>3. ASSUME NEW n \in Nat
      PROVE  First(n + 1)[n] = First(n)[n]
  <2> DEFINE f == First(n)
             h == First(n + 1)
             T == {i \in Nat : i <= n => h[i] = f[i]}
  <2>1. Is(f, n) /\ Is(h, n + 1)
    <3> HIDE DEF Is
    <3>1. n + 1 \in Nat
      OBVIOUS
    <3>2. QED
      BY <1>2, <3>1
  <2> HIDE DEF f, h
  <2>2. 0 \in T
    BY <2>1
  <2>3. ASSUME NEW i \in Nat, i \in T
        PROVE  i + 1 \in T
    <3>1. CASE i + 1 <= n
      <4>1. h[i] = f[i] /\ i + 1 \in 1..n /\ i + 1 \in 1..(n + 1) /\ (i + 1) - 1 = i
        BY <2>3, <3>1
      <4>2. f[i + 1] = g[i + 1][f[i]] /\ h[i + 1] = g[i + 1][h[i]]
        BY <2>1, <4>1
      <4>3. QED
        BY <4>1, <4>2
    <3>2. CASE ~(i + 1 <= n)
      BY <3>2
    <3>3. QED
      BY <3>1, <3>2
  <2> HIDE DEF T
  <2>4. \A i \in Nat : i \in T
    BY <2>2, <2>3, SetInduction
  <2>5. n \in T
    BY <2>4
  <2>6. QED
    BY <2>5 DEF T, f, h
<1> DEFINE F == [n \in Nat |-> First(n)[n]]
<1>4. F \in [Nat -> S]
  <2>1. ASSUME NEW n \in Nat
        PROVE  First(n)[n] \in S
    <3>1. Is(First(n), n)
      BY <1>2
    <3>2. QED
      BY <3>1
  <2>2. QED
    BY <2>1
<1>5. F[0] = b
  <2>1. Is(First(0), 0)
    BY <1>2
  <2>2. QED
    BY <2>1
<1>6. ASSUME NEW n \in Nat \ {0}
      PROVE  F[n] = g[n][F[n - 1]]
  <2>1. Is(First(n), n)
    BY <1>2
  <2>2. First((n - 1) + 1)[n - 1] = First(n - 1)[n - 1] /\ (n - 1) + 1 = n
    <3>1. n - 1 \in Nat
      OBVIOUS
    <3>2. QED
      BY <1>3, <3>1
  <2>3. First(n)[n] = g[n][First(n)[n - 1]]
    BY <2>1
  <2>4. F[n] = First(n)[n] /\ F[n - 1] = First(n - 1)[n - 1]
    OBVIOUS
  <2>5. QED
    BY <2>2, <2>3, <2>4
<1> HIDE DEF F
<1>7. QED
  BY <1>4, <1>5, <1>6 DEF Recursive
=============================================================================
