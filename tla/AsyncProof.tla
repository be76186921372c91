----------------------------- MODULE AsyncProof -----------------------------
(***************************************************************************)
(* Theorems about Async, whatever the scripts, the keys, their hashes and  *)
(* the bounds.  The first part is about the table of Dict: what is found   *)
(* in it after an entry is added, set or deleted, and that it grows        *)
(* without losing one.  The second is the types.  The third is Control:    *)
(* where a callback may be, from which it follows that none is forgotten.  *)
(* The fourth is Joint, which relates the context to what is on its way    *)
(* from Redis and to what Redis has not served: every reply finds its      *)
(* callback, and the entries count what is to come.                        *)
(***************************************************************************)
EXTENDS Async, Induction, FiniteSetTheorems, SequenceTheorems, TLAPS
-----------------------------------------------------------------------------
(* The table of dict.c.                                                     *)

\* No two entries of the sequence have the same key.
Distinct(s) == \A i, j \in DOMAIN s : s[i].key = s[j].key => i = j

\* What dictNext goes through: chain after chain.
Joined(f, t) ==
    /\ f[0] = << >>
    /\ \A n \in 1..Len(t) : f[n] = f[n - 1] \o t[n]

LEMMA EntriesAre ==
    ASSUME NEW E, NEW ht, ht.table \in Seq(Seq(E))
    PROVE  /\ Entries(ht) \in Seq(E)
           /\ \E f \in [0..Len(ht.table) -> Seq(E)] :
                Joined(f, ht.table) /\ Entries(ht) = f[Len(ht.table)]
<1> DEFINE t == ht.table
           N == Len(t)
           S == Seq(E)
           b == << >>
           g == [n \in Nat |-> [s \in S |-> IF n \in 1..N THEN s \o t[n] ELSE s]]
           Is(f) == f = [n \in 0..N |-> IF n = 0 THEN << >> ELSE f[n - 1] \o t[n]]
           u == CHOOSE f : Is(f)
<1>1. /\ N \in Nat /\ t \in Seq(Seq(E)) /\ << >> \in Seq(E)
      /\ \A n \in 1..N : t[n] \in Seq(E)
  OBVIOUS
<1> HIDE DEF N, t
<1>2. b \in S /\ \A n \in Nat : \A s \in S : g[n][s] \in S
  BY <1>1
<1>3. PICK F : Recursive(F, S, b, g)
  <2> HIDE DEF g, S, b
  <2>1. QED
    BY <1>2, Recursion
<1>3a. F \in [Nat -> S] /\ F[0] = b /\ \A n \in Nat \ {0} : F[n] = g[n][F[n - 1]]
  BY <1>3 DEF Recursive
<1> DEFINE h == [n \in 0..N |-> F[n]]
<1>4. Is(h)
  <2>1. ASSUME NEW n \in 0..N
        PROVE  h[n] = IF n = 0 THEN << >> ELSE h[n - 1] \o t[n]
    <3>1. CASE n = 0
      BY <1>3a, <2>1, <3>1
    <3>2. CASE n # 0
      <4>1. n - 1 \in Nat /\ n \in Nat \ {0} /\ n \in 1..N /\ n - 1 \in 0..N
        BY <1>1, <2>1, <3>2
      <4>2. F[n] = F[n - 1] \o t[n]
        <5>1. F[n - 1] \in S
          BY <1>3a, <4>1
        <5>2. F[n] = g[n][F[n - 1]]
          BY <1>3a, <4>1
        <5>3. QED
          BY <4>1, <5>1, <5>2
      <4>3. QED
        BY <3>2, <4>1, <4>2
    <3>3. QED
      BY <3>1, <3>2
  <2>2. QED
    BY <2>1
<1> HIDE DEF h
<1>5. Is(u)
  BY <1>4
<1>6. Entries(ht) = u[N]
  BY DEF Entries, N, t
<1> HIDE DEF u
<1>7. Joined(u, t)
  <2>1. u[0] = << >>
    BY <1>1, <1>5
  <2>2. ASSUME NEW n \in 1..N
        PROVE  u[n] = u[n - 1] \o t[n]
    <3>1. n \in 0..N /\ n # 0
      BY <1>1
    <3>2. QED
      BY <1>5, <3>1
  <2>3. QED
    BY <2>1, <2>2 DEF Joined, N
<1>8. u \in [0..N -> Seq(E)]
  <2>1. DOMAIN u = 0..N /\ u = [n \in 0..N |-> u[n]]
    BY <1>5
  <2> DEFINE T == {n \in Nat : n <= N => u[n] \in Seq(E)}
  <2>2. 0 \in T
    BY <1>1, <1>7 DEF Joined
  <2>3. ASSUME NEW n \in Nat, n \in T
        PROVE  n + 1 \in T
    <3>1. CASE n + 1 <= N
      <4>1. n + 1 \in 1..N /\ (n + 1) - 1 = n /\ n <= N
        BY <1>1, <3>1
      <4>2. u[n + 1] = u[n] \o t[n + 1]
        BY <1>7, <4>1 DEF Joined, N
      <4>3. u[n] \in Seq(E) /\ t[n + 1] \in Seq(E)
        BY <1>1, <2>3, <4>1
      <4>4. u[n + 1] \in Seq(E)
        BY <4>2, <4>3
      <4>5. QED
        BY <4>4
    <3>2. QED
      BY <3>1
  <2> HIDE DEF T
  <2>4. \A n \in Nat : n \in T
    BY <2>2, <2>3, SetInduction
  <2>5. ASSUME NEW n \in 0..N
        PROVE  u[n] \in Seq(E)
    BY <1>1, <2>4 DEF T
  <2>6. QED
    BY <2>1, <2>5
<1>9. N \in 0..N
  BY <1>1
<1>10. QED
  BY <1>6, <1>7, <1>8, <1>9 DEF N, t

\* The entries are those of the chains.
LEMMA EntriesRange ==
    ASSUME NEW E, NEW ht, ht.table \in Seq(Seq(E))
    PROVE  Range(Entries(ht)) = UNION {Range(ht.table[i]) : i \in DOMAIN ht.table}
<1> DEFINE t == ht.table
           N == Len(t)
<1>1. /\ N \in Nat /\ t \in Seq(Seq(E)) /\ DOMAIN t = 1..N
      /\ \A n \in 1..N : t[n] \in Seq(E)
  OBVIOUS
<1>2. PICK f \in [0..N -> Seq(E)] : Joined(f, t) /\ Entries(ht) = f[N]
  BY EntriesAre
<1>3a. f[0] = << >> /\ \A n \in 1..N : f[n] = f[n - 1] \o t[n]
  BY <1>2 DEF Joined
<1> HIDE DEF N, t
<1> DEFINE T == {n \in Nat : n <= N => Range(f[n]) = UNION {Range(t[i]) : i \in 1..n}}
<1>3. 0 \in T
  BY <1>3a DEF Range
<1>4. ASSUME NEW n \in Nat, n \in T
      PROVE  n + 1 \in T
  <2>1. CASE n + 1 <= N
    <3>1. n + 1 \in 1..N /\ (n + 1) - 1 = n /\ n \in 0..N /\ f[n] \in Seq(E) /\ t[n + 1] \in Seq(E)
      BY <1>1, <1>2, <2>1
    <3>2. f[n + 1] = f[n] \o t[n + 1]
      BY <1>3a, <3>1
    <3>3. Range(f[n + 1]) = Range(f[n]) \cup Range(t[n + 1])
      BY <3>1, <3>2, RangeConcatenation
    <3>4. Range(f[n]) = UNION {Range(t[i]) : i \in 1..n}
      BY <1>1, <1>4, <2>1
    <3>5. 1..(n + 1) = (1..n) \cup {n + 1}
      OBVIOUS
    <3>6. UNION {Range(t[i]) : i \in 1..(n + 1)}
            = (UNION {Range(t[i]) : i \in 1..n}) \cup Range(t[n + 1])
      BY <3>5
    <3>7. QED
      BY <3>3, <3>4, <3>6
  <2>2. QED
    BY <2>1
<1> HIDE DEF T
<1>5. \A n \in Nat : n \in T
  BY <1>3, <1>4, SetInduction
<1>6. Range(f[N]) = UNION {Range(t[i]) : i \in 1..N}
  <2>1. N \in T
    BY <1>1, <1>5
  <2>2. QED
    BY <1>1, <2>1 DEF T
<1>7. QED
  BY <1>1, <1>2, <1>6 DEF t

LEMMA DistinctConcat ==
    ASSUME NEW E, NEW s \in Seq(E), NEW t \in Seq(E)
    PROVE  Distinct(s \o t) <=>
             /\ Distinct(s) /\ Distinct(t)
             /\ \A x \in Range(s), y \in Range(t) : x.key # y.key
<1> DEFINE st == s \o t
           m == Len(s)
           n == Len(t)
<1>1. /\ m \in Nat /\ n \in Nat /\ DOMAIN s = 1..m /\ DOMAIN t = 1..n /\ DOMAIN st = 1..(m + n)
      /\ \A i \in 1..m : st[i] = s[i] /\ i \in 1..(m + n)
      /\ \A i \in 1..n : st[m + i] = t[i] /\ m + i \in 1..(m + n)
      /\ \A i \in 1..(m + n) : i \in 1..m \/ (i - m \in 1..n /\ i = m + (i - m))
  OBVIOUS
<1> HIDE DEF st, m, n
<1>2. ASSUME Distinct(st)
      PROVE  /\ Distinct(s) /\ Distinct(t)
             /\ \A x \in Range(s), y \in Range(t) : x.key # y.key
  <2>1. Distinct(s)
    BY <1>1, <1>2 DEF Distinct
  <2>2. Distinct(t)
    <3>1. ASSUME NEW i \in 1..n, NEW j \in 1..n, t[i].key = t[j].key
          PROVE  i = j
      <4>1. st[m + i].key = st[m + j].key /\ m + i \in DOMAIN st /\ m + j \in DOMAIN st
        BY <1>1, <3>1
      <4>2. m + i = m + j
        BY <1>2, <4>1 DEF Distinct
      <4>3. QED
        BY <1>1, <4>2
    <3>2. QED
      BY <1>1, <3>1 DEF Distinct
  <2>3. ASSUME NEW i \in 1..m, NEW j \in 1..n
        PROVE  s[i].key # t[j].key
    <3>1. st[i] = s[i] /\ st[m + j] = t[j] /\ i \in DOMAIN st /\ m + j \in DOMAIN st /\ i # m + j
      BY <1>1
    <3>2. QED
      BY <1>2, <3>1 DEF Distinct
  <2>4. QED
    BY <1>1, <2>1, <2>2, <2>3 DEF Range
<1>3. ASSUME Distinct(s), Distinct(t), \A x \in Range(s), y \in Range(t) : x.key # y.key
      PROVE  Distinct(st)
  <2>1. SUFFICES ASSUME NEW i \in 1..(m + n), NEW j \in 1..(m + n), st[i].key = st[j].key
                 PROVE  i = j
    BY <1>1 DEF Distinct
  <2>2. \A k \in 1..m, l \in 1..n : s[k].key # t[l].key
    BY <1>1, <1>3 DEF Range
  <2>3. CASE i \in 1..m /\ j \in 1..m
    BY <1>1, <1>3, <2>1, <2>3 DEF Distinct
  <2>4. CASE i \notin 1..m /\ j \notin 1..m
    <3>1. i - m \in 1..n /\ j - m \in 1..n /\ st[i] = t[i - m] /\ st[j] = t[j - m]
      BY <1>1, <2>4
    <3>2. i - m = j - m
      BY <1>1, <1>3, <2>1, <3>1 DEF Distinct
    <3>3. QED
      BY <1>1, <3>2
  <2>5. CASE i \in 1..m /\ j \notin 1..m
    <3>1. j - m \in 1..n /\ st[j] = t[j - m] /\ st[i] = s[i]
      BY <1>1, <2>5
    <3>2. QED
      BY <2>1, <2>2, <2>5, <3>1
  <2>6. CASE i \notin 1..m /\ j \in 1..m
    <3>1. i - m \in 1..n /\ st[i] = t[i - m] /\ st[j] = s[j]
      BY <1>1, <2>6
    <3>2. s[j].key # t[i - m].key
      BY <2>2, <2>6, <3>1
    <3>3. QED
      BY <2>1, <3>1, <3>2
  <2>7. QED
    BY <2>3, <2>4, <2>5, <2>6
<1>4. QED
  BY <1>2, <1>3 DEF st

\* When no key is in two chains, no key is in two entries if it is in no two
\* of a chain.
LEMMA EntriesDistinct ==
    ASSUME NEW E, NEW h, h.table \in Seq(Seq(E)),
           \A i, j \in DOMAIN h.table : \A x \in Range(h.table[i]), y \in Range(h.table[j]) :
               x.key = y.key => i = j
    PROVE  Distinct(Entries(h)) <=> \A i \in DOMAIN h.table : Distinct(h.table[i])
<1> DEFINE t == h.table
           N == Len(t)
<1>1. /\ N \in Nat /\ DOMAIN t = 1..N
      /\ \A n \in 1..N : t[n] \in Seq(E)
      /\ \A i, j \in 1..N : \A x \in Range(t[i]), y \in Range(t[j]) : x.key = y.key => i = j
  OBVIOUS
<1>2. PICK f \in [0..N -> Seq(E)] : Joined(f, t) /\ Entries(h) = f[N]
  BY EntriesAre
<1>3. f[0] = << >> /\ \A n \in 1..N : f[n] = f[n - 1] \o t[n]
  BY <1>2 DEF Joined
<1> HIDE DEF N, t
<1> DEFINE T == {n \in Nat : n <= N =>
                    /\ \A x \in Range(f[n]) : \E i \in 1..n : x \in Range(t[i])
                    /\ Distinct(f[n]) <=> \A i \in 1..n : Distinct(t[i])}
<1>4. 0 \in T
  <2>1. Range(<< >>) = {} /\ Distinct(<< >>)
    BY DEF Range, Distinct
  <2>2. QED
    BY <1>3, <2>1
<1>5. ASSUME NEW n \in Nat, n \in T
      PROVE  n + 1 \in T
  <2>1. CASE n + 1 <= N
    <3>1. n + 1 \in 1..N /\ (n + 1) - 1 = n /\ n \in 0..N /\ n <= N
      BY <1>1, <2>1
    <3>2. f[n] \in Seq(E) /\ t[n + 1] \in Seq(E) /\ f[n + 1] = f[n] \o t[n + 1]
      BY <1>1, <1>2, <1>3, <3>1
    <3>3. /\ \A x \in Range(f[n]) : \E i \in 1..n : x \in Range(t[i])
          /\ Distinct(f[n]) <=> \A i \in 1..n : Distinct(t[i])
      BY <1>5, <3>1
    <3>4. 1..(n + 1) = (1..n) \cup {n + 1} /\ n + 1 \notin 1..n /\ 1..n \subseteq 1..N
      BY <1>1, <2>1
    <3>5. Range(f[n + 1]) = Range(f[n]) \cup Range(t[n + 1])
      BY <3>2, RangeConcatenation
    <3>6. \A x \in Range(f[n + 1]) : \E i \in 1..(n + 1) : x \in Range(t[i])
      BY <3>3, <3>4, <3>5
    <3>7. \A x \in Range(f[n]), y \in Range(t[n + 1]) : x.key # y.key
      BY <1>1, <3>1, <3>3, <3>4
    <3>8. Distinct(f[n + 1]) <=> Distinct(f[n]) /\ Distinct(t[n + 1])
      BY <3>2, <3>7, DistinctConcat
    <3>9. Distinct(f[n + 1]) <=> \A i \in 1..(n + 1) : Distinct(t[i])
      BY <3>3, <3>4, <3>8
    <3>10. QED
      BY <3>6, <3>9
  <2>2. QED
    BY <2>1
<1> HIDE DEF T
<1>6. N \in T
  BY <1>1, <1>4, <1>5, SetInduction
<1>7. Distinct(f[N]) <=> \A i \in 1..N : Distinct(t[i])
  BY <1>1, <1>6 DEF T
<1>8. QED
  BY <1>1, <1>2, <1>7 DEF t

\* When the keys differ there are as many entries as places.
LEMMA DistinctLength ==
    ASSUME NEW E, NEW s \in Seq(E), Distinct(s)
    PROVE  IsFiniteSet(Range(s)) /\ Cardinality(Range(s)) = Len(s)
<1>1. /\ DOMAIN s = 1..Len(s) /\ Len(s) \in Nat
      /\ IsFiniteSet(1..Len(s)) /\ Cardinality(1..Len(s)) = Len(s)
  <2>1. Len(s) \in Nat /\ Len(s) \in Int /\ 1 \in Int /\ DOMAIN s = 1..Len(s)
    OBVIOUS
  <2>2. QED
    BY <2>1, FS_Interval
<1> DEFINE f == [i \in 1..Len(s) |-> s[i]]
<1>2. f \in Bijection(1..Len(s), Range(s))
  BY <1>1 DEF Distinct, Range, Bijection, Injection, Surjection, IsInjective
<1>3. ExistsBijection(1..Len(s), Range(s))
  BY <1>2 DEF ExistsBijection
<1>4. QED
  BY <1>1, <1>3, FS_Bijection

LEMMA DoubledIs ==
    /\ Doubled \in [Nat -> Nat] /\ Doubled[0] = DICT_HT_INITIAL_SIZE
    /\ \A k \in Nat : Doubled[k + 1] = 2 * Doubled[k]
<1> DEFINE b == DICT_HT_INITIAL_SIZE
           g == [k \in Nat |-> [n \in Nat |-> 2 * n]]
           Is(f) == f = [k \in Nat |-> IF k = 0 THEN b ELSE 2 * f[k - 1]]
<1>1. b \in Nat /\ \A k \in Nat : \A n \in Nat : g[k][n] \in Nat
  BY DictAssumption
<1>2. PICK F : Recursive(F, Nat, b, g)
  <2> HIDE DEF b, g
  <2>1. QED
    BY <1>1, Recursion
<1>3. F \in [Nat -> Nat] /\ F[0] = b /\ \A k \in Nat \ {0} : F[k] = 2 * F[k - 1]
  <2>1. ASSUME NEW k \in Nat \ {0}
        PROVE  F[k] = 2 * F[k - 1]
    <3>1. k - 1 \in Nat /\ F[k - 1] \in Nat /\ F[k] = g[k][F[k - 1]]
      BY <1>2 DEF Recursive
    <3>2. QED
      BY <3>1
  <2>2. QED
    BY <1>2, <2>1 DEF Recursive
<1> HIDE DEF b
<1>4. Is(F)
  BY <1>3
<1>5. Is(CHOOSE f : Is(f))
  BY <1>4
<1>6. Doubled = [k \in Nat |-> IF k = 0 THEN b ELSE 2 * Doubled[k - 1]]
  BY <1>5 DEF Doubled, b
<1> DEFINE T == {n \in Nat : Doubled[n] = F[n]}
<1>7. 0 \in T
  BY <1>3, <1>6
<1>8. ASSUME NEW n \in Nat, n \in T
      PROVE  n + 1 \in T
  <2>1. n + 1 \in Nat \ {0} /\ (n + 1) - 1 = n
    OBVIOUS
  <2>2. Doubled[n + 1] = 2 * Doubled[n] /\ F[n + 1] = 2 * F[n]
    BY <1>3, <1>6, <2>1
  <2>3. QED
    BY <1>8, <2>2
<1> HIDE DEF T
<1>9. \A n \in Nat : n \in T
  BY <1>7, <1>8, SetInduction
<1>10. DOMAIN Doubled = Nat /\ \A n \in Nat : Doubled[n] = F[n]
  BY <1>6, <1>9 DEF T
<1>11. Doubled = F
  BY <1>3, <1>6, <1>10
<1>12. ASSUME NEW k \in Nat
       PROVE  F[k + 1] = 2 * F[k]
  <2>1. k + 1 \in Nat \ {0} /\ (k + 1) - 1 = k
    OBVIOUS
  <2>2. QED
    BY <1>3, <2>1
<1>13. QED
  BY <1>3, <1>11, <1>12 DEF b

LEMMA DoubledGrows ==
    \A k \in Nat : Doubled[k] > k /\ \A j \in 0..(k - 1) : Doubled[j] < Doubled[k]
<1> DEFINE T == {k \in Nat : Doubled[k] > k /\ \A j \in 0..(k - 1) : Doubled[j] < Doubled[k]}
<1>1. 0 \in T
  BY DoubledIs, DictAssumption
<1>2. ASSUME NEW k \in Nat, k \in T
      PROVE  k + 1 \in T
  <2>1. /\ Doubled[k + 1] = 2 * Doubled[k] /\ Doubled[k] \in Nat /\ Doubled[k] > k
        /\ \A j \in 0..(k - 1) : Doubled[j] < Doubled[k] /\ Doubled[j] \in Nat
    BY <1>2, DoubledIs
  <2>2. Doubled[k + 1] > k + 1 /\ Doubled[k] < Doubled[k + 1]
    BY <2>1
  <2>3. ASSUME NEW j \in 0..((k + 1) - 1)
        PROVE  Doubled[j] < Doubled[k + 1]
    <3>1. CASE j = k
      BY <2>2, <3>1
    <3>2. CASE j # k
      <4>1. j \in 0..(k - 1)
        BY <3>2
      <4>2. QED
        BY <2>1, <4>1
    <3>3. QED
      BY <3>1, <3>2
  <2>4. QED
    BY <2>2, <2>3
<1> HIDE DEF T
<1>3. \A k \in Nat : k \in T
  BY <1>1, <1>2, SetInduction
<1>4. QED
  BY <1>3 DEF T

\* The power: the size of a table is one that it does not change.
LEMMA NextPowerIs ==
    ASSUME NEW size \in Nat
    PROVE  /\ dictNextPower(size) \in Nat \ {0}
           /\ dictNextPower(dictNextPower(size)) = dictNextPower(size)
<1> DEFINE Least(n, k) == k \in 0..n /\ Doubled[k] >= n /\ \A j \in 0..(k - 1) : Doubled[j] < n
           Power(n) == CHOOSE k \in 0..n : Doubled[k] >= n /\ \A j \in 0..(k - 1) : Doubled[j] < n
<1>1. ASSUME NEW n \in Nat
      PROVE  Least(n, Power(n))
  <2> DEFINE T == {k \in Nat : (\E i \in 0..k : Doubled[i] >= n)
                                  => \E i \in 0..k : Doubled[i] >= n /\ \A j \in 0..(i - 1) : Doubled[j] < n}
  <2>1. 0 \in T
    OBVIOUS
  <2>2. ASSUME NEW k \in Nat, k \in T
        PROVE  k + 1 \in T
    <3>1. CASE \E i \in 0..k : Doubled[i] >= n
      <4>1. 0..k \subseteq 0..(k + 1)
        OBVIOUS
      <4>2. QED
        BY <2>2, <3>1, <4>1
    <3>2. CASE ~\E i \in 0..k : Doubled[i] >= n
      <4>1. \A j \in 0..k : Doubled[j] < n
        BY <3>2, DoubledIs
      <4>2. (k + 1) - 1 = k /\ k + 1 \in 0..(k + 1) /\ 0..(k + 1) = (0..k) \cup {k + 1}
        OBVIOUS
      <4>3. QED
        BY <3>2, <4>1, <4>2
    <3>3. QED
      BY <3>1, <3>2
  <2> HIDE DEF T
  <2>3. n \in T
    BY <2>1, <2>2, SetInduction
  <2>4. Doubled[n] >= n /\ n \in 0..n
    BY DoubledGrows, DoubledIs
  <2>5. \E k \in 0..n : Doubled[k] >= n /\ \A j \in 0..(k - 1) : Doubled[j] < n
    BY <2>3, <2>4 DEF T
  <2>6. QED
    BY <2>5
<1> HIDE DEF Power
<1>2. \A n \in Nat : dictNextPower(n) = Doubled[Power(n)]
  BY DEF dictNextPower, Power
<1>3. ASSUME NEW n \in Nat
      PROVE  Power(n) \in Nat /\ Doubled[Power(n)] \in Nat /\ Doubled[Power(n)] > Power(n)
  <2>1. Power(n) \in Nat
    BY <1>1
  <2>2. QED
    BY <2>1, DoubledGrows, DoubledIs
<1> DEFINE k == Power(size)
           P == Doubled[k]
           l == Power(P)
<1>4. k \in Nat /\ P \in Nat /\ P > k
  BY <1>3
<1>5. l \in Nat /\ Doubled[l] >= P /\ \A j \in 0..(l - 1) : Doubled[j] < P
  <2>1. Least(P, l)
    BY <1>1, <1>4
  <2>2. QED
    BY <1>3, <1>4, <2>1
<1> HIDE DEF l
<1>6. l = k
  <2>1. CASE k < l
    <3>1. k \in 0..(l - 1)
      BY <1>4, <1>5, <2>1
    <3>2. QED
      BY <1>4, <1>5, <3>1
  <2>2. CASE l < k
    <3>1. l \in 0..(k - 1)
      BY <1>4, <1>5, <2>2
    <3>2. Doubled[l] < P /\ Doubled[l] \in Nat
      BY <1>4, <1>5, <3>1, DoubledGrows, DoubledIs
    <3>3. QED
      BY <1>4, <1>5, <3>2
  <2>3. QED
    BY <1>4, <1>5, <2>1, <2>2
<1>7. QED
  BY <1>2, <1>4, <1>6 DEF l

DictEntries(V) == [key : Keys, val : V]

\* What is in the chains of a table.
All(t) == UNION {Range(t[i]) : i \in DOMAIN t}

\* The dict with a table.
TableOf(t) == [size |-> Len(t), table |-> t, used |-> Cardinality(All(t))]

\* Every chain is of entries of its slot, each with a key of its own.
Chained(t, E) ==
    /\ t \in Seq(Seq(E))
    /\ \A i \in DOMAIN t : Distinct(t[i]) /\ \A e \in Range(t[i]) : Slot(e.key, Len(t)) = i

LEMMA ChainedEntries ==
    ASSUME NEW E, NEW h, Chained(h.table, E)
    PROVE  /\ Entries(h) \in Seq(E) /\ Range(Entries(h)) = All(h.table)
           /\ Distinct(Entries(h))
           /\ IsFiniteSet(All(h.table)) /\ Len(Entries(h)) = Cardinality(All(h.table))
           /\ All(h.table) \subseteq E
           /\ \A x, y \in All(h.table) : x.key = y.key => x = y
<1> DEFINE t == h.table
<1>1. t \in Seq(Seq(E)) /\ Entries(h) \in Seq(E) /\ Range(Entries(h)) = All(t)
  BY EntriesAre, EntriesRange DEF Chained, All
<1>2. \A i, j \in DOMAIN t : \A x \in Range(t[i]), y \in Range(t[j]) : x.key = y.key => i = j
  BY DEF Chained
<1>3. Distinct(Entries(h))
  BY <1>1, <1>2, EntriesDistinct DEF Chained
<1>4. IsFiniteSet(Range(Entries(h))) /\ Cardinality(Range(Entries(h))) = Len(Entries(h))
  BY <1>1, <1>3, DistinctLength
<1>5. All(t) \subseteq E
  BY <1>1, RangeOfSeq
<1>6. \A x, y \in Range(Entries(h)) : x.key = y.key => x = y
  BY <1>3 DEF Distinct, Range
<1>7. QED
  BY <1>1, <1>3, <1>4, <1>5, <1>6

\* IsDict by what is in the chains.
LEMMA DictIs ==
    ASSUME NEW V, NEW h
    PROVE  IsDict(h, V) <=>
             /\ Chained(h.table, DictEntries(V))
             /\ h = TableOf(h.table)
             /\ h.size = 0 \/ h.size = dictNextPower(h.size)
<1> DEFINE E == DictEntries(V)
           t == h.table
<1>1. ASSUME IsDict(h, V)
      PROVE  Chained(t, E)
  <2>1. t \in Seq(Seq(E)) /\ h.size = Len(t)
    BY <1>1 DEF IsDict, DictEntries
  <2>2. \A i \in DOMAIN t : \A e \in Range(t[i]) : Slot(e.key, Len(t)) = i
    BY <1>1, <2>1 DEF IsDict, Range
  <2>3. \A i, j \in DOMAIN t : \A x \in Range(t[i]), y \in Range(t[j]) : x.key = y.key => i = j
    BY <2>2
  <2>4. Distinct(Entries(h))
    BY <1>1 DEF IsDict, Distinct
  <2>5. \A i \in DOMAIN t : Distinct(t[i])
    BY <2>1, <2>3, <2>4, EntriesDistinct
  <2>6. QED
    BY <2>1, <2>2, <2>5 DEF Chained
<1>2. ASSUME Chained(t, E), h = TableOf(t),
             h.size = 0 \/ h.size = dictNextPower(h.size)
      PROVE  IsDict(h, V)
  <2>1. Len(Entries(h)) = Cardinality(All(t)) /\ Distinct(Entries(h))
    BY <1>2, ChainedEntries
  <2>2. h.size = Len(t) /\ h = [size |-> Len(t), table |-> t, used |-> Len(Entries(h))]
    BY <1>2, <2>1 DEF TableOf
  <2>3. \A i \in DOMAIN t : \A j \in DOMAIN t[i] : Slot(t[i][j].key, h.size) = i
    BY <1>2, <2>2 DEF Chained, Range
  <2>4. QED
    BY <1>2, <2>1, <2>2, <2>3 DEF IsDict, Distinct, DictEntries, Chained
<1>3. ASSUME IsDict(h, V)
      PROVE  /\ h = TableOf(t)
             /\ h.size = 0 \/ h.size = dictNextPower(h.size)
  <2>1. Len(Entries(h)) = Cardinality(All(t))
    BY <1>1, <1>3, ChainedEntries
  <2>2. QED
    BY <1>3, <2>1 DEF IsDict, TableOf
<1>4. QED
  BY <1>1, <1>2, <1>3

LEMMA SlotIs ==
    ASSUME NEW k \in Keys, NEW n \in Nat \ {0}
    PROVE  Slot(k, n) \in 1..n
<1>1. HashOf[k] \in Nat
  BY DictAssumption
<1>2. HashOf[k] % n \in 0..(n - 1)
  BY <1>1
<1>3. QED
  BY <1>2 DEF Slot

\* What is found under a key: none or one.
LEMMA FindIs ==
    ASSUME NEW V, NEW h, IsDict(h, V), NEW k \in Keys
    PROVE  /\ dictFind(h, k) = {e \in All(h.table) : e.key = k}
           /\ \/ dictFind(h, k) = {}
              \/ \E v \in V : dictFind(h, k) = {[key |-> k, val |-> v]}
<1> DEFINE t == h.table
           E == DictEntries(V)
<1>1. Chained(t, E) /\ h.size = Len(t)
  <2>1. h = TableOf(h.table)
    BY DictIs
  <2>2. QED
    BY <2>1, DictIs DEF TableOf
<1>2. Len(t) \in Nat /\ DOMAIN t = 1..Len(t)
  BY <1>1 DEF Chained
<1>3. dictFind(h, k) = {e \in All(t) : e.key = k}
  <2>1. CASE Len(t) = 0
    BY <1>1, <1>2, <2>1 DEF dictFind, All
  <2>2. CASE Len(t) # 0
    <3>1. Slot(k, Len(t)) \in DOMAIN t
      BY <1>2, <2>2, SlotIs
    <3>2. dictFind(h, k) = {e \in Range(t[Slot(k, Len(t))]) : e.key = k}
      BY <1>1, <2>2 DEF dictFind
    <3>3. QED
      BY <1>1, <3>1, <3>2 DEF All, Chained
  <2>3. QED
    BY <2>1, <2>2
<1>4. All(t) \subseteq E /\ \A x, y \in All(t) : x.key = y.key => x = y
  BY <1>1, ChainedEntries
<1>5. ASSUME NEW e \in All(t), e.key = k
      PROVE  \E v \in V : dictFind(h, k) = {[key |-> k, val |-> v]}
  <2>1. dictFind(h, k) = {e}
    BY <1>3, <1>4, <1>5
  <2>2. e = [key |-> k, val |-> e.val] /\ e.val \in V
    BY <1>4, <1>5 DEF DictEntries
  <2>3. QED
    BY <2>1, <2>2
<1>6. QED
  BY <1>3, <1>5

LEMMA CreateIs ==
    ASSUME NEW V
    PROVE  IsDict(dictCreate, V) /\ \A k \in Keys : dictFind(dictCreate, k) = {}
<1> DEFINE t == dictCreate.table
<1>1. t = << >> /\ dictCreate.size = 0 /\ All(t) = {}
  BY DEF dictCreate, All
<1>2. Chained(t, DictEntries(V))
  BY <1>1 DEF Chained
<1>3. dictCreate = TableOf(t)
  BY <1>1, FS_EmptySet DEF dictCreate, TableOf
<1>4. QED
  BY <1>1, <1>2, <1>3, DictIs DEF dictFind

\* What the entries are: those that are found.
LEMMA EntriesFound ==
    ASSUME NEW V, NEW h, IsDict(h, V)
    PROVE  /\ Entries(h) \in Seq(DictEntries(V))
           /\ \A e : e \in Range(Entries(h)) <=> e.key \in Keys /\ dictFind(h, e.key) = {e}
           /\ h.used \in Nat
           /\ h.used = 0 <=> \A k \in Keys : dictFind(h, k) = {}
<1>1. Chained(h.table, DictEntries(V))
  BY DictIs
<1>2. /\ Entries(h) \in Seq(DictEntries(V)) /\ Range(Entries(h)) = All(h.table)
      /\ IsFiniteSet(All(h.table)) /\ All(h.table) \subseteq DictEntries(V)
      /\ \A x, y \in All(h.table) : x.key = y.key => x = y
  BY <1>1, ChainedEntries
<1>3. ASSUME NEW e
      PROVE  e \in All(h.table) <=> e.key \in Keys /\ dictFind(h, e.key) = {e}
  <2>1. ASSUME e \in All(h.table)
        PROVE  e.key \in Keys /\ dictFind(h, e.key) = {e}
    <3>1. e.key \in Keys
      BY <1>2, <2>1 DEF DictEntries
    <3>2. dictFind(h, e.key) = {x \in All(h.table) : x.key = e.key}
      BY <3>1, FindIs
    <3>3. QED
      BY <1>2, <2>1, <3>1, <3>2
  <2>2. ASSUME e.key \in Keys, dictFind(h, e.key) = {e}
        PROVE  e \in All(h.table)
    <3>1. dictFind(h, e.key) = {x \in All(h.table) : x.key = e.key}
      BY <2>2, FindIs
    <3>2. QED
      BY <2>2, <3>1
  <2>3. QED
    BY <2>1, <2>2
<1>4. h.used = Cardinality(All(h.table))
  <2>1. h = TableOf(h.table)
    BY DictIs
  <2>2. QED
    BY <2>1 DEF TableOf
<1>5. h.used \in Nat /\ (h.used = 0 <=> All(h.table) = {})
  BY <1>2, <1>4, FS_CardinalityType, FS_EmptySet
<1>6. All(h.table) = {} <=> \A k \in Keys : dictFind(h, k) = {}
  <2>1. ASSUME NEW k \in Keys
        PROVE  dictFind(h, k) = {x \in All(h.table) : x.key = k}
    BY FindIs
  <2>2. \A x \in All(h.table) : x.key \in Keys
    BY <1>2 DEF DictEntries
  <2>3. QED
    BY <2>1, <2>2
<1>7. QED
  BY <1>2, <1>3, <1>5, <1>6

\* A chain of a table is changed.
Put(t, s, c) == [t EXCEPT ![s] = c]

LEMMA ChainChanged ==
    ASSUME NEW E, NEW t, Chained(t, E), NEW s \in 1..Len(t), NEW c \in Seq(E), Distinct(c),
           \A e \in Range(c) : Slot(e.key, Len(t)) = s
    PROVE  /\ Chained(Put(t, s, c), E) /\ Len(Put(t, s, c)) = Len(t)
           /\ All(Put(t, s, c)) = (All(t) \ Range(t[s])) \cup Range(c)
           /\ Range(t[s]) = {e \in All(t) : Slot(e.key, Len(t)) = s}
<1> DEFINE u == Put(t, s, c)
<1>1. t \in Seq(Seq(E)) /\ Len(t) \in Nat /\ DOMAIN t = 1..Len(t)
      /\ \A i \in DOMAIN t : Distinct(t[i]) /\ \A e \in Range(t[i]) : Slot(e.key, Len(t)) = i
  BY DEF Chained
<1>2. /\ u \in Seq(Seq(E)) /\ Len(u) = Len(t) /\ DOMAIN u = 1..Len(t) /\ u[s] = c
      /\ \A i \in 1..Len(t) : i # s => u[i] = t[i]
  BY <1>1 DEF Put
<1> HIDE DEF u
<1>3. Chained(u, E)
  <2>1. ASSUME NEW i \in DOMAIN u
        PROVE  Distinct(u[i]) /\ \A e \in Range(u[i]) : Slot(e.key, Len(u)) = i
    <3>1. CASE i = s
      BY <1>2, <3>1
    <3>2. CASE i # s
      BY <1>1, <1>2, <3>2
    <3>3. QED
      BY <3>1, <3>2
  <2>2. QED
    BY <1>2, <2>1 DEF Chained
<1>4. All(u) = (All(t) \ Range(t[s])) \cup Range(c)
  <2>1. ASSUME NEW e, e \in All(u)
        PROVE  e \in (All(t) \ Range(t[s])) \cup Range(c)
    <3>1. PICK i \in 1..Len(t) : e \in Range(u[i])
      BY <1>2, <2>1 DEF All
    <3>2. CASE i = s
      BY <1>2, <3>1, <3>2
    <3>3. CASE i # s
      <4>1. e \in Range(t[i])
        BY <1>2, <3>1, <3>3
      <4>2. e \in All(t)
        BY <1>1, <4>1 DEF All
      <4>3. Slot(e.key, Len(t)) = i
        BY <1>1, <4>1
      <4>4. e \notin Range(t[s])
        BY <1>1, <4>3, <3>3
      <4>5. QED
        BY <4>2, <4>4
    <3>4. QED
      BY <3>2, <3>3
  <2>2. ASSUME NEW e, e \in Range(c)
        PROVE  e \in All(u)
    BY <1>2, <2>2 DEF All
  <2>3. ASSUME NEW e, e \in All(t), e \notin Range(t[s])
        PROVE  e \in All(u)
    <3>1. PICK i \in 1..Len(t) : e \in Range(t[i])
      BY <1>1, <2>3 DEF All
    <3>2. i # s /\ e \in Range(u[i])
      BY <1>2, <2>3, <3>1
    <3>3. QED
      BY <1>2, <3>2 DEF All
  <2>4. QED
    BY <2>1, <2>2, <2>3
<1>5. Range(t[s]) = {e \in All(t) : Slot(e.key, Len(t)) = s}
  BY <1>1 DEF All
<1>6. QED
  BY <1>2, <1>3, <1>4, <1>5 DEF u

\* What is in the chains says what is found.
LEMMA DictFrom ==
    ASSUME NEW V, NEW u, Chained(u, DictEntries(V)),
           Len(u) = 0 \/ Len(u) = dictNextPower(Len(u))
    PROVE  IsDict(TableOf(u), V) /\ \A k \in Keys : dictFind(TableOf(u), k) = {e \in All(u) : e.key = k}
<1> DEFINE g == TableOf(u)
<1>1. g.size = Len(u) /\ g.table = u
  BY DEF TableOf
<1> HIDE DEF g
<1>2. IsDict(g, V)
  BY <1>1, DictIs DEF g
<1>3. \A k \in Keys : dictFind(g, k) = {e \in All(u) : e.key = k}
  BY <1>1, <1>2, FindIs
<1>4. QED
  BY <1>2, <1>3 DEF g

\* A table with room for a key, and the chain where the key belongs.
LEMMA ChainOf ==
    ASSUME NEW V, NEW h, IsDict(h, V), h.size # 0, NEW k \in Keys
    PROVE  /\ Chained(h.table, DictEntries(V)) /\ h.size = Len(h.table)
           /\ h.size = dictNextPower(h.size) /\ h.size \in Nat \ {0}
           /\ h = TableOf(h.table)
           /\ Slot(k, h.size) \in 1..Len(h.table)
           /\ h.table[Slot(k, h.size)] \in Seq(DictEntries(V))
           /\ Distinct(h.table[Slot(k, h.size)])
           /\ dictFind(h, k) = {e \in Range(h.table[Slot(k, h.size)]) : e.key = k}
           /\ Range(h.table[Slot(k, h.size)])
                = {e \in All(h.table) : Slot(e.key, h.size) = Slot(k, h.size)}
           /\ IsFiniteSet(All(h.table)) /\ All(h.table) \subseteq DictEntries(V)
           /\ \A x, y \in All(h.table) : x.key = y.key => x = y
<1> DEFINE t == h.table
           s == Slot(k, h.size)
<1>2. h = TableOf(t)
  BY DictIs
<1>3. h.size = Len(t)
  BY <1>2 DEF TableOf
<1>4. t \in Seq(Seq(DictEntries(V))) /\ Len(t) \in Nat
  BY DictIs DEF Chained
<1>5. s \in 1..Len(t)
  BY <1>3, <1>4, SlotIs
<1>6. t[s] \in Seq(DictEntries(V)) /\ Distinct(t[s])
  BY <1>4, <1>5, DictIs DEF Chained
<1>7. Range(t[s]) = {e \in All(t) : Slot(e.key, h.size) = s}
  <2>1. \A i \in DOMAIN t : \A e \in Range(t[i]) : Slot(e.key, Len(t)) = i
    BY DictIs DEF Chained
  <2>2. s \in DOMAIN t
    BY <1>4, <1>5
  <2>3. QED
    BY <1>3, <2>1, <2>2 DEF All
<1>8. dictFind(h, k) = {e \in Range(t[s]) : e.key = k}
  BY DEF dictFind
<1>9. Chained(t, DictEntries(V)) /\ h.size = dictNextPower(h.size)
  BY DictIs
<1>10. /\ IsFiniteSet(All(t)) /\ All(t) \subseteq DictEntries(V)
       /\ \A x, y \in All(t) : x.key = y.key => x = y
  BY <1>9, ChainedEntries
<1>11. QED
  BY <1>2, <1>3, <1>4, <1>5, <1>6, <1>7, <1>8, <1>9, <1>10

LEMMA SetValIs ==
    ASSUME NEW V, NEW h, IsDict(h, V), NEW k \in Keys, NEW v \in V, dictFind(h, k) # {}
    PROVE  /\ IsDict(SetVal(h, k, v), V)
           /\ \A l \in Keys : dictFind(SetVal(h, k, v), l) =
                 IF l = k THEN {[key |-> k, val |-> v]} ELSE dictFind(h, l)
<1> DEFINE t == h.table
           s == Slot(k, h.size)
           E == DictEntries(V)
           new == [key |-> k, val |-> v]
           c == [i \in DOMAIN t[s] |-> IF t[s][i].key = k THEN [t[s][i] EXCEPT !.val = v] ELSE t[s][i]]
           u == Put(t, s, c)
<1>1. h.size # 0
  BY DEF dictFind
<1>2. /\ Chained(t, E) /\ h.size = Len(t) /\ h.size = dictNextPower(h.size)
      /\ h = TableOf(t)
      /\ s \in 1..Len(t) /\ t[s] \in Seq(E) /\ Distinct(t[s])
      /\ dictFind(h, k) = {e \in Range(t[s]) : e.key = k}
      /\ Range(t[s]) = {e \in All(t) : Slot(e.key, h.size) = s}
      /\ IsFiniteSet(All(t)) /\ All(t) \subseteq E
      /\ \A x, y \in All(t) : x.key = y.key => x = y
  BY <1>1, ChainOf
<1>3. DOMAIN t[s] = 1..Len(t[s]) /\ Len(t[s]) \in Nat /\ DOMAIN c = 1..Len(t[s])
      /\ \A i \in 1..Len(t[s]) : t[s][i] \in E
  BY <1>2
<1>4. ASSUME NEW i \in DOMAIN t[s]
      PROVE  c[i] \in E /\ c[i].key = t[s][i].key /\ c[i] = IF t[s][i].key = k THEN new ELSE t[s][i]
  <2>1. t[s][i] \in E /\ t[s][i] = [key |-> t[s][i].key, val |-> t[s][i].val]
    BY <1>3 DEF DictEntries
  <2>2. QED
    BY <2>1 DEF DictEntries
<1>5. c \in Seq(E)
  <2>1. c = [i \in 1..Len(t[s]) |-> c[i]]
    BY <1>3
  <2> HIDE DEF c, t, s
  <2>2. QED
    BY <1>3, <1>4, <2>1
<1> HIDE DEF c
<1>6. Distinct(c)
  BY <1>2, <1>3, <1>4 DEF Distinct
<1>7. \A e \in Range(c) : Slot(e.key, Len(t)) = s
  <2>1. \A i \in DOMAIN t[s] : Slot(t[s][i].key, Len(t)) = s
    BY <1>2 DEF Range
  <2>2. QED
    BY <1>3, <1>4, <2>1 DEF Range
<1>8. Range(c) = {e \in Range(t[s]) : e.key # k} \cup {new}
  <2>1. PICK j \in DOMAIN t[s] : t[s][j].key = k
    BY <1>2 DEF Range
  <2>2. c[j] = new /\ j \in DOMAIN c
    BY <1>3, <1>4, <2>1
  <2>3. QED
    BY <1>3, <1>4, <2>2 DEF Range
<1>9. Chained(u, E) /\ Len(u) = Len(t) /\ All(u) = (All(t) \ Range(t[s])) \cup Range(c)
  BY <1>2, <1>5, <1>6, <1>7, ChainChanged
<1>10. SetVal(h, k, v) = [size |-> Len(t), table |-> u, used |-> Cardinality(All(t))]
  <2>1. SetVal(h, k, v) = [h EXCEPT !.table = u]
    BY DEF SetVal, c, Put
  <2> HIDE DEF u
  <2>2. QED
    BY <1>2, <2>1 DEF TableOf
<1> HIDE DEF t, u
<1>11. All(u) = {e \in All(t) : e.key # k} \cup {new}
  BY <1>2, <1>8, <1>9
<1>12. PICK old \in All(t) : old.key = k
  BY <1>2
<1>13. {e \in All(t) : e.key # k} = All(t) \ {old} /\ new \notin All(t) \ {old}
  BY <1>2, <1>12
<1>14. Cardinality(All(u)) = Cardinality(All(t))
  <2>1. IsFiniteSet(All(t) \ {old}) /\ Cardinality(All(t) \ {old}) = Cardinality(All(t)) - 1
    BY <1>2, <1>12, FS_RemoveElement
  <2>2. Cardinality(All(u)) = (Cardinality(All(t)) - 1) + 1
    BY <1>11, <1>13, <2>1, FS_AddElement, SMTT(30)
  <2>3. Cardinality(All(t)) \in Nat
    BY <1>2, FS_CardinalityType
  <2>4. QED
    BY <2>2, <2>3
<1>15. IsDict(SetVal(h, k, v), V)
       /\ \A l \in Keys : dictFind(SetVal(h, k, v), l) = {e \in All(u) : e.key = l}
  <2>1. SetVal(h, k, v) = TableOf(u)
    BY <1>9, <1>10, <1>14 DEF TableOf
  <2>2. Len(u) = dictNextPower(Len(u))
    BY <1>2, <1>9
  <2>3. QED
    BY <1>9, <2>1, <2>2, DictFrom
<1>16. \A l \in Keys : dictFind(h, l) = {e \in All(t) : e.key = l}
  BY FindIs DEF t
<1>17. new.key = k
  OBVIOUS
<1> HIDE DEF new
<1>18. \A l \in Keys : dictFind(SetVal(h, k, v), l) = IF l = k THEN {new} ELSE dictFind(h, l)
  <2>1. ASSUME NEW l \in Keys
        PROVE  {e \in All(u) : e.key = l} = IF l = k THEN {new} ELSE {e \in All(t) : e.key = l}
    BY <1>11, <1>17
  <2>2. QED
    BY <1>15, <1>16, <2>1
<1>19. QED
  BY <1>15, <1>18 DEF new

LEMMA DeleteIs ==
    ASSUME NEW V, NEW h, IsDict(h, V), NEW k \in Keys
    PROVE  /\ IsDict(dictDelete(h, k), V)
           /\ \A l \in Keys : dictFind(dictDelete(h, k), l) = IF l = k THEN {} ELSE dictFind(h, l)
<1>1. CASE dictFind(h, k) = {}
  BY <1>1 DEF dictDelete
<1>2. CASE dictFind(h, k) # {}
  <2> DEFINE t == h.table
             s == Slot(k, h.size)
             E == DictEntries(V)
             i == CHOOSE i \in DOMAIN t[s] : t[s][i].key = k
             n == Len(t[s])
             c == RemoveAt(t[s], i)
             u == Put(t, s, c)
  <2>1. h.size # 0
    BY <1>2 DEF dictFind
  <2>2. /\ Chained(t, E) /\ h.size = Len(t) /\ h.size = dictNextPower(h.size)
        /\ h = TableOf(t)
        /\ s \in 1..Len(t) /\ t[s] \in Seq(E) /\ Distinct(t[s])
        /\ dictFind(h, k) = {e \in Range(t[s]) : e.key = k}
        /\ Range(t[s]) = {e \in All(t) : Slot(e.key, h.size) = s}
        /\ IsFiniteSet(All(t)) /\ All(t) \subseteq E
        /\ \A x, y \in All(t) : x.key = y.key => x = y
    BY <2>1, ChainOf
  <2>3. i \in DOMAIN t[s] /\ t[s][i].key = k
    BY <1>2, <2>2 DEF Range
  <2>4. dictDelete(h, k) = [size |-> Len(t), table |-> u, used |-> Cardinality(All(t)) - 1]
    <3>1. dictDelete(h, k) = [h EXCEPT !.table = u, !.used = @ - 1]
      BY <1>2 DEF dictDelete, Put
    <3>2. h = TableOf(t)
      BY <2>2
    <3> HIDE DEF u, t
    <3>3. QED
      BY <3>1, <3>2 DEF TableOf
  <2> HIDE DEF i
  <2>5. n \in Nat /\ DOMAIN t[s] = 1..n /\ i \in 1..n
    BY <2>2, <2>3
  <2>6. /\ c \in Seq(E) /\ DOMAIN c = 1..(n - 1)
        /\ \A j \in 1..(n - 1) : c[j] = t[s][IF j < i THEN j ELSE j + 1]
    <3> DEFINE q == t[s]
    <3>1. q \in Seq(E) /\ Len(q) = n
      BY <2>2
    <3>2. c = SubSeq(q, 1, i - 1) \o SubSeq(q, i + 1, n)
      BY DEF RemoveAt
    <3> HIDE DEF q, n, c
    <3>3. /\ SubSeq(q, 1, i - 1) \in Seq(E) /\ Len(SubSeq(q, 1, i - 1)) = i - 1
          /\ \A j \in 1..(i - 1) : SubSeq(q, 1, i - 1)[j] = q[j]
      BY <2>5, <3>1
    <3>4. /\ SubSeq(q, i + 1, n) \in Seq(E) /\ Len(SubSeq(q, i + 1, n)) = n - i
          /\ \A j \in 1..(n - i) : SubSeq(q, i + 1, n)[j] = q[i + j]
      BY <2>5, <3>1
    <3>5. c \in Seq(E) /\ Len(c) = (i - 1) + (n - i)
      BY <2>5, <3>2, <3>3, <3>4
    <3>6. ASSUME NEW j \in 1..(n - 1)
          PROVE  c[j] = q[IF j < i THEN j ELSE j + 1]
      <4>1. CASE j < i
        BY <2>5, <3>2, <3>3, <3>4, <4>1
      <4>2. CASE ~(j < i)
        <5>1. j - (i - 1) \in 1..(n - i) /\ i + (j - (i - 1)) = j + 1
          BY <2>5, <4>2
        <5>2. c[j] = SubSeq(q, i + 1, n)[j - (i - 1)]
          <6> DEFINE x == SubSeq(q, 1, i - 1)
                     y == SubSeq(q, i + 1, n)
          <6>1. x \in Seq(E) /\ y \in Seq(E) /\ Len(x) = i - 1 /\ Len(y) = n - i /\ c = x \o y
            BY <3>2, <3>3, <3>4
          <6> HIDE DEF x, y
          <6>2. j \in (Len(x) + 1)..(Len(x) + Len(y)) /\ j - Len(x) = j - (i - 1)
            BY <2>5, <4>2, <6>1
          <6>3. c[j] = y[j - Len(x)]
            BY <6>1, <6>2
          <6>4. QED
            BY <6>2, <6>3 DEF y
        <5>3. QED
          BY <3>4, <4>2, <5>1, <5>2
      <4>3. QED
        BY <4>1, <4>2
    <3>7. QED
      BY <2>5, <3>5, <3>6 DEF q
  <2> HIDE DEF c
  <2>7. Distinct(c)
    <3>1. SUFFICES ASSUME NEW a \in 1..(n - 1), NEW b \in 1..(n - 1), c[a].key = c[b].key
                   PROVE  a = b
      BY <2>6 DEF Distinct
    <3>2. (IF a < i THEN a ELSE a + 1) = (IF b < i THEN b ELSE b + 1)
      <4>1. (IF a < i THEN a ELSE a + 1) \in 1..n /\ (IF b < i THEN b ELSE b + 1) \in 1..n
        BY <2>5
      <4>2. /\ t[s][IF a < i THEN a ELSE a + 1].key = t[s][IF b < i THEN b ELSE b + 1].key
            /\ Distinct(t[s]) /\ DOMAIN t[s] = 1..n
        BY <2>2, <2>5, <2>6, <3>1
      <4>3. QED
        BY <4>1, <4>2 DEF Distinct
    <3>3. QED
      BY <2>5, <3>2
  <2>8. Range(c) = {e \in Range(t[s]) : e.key # k}
    <3>1. ASSUME NEW a \in 1..(n - 1)
          PROVE  c[a] \in Range(t[s]) /\ c[a].key # k
      <4>1. (IF a < i THEN a ELSE a + 1) \in 1..n /\ (IF a < i THEN a ELSE a + 1) # i
        BY <2>5
      <4>2. QED
        BY <2>2, <2>3, <2>5, <2>6, <4>1 DEF Range, Distinct
    <3>2. ASSUME NEW b \in 1..n, t[s][b].key # k
          PROVE  t[s][b] \in Range(c)
      <4>1. b # i
        BY <2>3, <3>2
      <4>2. CASE b < i
        <5>1. b \in 1..(n - 1) /\ c[b] = t[s][b]
          BY <2>5, <2>6, <4>2
        <5>2. QED
          BY <2>6, <5>1 DEF Range
      <4>3. CASE b > i
        <5>1. b - 1 \in 1..(n - 1) /\ c[b - 1] = t[s][(b - 1) + 1] /\ (b - 1) + 1 = b
          BY <2>5, <2>6, <4>3
        <5>2. QED
          BY <2>6, <5>1 DEF Range
      <4>4. QED
        BY <2>5, <4>1, <4>2, <4>3
    <3>3. QED
      BY <2>5, <2>6, <3>1, <3>2 DEF Range
  <2>9. \A e \in Range(c) : Slot(e.key, Len(t)) = s
    BY <2>2, <2>8
  <2>10. Chained(u, E) /\ Len(u) = Len(t) /\ All(u) = (All(t) \ Range(t[s])) \cup Range(c)
    BY <2>2, <2>6, <2>7, <2>9, ChainChanged
  <2> HIDE DEF t, u
  <2>11. All(u) = {e \in All(t) : e.key # k}
    BY <2>2, <2>8, <2>10
  <2>12. PICK old \in All(t) : old.key = k
    BY <1>2, <2>2
  <2>13. All(u) = All(t) \ {old}
    BY <2>2, <2>11, <2>12
  <2>14. Cardinality(All(u)) = Cardinality(All(t)) - 1
    BY <2>2, <2>12, <2>13, FS_RemoveElement
  <2>15. IsDict(dictDelete(h, k), V)
         /\ \A l \in Keys : dictFind(dictDelete(h, k), l) = {e \in All(u) : e.key = l}
    <3>1. dictDelete(h, k) = TableOf(u)
      BY <2>4, <2>10, <2>14 DEF TableOf
    <3>2. Len(u) = dictNextPower(Len(u))
      BY <2>2, <2>10
    <3>3. QED
      BY <2>10, <3>1, <3>2, DictFrom
  <2>16. \A l \in Keys : dictFind(h, l) = {e \in All(t) : e.key = l}
    BY FindIs DEF t
  <2>17. QED
    BY <2>11, <2>15, <2>16
<1>3. QED
  BY <1>1, <1>2

\* A new entry at the head of its chain.
LEMMA HeadIs ==
    ASSUME NEW E, NEW t, Chained(t, E), NEW e \in E, NEW s, s = Slot(e.key, Len(t)),
           s \in 1..Len(t), \A x \in All(t) : x.key # e.key
    PROVE  /\ Chained(Put(t, s, <<e>> \o t[s]), E) /\ Len(Put(t, s, <<e>> \o t[s])) = Len(t)
           /\ All(Put(t, s, <<e>> \o t[s])) = All(t) \cup {e}
<1> DEFINE c == <<e>> \o t[s]
           b == <<e>>
           r == t[s]
<1>1. t[s] \in Seq(E) /\ Distinct(t[s]) /\ \A x \in Range(t[s]) : Slot(x.key, Len(t)) = s
  BY DEF Chained
<1>2. b \in Seq(E) /\ Distinct(b) /\ Range(b) = {e}
  BY DEF Distinct, Range
<1>3. Range(t[s]) \subseteq All(t)
  BY DEF All, Chained
<1> HIDE DEF b
<1>4. c \in Seq(E) /\ Range(c) = {e} \cup Range(t[s])
  <2>1. r \in Seq(E) /\ c = b \o r
    BY <1>1 DEF b
  <2> HIDE DEF r, c
  <2>2. Range(c) = Range(b) \cup Range(r)
    BY <1>2, <2>1, RangeConcatenation
  <2>3. c \in Seq(E)
    BY <1>2, <2>1
  <2>4. QED
    BY <1>2, <2>2, <2>3 DEF r
<1>5. Distinct(c)
  <2>1. \A x \in Range(b), y \in Range(t[s]) : x.key # y.key
    BY <1>2, <1>3
  <2>2. QED
    BY <1>1, <1>2, <2>1, DistinctConcat DEF b
<1>6. \A x \in Range(c) : Slot(x.key, Len(t)) = s
  BY <1>1, <1>4
<1> HIDE DEF c
<1>7. /\ Chained(Put(t, s, c), E) /\ Len(Put(t, s, c)) = Len(t)
      /\ All(Put(t, s, c)) = (All(t) \ Range(t[s])) \cup Range(c)
  BY <1>4, <1>5, <1>6, ChainChanged
<1>8. QED
  BY <1>3, <1>4, <1>7 DEF c

\* The table that dictExpand fills, entry after entry.
Filled(moved, all, P) ==
    /\ moved[0] = [i \in 1..P |-> << >>]
    /\ \A n \in 1..Len(all) :
         moved[n] = Put(moved[n - 1], Slot(all[n].key, P), <<all[n]>> \o moved[n - 1][Slot(all[n].key, P)])

LEMMA ExpandFills ==
    ASSUME NEW E, \A e \in E : e.key \in Keys, NEW h, Entries(h) \in Seq(E), NEW size \in Nat,
           ~(h.used > size)
    PROVE  \E f : /\ Filled(f, Entries(h), dictNextPower(size))
                  /\ dictExpand(h, size) = [h EXCEPT !.size = dictNextPower(size),
                                                     !.table = f[Len(Entries(h))]]
<1> DEFINE P == dictNextPower(size)
           all == Entries(h)
           N == Len(all)
           S == [1..P -> Seq(E)]
           b == [i \in 1..P |-> << >>]
           g == [n \in Nat |-> [t \in S |-> IF n \in 1..N
                   THEN [t EXCEPT ![Slot(all[n].key, P)] = <<all[n]>> \o @] ELSE t]]
           Is(f) == f = [n \in 0..N |-> IF n = 0 THEN [i \in 1..P |-> << >>]
                            ELSE [f[n - 1] EXCEPT ![Slot(all[n].key, P)] = <<all[n]>> \o @]]
           u == CHOOSE f : Is(f)
<1>1. dictExpand(h, size) = IF h.used > size THEN h ELSE [h EXCEPT !.size = P, !.table = u[N]]
  BY DEF dictExpand
<1>1a. P \in Nat \ {0}
  BY NextPowerIs
<1>1b. all \in Seq(E)
  OBVIOUS
<1> HIDE DEF P, all
<1>2. N \in Nat /\ \A n \in 1..N : all[n] \in E
  BY <1>1b
<1> HIDE DEF N
<1>2a. \A n \in 1..N : Slot(all[n].key, P) \in 1..P
  BY <1>1a, <1>2, SlotIs
<1>3. b \in S
  OBVIOUS
<1>4. ASSUME NEW n \in Nat, NEW t \in S
      PROVE  g[n][t] \in S
  <2>1. CASE n \in 1..N
    <3>1. all[n] \in E /\ Slot(all[n].key, P) \in 1..P
      BY <1>2, <1>2a, <2>1
    <3>2. <<all[n]>> \o t[Slot(all[n].key, P)] \in Seq(E)
      BY <3>1
    <3>3. g[n][t] = [t EXCEPT ![Slot(all[n].key, P)] = <<all[n]>> \o @]
      BY <2>1
    <3>4. QED
      BY <3>1, <3>2, <3>3
  <2>2. CASE n \notin 1..N
    BY <2>2
  <2>3. QED
    BY <2>1, <2>2
<1>5. PICK F : Recursive(F, S, b, g)
  <2> HIDE DEF g, S, b
  <2>1. QED
    BY <1>3, <1>4, Recursion
<1>6. F \in [Nat -> S] /\ F[0] = b /\ \A n \in Nat \ {0} : F[n] = g[n][F[n - 1]]
  BY <1>5 DEF Recursive
<1> DEFINE f == [n \in 0..N |-> F[n]]
<1>7. Is(f)
  <2>1. ASSUME NEW n \in 0..N
        PROVE  f[n] = IF n = 0 THEN [i \in 1..P |-> << >>]
                      ELSE [f[n - 1] EXCEPT ![Slot(all[n].key, P)] = <<all[n]>> \o @]
    <3>1. CASE n = 0
      BY <1>6, <2>1, <3>1
    <3>2. CASE n # 0
      <4>1. n - 1 \in Nat /\ n \in Nat \ {0} /\ n \in 1..N /\ n - 1 \in 0..N
        BY <1>2, <2>1, <3>2
      <4>2. F[n - 1] \in S /\ F[n] = g[n][F[n - 1]]
        BY <1>6, <4>1
      <4>3. F[n] = [F[n - 1] EXCEPT ![Slot(all[n].key, P)] = <<all[n]>> \o @]
        BY <4>1, <4>2
      <4> HIDE DEF S, g
      <4>4. QED
        BY <3>2, <4>1, <4>3
    <3>3. QED
      BY <3>1, <3>2
  <2>2. QED
    BY <2>1
<1> HIDE DEF f
<1>8. Is(u)
  BY <1>7
<1> HIDE DEF u
<1>9. Filled(u, all, P)
  <2>1. u[0] = [i \in 1..P |-> << >>]
    BY <1>2, <1>8
  <2>2. ASSUME NEW n \in 1..N
        PROVE  u[n] = Put(u[n - 1], Slot(all[n].key, P), <<all[n]>> \o u[n - 1][Slot(all[n].key, P)])
    <3>1. n \in 0..N /\ n # 0
      BY <1>2
    <3>2. QED
      BY <1>8, <3>1 DEF Put
  <2>3. QED
    BY <2>1, <2>2 DEF Filled, N
<1>10. QED
  BY <1>1, <1>9 DEF P, all, N

\* All entries are moved.
LEMMA FilledIs ==
    ASSUME NEW E, \A e \in E : e.key \in Keys, NEW all \in Seq(E), Distinct(all),
           NEW P \in Nat \ {0}, NEW f, Filled(f, all, P)
    PROVE  /\ Chained(f[Len(all)], E) /\ Len(f[Len(all)]) = P
           /\ All(f[Len(all)]) = Range(all)
<1> DEFINE N == Len(all)
           T == {n \in Nat : n <= N => Chained(f[n], E) /\ Len(f[n]) = P
                                        /\ All(f[n]) = {all[i] : i \in 1..n}}
<1>1. N \in Nat /\ DOMAIN all = 1..N /\ \A n \in 1..N : all[n] \in E /\ Slot(all[n].key, P) \in 1..P
  BY SlotIs
<1>2. 0 \in T
  <2>1. f[0] = [i \in 1..P |-> << >>]
    BY DEF Filled
  <2>2. f[0] \in Seq(Seq(E)) /\ Len(f[0]) = P /\ DOMAIN f[0] = 1..P /\ \A i \in 1..P : f[0][i] = << >>
    BY <2>1
  <2>3. Range(<< >>) = {} /\ Distinct(<< >>)
    BY DEF Range, Distinct
  <2>4. Chained(f[0], E) /\ All(f[0]) = {}
    BY <2>2, <2>3 DEF Chained, All
  <2>5. {all[i] : i \in 1..0} = {}
    OBVIOUS
  <2>6. QED
    BY <2>2, <2>4, <2>5
<1>3. ASSUME NEW n \in Nat, n \in T
      PROVE  n + 1 \in T
  <2>1. CASE n + 1 <= N
    <3> DEFINE e == all[n + 1]
               s == Slot(e.key, P)
               t == f[n]
    <3>1. n + 1 \in 1..N /\ (n + 1) - 1 = n /\ 1..n \subseteq 1..N
      BY <1>1, <2>1
    <3>2. Chained(t, E) /\ Len(t) = P /\ All(t) = {all[i] : i \in 1..n}
      BY <1>1, <1>3, <3>1
    <3>3. e \in E /\ s \in 1..P
      BY <1>1, <3>1
    <3>4. f[n + 1] = Put(t, s, <<e>> \o t[s])
      BY <3>1 DEF Filled
    <3>5. \A x \in All(t) : x.key # e.key
      <4>1. ASSUME NEW i \in 1..n
            PROVE  all[i].key # e.key
        <5>1. i # n + 1 /\ i \in DOMAIN all /\ n + 1 \in DOMAIN all
          BY <1>1, <3>1
        <5>2. QED
          BY <5>1 DEF Distinct
      <4>2. QED
        BY <3>2, <4>1
    <3>6. {all[i] : i \in 1..(n + 1)} = {all[i] : i \in 1..n} \cup {e}
      <4>1. 1..(n + 1) = (1..n) \cup {n + 1}
        OBVIOUS
      <4>2. QED
        BY <4>1
    <3> HIDE DEF e, s, t
    <3>7. s = Slot(e.key, Len(t)) /\ s \in 1..Len(t)
      BY <3>2, <3>3 DEF s
    <3>8. Chained(t, E) /\ e \in E
      BY <3>2, <3>3
    <3> DEFINE new == Put(t, s, <<e>> \o t[s])
    <3>9. Chained(new, E) /\ Len(new) = Len(t) /\ All(new) = All(t) \cup {e}
      BY <3>5, <3>7, <3>8, HeadIs
    <3>10. f[n + 1] = new
      BY <3>4
    <3> HIDE DEF new
    <3>11. /\ Chained(f[n + 1], E) /\ Len(f[n + 1]) = P
           /\ All(f[n + 1]) = {all[i] : i \in 1..(n + 1)}
      BY <3>2, <3>6, <3>9, <3>10
    <3>12. QED
      BY <3>11
  <2>2. QED
    BY <2>1
<1> HIDE DEF T
<1>4. N \in T
  BY <1>1, <1>2, <1>3, SetInduction
<1>5. QED
  BY <1>1, <1>4 DEF T, Range

LEMMA ExpandIs ==
    ASSUME NEW V, NEW h, IsDict(h, V), NEW size \in Nat, h.used <= size
    PROVE  /\ IsDict(dictExpand(h, size), V) /\ dictExpand(h, size).size # 0
           /\ \A k \in Keys : dictFind(dictExpand(h, size), k) = dictFind(h, k)
<1> DEFINE E == DictEntries(V)
           all == Entries(h)
           P == dictNextPower(size)
<1>1. h = TableOf(h.table) /\ Chained(h.table, E)
  BY DictIs
<1>2. /\ all \in Seq(E) /\ Range(all) = All(h.table) /\ Distinct(all)
      /\ \A e \in E : e.key \in Keys
  BY <1>1, ChainedEntries DEF DictEntries
<1>3. P \in Nat \ {0} /\ dictNextPower(P) = P
  BY NextPowerIs
<1>4. PICK f : /\ Filled(f, all, P)
               /\ dictExpand(h, size) = [h EXCEPT !.size = P, !.table = f[Len(all)]]
  <2>1. ~(h.used > size)
    <3>1. h.used \in Nat
      BY EntriesFound
    <3>2. QED
      BY <3>1
  <2>2. QED
    BY <1>2, <2>1, ExpandFills
<1> DEFINE u == f[Len(all)]
<1>5. Chained(u, E) /\ Len(u) = P /\ All(u) = Range(all)
  BY <1>2, <1>3, <1>4, FilledIs
<1> HIDE DEF u, P, all, E
<1>6. dictExpand(h, size) = TableOf(u)
  <2> DEFINE t == h.table
  <2>1. dictExpand(h, size) = [h EXCEPT !.size = P, !.table = u] /\ h = TableOf(t) /\ All(u) = All(t)
    BY <1>1, <1>2, <1>4, <1>5 DEF u
  <2> HIDE DEF t
  <2>2. QED
    BY <1>5, <2>1 DEF TableOf
<1>7. IsDict(TableOf(u), V) /\ \A k \in Keys : dictFind(TableOf(u), k) = {e \in All(u) : e.key = k}
  BY <1>3, <1>5, DictFrom DEF E
<1>8. \A k \in Keys : dictFind(h, k) = {e \in All(h.table) : e.key = k}
  BY FindIs
<1>9. dictExpand(h, size).size = P
  BY <1>5, <1>6 DEF TableOf
<1>10. QED
  BY <1>2, <1>3, <1>5, <1>6, <1>7, <1>8, <1>9

LEMMA ExpandIfNeededIs ==
    ASSUME NEW V, NEW h, IsDict(h, V)
    PROVE  /\ IsDict(dictExpandIfNeeded(h), V) /\ dictExpandIfNeeded(h).size # 0
           /\ \A k \in Keys : dictFind(dictExpandIfNeeded(h), k) = dictFind(h, k)
<1>1. h.size \in Nat /\ h.used \in Nat /\ (h.size = 0 => h.used = 0)
  <2>1. h = TableOf(h.table) /\ Chained(h.table, DictEntries(V))
    BY DictIs
  <2>2. h.size = Len(h.table) /\ h.used = Cardinality(All(h.table))
    BY <2>1 DEF TableOf
  <2>3. h.table \in Seq(Seq(DictEntries(V))) /\ h.used \in Nat
    BY <2>1, EntriesFound DEF Chained
  <2>4. ASSUME Len(h.table) = 0
        PROVE  All(h.table) = {}
    BY <2>3, <2>4 DEF All
  <2>5. Len(h.table) \in Nat
    BY <2>3
  <2>6. Len(h.table) = 0 => h.used = 0
    BY <2>2, <2>4, FS_EmptySet
  <2>7. QED
    BY <2>2, <2>3, <2>5, <2>6
<1>2. CASE h.size = 0
  <2>1. DICT_HT_INITIAL_SIZE \in Nat /\ h.used <= DICT_HT_INITIAL_SIZE
    BY <1>1, <1>2, DictAssumption
  <2>2. dictExpandIfNeeded(h) = dictExpand(h, DICT_HT_INITIAL_SIZE)
    BY <1>2 DEF dictExpandIfNeeded
  <2>3. QED
    BY <2>1, <2>2, ExpandIs
<1>3. CASE h.size # 0 /\ h.used = h.size
  <2>1. h.size * 2 \in Nat /\ h.used <= h.size * 2
    BY <1>1, <1>3
  <2>2. dictExpandIfNeeded(h) = dictExpand(h, h.size * 2)
    BY <1>3 DEF dictExpandIfNeeded
  <2>3. QED
    BY <2>1, <2>2, ExpandIs
<1>4. CASE h.size # 0 /\ h.used # h.size
  BY <1>4 DEF dictExpandIfNeeded
<1>5. QED
  BY <1>2, <1>3, <1>4

LEMMA ReplaceIs ==
    ASSUME NEW V, NEW h, IsDict(h, V), NEW k \in Keys, NEW v \in V
    PROVE  /\ IsDict(dictReplace(h, k, v), V)
           /\ \A l \in Keys : dictFind(dictReplace(h, k, v), l) =
                 IF l = k THEN {[key |-> k, val |-> v]} ELSE dictFind(h, l)
<1> DEFINE b == dictExpandIfNeeded(h)
           new == [key |-> k, val |-> v]
<1>1. /\ IsDict(b, V) /\ b.size # 0
      /\ \A l \in Keys : dictFind(b, l) = dictFind(h, l)
  BY ExpandIfNeededIs
<1>2. CASE dictFind(b, k) # {}
  <2>1. dictReplace(h, k, v) = SetVal(b, k, v)
    BY <1>2 DEF dictReplace
  <2> HIDE DEF b
  <2>2. QED
    BY <1>1, <1>2, <2>1, SetValIs
<1>3. CASE dictFind(b, k) = {}
  <2> DEFINE t == b.table
             s == Slot(k, b.size)
             u == Put(t, s, <<new>> \o t[s])
  <2>1. dictReplace(h, k, v) = [b EXCEPT !.table = u, !.used = @ + 1]
    BY <1>3 DEF dictReplace, Put
  <2> HIDE DEF b
  <2>2. /\ Chained(t, DictEntries(V)) /\ b.size = Len(t) /\ b.size = dictNextPower(b.size)
        /\ b = TableOf(t) /\ s \in 1..Len(t)
        /\ IsFiniteSet(All(t)) /\ All(t) \subseteq DictEntries(V)
    BY <1>1, ChainOf
  <2>3. dictFind(b, k) = {e \in All(t) : e.key = k}
    BY <1>1, FindIs
  <2>4. \A x \in All(t) : x.key # k
    BY <1>3, <2>3
  <2>5. new \in DictEntries(V) /\ new.key = k
    BY DEF DictEntries
  <2> HIDE DEF new
  <2>6. Chained(u, DictEntries(V)) /\ Len(u) = Len(t) /\ All(u) = All(t) \cup {new}
    BY <2>2, <2>4, <2>5, HeadIs
  <2> HIDE DEF u
  <2>7. Cardinality(All(u)) = Cardinality(All(t)) + 1
    BY <2>2, <2>4, <2>5, <2>6, FS_AddElement
  <2>8. dictReplace(h, k, v) = TableOf(u)
    <3> HIDE DEF t
    <3>1. b = TableOf(t)
      BY <2>2
    <3>2. QED
      BY <2>1, <2>6, <2>7, <3>1 DEF TableOf
  <2>9. IsDict(TableOf(u), V) /\ \A l \in Keys : dictFind(TableOf(u), l) = {e \in All(u) : e.key = l}
    BY <2>2, <2>6, DictFrom
  <2>10. ASSUME NEW l \in Keys
         PROVE  {e \in All(u) : e.key = l} = IF l = k THEN {new} ELSE {e \in All(t) : e.key = l}
    BY <2>4, <2>5, <2>6
  <2>11. \A l \in Keys : dictFind(b, l) = {e \in All(t) : e.key = l}
    BY <1>1, FindIs
  <2>12. QED
    BY <1>1, <2>8, <2>9, <2>10, <2>11 DEF new
<1>4. QED
  BY <1>2, <1>3

\* Callbacks without the bounds of the model.
AnyCallback == [fn : BOOLEAN, id : Nat, pending_subs : Int]

\* A callback with so many replies to come, and one with one more.
Owing(c, n) == [c EXCEPT !.pending_subs = n]
OneMore(c, entry) == IF entry = {} THEN c ELSE Owing(c, dictGetEntryVal(entry).pending_subs + 1)

LEMMA OwingIs ==
    ASSUME NEW c \in AnyCallback, NEW n \in Int
    PROVE  /\ Owing(c, n) \in AnyCallback
           /\ Owing(c, n).fn = c.fn /\ Owing(c, n).id = c.id /\ Owing(c, n).pending_subs = n
  BY DEF Owing, AnyCallback

LEMMA EntryVal ==
    ASSUME NEW h, IsDict(h, AnyCallback), NEW k \in Keys, dictFind(h, k) # {}
    PROVE  /\ dictGetEntryVal(dictFind(h, k)) \in AnyCallback
           /\ dictFind(h, k) = {[key |-> k, val |-> dictGetEntryVal(dictFind(h, k))]}
<1> DEFINE entry == dictFind(h, k)
<1>1. PICK v \in AnyCallback : entry = {[key |-> k, val |-> v]}
  BY FindIs
<1> HIDE DEF entry
<1>2. dictGetEntryVal(entry) = v
  <2> DEFINE x == CHOOSE e \in entry : TRUE
  <2>1. x = [key |-> k, val |-> v]
    BY <1>1
  <2>2. dictGetEntryVal(entry) = x.val
    BY DEF dictGetEntryVal
  <2> HIDE DEF x
  <2>3. QED
    BY <2>1, <2>2
<1>3. QED
  BY <1>1, <1>2 DEF entry

\* One key of Add.
AddNext(s, name) ==
    [dict |-> dictReplace(s.dict, name, OneMore(s.cb, dictFind(s.dict, name))),
     cb |-> OneMore(s.cb, dictFind(s.dict, name))]

LEMMA AddNextIs ==
    ASSUME NEW s, IsDict(s.dict, AnyCallback), s.cb \in AnyCallback, NEW name \in Keys
    PROVE  /\ IsDict(AddNext(s, name).dict, AnyCallback) /\ AddNext(s, name).cb \in AnyCallback
           /\ AddNext(s, name).cb = OneMore(s.cb, dictFind(s.dict, name))
           /\ \A k \in Keys : dictFind(AddNext(s, name).dict, k) =
                 IF k = name THEN {[key |-> name, val |-> AddNext(s, name).cb]} ELSE dictFind(s.dict, k)
<1> DEFINE new == OneMore(s.cb, dictFind(s.dict, name))
           d == s.dict
<1>1. AddNext(s, name) = [dict |-> dictReplace(d, name, new), cb |-> new]
  BY DEF AddNext
<1>2. new \in AnyCallback
  <2>1. CASE dictFind(d, name) = {}
    BY <2>1 DEF OneMore
  <2>2. CASE dictFind(d, name) # {}
    <3>1. dictGetEntryVal(dictFind(d, name)).pending_subs \in Int
      BY <2>2, EntryVal DEF AnyCallback
    <3>2. QED
      BY <2>2, <3>1, OwingIs DEF OneMore
  <2>3. QED
    BY <2>1, <2>2
<1>3. IsDict(d, AnyCallback)
  OBVIOUS
<1> HIDE DEF new, d
<1>4. /\ IsDict(dictReplace(d, name, new), AnyCallback)
      /\ \A k \in Keys : dictFind(dictReplace(d, name, new), k) =
            IF k = name THEN {[key |-> name, val |-> new]} ELSE dictFind(d, k)
  BY <1>2, <1>3, ReplaceIs
<1>5. AddNext(s, name).dict = dictReplace(d, name, new) /\ AddNext(s, name).cb = new
  BY <1>1
<1>6. QED
  BY <1>2, <1>4, <1>5 DEF new, d

Added(f, dict, names, callback) ==
    /\ f[0] = [dict |-> dict, cb |-> callback]
    /\ \A n \in 1..Len(names) : f[n] = AddNext(f[n - 1], names[n])

LEMMA AddIsAdded ==
    ASSUME NEW dict, IsDict(dict, AnyCallback), NEW names \in Seq(Keys), NEW callback \in AnyCallback
    PROVE  \E f : Added(f, dict, names, callback) /\ Add(dict, names, callback) = f[Len(names)].dict
<1> DEFINE N == Len(names)
           D == [size : Nat, table : Seq(Seq(DictEntries(AnyCallback))), used : Nat]
           S == {s \in [dict : D, cb : AnyCallback] : IsDict(s.dict, AnyCallback)}
           b == [dict |-> dict, cb |-> callback]
           g == [n \in Nat |-> [s \in S |-> IF n \in 1..N THEN AddNext(s, names[n]) ELSE s]]
           Is(f) == f = [n \in 0..N |-> IF n = 0 THEN [dict |-> dict, cb |-> callback]
                                         ELSE AddNext(f[n - 1], names[n])]
           u == CHOOSE f : Is(f)
<1>1. Add(dict, names, callback) = u[N].dict
  BY DEF Add, AddNext, OneMore, Owing
<1>2. N \in Nat /\ \A n \in 1..N : names[n] \in Keys
  OBVIOUS
<1>3. ASSUME NEW d, IsDict(d, AnyCallback)
      PROVE  d \in D
  <2>1. d = TableOf(d.table) /\ Chained(d.table, DictEntries(AnyCallback)) /\ d.used \in Nat
    BY <1>3, DictIs, EntriesFound
  <2>2. d.table \in Seq(Seq(DictEntries(AnyCallback)))
    BY <2>1 DEF Chained
  <2>3. Len(d.table) \in Nat
    BY <2>2
  <2> DEFINE t == d.table
  <2>4. d = [size |-> Len(t), table |-> t, used |-> Cardinality(All(t))]
    BY <2>1 DEF TableOf
  <2>5. Cardinality(All(t)) \in Nat
    BY <2>1, ChainedEntries, FS_CardinalityType
  <2> HIDE DEF t
  <2>6. QED
    BY <2>2, <2>3, <2>4, <2>5 DEF t
<1>4. b \in S
  BY <1>3
<1>5. ASSUME NEW n \in Nat, NEW s \in S
      PROVE  g[n][s] \in S
  <2>1. CASE n \in 1..N
    <3>1. IsDict(s.dict, AnyCallback) /\ s.cb \in AnyCallback /\ names[n] \in Keys
      BY <1>2, <2>1
    <3>2. IsDict(AddNext(s, names[n]).dict, AnyCallback) /\ AddNext(s, names[n]).cb \in AnyCallback
      BY <3>1, AddNextIs
    <3>3. AddNext(s, names[n]).dict \in D
      BY <1>3, <3>2
    <3>4. AddNext(s, names[n]) = [dict |-> AddNext(s, names[n]).dict, cb |-> AddNext(s, names[n]).cb]
      BY DEF AddNext
    <3> DEFINE x == AddNext(s, names[n]).dict
               y == AddNext(s, names[n]).cb
    <3>5. AddNext(s, names[n]) = [dict |-> x, cb |-> y] /\ x \in D /\ y \in AnyCallback
          /\ IsDict(x, AnyCallback)
      BY <3>2, <3>3, <3>4
    <3> HIDE DEF x, y, D
    <3>6. [dict |-> x, cb |-> y] \in [dict : D, cb : AnyCallback] /\ [dict |-> x, cb |-> y].dict = x
      BY <3>5
    <3>7. QED
      BY <2>1, <3>5, <3>6
  <2>2. CASE n \notin 1..N
    BY <2>2
  <2>3. QED
    BY <2>1, <2>2
<1>6. PICK F : Recursive(F, S, b, g)
  <2> HIDE DEF g, S, b
  <2>1. QED
    BY <1>4, <1>5, Recursion
<1>7. F \in [Nat -> S] /\ F[0] = b /\ \A n \in Nat \ {0} : F[n] = g[n][F[n - 1]]
  BY <1>6 DEF Recursive
<1> HIDE DEF S, N
<1> DEFINE f == [n \in 0..N |-> F[n]]
<1>8. Is(f)
  <2>1. ASSUME NEW n \in 0..N
        PROVE  f[n] = IF n = 0 THEN [dict |-> dict, cb |-> callback] ELSE AddNext(f[n - 1], names[n])
    <3>1. CASE n = 0
      BY <1>7, <2>1, <3>1
    <3>2. CASE n # 0
      <4>1. n - 1 \in Nat /\ n \in Nat \ {0} /\ n \in 1..N /\ n - 1 \in 0..N
        BY <1>2, <2>1, <3>2
      <4>2. F[n - 1] \in S /\ F[n] = g[n][F[n - 1]]
        BY <1>7, <4>1
      <4>3. F[n] = AddNext(F[n - 1], names[n])
        BY <4>1, <4>2
      <4> HIDE DEF g
      <4>4. QED
        BY <3>2, <4>1, <4>3
    <3>3. QED
      BY <3>1, <3>2
  <2>2. QED
    BY <2>1
<1> HIDE DEF f
<1>9. Is(u)
  BY <1>8
<1> HIDE DEF u
<1>10. Added(u, dict, names, callback)
  <2>1. u[0] = [dict |-> dict, cb |-> callback]
    BY <1>2, <1>9
  <2>2. ASSUME NEW n \in 1..N
        PROVE  u[n] = AddNext(u[n - 1], names[n])
    <3>1. n \in 0..N /\ n # 0
      BY <1>2
    <3>2. QED
      BY <1>9, <3>1
  <2>3. QED
    BY <2>1, <2>2 DEF Added, N
<1>11. QED
  BY <1>1, <1>10 DEF N

\* Registered for its keys: a new one, or one for one more reply.
LEMMA AddIs ==
    ASSUME NEW dict, IsDict(dict, AnyCallback), NEW callback \in AnyCallback,
           NEW names \in Seq(Keys), IsInjective(names), names # << >>,
           Len(names) = 1 \/ \A i \in DOMAIN names : dictFind(dict, names[i]) = {}
    PROVE  /\ IsDict(Add(dict, names, callback), AnyCallback)
           /\ \A k \in Keys : dictFind(Add(dict, names, callback), k) =
                IF k \notin Range(names) THEN dictFind(dict, k)
                ELSE {[key |-> k, val |->
                         OneMore(callback, dictFind(dict, k))]}
<1> DEFINE N == Len(names)
<1>1. N \in Nat /\ DOMAIN names = 1..N /\ N # 0 /\ \A n \in 1..N : names[n] \in Keys
  OBVIOUS
<1>2. PICK f : Added(f, dict, names, callback) /\ Add(dict, names, callback) = f[N].dict
  BY AddIsAdded
<1>3. f[0].dict = dict /\ f[0].cb = callback /\ \A n \in 1..N : f[n] = AddNext(f[n - 1], names[n])
  BY <1>2 DEF Added
<1>4. CASE N = 1
  <2>1. f[1] = AddNext(f[0], names[1]) /\ names[1] \in Keys /\ Range(names) = {names[1]}
    BY <1>1, <1>3, <1>4 DEF Range
  <2> HIDE DEF N
  <2> DEFINE s == f[0]
             name == names[1]
  <2>2. IsDict(s.dict, AnyCallback) /\ s.cb \in AnyCallback /\ name \in Keys
    BY <1>3, <2>1
  <2> HIDE DEF s, name
  <2>3. /\ IsDict(AddNext(s, name).dict, AnyCallback)
        /\ AddNext(s, name).cb = OneMore(s.cb, dictFind(s.dict, name))
        /\ \A k \in Keys : dictFind(AddNext(s, name).dict, k) =
              IF k = name THEN {[key |-> name, val |-> AddNext(s, name).cb]} ELSE dictFind(s.dict, k)
    BY <2>2, AddNextIs
  <2>4. f[1] = AddNext(s, name)
    BY <2>1 DEF s, name
  <2>5. s.dict = dict /\ s.cb = callback /\ Range(names) = {name}
    BY <1>3, <2>1 DEF s, name
  <2>6. Add(dict, names, callback) = f[1].dict
    BY <1>2, <1>4
  <2>7. QED
    BY <2>3, <2>4, <2>5, <2>6
<1>5. CASE \A i \in DOMAIN names : dictFind(dict, names[i]) = {}
  <2> DEFINE Ok(n) ==
               /\ IsDict(f[n].dict, AnyCallback) /\ f[n].cb = callback
               /\ \A k \in Keys : dictFind(f[n].dict, k) =
                    IF \E i \in 1..n : names[i] = k THEN {[key |-> k, val |-> callback]}
                    ELSE dictFind(dict, k)
             T == {n \in Nat : n <= N => Ok(n)}
  <2>1. 0 \in T
    BY <1>3
  <2>2. ASSUME NEW n \in Nat, n \in T
        PROVE  n + 1 \in T
    <3>1. CASE n + 1 <= N
      <4>1. n + 1 \in 1..N /\ (n + 1) - 1 = n /\ n <= N /\ \A i \in 1..n : i \in 1..N /\ i # n + 1
        BY <1>1, <3>1
      <4>2. /\ IsDict(f[n].dict, AnyCallback) /\ f[n].cb = callback
            /\ \A k \in Keys : dictFind(f[n].dict, k) =
                 IF \E i \in 1..n : names[i] = k THEN {[key |-> k, val |-> callback]}
                 ELSE dictFind(dict, k)
        BY <2>2, <4>1
      <4> DEFINE name == names[n + 1]
                 s == f[n]
      <4>3. name \in Keys /\ f[n + 1] = AddNext(s, name)
        BY <1>1, <1>3, <4>1
      <4>4. dictFind(s.dict, name) = {}
        <5>1. ~\E i \in 1..n : names[i] = name
          BY <1>1, <4>1 DEF IsInjective
        <5>2. dictFind(dict, name) = {}
          BY <1>1, <1>5, <4>1
        <5>3. QED
          BY <4>2, <4>3, <5>1, <5>2
      <4> HIDE DEF name, s
      <4>5. IsDict(s.dict, AnyCallback) /\ s.cb = callback
        BY <4>2 DEF s
      <4>6. /\ IsDict(AddNext(s, name).dict, AnyCallback)
            /\ AddNext(s, name).cb = OneMore(s.cb, dictFind(s.dict, name))
            /\ \A k \in Keys : dictFind(AddNext(s, name).dict, k) =
                 IF k = name THEN {[key |-> name, val |-> AddNext(s, name).cb]} ELSE dictFind(s.dict, k)
        BY <4>3, <4>5, AddNextIs
      <4>7. IsDict(f[n + 1].dict, AnyCallback) /\ f[n + 1].cb = callback
        BY <4>3, <4>4, <4>5, <4>6 DEF OneMore
      <4>8. 1..(n + 1) = (1..n) \cup {n + 1}
        OBVIOUS
      <4>9. ASSUME NEW k \in Keys
            PROVE  dictFind(f[n + 1].dict, k) =
                     IF \E i \in 1..(n + 1) : names[i] = k THEN {[key |-> k, val |-> callback]}
                     ELSE dictFind(dict, k)
        <5>1. (\E i \in 1..(n + 1) : names[i] = k) <=> k = name \/ \E i \in 1..n : names[i] = k
          BY <4>8 DEF name
        <5>2. dictFind(f[n + 1].dict, k) =
                 IF k = name THEN {[key |-> k, val |-> callback]} ELSE dictFind(s.dict, k)
          BY <4>3, <4>6, <4>7
        <5>3. dictFind(s.dict, k) = IF \E i \in 1..n : names[i] = k
                                      THEN {[key |-> k, val |-> callback]} ELSE dictFind(dict, k)
          BY <4>2 DEF s
        <5>4. CASE k = name
          BY <5>1, <5>2, <5>4
        <5>5. CASE k # name
          BY <5>1, <5>2, <5>3, <5>5
        <5>6. QED
          BY <5>4, <5>5
      <4>10. Ok(n + 1)
        BY <4>7, <4>9
      <4> HIDE DEF Ok
      <4>11. QED
        BY <4>10
    <3>2. CASE ~(n + 1 <= N)
      BY <3>2
    <3>3. QED
      BY <3>1, <3>2
  <2> HIDE DEF T
  <2>3. N \in T
    BY <1>1, <2>1, <2>2, SetInduction
  <2>4. /\ IsDict(f[N].dict, AnyCallback)
        /\ \A k \in Keys : dictFind(f[N].dict, k) =
              IF \E i \in 1..N : names[i] = k THEN {[key |-> k, val |-> callback]}
              ELSE dictFind(dict, k)
    <3>1. N <= N
      BY <1>1
    <3>2. QED
      BY <2>3, <3>1 DEF T
  <2>5. ASSUME NEW k \in Keys
        PROVE  (\E i \in 1..N : names[i] = k) <=> k \in Range(names)
    BY <1>1 DEF Range
  <2>6. ASSUME NEW k \in Keys, k \in Range(names)
        PROVE  dictFind(dict, k) = {}
    BY <1>1, <1>5, <2>6 DEF Range
  <2>7. QED
    BY <1>2, <2>4, <2>5, <2>6 DEF OneMore
<1>6. QED
  BY <1>4, <1>5

\* A dict whose values are of a smaller set.
LEMMA IsDictNarrow ==
    ASSUME NEW V, NEW W, NEW h, IsDict(h, W),
           \A k \in Keys : dictFind(h, k) # {} => dictGetEntryVal(dictFind(h, k)) \in V
    PROVE  IsDict(h, V)
<1> DEFINE t == h.table
<1>1. /\ h = TableOf(t) /\ Chained(t, DictEntries(W)) /\ (h.size = 0 \/ h.size = dictNextPower(h.size))
  BY DictIs
<1>2. \A e \in All(t) : e \in DictEntries(V)
  <2>1. ASSUME NEW e \in All(t)
        PROVE  e \in DictEntries(V)
    <3>1. e \in Range(Entries(h)) /\ e \in DictEntries(W)
      BY <1>1, ChainedEntries
    <3>2. e.key \in Keys /\ dictFind(h, e.key) = {e}
      BY <3>1, EntriesFound
    <3>3. e.val \in V
      BY <3>2 DEF dictGetEntryVal
    <3>4. QED
      BY <3>1, <3>3 DEF DictEntries
  <2>2. QED
    BY <2>1
<1>3. t \in Seq(Seq(DictEntries(W)))
  BY <1>1 DEF Chained
<1>4. ASSUME NEW i \in DOMAIN t
      PROVE  t[i] \in Seq(DictEntries(V))
  <2>1. t[i] \in Seq(DictEntries(W)) /\ Range(t[i]) \subseteq All(t)
    BY <1>3 DEF All
  <2>2. \A j \in 1..Len(t[i]) : t[i][j] \in DictEntries(V)
    BY <1>2, <2>1 DEF Range
  <2>3. QED
    BY <2>1, <2>2
<1>5. t \in Seq(Seq(DictEntries(V)))
  <2>1. Len(t) \in Nat /\ DOMAIN t = 1..Len(t) /\ t = [i \in 1..Len(t) |-> t[i]]
    BY <1>3
  <2> HIDE DEF t
  <2>2. QED
    BY <1>4, <2>1
<1>6. Chained(t, DictEntries(V))
  BY <1>1, <1>5 DEF Chained
<1>7. QED
  BY <1>1, <1>6, DictIs

-----------------------------------------------------------------------------
(* Counting, and the commands.                                              *)

LEMMA FiniteMax ==
    ASSUME NEW S \in SUBSET Nat, IsFiniteSet(S), S # {}
    PROVE  Max(S) \in S /\ \A x \in S : Max(S) >= x
<1> DEFINE T == {n \in Nat : \A R \in SUBSET Nat :
                    IsFiniteSet(R) /\ Cardinality(R) = n /\ R # {} => \E m \in R : \A x \in R : m >= x}
<1>1. 0 \in T
  BY FS_EmptySet
<1>2. ASSUME NEW n \in Nat, n \in T
      PROVE  n + 1 \in T
  <2>1. SUFFICES ASSUME NEW R \in SUBSET Nat, IsFiniteSet(R), Cardinality(R) = n + 1, R # {}
                 PROVE  \E m \in R : \A x \in R : m >= x
    OBVIOUS
  <2>2. PICK y \in R : TRUE
    BY <2>1
  <2> DEFINE Q == R \ {y}
  <2>3. Q \in SUBSET Nat /\ IsFiniteSet(Q) /\ Cardinality(Q) = n
    <3>1. IsFiniteSet(Q) /\ Cardinality(Q) = Cardinality(R) - 1
      BY <2>1, <2>2, FS_RemoveElement
    <3>2. (n + 1) - 1 = n /\ Q \in SUBSET Nat
      OBVIOUS
    <3> HIDE DEF Q
    <3>3. QED
      BY <2>1, <3>1, <3>2
  <2>4. CASE Q = {}
    <3>1. R = {y}
      BY <2>2, <2>4
    <3>2. QED
      BY <2>1, <3>1
  <2>5. CASE Q # {}
    <3>1. PICK m \in Q : \A x \in Q : m >= x
      BY <1>2, <2>3, <2>5
    <3>2. y \in Nat /\ m \in Nat /\ \A x \in R : x \in Nat /\ (x = y \/ m >= x)
      BY <2>1, <2>2, <3>1
    <3>3. CASE m >= y
      BY <3>1, <3>2, <3>3
    <3>4. CASE ~(m >= y)
      <4>1. \A x \in R : y >= x
        BY <3>2, <3>4
      <4>2. QED
        BY <2>2, <4>1
    <3>5. QED
      BY <3>3, <3>4
  <2>6. QED
    BY <2>4, <2>5
<1> HIDE DEF T
<1>3. Cardinality(S) \in T
  BY <1>1, <1>2, SetInduction, FS_CardinalityType
<1>4. \E m \in S : \A x \in S : m >= x
  BY <1>3 DEF T
<1>5. QED
  BY <1>4 DEF Max

\* A command is that of some script, and no script is longer than the bound.
AnyCommand == [kind : {"GET", "QUIT", "MONITOR", "SUBSCRIBE", "UNSUBSCRIBE"},
               p : BOOLEAN, names : Seq(Keys), fn : BOOLEAN]

LEMMA CommandsAre ==
    /\ Commands \subseteq AnyCommand
    /\ \A c \in Commands : c.kind \in {"SUBSCRIBE", "UNSUBSCRIBE"} => c.names # << >> /\ IsInjective(c.names)
    /\ \A c \in Commands : c.kind \notin {"SUBSCRIBE", "UNSUBSCRIBE"} => c.names = << >>
<1>1. Scripts \subseteq Seq(AnyCommand)
  BY AsyncAssumption DEF AnyCommand
<1>2. Commands \subseteq AnyCommand
  <2>1. ASSUME NEW script \in Scripts
        PROVE  Range(script) \subseteq AnyCommand
    <3>1. script \in Seq(AnyCommand)
      BY <1>1
    <3>2. QED
      BY <3>1, RangeOfSeq
  <2>2. QED
    BY <2>1 DEF Commands
<1>3. \A c \in Commands : IF c.kind \in {"SUBSCRIBE", "UNSUBSCRIBE"}
                            THEN c.names # <<>> /\ IsInjective(c.names) ELSE c.names = <<>>
  BY AsyncAssumption
<1>4. QED
  BY <1>2, <1>3

LEMMA MaxCommandsIs ==
    /\ MaxCommands \in Nat
    /\ \A script \in Scripts : Len(script) \in Nat /\ Len(script) <= MaxCommands
<1> DEFINE S == {Len(script) : script \in Scripts}
           f == [script \in Scripts |-> Len(script)]
<1>1. \A script \in Scripts : Len(script) \in Nat
  BY AsyncAssumption
<1>2. S \in SUBSET Nat /\ S # {}
  BY <1>1, AsyncAssumption
<1>3. f \in Surjection(Scripts, S)
  BY DEF Surjection
<1>4. IsFiniteSet(S)
  <2> HIDE DEF S, f
  <2>1. QED
    BY <1>3, AsyncAssumption, FS_Surjection
<1>5. Max(S) \in S /\ \A x \in S : Max(S) >= x
  <2> HIDE DEF S
  <2>1. QED
    BY <1>2, <1>4, FiniteMax
<1>6. MaxCommands = Max(S)
  BY DEF MaxCommands
<1>7. ASSUME NEW script \in Scripts
      PROVE  Len(script) <= MaxCommands
  <2>1. Len(script) \in S
    OBVIOUS
  <2> HIDE DEF S
  <2>2. Max(S) >= Len(script) /\ Max(S) \in Nat /\ Len(script) \in Nat
    BY <1>1, <1>2, <1>5, <2>1
  <2>3. QED
    BY <1>6, <2>2
<1>8. QED
  BY <1>1, <1>2, <1>5, <1>6, <1>7

LEMMA AmongType ==
    ASSUME NEW S, NEW E, NEW s \in Seq(E)
    PROVE  /\ IsFiniteSet({i \in DOMAIN s : s[i] \in S}) /\ Among(S, s) \in Nat
           /\ Among(S, s) = 0 <=> \A i \in DOMAIN s : s[i] \notin S
<1>1. IsFiniteSet(DOMAIN s)
  <2>1. 1 \in Int /\ Len(s) \in Int /\ DOMAIN s = 1..Len(s)
    OBVIOUS
  <2>2. QED
    BY <2>1, FS_Interval
<1> DEFINE I == {i \in DOMAIN s : s[i] \in S}
<1>2. IsFiniteSet(I)
  BY <1>1, FS_Subset
<1>3. Cardinality(I) \in Nat /\ (Cardinality(I) = 0 <=> I = {})
  BY <1>2, FS_CardinalityType, FS_EmptySet
<1>4. QED
  BY <1>2, <1>3 DEF Among

LEMMA AmongSame ==
    ASSUME NEW S, NEW T, NEW s, \A i \in DOMAIN s : s[i] \in S <=> s[i] \in T
    PROVE  Among(S, s) = Among(T, s)
<1>1. {i \in DOMAIN s : s[i] \in S} = {i \in DOMAIN s : s[i] \in T}
  OBVIOUS
<1>2. QED
  BY <1>1 DEF Among

LEMMA AmongEmpty ==
    ASSUME NEW S
    PROVE  Among(S, << >>) = 0
<1> DEFINE s == << >>
<1>1. {i \in DOMAIN s : s[i] \in S} = {}
  OBVIOUS
<1>2. QED
  BY <1>1, FS_EmptySet DEF Among

LEMMA AmongOne ==
    ASSUME NEW S, NEW x
    PROVE  Among(S, <<x>>) = IF x \in S THEN 1 ELSE 0
<1> DEFINE s == <<x>>
<1>1. DOMAIN s = {1} /\ s[1] = x
  OBVIOUS
<1> HIDE DEF s
<1>2. {i \in DOMAIN s : s[i] \in S} = IF x \in S THEN {1} ELSE {}
  BY <1>1
<1>3. Among(S, s) = IF x \in S THEN 1 ELSE 0
  <2>1. Cardinality({}) = 0 /\ Cardinality({1}) = 1
    BY FS_EmptySet, FS_Singleton
  <2>2. QED
    BY <1>2, <2>1 DEF Among
<1>4. QED
  BY <1>3 DEF s

LEMMA AmongConcat ==
    ASSUME NEW S, NEW E, NEW s \in Seq(E), NEW t \in Seq(E)
    PROVE  Among(S, s \o t) = Among(S, s) + Among(S, t)
<1> DEFINE st == s \o t
           m == Len(s)
           n == Len(t)
           I == {i \in DOMAIN s : s[i] \in S}
           J == {i \in DOMAIN t : t[i] \in S}
           K == {i \in DOMAIN st : st[i] \in S}
           J2 == {i \in K : i > m}
           f == [j \in J |-> m + j]
<1>1. /\ m \in Nat /\ n \in Nat /\ DOMAIN s = 1..m /\ DOMAIN t = 1..n /\ DOMAIN st = 1..(m + n)
      /\ \A i \in 1..m : st[i] = s[i] /\ i \in 1..(m + n)
      /\ \A i \in 1..n : st[m + i] = t[i] /\ m + i \in 1..(m + n)
      /\ \A i \in 1..(m + n) : i \in 1..m \/ (i - m \in 1..n /\ i = m + (i - m))
  OBVIOUS
<1>2. IsFiniteSet(I) /\ IsFiniteSet(J) /\ Cardinality(I) \in Nat /\ Cardinality(J) \in Nat
  BY AmongType, FS_CardinalityType
<1> HIDE DEF st, m, n
<1>3. f \in Bijection(J, J2)
  <2>1. ASSUME NEW j \in J
        PROVE  m + j \in J2
    BY <1>1
  <2>2. ASSUME NEW i \in J2
        PROVE  i - m \in J /\ i = m + (i - m)
    <3>1. i \in 1..(m + n) /\ i > m /\ st[i] \in S
      BY <1>1
    <3>2. i - m \in 1..n /\ i = m + (i - m)
      BY <1>1, <3>1
    <3>3. st[m + (i - m)] = t[i - m]
      BY <1>1, <3>2
    <3>4. QED
      BY <1>1, <3>1, <3>2, <3>3
  <2>3. f \in [J -> J2]
    BY <2>1
  <2>4. \A i \in J2 : \E j \in J : f[j] = i
    BY <2>2
  <2>5. \A j, k \in J : f[j] = f[k] => j = k
    BY <1>1
  <2> HIDE DEF f, J, J2
  <2>6. QED
    BY <2>3, <2>4, <2>5 DEF Bijection, Injection, Surjection, IsInjective
<1>4. IsFiniteSet(J2) /\ Cardinality(J2) = Cardinality(J)
  <2>1. ExistsBijection(J, J2)
    BY <1>3 DEF ExistsBijection
  <2> HIDE DEF J, J2
  <2>2. QED
    BY <1>2, <2>1, FS_Bijection
<1>5. K = I \cup J2 /\ I \cap J2 = {}
  <2>1. \A i \in I : i \in K /\ i \notin J2
    BY <1>1
  <2>2. \A i \in K : i \in I \/ i \in J2
    <3>1. ASSUME NEW i \in K, ~(i > m)
          PROVE  i \in I
      <4>1. i \in 1..m
        BY <1>1, <3>1
      <4>2. QED
        BY <1>1, <4>1
    <3>2. QED
      BY <3>1
  <2>3. J2 \subseteq K
    OBVIOUS
  <2> HIDE DEF I, J2, K
  <2>4. QED
    BY <2>1, <2>2, <2>3
<1>6. Cardinality(K) = Cardinality(I) + Cardinality(J2)
  <2> HIDE DEF I, J2, K
  <2>1. Cardinality(I \cup J2) = Cardinality(I) + Cardinality(J2) - Cardinality(I \cap J2)
    BY <1>2, <1>4, FS_Union
  <2>2. Cardinality(I \cap J2) = 0
    BY <1>5, FS_EmptySet
  <2>3. Cardinality(K) = Cardinality(I) + Cardinality(J2) - 0
    BY <1>5, <2>1, <2>2
  <2>4. QED
    BY <1>2, <1>4, <2>3
<1>7. QED
  BY <1>4, <1>6 DEF Among, st

-----------------------------------------------------------------------------
(* Types.                                                                   *)

Pairs == BOOLEAN \X Keys

\* What comes from Redis: a message of a channel or pattern, or a reply.
AnyMessage ==
    [type : {"ARRAY"}, for : {0}, kind : {"subscribe", "unsubscribe", "message"},
     p : BOOLEAN, name : Keys, count : Nat]
    \cup [type : {"STATUS", "ERROR", "BAD"}, for : Nat, kind : {"reply"},
          p : {FALSE}, name : {"none"}, count : {0}]

TypedContext ==
    /\ flags \subseteq {"CONNECTED", "DISCONNECTING", "FREEING", "IN_CALLBACK",
                        "SUBSCRIBED", "MONITORING"}
    /\ err \in {"none", "IO", "EOF", "PROTOCOL", "OTHER"}
    /\ replies \in Seq(AnyCallback) /\ invalid \in Seq(AnyCallback)
    /\ cb \in AnyCallback
    /\ hook \in [{"connect", "disconnect"} -> {"unset", "set", "OK", "ERR"}]
    /\ scheduled \subseteq {"read", "write"}

TypedDicts == IsDict(channels, AnyCallback) /\ IsDict(patterns, AnyCallback) /\ it \in Nat

TypedThread ==
    /\ pc \in {"idle", "process", "callback", "free", "freed", "aborted"}
    /\ caller \in {"none", "process", "free"} /\ (pc = "callback" => caller # "none")
    /\ run.id \in Nat /\ done \subseteq Nat

TypedStreams ==
    /\ issued \in Seq(Commands) /\ Len(issued) <= MaxCommands
    /\ obuf \in Seq(1..Len(issued)) /\ wire \in Seq(1..Len(issued))
    /\ rbuf \in Seq(AnyMessage) /\ inbox \in Seq(AnyMessage)
    /\ conn \in {"connecting", "failed", "open", "closed"}
    /\ subs \subseteq Pairs /\ IsFiniteSet(subs) /\ monitors \in Nat

Typed == TypedContext /\ TypedDicts /\ TypedThread /\ TypedStreams

LEMMA TypedInit == Init => Typed
<1> SUFFICES ASSUME Init PROVE Typed
  OBVIOUS
<1>1. TypedContext
  BY DEF Init, TypedContext, AnyCallback, NoCallback
<1>2. TypedDicts
  BY CreateIs DEF Init, TypedDicts
<1>3. TypedThread
  BY DEF Init, TypedThread
<1>4. TypedStreams
  BY MaxCommandsIs, FS_EmptySet DEF Init, TypedStreams
<1>5. QED
  BY <1>1, <1>2, <1>3, <1>4 DEF Typed

\* What is subscribed to is finite.
LEMMA SubscribedToIs ==
    ASSUME NEW c \in AnyCommand, NEW n \in 0..Len(c.names), NEW before \in SUBSET Pairs,
           IsFiniteSet(before)
    PROVE  SubscribedTo(c, n, before) \in SUBSET Pairs /\ IsFiniteSet(SubscribedTo(c, n, before))
<1> DEFINE K == {<<c.p, c.names[i]>> : i \in 1..n}
           f == [i \in 1..n |-> <<c.p, c.names[i]>>]
<1>1. c.p \in BOOLEAN /\ \A i \in 1..n : c.names[i] \in Keys
  BY DEF AnyCommand
<1>2. K \in SUBSET Pairs
  BY <1>1 DEF Pairs
<1>3. f \in Surjection(1..n, K)
  BY DEF Surjection
<1>4. IsFiniteSet(1..n)
  <2>1. 1 \in Int /\ n \in Int
    BY DEF AnyCommand
  <2>2. QED
    BY <2>1, FS_Interval
<1>5. IsFiniteSet(K)
  <2> HIDE DEF K, f
  <2>1. QED
    BY <1>3, <1>4, FS_Surjection
<1>6. SubscribedTo(c, n, before) = IF c.kind = "SUBSCRIBE" THEN before \cup K ELSE before \ K
  BY DEF SubscribedTo
<1> HIDE DEF K
<1>7. IsFiniteSet(before \cup K) /\ IsFiniteSet(before \ K)
  BY <1>5, FS_Union, FS_Subset
<1>8. QED
  BY <1>2, <1>6, <1>7

LEMMA AcknowledgedIs ==
    ASSUME NEW c \in AnyCommand, c.kind \in {"SUBSCRIBE", "UNSUBSCRIBE"},
           NEW before \in SUBSET Pairs, IsFiniteSet(before)
    PROVE  Acknowledged(c, before) \in Seq(AnyMessage)
<1> DEFINE k == IF c.kind = "SUBSCRIBE" THEN "subscribe" ELSE "unsubscribe"
<1>1. c.names \in Seq(Keys) /\ c.p \in BOOLEAN /\ DOMAIN c.names = 1..Len(c.names) /\ Len(c.names) \in Nat
  BY DEF AnyCommand
<1>2. ASSUME NEW n \in 1..Len(c.names)
      PROVE  Message("ARRAY", 0, k, c.p, c.names[n], Cardinality(SubscribedTo(c, n, before))) \in AnyMessage
  <2>1. n \in 0..Len(c.names)
    BY <1>1
  <2>2. Cardinality(SubscribedTo(c, n, before)) \in Nat
    BY <2>1, SubscribedToIs, FS_CardinalityType
  <2>3. c.names[n] \in Keys
    BY <1>1
  <2>4. QED
    BY <1>1, <2>2, <2>3 DEF Message, AnyMessage
<1>3. Acknowledged(c, before) = [n \in 1..Len(c.names) |->
         Message("ARRAY", 0, k, c.p, c.names[n], Cardinality(SubscribedTo(c, n, before)))]
  BY <1>1 DEF Acknowledged
<1> HIDE DEF k
<1>4. QED
  BY <1>1, <1>2, <1>3

LEMMA SubscribedIs ==
    ASSUME TypedDicts
    PROVE  /\ Subscribed \in Seq(DictEntries(AnyCallback))
           /\ \A i \in DOMAIN Subscribed :
                Subscribed[i].val \in AnyCallback /\ Subscribed[i].val.fn \in BOOLEAN /\ Subscribed[i].val.id \in Nat
           /\ \A e : e \in Range(Subscribed) <=>
                e.key \in Keys /\ (dictFind(channels, e.key) = {e} \/ dictFind(patterns, e.key) = {e})
<1> DEFINE s == Entries(channels)
           t == Entries(patterns)
           E == DictEntries(AnyCallback)
<1>1. /\ s \in Seq(E) /\ t \in Seq(E)
      /\ \A e : e \in Range(s) <=> e.key \in Keys /\ dictFind(channels, e.key) = {e}
      /\ \A e : e \in Range(t) <=> e.key \in Keys /\ dictFind(patterns, e.key) = {e}
  BY EntriesFound DEF TypedDicts
<1>2. Subscribed = s \o t
  BY DEF Subscribed
<1> HIDE DEF s, t
<1>3. Subscribed \in Seq(E) /\ Range(Subscribed) = Range(s) \cup Range(t)
  BY <1>1, <1>2, RangeConcatenation
<1>4. \A i \in DOMAIN Subscribed : Subscribed[i] \in E
  BY <1>3
<1>5. \A i \in DOMAIN Subscribed :
        Subscribed[i].val \in AnyCallback /\ Subscribed[i].val.fn \in BOOLEAN /\ Subscribed[i].val.id \in Nat
  BY <1>4 DEF DictEntries, AnyCallback
<1>6. QED
  BY <1>1, <1>3, <1>5

\* A callback that is run, or has no function.
LEMMA RunTyped ==
    ASSUME NEW c \in AnyCallback, NEW reply, NEW by \in {"process", "free"}, NEW fs,
           fs \subseteq {"CONNECTED", "DISCONNECTING", "FREEING", "IN_CALLBACK",
                         "SUBSCRIBED", "MONITORING"},
           TypedThread, RunCallback(c, reply, by, fs), done' = done
    PROVE  /\ flags' \subseteq {"CONNECTED", "DISCONNECTING", "FREEING", "IN_CALLBACK",
                                "SUBSCRIBED", "MONITORING"}
           /\ TypedThread'
<1>1. c.fn \in BOOLEAN /\ c.id \in Nat
  BY DEF AnyCallback
<1>2. CASE c.fn
  <2>1. flags' = fs \cup {"IN_CALLBACK"} /\ pc' = "callback" /\ caller' = by /\ run'.id = c.id
    BY <1>2 DEF RunCallback
  <2>2. QED
    BY <1>1, <2>1 DEF TypedThread
<1>3. CASE ~c.fn
  <2>1. flags' = fs /\ pc' = by /\ caller' = caller /\ run' = run
    BY <1>3 DEF RunCallback
  <2>2. QED
    BY <2>1 DEF TypedThread
<1>4. QED
  BY <1>2, <1>3

\* The heads and the rest.
LEMMA HeadTailIs ==
    ASSUME NEW E, NEW s \in Seq(E), s # << >>
    PROVE  /\ Head(s) \in E /\ Tail(s) \in Seq(E) /\ Len(s) \in Nat /\ Len(s) >= 1
           /\ Len(Tail(s)) = Len(s) - 1 /\ Head(s) = s[1]
           /\ \A i \in 1..(Len(s) - 1) : Tail(s)[i] = s[i + 1] /\ i + 1 \in DOMAIN s
           /\ s = <<Head(s)>> \o Tail(s)
<1>1. /\ Head(s) \in E /\ Tail(s) \in Seq(E) /\ Len(s) \in Nat /\ Len(s) >= 1
      /\ Len(Tail(s)) = Len(s) - 1 /\ Head(s) = s[1]
      /\ \A i \in 1..(Len(s) - 1) : Tail(s)[i] = s[i + 1] /\ i + 1 \in DOMAIN s
  OBVIOUS
<1>2. s = <<Head(s)>> \o Tail(s)
  <2>1. 1 \in 1..Len(s) /\ Len(s) \in 1..Len(s) /\ 1 + 1 = 2
    BY <1>1
  <2>2. SubSeq(s, 1, Len(s)) = <<s[1]>> \o SubSeq(s, 2, Len(s))
    BY <2>1, SubSeqRecursiveFirst
  <2>3. QED
    BY <1>1, <2>2, SubSeqFull, TailIsSubSeq
<1>3. QED
  BY <1>1, <1>2

LEMMA TypedFreeNext == Typed /\ FreeNext => Typed'
<1> SUFFICES ASSUME Typed, FreeNext PROVE Typed'
  OBVIOUS
<1>1. TypedDicts' /\ TypedStreams'
  <2>1. it' \in Nat
    BY DEF Typed, TypedDicts, FreeNext
  <2>2. QED
    BY <2>1 DEF Typed, TypedDicts, TypedStreams, FreeNext, network, server, history
<1>2. ASSUME NEW c \in AnyCallback, RunCallback(c, NULL, "free", flags)
      PROVE  /\ flags' \subseteq {"CONNECTED", "DISCONNECTING", "FREEING", "IN_CALLBACK",
                                  "SUBSCRIBED", "MONITORING"}
             /\ TypedThread'
  <2>1. done' = done
    BY DEF FreeNext, history
  <2>2. QED
    BY <1>2, <2>1, RunTyped DEF Typed, TypedContext
<1>3. UNCHANGED <<err, cb, hook, scheduled>>
  BY DEF FreeNext
<1>4. CASE replies # << >> /\ replies' = Tail(replies) /\ RunCallback(Head(replies), NULL, "free", flags)
           /\ UNCHANGED invalid
  <2>1. Head(replies) \in AnyCallback /\ Tail(replies) \in Seq(AnyCallback)
    BY <1>4, HeadTailIs DEF Typed, TypedContext
  <2>2. QED
    BY <1>1, <1>2, <1>3, <1>4, <2>1 DEF Typed, TypedContext
<1>5. CASE invalid # << >> /\ invalid' = Tail(invalid) /\ RunCallback(Head(invalid), NULL, "free", flags)
           /\ UNCHANGED replies
  <2>1. Head(invalid) \in AnyCallback /\ Tail(invalid) \in Seq(AnyCallback)
    BY <1>5, HeadTailIs DEF Typed, TypedContext
  <2>2. QED
    BY <1>1, <1>2, <1>3, <1>5, <2>1 DEF Typed, TypedContext
<1>6. CASE it < Len(Subscribed) /\ RunCallback(Subscribed[it + 1].val, NULL, "free", flags)
           /\ UNCHANGED <<replies, invalid>>
  <2>1. it + 1 \in DOMAIN Subscribed
    <3>1. Subscribed \in Seq(DictEntries(AnyCallback)) /\ it \in Nat
      BY SubscribedIs DEF Typed, TypedDicts
    <3>2. QED
      BY <1>6, <3>1
  <2>2. Subscribed[it + 1].val \in AnyCallback
    BY <2>1, SubscribedIs DEF Typed
  <2>3. QED
    BY <1>1, <1>2, <1>3, <1>6, <2>2 DEF Typed, TypedContext
<1>7. QED
  BY <1>4, <1>5, <1>6 DEF FreeNext

LEMMA DisconnectTyped ==
    ASSUME NEW e \in {"none", "IO", "EOF", "PROTOCOL", "OTHER"}, NEW fs,
           fs \subseteq {"CONNECTED", "DISCONNECTING", "FREEING", "IN_CALLBACK",
                         "SUBSCRIBED", "MONITORING"},
           TypedThread, AsyncDisconnect(e, fs), UNCHANGED <<caller, run, done>>
    PROVE  /\ flags' \subseteq {"CONNECTED", "DISCONNECTING", "FREEING", "IN_CALLBACK",
                                "SUBSCRIBED", "MONITORING"}
           /\ err' \in {"none", "IO", "EOF", "PROTOCOL", "OTHER"}
           /\ TypedThread'
<1>1. err' = e
  BY DEF AsyncDisconnect
<1>2. flags' = fs \/ flags' = fs \cup {"DISCONNECTING"}
  BY DEF AsyncDisconnect
<1>3. pc' \in {"free", "aborted"}
  BY DEF AsyncDisconnect
<1>4. QED
  BY <1>1, <1>2, <1>3 DEF TypedThread

LEMMA TypedProcessReply == Typed /\ ProcessReply => Typed'
<1> SUFFICES ASSUME Typed, ProcessReply PROVE Typed'
  OBVIOUS
<1> DEFINE m == Head(rbuf)
<1>1. /\ TypedContext /\ TypedDicts /\ TypedThread /\ TypedStreams
      /\ rbuf # << >> /\ rbuf' = Tail(rbuf)
      /\ UNCHANGED <<hook, obuf, it, scheduled, conn, wire, inbox, subs, monitors, issued, done>>
  BY DEF Typed, ProcessReply, network, server, history
<1>2. m \in AnyMessage /\ Tail(rbuf) \in Seq(AnyMessage)
  BY <1>1, HeadTailIs DEF TypedStreams
<1>3. TypedStreams'
  BY <1>1, <1>2 DEF TypedStreams
<1> DEFINE Flags == {"CONNECTED", "DISCONNECTING", "FREEING", "IN_CALLBACK", "SUBSCRIBED", "MONITORING"}
<1>4. flags \subseteq Flags /\ err \in {"none", "IO", "EOF", "PROTOCOL", "OTHER"}
      /\ replies \in Seq(AnyCallback) /\ invalid \in Seq(AnyCallback) /\ cb \in AnyCallback
  BY <1>1 DEF TypedContext
<1>5. ASSUME NEW e \in {"PROTOCOL", "OTHER"}, AsyncDisconnect(e, flags),
             UNCHANGED <<replies, invalid, channels, patterns, cb, caller, run>>
      PROVE  Typed'
  <2>1. TypedThread' /\ flags' \subseteq Flags /\ err' \in {"none", "IO", "EOF", "PROTOCOL", "OTHER"}
    BY <1>1, <1>4, <1>5, DisconnectTyped
  <2>2. TypedDicts'
    BY <1>1, <1>5 DEF TypedDicts
  <2>3. TypedContext'
    BY <1>1, <1>5, <2>1 DEF TypedContext
  <2>4. QED
    BY <1>3, <2>1, <2>2, <2>3 DEF Typed
<1>6. ASSUME NEW c \in AnyCallback, NEW fs, fs \subseteq Flags, RunCallback(c, m, "process", fs),
             UNCHANGED err, replies' \in Seq(AnyCallback), invalid' \in Seq(AnyCallback),
             cb' \in AnyCallback, TypedDicts'
      PROVE  Typed'
  <2>1. TypedThread' /\ flags' \subseteq Flags
    BY <1>1, <1>6, RunTyped
  <2>2. TypedContext'
    BY <1>1, <1>6, <2>1 DEF TypedContext
  <2>3. QED
    BY <1>3, <1>6, <2>1, <2>2 DEF Typed
<1>7. CASE m.type = "BAD"
  BY <1>5, <1>7 DEF ProcessReply
<1>8. CASE m.type # "BAD" /\ replies # << >>
  <2>1. /\ replies' = Tail(replies) /\ cb' = Head(replies)
        /\ RunCallback(cb', m, "process", flags)
        /\ UNCHANGED <<err, invalid, channels, patterns>>
    BY <1>8 DEF ProcessReply
  <2>2. Head(replies) \in AnyCallback /\ Tail(replies) \in Seq(AnyCallback)
    BY <1>4, <1>8, HeadTailIs
  <2>3. TypedDicts'
    BY <1>1, <2>1 DEF TypedDicts
  <2>4. QED
    BY <1>4, <1>6, <2>1, <2>2, <2>3
<1>9. CASE m.type = "ERROR" /\ replies = << >>
  BY <1>5, <1>9 DEF ProcessReply
<1>10. CASE m.type \notin {"BAD", "ERROR"} /\ replies = << >>
            /\ flags \cap {"SUBSCRIBED", "MONITORING"} = {}
  <2>1. pc' = "aborted" /\ UNCHANGED <<flags, err, replies, invalid, channels, patterns, cb, caller, run>>
    BY <1>10 DEF ProcessReply
  <2>2. TypedDicts' /\ TypedContext' /\ TypedThread'
    BY <1>1, <2>1 DEF TypedDicts, TypedContext, TypedThread
  <2>3. QED
    BY <1>3, <2>2 DEF Typed
<1>11. CASE m.type \notin {"BAD", "ERROR"} /\ replies = << >>
            /\ "SUBSCRIBED" \notin flags /\ "MONITORING" \in flags
  <2>1. RunCallback(cb, m, "process", flags)
        /\ UNCHANGED <<err, replies, invalid, channels, patterns, cb>>
    BY <1>11 DEF ProcessReply
  <2>2. TypedDicts'
    BY <1>1, <2>1 DEF TypedDicts
  <2>3. QED
    BY <1>4, <1>6, <2>1, <2>2
<1>12. CASE m.type \notin {"BAD", "ERROR"} /\ replies = << >> /\ "SUBSCRIBED" \in flags
  <2> DEFINE dict  == IF m.p THEN patterns ELSE channels
             entry == dictFind(dict, m.name)
             old   == dictGetEntryVal(entry)
             val   == IF m.kind = "subscribe" THEN [old EXCEPT !.pending_subs = @ - 1] ELSE old
             new   == IF m.kind = "unsubscribe" /\ val.pending_subs = 0
                      THEN dictDelete(dict, m.name) ELSE SetVal(dict, m.name, val)
             chans == IF m.p THEN channels ELSE new
             pats  == IF m.p THEN new ELSE patterns
  <2>1. GetSubscribeCallback(m) /\ UNCHANGED <<err, replies>>
    BY <1>12 DEF ProcessReply
  <2>2. CASE m.type # "ARRAY"
    <3>1. /\ cb' = (IF invalid = <<>> THEN cb ELSE Head(invalid))
          /\ invalid' = (IF invalid = <<>> THEN invalid ELSE Tail(invalid))
          /\ RunCallback(cb', m, "process", flags)
          /\ UNCHANGED <<channels, patterns>>
      BY <2>1, <2>2 DEF GetSubscribeCallback
    <3>2. cb' \in AnyCallback /\ invalid' \in Seq(AnyCallback)
      BY <1>4, <3>1, HeadTailIs
    <3>3. TypedDicts'
      BY <1>1, <3>1 DEF TypedDicts
    <3>4. QED
      BY <1>4, <1>6, <2>1, <3>1, <3>2, <3>3
  <2>3. CASE m.type = "ARRAY" /\ entry = {}
    <3>1. RunCallback(cb, m, "process", flags) /\ UNCHANGED <<cb, invalid, channels, patterns>>
      BY <2>1, <2>3 DEF GetSubscribeCallback
    <3>2. TypedDicts'
      BY <1>1, <3>1 DEF TypedDicts
    <3>3. QED
      BY <1>4, <1>6, <2>1, <3>1, <3>2
  <2>4. CASE m.type = "ARRAY" /\ entry # {}
    <3>1. /\ cb' = val /\ channels' = chans /\ patterns' = pats
          /\ RunCallback(val, m, "process", Unsubscribed(m, chans, pats))
          /\ UNCHANGED invalid
      BY <2>1, <2>4 DEF GetSubscribeCallback
    <3>2. m.name \in Keys /\ m.p \in BOOLEAN
      BY <1>2, <2>4 DEF AnyMessage
    <3>3. IsDict(dict, AnyCallback)
      BY <1>1 DEF TypedDicts
    <3>4. old \in AnyCallback
      BY <2>4, <3>2, <3>3, EntryVal
    <3> HIDE DEF old
    <3>5. val \in AnyCallback
      BY <3>4 DEF AnyCallback
    <3> HIDE DEF val, dict
    <3>6. IsDict(new, AnyCallback)
      BY <2>4, <3>2, <3>3, <3>5, SetValIs, DeleteIs
    <3> HIDE DEF new
    <3>7. TypedDicts'
      BY <1>1, <3>1, <3>6 DEF TypedDicts
    <3>8. Unsubscribed(m, chans, pats) \subseteq Flags
      BY <1>4 DEF Unsubscribed
    <3>9. QED
      BY <1>4, <1>6, <2>1, <3>1, <3>5, <3>7, <3>8
  <2>5. QED
    BY <2>2, <2>3, <2>4
<1>13. QED
  BY <1>7, <1>8, <1>9, <1>10, <1>11, <1>12

\* A sequence and a part of another.
LEMMA PartTypes ==
    ASSUME NEW E, NEW t \in Seq(E), NEW n \in 0..Len(t)
    PROVE  /\ SubSeq(t, 1, n) \in Seq(E) /\ SubSeq(t, n + 1, Len(t)) \in Seq(E)
           /\ SubSeq(t, 1, n) \o SubSeq(t, n + 1, Len(t)) = t
<1> DEFINE a == SubSeq(t, 1, n)
           b == SubSeq(t, n + 1, Len(t))
<1>1. Len(t) \in Nat /\ n \in Nat /\ n \in Int /\ n + 1 \in Int /\ Len(t) \in Int /\ 1 \in Int
      /\ \A i \in 1..Len(t) : t[i] \in E
  OBVIOUS
<1>2. a \in Seq(E) /\ b \in Seq(E)
  <2>1. \A i \in 1..n : t[i] \in E
    BY <1>1
  <2>2. \A i \in (n + 1)..Len(t) : t[i] \in E
    BY <1>1
  <2>3. QED
    BY <1>1, <2>1, <2>2, SubSeqProperties
<1>3. a \o b = t
  <2>1. 1 \in 1..(Len(t) + 1) /\ n \in (1 - 1)..Len(t) /\ Len(t) \in n..Len(t)
    BY <1>1
  <2>2. a \o b = SubSeq(t, 1, Len(t))
    BY <2>1, ConcatAdjacentSubSeq
  <2>3. QED
    BY <2>2, SubSeqFull
<1>4. QED
  BY <1>2, <1>3

\* A part of a sequence moves to the end of another.
LEMMA PartMoves ==
    \A E : \A s, t \in Seq(E) : \A n \in 0..Len(t) :
        (s \o SubSeq(t, 1, n)) \o SubSeq(t, n + 1, Len(t)) = s \o t
<1> TAKE E
<1> TAKE s, t \in Seq(E)
<1> TAKE n \in 0..Len(t)
<1> DEFINE a == SubSeq(t, 1, n)
           b == SubSeq(t, n + 1, Len(t))
<1>1. a \in Seq(E) /\ b \in Seq(E)
  BY PartTypes
<1>2. a \o b = t
  BY PartTypes
<1> HIDE DEF a, b
<1>3. (s \o a) \o b = s \o (a \o b)
  BY <1>1, ConcatAssociative
<1>4. (s \o a) \o b = s \o t
  BY <1>2, <1>3
<1>5. QED
  BY <1>4 DEF a, b

LEMMA PartIs ==
    ASSUME NEW E, NEW s \in Seq(E), NEW t \in Seq(E), NEW n \in 0..Len(t)
    PROVE  s \o SubSeq(t, 1, n) \in Seq(E) /\ SubSeq(t, n + 1, Len(t)) \in Seq(E)
<1>1. SubSeq(t, 1, n) \in Seq(E) /\ SubSeq(t, n + 1, Len(t)) \in Seq(E)
  BY PartTypes
<1>2. QED
  BY <1>1, ConcatProperties

LEMMA TypedLibrary ==
    ASSUME Typed, ProcessEnd \/ CallbackReturns \/ FreeContext \/ ConnectFails
    PROVE  Typed'
<1>1. TypedContext /\ TypedDicts /\ TypedThread /\ TypedStreams
  BY DEF Typed
<1>2. CASE ProcessEnd
  <2>1. TypedDicts' /\ TypedStreams'
    BY <1>1, <1>2 DEF ProcessEnd, TypedDicts, TypedStreams, network, server, history
  <2>2. CASE "DISCONNECTING" \in flags /\ obuf = << >> /\ replies = << >>
    <3>1. AsyncDisconnect(err, flags) /\ UNCHANGED <<replies, caller, run, done>>
      BY <1>2, <2>2 DEF ProcessEnd, history
    <3>2. /\ flags' \subseteq {"CONNECTED", "DISCONNECTING", "FREEING", "IN_CALLBACK",
                               "SUBSCRIBED", "MONITORING"}
          /\ err' \in {"none", "IO", "EOF", "PROTOCOL", "OTHER"} /\ TypedThread'
      BY <1>1, <3>1, DisconnectTyped DEF TypedContext
    <3>3. TypedContext'
      BY <1>1, <1>2, <3>1, <3>2 DEF ProcessEnd, TypedContext
    <3>4. QED
      BY <2>1, <3>2, <3>3 DEF Typed
  <2>3. CASE ~("DISCONNECTING" \in flags /\ obuf = << >> /\ replies = << >>)
    <3>1. /\ replies' = (IF "MONITORING" \in flags THEN Append(replies, cb) ELSE replies)
          /\ pc' = "idle" /\ UNCHANGED <<flags, err, invalid, hook, cb, caller, run, scheduled, done>>
      BY <1>2, <2>3 DEF ProcessEnd, history
    <3>2. replies' \in Seq(AnyCallback)
      BY <1>1, <3>1, AppendProperties DEF TypedContext
    <3>3. TypedContext' /\ TypedThread'
      BY <1>1, <3>1, <3>2 DEF TypedContext, TypedThread
    <3>4. QED
      BY <2>1, <3>3 DEF Typed
  <2>4. QED
    BY <2>2, <2>3
<1>3. CASE CallbackReturns
  <2>1. TypedDicts' /\ TypedStreams' /\ TypedContext'
    BY <1>1, <1>3 DEF CallbackReturns, TypedDicts, TypedStreams, TypedContext, network, server
  <2>2. TypedThread'
    BY <1>1, <1>3 DEF CallbackReturns, TypedThread
  <2>3. QED
    BY <2>1, <2>2 DEF Typed
<1>4. CASE FreeContext
  <2>1. TypedDicts' /\ TypedStreams' /\ TypedThread'
    BY <1>1, <1>4 DEF FreeContext, TypedDicts, TypedStreams, TypedThread, server, history
  <2>2. hook' \in [{"connect", "disconnect"} -> {"unset", "set", "OK", "ERR"}]
    BY <1>1, <1>4 DEF FreeContext, TypedContext, Told
  <2>3. TypedContext'
    BY <1>1, <1>4, <2>2 DEF FreeContext, TypedContext
  <2>4. QED
    BY <2>1, <2>3 DEF Typed
<1>5. CASE ConnectFails
  <2>1. TypedDicts' /\ TypedStreams'
    BY <1>1, <1>5 DEF ConnectFails, TypedDicts, TypedStreams, network, server, history
  <2>2. hook' \in [{"connect", "disconnect"} -> {"unset", "set", "OK", "ERR"}]
    BY <1>1, <1>5 DEF ConnectFails, TypedContext, Told
  <2>3. AsyncDisconnect("IO", flags) /\ UNCHANGED <<caller, run, done>>
    BY <1>5 DEF ConnectFails, history
  <2>4. /\ flags' \subseteq {"CONNECTED", "DISCONNECTING", "FREEING", "IN_CALLBACK",
                             "SUBSCRIBED", "MONITORING"}
        /\ err' \in {"none", "IO", "EOF", "PROTOCOL", "OTHER"} /\ TypedThread'
    BY <1>1, <2>3, DisconnectTyped DEF TypedContext
  <2>5. TypedContext'
    BY <1>1, <1>5, <2>2, <2>4 DEF ConnectFails, TypedContext
  <2>6. QED
    BY <2>1, <2>4, <2>5 DEF Typed
<1>6. QED
  BY <1>2, <1>3, <1>4, <1>5

LEMMA TypedHandlers ==
    ASSUME Typed, HandleRead \/ HandleWrite
    PROVE  Typed'
<1> DEFINE Flags == {"CONNECTED", "DISCONNECTING", "FREEING", "IN_CALLBACK", "SUBSCRIBED", "MONITORING"}
<1>1. TypedContext /\ TypedDicts /\ TypedThread /\ TypedStreams
  BY DEF Typed
<1>2. Opened \subseteq Flags
  BY <1>1 DEF Opened, TypedContext
<1>3. hook' \in [{"connect", "disconnect"} -> {"unset", "set", "OK", "ERR"}]
  BY <1>1 DEF HandleRead, HandleWrite, Connects, TypedContext, Told
<1>4. CASE HandleRead
  <2>1. /\ UNCHANGED <<replies, invalid, channels, patterns, obuf, it, caller, run, scheduled,
                       conn, wire, subs, monitors, issued, done>>
    BY <1>4 DEF HandleRead, server, history
  <2>2. TypedDicts'
    BY <1>1, <2>1 DEF TypedDicts
  <2>3. ASSUME NEW n \in 0..Len(inbox), rbuf' = rbuf \o SubSeq(inbox, 1, n),
               inbox' = SubSeq(inbox, n + 1, Len(inbox)),
               cb' = NoCallback, pc' = "process", flags' = Opened, UNCHANGED err
        PROVE  Typed'
    <3>1. rbuf' \in Seq(AnyMessage) /\ inbox' \in Seq(AnyMessage)
      BY <1>1, <2>3, PartIs DEF TypedStreams
    <3>2. TypedStreams'
      BY <1>1, <2>1, <3>1 DEF TypedStreams
    <3>3. TypedThread'
      BY <1>1, <2>1, <2>3 DEF TypedThread
    <3>4. TypedContext'
      BY <1>1, <1>2, <1>3, <2>1, <2>3 DEF TypedContext, NoCallback, AnyCallback
    <3>5. QED
      BY <2>2, <3>2, <3>3, <3>4 DEF Typed
  <2>4. ASSUME NEW e \in {"EOF", "IO"}, AsyncDisconnect(e, Opened), UNCHANGED <<rbuf, inbox, cb>>
        PROVE  Typed'
    <3>1. TypedThread' /\ flags' \subseteq Flags /\ err' \in {"none", "IO", "EOF", "PROTOCOL", "OTHER"}
      BY <1>1, <1>2, <2>1, <2>4, DisconnectTyped
    <3>2. TypedStreams'
      BY <1>1, <2>1, <2>4 DEF TypedStreams
    <3>3. TypedContext'
      BY <1>1, <1>3, <2>1, <2>4, <3>1 DEF TypedContext
    <3>4. QED
      BY <2>2, <3>1, <3>2, <3>3 DEF Typed
  <2>5. QED
    BY <1>4, <2>3, <2>4 DEF HandleRead
<1>5. CASE HandleWrite
  <2>1. UNCHANGED <<replies, invalid, channels, patterns, rbuf, cb, it, caller, run,
                    conn, inbox, subs, monitors, issued, done>>
    BY <1>5 DEF HandleWrite, server, history
  <2>2. TypedDicts'
    BY <1>1, <2>1 DEF TypedDicts
  <2>3. ASSUME NEW n \in 0..Len(obuf), obuf' = SubSeq(obuf, n + 1, Len(obuf)),
               wire' = wire \o SubSeq(obuf, 1, n), scheduled' = AfterWrite(obuf'),
               flags' = Opened, UNCHANGED <<err, pc>>
        PROVE  Typed'
    <3>1. wire' \in Seq(1..Len(issued)) /\ obuf' \in Seq(1..Len(issued))
      BY <1>1, <2>3, PartIs DEF TypedStreams
    <3>2. TypedStreams'
      BY <1>1, <2>1, <3>1 DEF TypedStreams
    <3>3. TypedThread'
      BY <1>1, <2>1, <2>3 DEF TypedThread
    <3>4. TypedContext'
      BY <1>1, <1>2, <1>3, <2>1, <2>3 DEF TypedContext, AfterWrite
    <3>5. QED
      BY <2>2, <3>2, <3>3, <3>4 DEF Typed
  <2>4. ASSUME AsyncDisconnect("IO", Opened), UNCHANGED <<obuf, wire, scheduled>>
        PROVE  Typed'
    <3>1. TypedThread' /\ flags' \subseteq Flags /\ err' \in {"none", "IO", "EOF", "PROTOCOL", "OTHER"}
      BY <1>1, <1>2, <2>1, <2>4, DisconnectTyped
    <3>2. TypedStreams'
      BY <1>1, <2>1, <2>4 DEF TypedStreams
    <3>3. TypedContext'
      BY <1>1, <1>3, <2>1, <2>4, <3>1 DEF TypedContext
    <3>4. QED
      BY <2>2, <3>1, <3>2, <3>3 DEF Typed
  <2>5. QED
    BY <1>5, <2>3, <2>4 DEF HandleWrite
<1>6. QED
  BY <1>4, <1>5

\* What a command does, as it is issued.
CommandId == Len(issued) + 1
CommandCallback(c) == Callback(c.fn, CommandId)

LEMMA CommandIs ==
    ASSUME Typed, NEW c \in Commands, Command(c)
    PROVE  /\ c \in AnyCommand /\ c.fn \in BOOLEAN /\ c.p \in BOOLEAN /\ c.names \in Seq(Keys)
           /\ Len(issued) \in Nat /\ CommandId \in Nat \ {0} /\ CommandId = Len(issued) + 1
           /\ CommandId <= MaxCommands
           /\ CommandCallback(c) = [fn |-> c.fn, id |-> CommandId, pending_subs |-> 1]
           /\ CommandCallback(c) \in AnyCallback
           /\ issued' = Append(issued, c) /\ issued' \in Seq(Commands) /\ Len(issued') = CommandId
           /\ DOMAIN issued' = 1..CommandId /\ issued'[CommandId] = c
           /\ \A n \in DOMAIN issued : n \in 1..Len(issued) /\ n \in DOMAIN issued' /\ issued'[n] = issued[n]
           /\ obuf' = Append(obuf, CommandId) /\ obuf' = obuf \o <<CommandId>>
<1>1. issued \in Seq(Commands) /\ Len(issued) <= MaxCommands /\ obuf \in Seq(1..Len(issued))
  BY DEF Typed, TypedStreams
<1>2. Len(issued) \in Nat /\ CommandId \in Nat \ {0} /\ CommandId = Len(issued) + 1
  BY <1>1 DEF CommandId
<1>3. c \in AnyCommand
  BY CommandsAre
<1>4. c.fn \in BOOLEAN /\ c.p \in BOOLEAN /\ c.names \in Seq(Keys)
  BY <1>3 DEF AnyCommand
<1>5. issued' = Append(issued, c) /\ obuf' = Append(obuf, CommandId)
  BY DEF Command, CommandId
<1>6. /\ issued' \in Seq(Commands) /\ Len(issued') = CommandId
      /\ DOMAIN issued' = 1..CommandId /\ issued'[CommandId] = c
      /\ \A n \in DOMAIN issued : n \in 1..Len(issued) /\ n \in DOMAIN issued' /\ issued'[n] = issued[n]
  BY <1>1, <1>2, <1>5
<1>7. CommandId <= MaxCommands
  <2>1. PICK script \in Scripts : IsPrefix(Append(issued, c), script)
    BY DEF Command
  <2>2. Len(Append(issued, c)) = CommandId
    BY <1>5, <1>6
  <2>3. Len(Append(issued, c)) <= Len(script)
    BY <2>1 DEF IsPrefix
  <2>4. QED
    BY <1>2, <2>2, <2>3, MaxCommandsIs
<1>8. CommandCallback(c) = [fn |-> c.fn, id |-> CommandId, pending_subs |-> 1]
  BY DEF CommandCallback, Callback
<1>9. CommandCallback(c) \in AnyCallback
  BY <1>2, <1>4, <1>8 DEF AnyCallback
<1>10. obuf' = obuf \o <<CommandId>>
  BY <1>1, <1>5, AppendIsConcat
<1>11. QED
  BY <1>2, <1>3, <1>4, <1>5, <1>6, <1>7, <1>8, <1>9, <1>10

\* The keys of a SUBSCRIBE get its callback.
LEMMA CommandAdds ==
    ASSUME Typed, NEW c \in Commands, Command(c), NEW p \in BOOLEAN
    PROVE  /\ IsDict(DictOf(p)', AnyCallback)
           /\ \A k \in Keys : dictFind(DictOf(p)', k) =
                IF c.kind = "SUBSCRIBE" /\ About(c, p, k)
                THEN {[key |-> k, val |-> OneMore(CommandCallback(c), dictFind(DictOf(p), k))]}
                ELSE dictFind(DictOf(p), k)
<1> DEFINE d == DictOf(p)
           cc == CommandCallback(c)
<1>1. IsDict(d, AnyCallback)
  BY DEF Typed, TypedDicts, DictOf
<1>2. DictOf(p)' = IF c.kind = "SUBSCRIBE" /\ c.p = p THEN Add(d, c.names, cc) ELSE d
  BY CommandIs DEF Command, DictOf, CommandCallback, CommandId
<1>3. CASE c.kind = "SUBSCRIBE" /\ c.p = p
  <2>1. c.names # << >> /\ IsInjective(c.names) /\ c.names \in Seq(Keys) /\ cc \in AnyCallback
    BY <1>3, CommandsAre, CommandIs
  <2>2. Len(c.names) = 1 \/ \A i \in DOMAIN c.names : dictFind(d, c.names[i]) = {}
    BY <1>3, CommandIs DEF Command, Proper, DictOf
  <2> HIDE DEF d, cc
  <2>3. /\ IsDict(Add(d, c.names, cc), AnyCallback)
        /\ \A k \in Keys : dictFind(Add(d, c.names, cc), k) =
                IF k \notin Range(c.names) THEN dictFind(d, k)
                ELSE {[key |-> k, val |-> OneMore(cc, dictFind(d, k))]}
    BY <1>1, <2>1, <2>2, AddIs
  <2>4. \A k \in Keys : About(c, p, k) <=> k \in Range(c.names)
    BY <1>3 DEF About
  <2>5. QED
    BY <1>2, <1>3, <2>3, <2>4 DEF d, cc
<1>4. CASE ~(c.kind = "SUBSCRIBE" /\ c.p = p)
  <2>1. DictOf(p)' = d
    BY <1>2, <1>4
  <2>2. \A k \in Keys : ~(c.kind = "SUBSCRIBE" /\ About(c, p, k))
    BY <1>4 DEF About
  <2>3. QED
    BY <1>1, <2>1, <2>2
<1>5. QED
  BY <1>3, <1>4

LEMMA SeqWiden ==
    ASSUME NEW S, NEW T, S \subseteq T, NEW s \in Seq(S)
    PROVE  s \in Seq(T)
  OBVIOUS

LEMMA TypedCommand ==
    ASSUME Typed, NEW c \in Commands, Command(c)
    PROVE  Typed'
<1>1. TypedContext /\ TypedDicts /\ TypedThread /\ TypedStreams
  BY DEF Typed
<1>2. TypedThread'
  BY <1>1 DEF Command, TypedThread, thread
<1>3. TypedDicts'
  <2>1. IsDict(DictOf(TRUE)', AnyCallback) /\ IsDict(DictOf(FALSE)', AnyCallback)
    BY CommandAdds
  <2>2. DictOf(TRUE)' = patterns' /\ DictOf(FALSE)' = channels' /\ it' = it
    BY DEF DictOf, Command, thread
  <2>3. QED
    BY <1>1, <2>1, <2>2 DEF TypedDicts
<1>4. TypedStreams'
  <2>1. UNCHANGED <<rbuf, wire, inbox, conn, subs, monitors>>
    BY DEF Command, network, server
  <2>2. issued' \in Seq(Commands) /\ Len(issued') <= MaxCommands
    BY CommandIs
  <2>3. \A n \in 1..Len(issued) : n \in 1..Len(issued')
    BY CommandIs
  <2>4. obuf \in Seq(1..Len(issued')) /\ wire \in Seq(1..Len(issued'))
    BY <1>1, <2>3, SeqWiden DEF TypedStreams
  <2>5. CommandId \in 1..Len(issued')
    BY CommandIs
  <2>6. obuf' \in Seq(1..Len(issued'))
    <3>1. obuf' = Append(obuf, CommandId)
      BY CommandIs
    <3>2. ASSUME NEW E, NEW x \in E, NEW t \in Seq(E), obuf' = Append(t, x)
          PROVE  obuf' \in Seq(E)
      BY <3>2, AppendProperties
    <3>3. QED
      BY <2>4, <2>5, <3>1, <3>2
  <2>7. QED
    BY <1>1, <2>1, <2>2, <2>4, <2>6 DEF TypedStreams
<1>5. TypedContext'
  <2>1. UNCHANGED <<err, hook, cb>>
    BY DEF Command, thread
  <2>2. flags' \subseteq flags \cup {"SUBSCRIBED", "MONITORING"} /\ scheduled' = scheduled \cup {"write"}
    BY DEF Command
  <2>3. replies' = replies \/ replies' = Append(replies, CommandCallback(c))
    BY DEF Command, CommandCallback, CommandId
  <2>4. invalid' = invalid \/ invalid' = Append(invalid, CommandCallback(c))
    BY DEF Command, CommandCallback, CommandId
  <2>5. CommandCallback(c) \in AnyCallback
    BY CommandIs
  <2>6. replies' \in Seq(AnyCallback) /\ invalid' \in Seq(AnyCallback)
    <3>1. Append(replies, CommandCallback(c)) \in Seq(AnyCallback)
          /\ Append(invalid, CommandCallback(c)) \in Seq(AnyCallback)
      BY <1>1, <2>5, AppendProperties DEF TypedContext
    <3>2. QED
      BY <1>1, <2>3, <2>4, <3>1 DEF TypedContext
  <2>7. QED
    BY <1>1, <2>1, <2>2, <2>6 DEF TypedContext
<1>6. QED
  BY <1>2, <1>3, <1>4, <1>5 DEF Typed

LEMMA TypedCalls ==
    ASSUME Typed, SetCallbacks \/ Free \/ Disconnect
    PROVE  Typed'
<1>1. TypedContext /\ TypedDicts /\ TypedThread /\ TypedStreams
  BY DEF Typed
<1>2. TypedDicts' /\ TypedStreams'
  BY <1>1 DEF SetCallbacks, Free, Disconnect, TypedDicts, TypedStreams, thread, network, server, history
<1>3. CASE SetCallbacks
  <2>1. hook' \in [{"connect", "disconnect"} -> {"unset", "set", "OK", "ERR"}]
    BY <1>1, <1>3 DEF SetCallbacks, TypedContext
  <2>2. TypedContext' /\ TypedThread'
    BY <1>1, <1>3, <2>1 DEF SetCallbacks, TypedContext, TypedThread, thread, history
  <2>3. QED
    BY <1>2, <2>2 DEF Typed
<1>4. CASE Free
  <2>1. pc' = pc \/ pc' = "free"
    BY <1>4 DEF Free
  <2>2. TypedThread'
    BY <1>1, <1>4, <2>1 DEF Free, TypedThread, history
  <2>3. TypedContext'
    BY <1>1, <1>4 DEF Free, TypedContext
  <2>4. QED
    BY <1>2, <2>2, <2>3 DEF Typed
<1>5. CASE Disconnect
  <2>1. UNCHANGED <<replies, invalid, hook, cb, caller, run, scheduled, done>>
    BY <1>5 DEF Disconnect, history
  <2>2. /\ flags' \subseteq {"CONNECTED", "DISCONNECTING", "FREEING", "IN_CALLBACK",
                             "SUBSCRIBED", "MONITORING"}
        /\ err' \in {"none", "IO", "EOF", "PROTOCOL", "OTHER"} /\ TypedThread'
    <3> DEFINE fs == flags \cup {"DISCONNECTING"}
    <3>1. fs \subseteq {"CONNECTED", "DISCONNECTING", "FREEING", "IN_CALLBACK", "SUBSCRIBED", "MONITORING"}
          /\ err \in {"none", "IO", "EOF", "PROTOCOL", "OTHER"}
      BY <1>1 DEF TypedContext
    <3>2. AsyncDisconnect(err, fs) \/ (flags' = fs /\ UNCHANGED <<err, pc>>)
      BY <1>5 DEF Disconnect
    <3> HIDE DEF fs
    <3>3. QED
      BY <1>1, <2>1, <3>1, <3>2, DisconnectTyped DEF TypedThread
  <2>3. TypedContext'
    BY <1>1, <2>1, <2>2 DEF TypedContext
  <2>4. QED
    BY <1>2, <2>2, <2>3 DEF Typed
<1>6. QED
  BY <1>3, <1>4, <1>5

\* What Redis adds to what it has sent.
LEMMA ReplyIs ==
    ASSUME NEW type \in {"STATUS", "ERROR", "BAD"}, NEW for \in Nat
    PROVE  /\ Reply(type, for) \in AnyMessage
           /\ Reply(type, for).type = type /\ Reply(type, for).for = for
           /\ Reply(type, for).kind = "reply"
  BY DEF Reply, Message, AnyMessage

LEMMA TypedServe ==
    ASSUME Typed, Serve
    PROVE  Typed'
<1>1. TypedContext /\ TypedDicts /\ TypedThread /\ TypedStreams
  BY DEF Typed
<1>2. TypedContext' /\ TypedDicts' /\ TypedThread'
  BY <1>1 DEF Serve, TypedContext, TypedDicts, TypedThread, context, thread, history
<1> DEFINE id == Head(wire)
           c == issued[id]
<1>3. wire # << >> /\ wire' = Tail(wire) /\ UNCHANGED <<obuf, rbuf, issued>>
  BY DEF Serve, context, history
<1>4. id \in 1..Len(issued) /\ wire' \in Seq(1..Len(issued))
  BY <1>1, <1>3, HeadTailIs DEF TypedStreams
<1>5. c \in Commands /\ c \in AnyCommand
  BY <1>1, <1>4, CommandsAre DEF TypedStreams
<1>6. /\ subs' \subseteq Pairs /\ IsFiniteSet(subs') /\ inbox' \in Seq(AnyMessage)
      /\ conn' \in {"connecting", "failed", "open", "closed"} /\ monitors' \in Nat
  <2>1. CASE c.kind \in {"SUBSCRIBE", "UNSUBSCRIBE"}
    <3>1. /\ subs' = SubscribedTo(c, Len(c.names), subs)
          /\ inbox' = inbox \o Acknowledged(c, subs) /\ UNCHANGED <<monitors, conn>>
      BY <2>1 DEF Serve
    <3>2. Len(c.names) \in 0..Len(c.names)
      BY <1>5 DEF AnyCommand
    <3> HIDE DEF c
    <3>3. subs \in SUBSET Pairs /\ IsFiniteSet(subs) /\ inbox \in Seq(AnyMessage)
      BY <1>1 DEF TypedStreams
    <3>4. subs' \subseteq Pairs /\ IsFiniteSet(subs')
      BY <1>5, <3>1, <3>2, <3>3, SubscribedToIs
    <3>5. inbox' \in Seq(AnyMessage)
      BY <1>5, <2>1, <3>1, <3>3, AcknowledgedIs, ConcatProperties
    <3>6. QED
      BY <1>1, <3>1, <3>4, <3>5 DEF TypedStreams
  <2>2. CASE c.kind \notin {"SUBSCRIBE", "UNSUBSCRIBE"}
    <3>1. PICK type \in {"STATUS", "ERROR"} : inbox' = Append(inbox, Reply(type, id))
      BY <2>2 DEF Serve
    <3>2. UNCHANGED subs /\ (monitors' = id \/ monitors' = monitors) /\ (conn' = "closed" \/ conn' = conn)
      BY <2>2 DEF Serve
    <3>3. Reply(type, id) \in AnyMessage /\ id \in Nat
      BY <1>4, ReplyIs
    <3> HIDE DEF id
    <3>4. inbox' \in Seq(AnyMessage)
      BY <1>1, <3>1, <3>3, AppendProperties DEF TypedStreams
    <3>5. QED
      BY <1>1, <3>2, <3>3, <3>4 DEF TypedStreams
  <2>3. QED
    BY <2>1, <2>2
<1>7. TypedStreams'
  BY <1>1, <1>3, <1>4, <1>6 DEF TypedStreams
<1>8. QED
  BY <1>2, <1>7 DEF Typed

LEMMA TypedNetwork ==
    ASSUME Typed, Publish \/ Accept \/ Upset
    PROVE  Typed'
<1>1. TypedContext /\ TypedDicts /\ TypedThread /\ TypedStreams
  BY DEF Typed
<1>2. TypedContext' /\ TypedDicts' /\ TypedThread'
  BY <1>1 DEF Publish, Accept, Upset, TypedContext, TypedDicts, TypedThread, context, thread, history
<1>3. UNCHANGED <<issued, obuf, rbuf, wire, subs, monitors>>
  BY DEF Publish, Accept, Upset, context, server, history
<1>4. conn' \in {"connecting", "failed", "open", "closed"}
  BY <1>1 DEF Publish, Accept, Upset, TypedStreams
<1>5. inbox \in Seq(AnyMessage) /\ << >> \in Seq(AnyMessage) /\ subs \subseteq Pairs /\ monitors \in Nat
  BY <1>1 DEF TypedStreams
<1>6. inbox' \in Seq(AnyMessage)
  <2>1. CASE Publish
    <3>1. CASE \E s \in subs : inbox' = Append(inbox, Message("ARRAY", 0, "message", s[1], s[2], 0))
      <4>1. PICK s \in subs : inbox' = Append(inbox, Message("ARRAY", 0, "message", s[1], s[2], 0))
        BY <3>1
      <4>2. s[1] \in BOOLEAN /\ s[2] \in Keys
        BY <1>5 DEF Pairs
      <4>3. Message("ARRAY", 0, "message", s[1], s[2], 0) \in AnyMessage
        BY <4>2 DEF Message, AnyMessage
      <4>4. QED
        BY <1>5, <4>1, <4>3, AppendProperties
    <3>2. CASE inbox' = Append(inbox, Reply("STATUS", monitors))
      BY <1>5, <3>2, ReplyIs, AppendProperties
    <3>3. QED
      BY <2>1, <3>1, <3>2 DEF Publish
  <2>2. CASE Accept
    <3>1. Reply("ERROR", 0) \in AnyMessage
      BY ReplyIs
    <3>2. << >> \o <<Reply("ERROR", 0)>> = <<Reply("ERROR", 0)>> /\ <<Reply("ERROR", 0)>> \in Seq(AnyMessage)
      BY <3>1
    <3>3. QED
      BY <1>5, <2>2, <3>2 DEF Accept
  <2>3. CASE Upset
    <3>1. Reply("BAD", 0) \in AnyMessage
      BY ReplyIs
    <3>2. Append(inbox, Reply("BAD", 0)) \in Seq(AnyMessage)
      BY <1>5, <3>1, AppendProperties
    <3>3. inbox' \in {inbox, << >>, Append(inbox, Reply("BAD", 0))}
      BY <2>3 DEF Upset
    <3>4. QED
      BY <1>5, <3>2, <3>3
  <2>4. QED
    BY <2>1, <2>2, <2>3
<1>7. TypedStreams'
  BY <1>1, <1>3, <1>4, <1>6 DEF TypedStreams
<1>8. QED
  BY <1>2, <1>7 DEF Typed

LEMMA TypedStep == Typed /\ [Next]_vars => Typed'
<1> SUFFICES ASSUME Typed, [Next]_vars PROVE Typed'
  OBVIOUS
<1>1. CASE UNCHANGED vars
  BY <1>1 DEF vars, context, thread, network, server, history, Typed, TypedContext, TypedDicts,
       TypedThread, TypedStreams
<1>2. QED
  BY <1>1, TypedProcessReply, TypedFreeNext, TypedLibrary, TypedHandlers, TypedCommand, TypedCalls,
     TypedServe, TypedNetwork DEF Next, Library, Over

LEMMA TypedAlways == Spec => []Typed
  BY TypedInit, TypedStep, PTL DEF Spec

-----------------------------------------------------------------------------
(* What the steps do to the dicts and to the callbacks.                     *)

Entry(p, k) == dictFind(DictOf(p), k)
Val(p, k) == dictGetEntryVal(Entry(p, k))

LEMMA EntryIs ==
    ASSUME Typed, NEW p \in BOOLEAN, NEW k \in Keys, Entry(p, k) # {}
    PROVE  /\ Entry(p, k) = {[key |-> k, val |-> Val(p, k)]} /\ Val(p, k) \in AnyCallback
           /\ Val(p, k).fn \in BOOLEAN /\ Val(p, k).id \in Nat /\ Val(p, k).pending_subs \in Int
<1>1. IsDict(DictOf(p), AnyCallback)
  BY DEF Typed, TypedDicts, DictOf
<1>2. Entry(p, k) = {[key |-> k, val |-> Val(p, k)]} /\ Val(p, k) \in AnyCallback
  BY <1>1, EntryVal DEF Entry, Val
<1>3. QED
  BY <1>2 DEF AnyCallback

\* The value of an entry.
LEMMA ValIs ==
    ASSUME NEW k, NEW v
    PROVE  dictGetEntryVal({[key |-> k, val |-> v]}) = v
<1> DEFINE e == CHOOSE e \in {[key |-> k, val |-> v]} : TRUE
<1>1. e = [key |-> k, val |-> v]
  OBVIOUS
<1>2. dictGetEntryVal({[key |-> k, val |-> v]}) = e.val
  BY DEF dictGetEntryVal
<1> HIDE DEF e
<1>3. QED
  BY <1>1, <1>2

LEMMA SubscribedEntries ==
    ASSUME Typed
    PROVE  /\ Len(Subscribed) \in Nat /\ DOMAIN Subscribed = 1..Len(Subscribed)
           /\ \A i \in DOMAIN Subscribed : \E p \in BOOLEAN, k \in Keys :
                Entry(p, k) # {} /\ Subscribed[i].val = Val(p, k)
<1>1. TypedDicts
  BY DEF Typed
<1>2. Subscribed \in Seq(DictEntries(AnyCallback))
  BY <1>1, SubscribedIs
<1>3. ASSUME NEW i \in DOMAIN Subscribed
      PROVE  \E p \in BOOLEAN, k \in Keys : Entry(p, k) # {} /\ Subscribed[i].val = Val(p, k)
  <2> DEFINE e == Subscribed[i]
  <2>1. e \in Range(Subscribed)
    BY DEF Range
  <2>2. PICK p \in BOOLEAN : e.key \in Keys /\ dictFind(DictOf(p), e.key) = {e}
    BY <1>1, <2>1, SubscribedIs DEF DictOf
  <2>3. Val(p, e.key) = e.val
    <3> HIDE DEF e
    <3>1. (CHOOSE x \in {e} : TRUE) = e
      OBVIOUS
    <3>2. QED
      BY <2>2, <3>1 DEF Val, Entry, dictGetEntryVal
  <2>4. QED
    BY <2>2, <2>3 DEF Entry
<1>4. QED
  BY <1>2, <1>3

\* The callback of a message, and what is left in the dict of it.
Gone(m, c) == m.kind = "unsubscribe" /\ c.pending_subs = 0

LEMMA MessageIs ==
    ASSUME Typed, NEW m \in AnyMessage, m.type = "ARRAY", Entry(m.p, m.name) # {},
           GetSubscribeCallback(m)
    PROVE  /\ m.p \in BOOLEAN /\ m.name \in Keys /\ m.kind \in {"subscribe", "unsubscribe", "message"}
           /\ cb' \in AnyCallback /\ cb'.fn = Val(m.p, m.name).fn /\ cb'.id = Val(m.p, m.name).id
           /\ cb'.pending_subs = IF m.kind = "subscribe" THEN Val(m.p, m.name).pending_subs - 1
                                  ELSE Val(m.p, m.name).pending_subs
           /\ RunCallback(cb', m, "process", Unsubscribed(m, channels', patterns'))
           /\ UNCHANGED invalid
           /\ IsDict(channels', AnyCallback) /\ IsDict(patterns', AnyCallback)
           /\ \A p \in BOOLEAN, k \in Keys :
                Entry(p, k)' = IF p = m.p /\ k = m.name
                                THEN IF Gone(m, cb') THEN {} ELSE {[key |-> k, val |-> cb']}
                                ELSE Entry(p, k)
<1> DEFINE dict == DictOf(m.p)
           old  == Val(m.p, m.name)
           val  == IF m.kind = "subscribe" THEN [old EXCEPT !.pending_subs = @ - 1] ELSE old
           new  == IF Gone(m, val) THEN dictDelete(dict, m.name) ELSE SetVal(dict, m.name, val)
<1>1. m.p \in BOOLEAN /\ m.name \in Keys /\ m.kind \in {"subscribe", "unsubscribe", "message"}
  BY DEF AnyMessage
<1>2. /\ cb' = val
      /\ channels' = (IF m.p THEN channels ELSE new) /\ patterns' = (IF m.p THEN new ELSE patterns)
      /\ RunCallback(val, m, "process", Unsubscribed(m, channels', patterns'))
      /\ UNCHANGED invalid
  BY DEF GetSubscribeCallback, Entry, Val, DictOf, Gone
<1>3. IsDict(channels, AnyCallback) /\ IsDict(patterns, AnyCallback)
  BY DEF Typed, TypedDicts
<1>4. IsDict(dict, AnyCallback) /\ dictFind(dict, m.name) # {}
  BY <1>3 DEF DictOf, Entry
<1>5. old \in AnyCallback
  BY <1>1, EntryIs
<1> HIDE DEF old
<1>6. /\ val \in AnyCallback /\ val.fn = old.fn /\ val.id = old.id
      /\ val.pending_subs = IF m.kind = "subscribe" THEN old.pending_subs - 1 ELSE old.pending_subs
  BY <1>5 DEF AnyCallback
<1> HIDE DEF val, dict
<1>7. /\ IsDict(new, AnyCallback)
      /\ \A k \in Keys : dictFind(new, k) =
           IF k = m.name THEN IF Gone(m, val) THEN {} ELSE {[key |-> k, val |-> val]} ELSE dictFind(dict, k)
  <2>1. CASE Gone(m, val)
    <3>1. new = dictDelete(dict, m.name)
      BY <2>1
    <3>2. /\ IsDict(dictDelete(dict, m.name), AnyCallback)
          /\ \A k \in Keys : dictFind(dictDelete(dict, m.name), k) =
                IF k = m.name THEN {} ELSE dictFind(dict, k)
      BY <1>1, <1>4, DeleteIs, SMTT(30)
    <3> HIDE DEF new
    <3>3. QED
      BY <2>1, <3>1, <3>2
  <2>2. CASE ~Gone(m, val)
    <3>1. new = SetVal(dict, m.name, val)
      BY <2>2
    <3>2. /\ IsDict(SetVal(dict, m.name, val), AnyCallback)
          /\ \A k \in Keys : dictFind(SetVal(dict, m.name, val), k) =
                IF k = m.name THEN {[key |-> m.name, val |-> val]} ELSE dictFind(dict, k)
      BY <1>1, <1>4, <1>6, SetValIs
    <3> HIDE DEF new
    <3>3. QED
      BY <2>2, <3>1, <3>2
  <2>3. QED
    BY <2>1, <2>2
<1> HIDE DEF new
<1>8. IsDict(channels', AnyCallback) /\ IsDict(patterns', AnyCallback)
  BY <1>2, <1>3, <1>7
<1>9. ASSUME NEW p \in BOOLEAN, NEW k \in Keys
      PROVE  Entry(p, k)' = IF p = m.p /\ k = m.name
                                THEN IF Gone(m, val) THEN {} ELSE {[key |-> k, val |-> val]}
                                ELSE Entry(p, k)
  <2>1. DictOf(p)' = IF p = m.p THEN new ELSE DictOf(p)
    BY <1>1, <1>2 DEF DictOf
  <2>2. CASE p = m.p
    BY <1>7, <2>1, <2>2 DEF Entry, dict
  <2>3. CASE p # m.p
    BY <2>1, <2>3 DEF Entry
  <2>4. QED
    BY <2>2, <2>3
<1>10. QED
  BY <1>1, <1>2, <1>6, <1>8, <1>9 DEF old

\* The callback that a reply runs, and where it was.
Pops(c) ==
    \/ /\ replies # << >> /\ c = Head(replies) /\ replies' = Tail(replies) /\ UNCHANGED invalid
    \/ /\ invalid # << >> /\ c = Head(invalid) /\ invalid' = Tail(invalid) /\ UNCHANGED replies
    \/ UNCHANGED <<replies, invalid>>

SameEntries(c) ==
    \A p \in BOOLEAN, k \in Keys :
        \/ Entry(p, k)' = Entry(p, k)
        \/ Entry(p, k)' = {}
        \/ /\ Entry(p, k) # {} /\ Entry(p, k)' = {[key |-> k, val |-> c]}
           /\ c.id = Val(p, k).id /\ c.fn = Val(p, k).fn

From(c) ==
    \/ c = cb
    \/ replies # << >> /\ c = Head(replies)
    \/ invalid # << >> /\ c = Head(invalid)
    \/ \E p \in BOOLEAN, k \in Keys :
          /\ Entry(p, k) # {} /\ c.id = Val(p, k).id /\ c.fn = Val(p, k).fn
          /\ c.pending_subs <= Val(p, k).pending_subs

LEMMA ProcessReplyRuns ==
    ASSUME Typed, ProcessReply
    PROVE  /\ UNCHANGED <<it, done, issued, obuf, wire, inbox, conn, subs, hook>>
           /\ \/ /\ pc' = "free" /\ flags' = flags \cup {"DISCONNECTING"}
                 /\ UNCHANGED <<replies, invalid, channels, patterns, cb, caller, run>>
              \/ /\ pc' = "aborted" /\ flags' = flags
                 /\ UNCHANGED <<replies, invalid, channels, patterns, cb, caller, run>>
              \/ \E fs \in {flags, flags \ {"SUBSCRIBED"}} :
                    /\ cb' \in AnyCallback
                    /\ RunCallback(cb', Head(rbuf), "process", fs)
                    /\ Pops(cb') /\ SameEntries(cb') /\ From(cb')
<1> DEFINE m == Head(rbuf)
<1>1. UNCHANGED <<it, done, issued, obuf, wire, inbox, conn, subs, hook>> /\ m \in AnyMessage
      /\ replies \in Seq(AnyCallback) /\ invalid \in Seq(AnyCallback) /\ cb \in AnyCallback
  BY HeadTailIs DEF ProcessReply, network, server, history, Typed, TypedStreams, TypedContext
<1>2. ASSUME NEW e \in {"PROTOCOL", "OTHER"}, AsyncDisconnect(e, flags),
             UNCHANGED <<replies, invalid, channels, patterns, cb, caller, run>>
      PROVE  /\ pc' = "free" /\ flags' = flags \cup {"DISCONNECTING"}
             /\ UNCHANGED <<replies, invalid, channels, patterns, cb, caller, run>>
  BY <1>2 DEF AsyncDisconnect
<1>3. UNCHANGED <<channels, patterns>> => SameEntries(cb')
  BY DEF SameEntries, Entry, DictOf
<1>4. CASE m.type = "BAD"
  BY <1>1, <1>2, <1>4 DEF ProcessReply
<1>5. CASE m.type # "BAD" /\ replies # << >>
  <2>1. /\ replies' = Tail(replies) /\ cb' = Head(replies)
        /\ RunCallback(cb', m, "process", flags)
        /\ UNCHANGED <<err, invalid, channels, patterns>>
    BY <1>5 DEF ProcessReply
  <2>2. cb' \in AnyCallback
    BY <1>1, <1>5, <2>1, HeadTailIs
  <2>3. QED
    BY <1>1, <1>3, <1>5, <2>1, <2>2 DEF Pops, From
<1>6. CASE m.type = "ERROR" /\ replies = << >>
  BY <1>1, <1>2, <1>6 DEF ProcessReply
<1>7. CASE m.type \notin {"BAD", "ERROR"} /\ replies = << >>
            /\ flags \cap {"SUBSCRIBED", "MONITORING"} = {}
  BY <1>1, <1>7 DEF ProcessReply
<1>8. CASE m.type \notin {"BAD", "ERROR"} /\ replies = << >>
            /\ "SUBSCRIBED" \notin flags /\ "MONITORING" \in flags
  <2>1. RunCallback(cb, m, "process", flags)
        /\ UNCHANGED <<err, replies, invalid, channels, patterns, cb>>
    BY <1>8 DEF ProcessReply
  <2>2. QED
    BY <1>1, <1>3, <2>1 DEF Pops, From
<1>9. CASE m.type \notin {"BAD", "ERROR"} /\ replies = << >> /\ "SUBSCRIBED" \in flags
  <2>1. GetSubscribeCallback(m) /\ UNCHANGED <<err, replies>>
    BY <1>9 DEF ProcessReply
  <2>2. CASE m.type # "ARRAY"
    <3>1. /\ cb' = (IF invalid = <<>> THEN cb ELSE Head(invalid))
          /\ invalid' = (IF invalid = <<>> THEN invalid ELSE Tail(invalid))
          /\ RunCallback(cb', m, "process", flags)
          /\ UNCHANGED <<channels, patterns>>
      BY <2>1, <2>2 DEF GetSubscribeCallback
    <3>2. cb' \in AnyCallback
      BY <1>1, <3>1, HeadTailIs
    <3>3. QED
      BY <1>1, <1>3, <2>1, <3>1, <3>2 DEF Pops, From
  <2>3. CASE m.type = "ARRAY" /\ Entry(m.p, m.name) = {}
    <3>1. RunCallback(cb, m, "process", flags) /\ UNCHANGED <<cb, invalid, channels, patterns>>
      BY <2>1, <2>3 DEF GetSubscribeCallback, Entry, DictOf
    <3>2. QED
      BY <1>1, <1>3, <2>1, <3>1 DEF Pops, From
  <2>4. CASE m.type = "ARRAY" /\ Entry(m.p, m.name) # {}
    <3> HIDE DEF m
    <3>1. /\ m.p \in BOOLEAN /\ m.name \in Keys
          /\ cb' \in AnyCallback /\ cb'.fn = Val(m.p, m.name).fn /\ cb'.id = Val(m.p, m.name).id
          /\ RunCallback(cb', m, "process", Unsubscribed(m, channels', patterns'))
          /\ UNCHANGED invalid
          /\ \A p \in BOOLEAN, k \in Keys :
                Entry(p, k)' = IF p = m.p /\ k = m.name
                                THEN IF Gone(m, cb') THEN {} ELSE {[key |-> k, val |-> cb']}
                                ELSE Entry(p, k)
      BY <1>1, <2>1, <2>4, MessageIs
    <3>2. Unsubscribed(m, channels', patterns') \in {flags, flags \ {"SUBSCRIBED"}}
      BY DEF Unsubscribed
    <3>3. SameEntries(cb')
      BY <2>4, <3>1 DEF SameEntries
    <3>4. From(cb') /\ Pops(cb')
      <4>1. cb'.pending_subs <= Val(m.p, m.name).pending_subs
        <5>1. cb'.pending_subs = IF m.kind = "subscribe" THEN Val(m.p, m.name).pending_subs - 1
                                  ELSE Val(m.p, m.name).pending_subs
          BY <1>1, <2>1, <2>4, MessageIs
        <5>2. Val(m.p, m.name).pending_subs \in Int
          BY <2>4, <3>1, EntryIs
        <5>3. QED
          BY <5>1, <5>2
      <4>2. QED
        BY <2>1, <2>4, <3>1, <4>1 DEF From, Pops
    <3>5. QED
      BY <1>1, <3>1, <3>2, <3>3, <3>4 DEF m
  <2>5. QED
    BY <2>2, <2>3, <2>4
<1>10. QED
  BY <1>4, <1>5, <1>6, <1>7, <1>8, <1>9

-----------------------------------------------------------------------------
(* Control: what the thread is at, and that no callback is forgotten.       *)

\* The user may still send commands, if the flags let him.
Alive == pc \in {"idle", "process"} \/ (pc = "callback" /\ caller = "process")
Ending == flags \cap {"DISCONNECTING", "FREEING"} # {}

\* A callback is that of a command, or no function; no more replies are to
\* come for it than there are commands.
Known(is, c) ==
    /\ (c.id = 0 /\ ~c.fn) \/ (c.id \in DOMAIN is /\ c.fn = is[c.id].fn)
    /\ c.pending_subs <= Len(is)

Running ==
    /\ pc = "callback" => run.id \in DOMAIN issued /\ issued[run.id].fn
    /\ "IN_CALLBACK" \in flags <=> pc = "callback"
    /\ Alive => it = 0
    /\ ~Alive /\ pc # "aborted" => Ending
    /\ done \subseteq DOMAIN issued
    /\ pc = "freed" =>
         replies = << >> /\ invalid = << >> /\ ~(it < Len(Subscribed))
         /\ (hook["disconnect"] = "set" => "CONNECTED" \notin flags)

AllKnown ==
    /\ Known(issued, cb)
    /\ \A i \in DOMAIN replies : Known(issued, replies[i])
    /\ \A i \in DOMAIN invalid : Known(issued, invalid[i])
    /\ \A p \in BOOLEAN, k \in Keys : Entry(p, k) # {} => Known(issued, Val(p, k))

Has(q, n) == \E i \in DOMAIN q : q[i].id = n

Told_(n) == n \in done \/ (pc = "callback" /\ run.id = n)

\* Regular callbacks wait, run or have run; so do those that were subscribed
\* as far as the end has come.
Kept ==
    /\ \A n \in DOMAIN issued : Regular(n) /\ issued[n].fn => Has(replies, n) \/ Has(invalid, n) \/ Told_(n)
    /\ \A i \in DOMAIN Subscribed : i <= it /\ Subscribed[i].val.fn => Told_(Subscribed[i].val.id)

LEMMA KnownTrue ==
    ASSUME NEW is, NEW c, Known(is, c), c.fn
    PROVE  c.id \in DOMAIN is /\ is[c.id].fn
  BY DEF Known

\* A callback is run: it is told, if it has a function.
LEMMA RunIs ==
    ASSUME NEW c \in AnyCallback, NEW reply, NEW by, NEW fs, RunCallback(c, reply, by, fs),
           Known(issued, c)
    PROVE  \/ /\ c.fn /\ flags' = fs \cup {"IN_CALLBACK"} /\ pc' = "callback" /\ caller' = by
              /\ run' = [id |-> c.id, reply |-> reply] /\ run'.id = c.id
              /\ c.id \in DOMAIN issued /\ issued[c.id].fn
           \/ /\ ~c.fn /\ flags' = fs /\ pc' = by /\ UNCHANGED <<caller, run>>
  BY KnownTrue DEF RunCallback

LEMMA KnownHead ==
    ASSUME NEW is, NEW s \in Seq(AnyCallback), s # << >>, \A i \in DOMAIN s : Known(is, s[i])
    PROVE  /\ Head(s) \in AnyCallback /\ Known(is, Head(s))
           /\ \A i \in DOMAIN Tail(s) : Known(is, Tail(s)[i])
           /\ \A n : Has(s, n) => Head(s).id = n \/ Has(Tail(s), n)
<1>1. /\ Head(s) \in AnyCallback /\ Tail(s) \in Seq(AnyCallback) /\ Len(s) \in Nat /\ Len(s) >= 1
      /\ Len(Tail(s)) = Len(s) - 1 /\ Head(s) = s[1] /\ DOMAIN s = 1..Len(s)
      /\ \A i \in 1..(Len(s) - 1) : Tail(s)[i] = s[i + 1] /\ i + 1 \in DOMAIN s
  BY HeadTailIs
<1>2. DOMAIN Tail(s) = 1..(Len(s) - 1)
  BY <1>1
<1>3. 1 \in DOMAIN s
  BY <1>1
<1>4. ASSUME NEW n, Has(s, n)
      PROVE  Head(s).id = n \/ Has(Tail(s), n)
  <2>1. PICK i \in DOMAIN s : s[i].id = n
    BY <1>4 DEF Has
  <2>2. CASE i = 1
    BY <1>1, <2>1, <2>2
  <2>3. CASE i # 1
    <3>1. i - 1 \in 1..(Len(s) - 1) /\ (i - 1) + 1 = i
      BY <1>1, <2>1, <2>3
    <3>2. Tail(s)[i - 1] = s[i]
      BY <1>1, <3>1
    <3>3. QED
      BY <1>2, <2>1, <3>1, <3>2 DEF Has
  <2>4. QED
    BY <2>2, <2>3
<1>5. QED
  BY <1>1, <1>2, <1>3, <1>4

LEMMA SubscribedKnown ==
    ASSUME Typed, AllKnown, NEW i \in DOMAIN Subscribed
    PROVE  Known(issued, Subscribed[i].val) /\ Subscribed[i].val \in AnyCallback
<1>1. PICK p \in BOOLEAN, k \in Keys : Entry(p, k) # {} /\ Subscribed[i].val = Val(p, k)
  BY SubscribedEntries
<1>2. QED
  BY <1>1, EntryIs DEF AllKnown

\* What the steps at the end do.
LEMMA FreeNextRuns ==
    ASSUME Typed, AllKnown, FreeNext
    PROVE  /\ pc = "free" /\ UNCHANGED <<cb, done, issued, channels, patterns, hook>>
           /\ \E c \in AnyCallback :
                /\ Known(issued, c) /\ RunCallback(c, NULL, "free", flags)
                /\ \/ Pops(c) /\ it' = it
                   \/ /\ it < Len(Subscribed) /\ it + 1 \in DOMAIN Subscribed
                      /\ it' = it + 1 /\ c = Subscribed[it + 1].val /\ UNCHANGED <<replies, invalid>>
<1>1. pc = "free" /\ UNCHANGED <<cb, done, issued, channels, patterns, hook>>
  BY DEF FreeNext, history
<1>2. replies \in Seq(AnyCallback) /\ invalid \in Seq(AnyCallback) /\ it \in Nat
  BY DEF Typed, TypedContext, TypedDicts
<1>3. CASE replies # << >> /\ replies' = Tail(replies) /\ RunCallback(Head(replies), NULL, "free", flags)
           /\ UNCHANGED <<invalid, it>>
  <2>1. Head(replies) \in AnyCallback /\ Known(issued, Head(replies))
    BY <1>2, <1>3, KnownHead DEF AllKnown
  <2>2. QED
    BY <1>1, <1>3, <2>1 DEF Pops
<1>4. CASE invalid # << >> /\ invalid' = Tail(invalid) /\ RunCallback(Head(invalid), NULL, "free", flags)
           /\ UNCHANGED <<replies, it>>
  <2>1. Head(invalid) \in AnyCallback /\ Known(issued, Head(invalid))
    BY <1>2, <1>4, KnownHead DEF AllKnown
  <2>2. QED
    BY <1>1, <1>4, <2>1 DEF Pops
<1>5. CASE it < Len(Subscribed) /\ it' = it + 1 /\ RunCallback(Subscribed[it + 1].val, NULL, "free", flags)
           /\ UNCHANGED <<replies, invalid>>
  <2>1. it + 1 \in DOMAIN Subscribed
    BY <1>2, <1>5, SubscribedEntries
  <2>2. QED
    BY <1>1, <1>5, <2>1, SubscribedKnown
<1>6. QED
  BY <1>3, <1>4, <1>5 DEF FreeNext

\* The callback of a reply is known.
LEMMA FromKnown ==
    ASSUME Typed, AllKnown, NEW c \in AnyCallback, From(c)
    PROVE  Known(issued, c)
<1>1. CASE replies # << >> /\ c = Head(replies)
  BY <1>1, KnownHead DEF AllKnown, Typed, TypedContext
<1>2. CASE invalid # << >> /\ c = Head(invalid)
  BY <1>2, KnownHead DEF AllKnown, Typed, TypedContext
<1>3. CASE \E p \in BOOLEAN, k \in Keys :
          /\ Entry(p, k) # {} /\ c.id = Val(p, k).id /\ c.fn = Val(p, k).fn
          /\ c.pending_subs <= Val(p, k).pending_subs
  <2>1. PICK p \in BOOLEAN, k \in Keys :
          /\ Entry(p, k) # {} /\ c.id = Val(p, k).id /\ c.fn = Val(p, k).fn
          /\ c.pending_subs <= Val(p, k).pending_subs
    BY <1>3
  <2>2. Known(issued, Val(p, k))
    BY <2>1 DEF AllKnown
  <2>3. c.pending_subs <= Len(issued)
    <3>1. c.pending_subs \in Int /\ Val(p, k).pending_subs \in Int /\ Len(issued) \in Nat
      BY <2>1, EntryIs DEF AnyCallback, Typed, TypedStreams
    <3>2. QED
      BY <2>1, <2>2, <3>1 DEF Known
  <2>4. QED
    BY <2>1, <2>2, <2>3 DEF Known
<1>4. QED
  BY <1>1, <1>2, <1>3 DEF From, AllKnown

LEMMA PopsKnown ==
    ASSUME Typed, AllKnown, NEW c, Pops(c), issued' = issued
    PROVE  /\ \A i \in DOMAIN replies' : Known(issued', replies'[i])
           /\ \A i \in DOMAIN invalid' : Known(issued', invalid'[i])
           /\ \A n : Has(replies, n) \/ Has(invalid, n) => Has(replies', n) \/ Has(invalid', n) \/ c.id = n
<1>1. replies \in Seq(AnyCallback) /\ invalid \in Seq(AnyCallback)
  BY DEF Typed, TypedContext
<1>2. CASE replies # << >> /\ c = Head(replies) /\ replies' = Tail(replies) /\ UNCHANGED invalid
  <2>1. /\ \A i \in DOMAIN Tail(replies) : Known(issued, Tail(replies)[i])
        /\ \A n : Has(replies, n) => Head(replies).id = n \/ Has(Tail(replies), n)
    BY <1>1, <1>2, KnownHead DEF AllKnown
  <2>2. QED
    BY <1>2, <2>1 DEF AllKnown
<1>3. CASE invalid # << >> /\ c = Head(invalid) /\ invalid' = Tail(invalid) /\ UNCHANGED replies
  <2>1. /\ \A i \in DOMAIN Tail(invalid) : Known(issued, Tail(invalid)[i])
        /\ \A n : Has(invalid, n) => Head(invalid).id = n \/ Has(Tail(invalid), n)
    BY <1>1, <1>3, KnownHead DEF AllKnown
  <2>2. QED
    BY <1>3, <2>1 DEF AllKnown
<1>4. CASE UNCHANGED <<replies, invalid>>
  BY <1>4 DEF AllKnown
<1>5. QED
  BY <1>2, <1>3, <1>4 DEF Pops

Control == Running /\ AllKnown /\ Kept

LEMMA ControlInit == Init => Control
<1> SUFFICES ASSUME Init PROVE Control
  OBVIOUS
<1>1. issued = << >> /\ replies = << >> /\ invalid = << >> /\ pc = "idle" /\ it = 0 /\ done = {}
      /\ flags = {} /\ channels = dictCreate /\ patterns = dictCreate /\ cb = NoCallback
  BY DEF Init
<1>2. \A p \in BOOLEAN, k \in Keys : Entry(p, k) = {}
  BY <1>1, CreateIs DEF Entry, DictOf
<1>3. Running
  BY <1>1 DEF Running, Ending, Alive
<1>4. AllKnown
  BY <1>1, <1>2 DEF AllKnown, Known, NoCallback
<1>5. \A i \in DOMAIN Subscribed : ~(i <= it)
  BY <1>1, TypedInit, SubscribedEntries
<1>6. Kept
  BY <1>1, <1>5 DEF Kept
<1>7. QED
  BY <1>3, <1>4, <1>6 DEF Control

\* What keeps the callbacks where they are.
Still == UNCHANGED <<replies, invalid, channels, patterns, issued>>

LEMMA StillKnown ==
    ASSUME AllKnown, Still, cb' \in {cb, NoCallback}
    PROVE  AllKnown'
<1>1. Known(issued', NoCallback)
  BY DEF Known, NoCallback
<1>2. \A p \in BOOLEAN, k \in Keys : Entry(p, k)' = Entry(p, k) /\ Val(p, k)' = Val(p, k)
  BY DEF Still, Entry, Val, DictOf
<1>3. QED
  BY <1>1, <1>2 DEF AllKnown, Still

LEMMA StillKept ==
    ASSUME Kept, Still, it' = it, \A n : Told_(n) => Told_(n)'
    PROVE  Kept'
<1>1. Subscribed' = Subscribed
  BY DEF Subscribed, Still
<1>2. \A n \in DOMAIN issued : issued'[n] = issued[n] /\ (Regular(n)' <=> Regular(n))
  BY DEF Regular, Still
<1>3. QED
  BY <1>1, <1>2 DEF Kept, Still

LEMMA ControlProcessReply ==
    ASSUME Typed, Control, ProcessReply, Typed'
    PROVE  Control'
<1>1. Running /\ AllKnown /\ Kept /\ pc = "process" /\ Alive /\ it = 0 /\ "IN_CALLBACK" \notin flags
  BY DEF Control, Running, Alive, ProcessReply
<1>2. UNCHANGED <<it, done, issued, hook>>
  BY ProcessReplyRuns
<1>3. CASE pc' \in {"free", "aborted"}
           /\ (pc' = "free" => flags' = flags \cup {"DISCONNECTING"}) /\ (pc' = "aborted" => flags' = flags)
           /\ UNCHANGED <<replies, invalid, channels, patterns, cb, caller, run>>
  <2>1. AllKnown'
    BY <1>1, <1>2, <1>3, StillKnown DEF Still
  <2>2. Kept'
    <3>1. \A n : Told_(n) => Told_(n)'
      BY <1>1, <1>2 DEF Told_
    <3>2. QED
      BY <1>1, <1>2, <1>3, <3>1, StillKept DEF Still
  <2>3. Running'
    BY <1>1, <1>2, <1>3 DEF Running, Alive, Ending
  <2>4. QED
    BY <2>1, <2>2, <2>3 DEF Control
<1>4. CASE \E fs \in {flags, flags \ {"SUBSCRIBED"}} :
                    /\ cb' \in AnyCallback
                    /\ RunCallback(cb', Head(rbuf), "process", fs)
                    /\ Pops(cb') /\ SameEntries(cb') /\ From(cb')
  <2>1. PICK fs \in {flags, flags \ {"SUBSCRIBED"}} :
                    /\ cb' \in AnyCallback
                    /\ RunCallback(cb', Head(rbuf), "process", fs)
                    /\ Pops(cb') /\ SameEntries(cb') /\ From(cb')
    BY <1>4
  <2>2. Known(issued, cb')
    BY <1>1, <2>1, FromKnown
  <2>3. \/ /\ cb'.fn /\ flags' = fs \cup {"IN_CALLBACK"} /\ pc' = "callback" /\ caller' = "process"
           /\ run'.id = cb'.id /\ cb'.id \in DOMAIN issued /\ issued[cb'.id].fn
        \/ /\ ~cb'.fn /\ flags' = fs /\ pc' = "process"
    BY <2>1, <2>2, RunIs
  <2>4. Running'
    BY <1>1, <1>2, <2>1, <2>3 DEF Running, Alive, Ending
  <2>5. /\ \A i \in DOMAIN replies' : Known(issued', replies'[i])
        /\ \A i \in DOMAIN invalid' : Known(issued', invalid'[i])
        /\ \A n : Has(replies, n) \/ Has(invalid, n) => Has(replies', n) \/ Has(invalid', n) \/ cb'.id = n
    BY <1>1, <1>2, <2>1, PopsKnown
  <2>6. AllKnown'
    <3>1. ASSUME NEW p \in BOOLEAN, NEW k \in Keys, Entry(p, k)' # {}
          PROVE  Known(issued', Val(p, k)')
      <4>1. CASE Entry(p, k)' = Entry(p, k)
        <5>1. Val(p, k)' = Val(p, k)
          BY <4>1 DEF Val
        <5>2. QED
          BY <1>1, <1>2, <3>1, <4>1, <5>1 DEF AllKnown
      <4>2. CASE Entry(p, k)' = {[key |-> k, val |-> cb']}
        <5>1. Val(p, k)' = cb'
          BY <4>2, ValIs DEF Val
        <5>2. QED
          BY <1>2, <2>2, <5>1
      <4>3. QED
        BY <2>1, <3>1, <4>1, <4>2 DEF SameEntries
    <3>2. QED
      BY <1>2, <2>2, <2>5, <3>1 DEF AllKnown
  <2>7. Kept'
    <3>1. ASSUME NEW n \in DOMAIN issued', Regular(n)' /\ issued'[n].fn
          PROVE  Has(replies', n) \/ Has(invalid', n) \/ Told_(n)'
      <4>1. n \in DOMAIN issued /\ Regular(n) /\ issued[n].fn /\ n # 0
        BY <1>2, <3>1 DEF Regular, Typed, TypedStreams
      <4>2. Has(replies, n) \/ Has(invalid, n) \/ n \in done
        BY <1>1, <4>1 DEF Kept, Told_
      <4>3. CASE cb'.id = n
        <5>1. cb'.fn
          BY <2>2, <4>1, <4>3 DEF Known
        <5>2. QED
          BY <2>3, <4>3, <5>1 DEF Told_
      <4>4. QED
        BY <1>2, <2>5, <4>2, <4>3 DEF Told_
    <3>2. \A i \in DOMAIN Subscribed' : ~(i <= it')
      BY <1>1, <1>2, SubscribedEntries
    <3>3. QED
      BY <3>1, <3>2 DEF Kept
  <2>8. QED
    BY <2>4, <2>6, <2>7 DEF Control
<1>5. QED
  BY <1>3, <1>4, ProcessReplyRuns

LEMMA ControlFreeNext ==
    ASSUME Typed, Control, FreeNext
    PROVE  Control'
<1>1. Running /\ AllKnown /\ Kept /\ pc = "free" /\ Ending /\ "IN_CALLBACK" \notin flags
  BY DEF Control, Running, Alive, FreeNext
<1>2. UNCHANGED <<cb, done, issued, channels, patterns, hook>>
  BY <1>1, FreeNextRuns
<1>3. PICK c \in AnyCallback :
                /\ Known(issued, c) /\ RunCallback(c, NULL, "free", flags)
                /\ \/ Pops(c) /\ it' = it
                   \/ /\ it < Len(Subscribed) /\ it + 1 \in DOMAIN Subscribed
                      /\ it' = it + 1 /\ c = Subscribed[it + 1].val /\ UNCHANGED <<replies, invalid>>
  BY <1>1, FreeNextRuns
<1>4. \/ /\ c.fn /\ flags' = flags \cup {"IN_CALLBACK"} /\ pc' = "callback" /\ caller' = "free"
         /\ run'.id = c.id /\ c.id \in DOMAIN issued /\ issued[c.id].fn
      \/ /\ ~c.fn /\ flags' = flags /\ pc' = "free"
  BY <1>3, RunIs
<1>5. Running'
  BY <1>1, <1>2, <1>4 DEF Running, Alive, Ending
<1>6. Pops(c)
  BY <1>3 DEF Pops
<1>7. /\ \A i \in DOMAIN replies' : Known(issued', replies'[i])
      /\ \A i \in DOMAIN invalid' : Known(issued', invalid'[i])
      /\ \A n : Has(replies, n) \/ Has(invalid, n) => Has(replies', n) \/ Has(invalid', n) \/ c.id = n
  BY <1>1, <1>2, <1>6, PopsKnown
<1>8. AllKnown'
  <2>1. \A p \in BOOLEAN, k \in Keys : Entry(p, k)' = Entry(p, k) /\ Val(p, k)' = Val(p, k)
    BY <1>2 DEF Entry, Val, DictOf
  <2>2. QED
    BY <1>1, <1>2, <1>7, <2>1 DEF AllKnown
<1>9. \A n : Told_(n) \/ (c.fn /\ c.id = n) => Told_(n)'
  BY <1>1, <1>2, <1>4 DEF Told_
<1>10. Kept'
  <2>1. ASSUME NEW n \in DOMAIN issued', Regular(n)' /\ issued'[n].fn
        PROVE  Has(replies', n) \/ Has(invalid', n) \/ Told_(n)'
    <3>1. n \in DOMAIN issued /\ Regular(n) /\ issued[n].fn /\ n # 0
      BY <1>2, <2>1 DEF Regular, Typed, TypedStreams
    <3>2. Has(replies, n) \/ Has(invalid, n) \/ Told_(n)
      BY <1>1, <3>1 DEF Kept
    <3>3. CASE c.id = n
      <4>1. c.fn
        BY <1>3, <3>1, <3>3 DEF Known
      <4>2. QED
        BY <1>9, <3>3, <4>1
    <3>4. QED
      BY <1>7, <1>9, <3>2, <3>3
  <2>2. ASSUME NEW i \in DOMAIN Subscribed', i <= it', Subscribed'[i].val.fn
        PROVE  Told_(Subscribed[i].val.id)'
    <3>1. Subscribed' = Subscribed
      BY <1>2 DEF Subscribed
    <3>2. i \in Nat /\ it \in Nat
      BY <3>1, SubscribedEntries DEF Typed, TypedDicts
    <3>3. i <= it \/ (i = it + 1 /\ c = Subscribed[it + 1].val)
      BY <1>3, <2>2, <3>2
    <3>4. CASE i <= it
      BY <1>1, <1>9, <2>2, <3>1, <3>4 DEF Kept
    <3>5. CASE i = it + 1 /\ c = Subscribed[it + 1].val
      BY <1>9, <2>2, <3>1, <3>5
    <3>6. QED
      BY <3>3, <3>4, <3>5
  <2>3. QED
    BY <2>1, <2>2 DEF Kept
<1>11. QED
  BY <1>5, <1>8, <1>10 DEF Control

LEMMA ControlFreed ==
    ASSUME Typed, Control, FreeContext
    PROVE  Control'
<1>1. Running /\ AllKnown /\ Kept /\ pc = "free" /\ pc' = "freed" /\ Ending
  BY DEF Control, Running, Alive, FreeContext
<1>2. Still /\ UNCHANGED <<flags, cb, it, run, done>>
  BY DEF FreeContext, Still, history
<1>3. AllKnown'
  BY <1>1, <1>2, StillKnown
<1>4. Kept'
  <2>1. \A n : Told_(n) => Told_(n)'
    BY <1>1, <1>2 DEF Told_
  <2>2. QED
    BY <1>1, <1>2, <2>1, StillKept
<1>5. hook' = IF "CONNECTED" \notin flags THEN hook
               ELSE Told("disconnect", IF "FREEING" \in flags \/ err = "none" THEN "OK" ELSE "ERR")
  BY DEF FreeContext
<1>6. hook'["disconnect"] = "set" => "CONNECTED" \notin flags
  BY <1>5 DEF Told, Typed, TypedContext
<1>7. replies' = << >> /\ invalid' = << >> /\ ~(it' < Len(Subscribed'))
  <2>1. Subscribed' = Subscribed
    BY <1>2 DEF Still, Subscribed
  <2>2. QED
    BY <1>2, <2>1 DEF Still, FreeContext, CallbacksLeft
<1>8. Running'
  BY <1>1, <1>2, <1>6, <1>7 DEF Running, Alive, Ending, Still
<1>9. QED
  BY <1>3, <1>4, <1>8 DEF Control

LEMMA ControlReturns ==
    ASSUME Typed, Control, CallbackReturns
    PROVE  Control'
<1>1. Running /\ AllKnown /\ Kept /\ pc = "callback" /\ caller \in {"process", "free"}
  BY DEF Control, CallbackReturns, Typed, TypedThread
<1>2. Still /\ UNCHANGED <<cb, it, caller, run, hook>> /\ done' = done \cup {run.id}
      /\ flags' = flags \ {"IN_CALLBACK"} /\ pc' = (IF "FREEING" \in flags THEN "free" ELSE caller)
  BY DEF CallbackReturns, Still
<1>3. AllKnown'
  BY <1>1, <1>2, StillKnown
<1>4. Kept'
  <2>1. \A n : Told_(n) => Told_(n)'
    BY <1>1, <1>2 DEF Told_
  <2>2. QED
    BY <1>1, <1>2, <2>1, StillKept
<1>5. Running'
  BY <1>1, <1>2 DEF Running, Alive, Ending, Still
<1>6. QED
  BY <1>3, <1>4, <1>5 DEF Control

\* A list with one more callback.
LEMMA HasAppend ==
    ASSUME NEW s \in Seq(AnyCallback), NEW c \in AnyCallback
    PROVE  /\ \A n : Has(Append(s, c), n) <=> Has(s, n) \/ c.id = n
           /\ \A is : (\A i \in DOMAIN s : Known(is, s[i])) /\ Known(is, c)
                      => \A i \in DOMAIN Append(s, c) : Known(is, Append(s, c)[i])
<1> DEFINE t == Append(s, c)
<1>1. /\ Len(s) \in Nat /\ DOMAIN s = 1..Len(s) /\ DOMAIN t = 1..(Len(s) + 1)
      /\ t[Len(s) + 1] = c /\ \A i \in 1..Len(s) : t[i] = s[i] /\ i \in 1..(Len(s) + 1)
      /\ Len(s) + 1 \in 1..(Len(s) + 1)
      /\ \A i \in 1..(Len(s) + 1) : i \in 1..Len(s) \/ i = Len(s) + 1
  OBVIOUS
<1> HIDE DEF t
<1>2. \A n : Has(t, n) <=> Has(s, n) \/ c.id = n
  BY <1>1 DEF Has
<1>3. \A is : (\A i \in DOMAIN s : Known(is, s[i])) /\ Known(is, c) => \A i \in DOMAIN t : Known(is, t[i])
  BY <1>1
<1>4. QED
  BY <1>2, <1>3 DEF t

LEMMA ControlEnd ==
    ASSUME Typed, Control, ProcessEnd
    PROVE  Control'
<1>1. Running /\ AllKnown /\ Kept /\ pc = "process"
  BY DEF Control, ProcessEnd
<1>2. UNCHANGED <<invalid, channels, patterns, cb, it, run, hook, issued, done>>
  BY DEF ProcessEnd, history
<1>3. Subscribed' = Subscribed /\ \A p \in BOOLEAN, k \in Keys : Entry(p, k)' = Entry(p, k) /\ Val(p, k)' = Val(p, k)
  BY <1>2 DEF Subscribed, Entry, Val, DictOf
<1>4. /\ \A i \in DOMAIN replies' : Known(issued, replies'[i])
      /\ \A n : Has(replies, n) => Has(replies', n)
  <2>1. replies' = replies \/ replies' = Append(replies, cb)
    BY DEF ProcessEnd
  <2>2. replies \in Seq(AnyCallback) /\ cb \in AnyCallback
    BY DEF Typed, TypedContext
  <2>3. /\ \A n : Has(Append(replies, cb), n) <=> Has(replies, n) \/ cb.id = n
        /\ \A i \in DOMAIN Append(replies, cb) : Known(issued, Append(replies, cb)[i])
    BY <1>1, <2>2, HasAppend DEF AllKnown
  <2>4. QED
    BY <1>1, <2>1, <2>3 DEF AllKnown
<1>5. AllKnown'
  BY <1>1, <1>2, <1>3, <1>4 DEF AllKnown
<1>6. pc' \in {"idle", "free", "aborted"} /\ \A n : Told_(n) => Told_(n)'
  BY <1>1, <1>2 DEF ProcessEnd, AsyncDisconnect, Told_
<1>7. Kept'
  BY <1>1, <1>2, <1>3, <1>4, <1>6 DEF Kept, Regular
<1>8. Running'
  <2>1. (pc' = "free" => Ending') /\ ("IN_CALLBACK" \in flags' <=> "IN_CALLBACK" \in flags)
    BY <1>1 DEF ProcessEnd, AsyncDisconnect, Ending
  <2>2. QED
    BY <1>1, <1>2, <1>6, <2>1 DEF Running, Alive
<1>9. QED
  BY <1>5, <1>7, <1>8 DEF Control

LEMMA ControlIdle ==
    ASSUME Typed, Control, ConnectFails \/ HandleRead \/ HandleWrite
    PROVE  Control'
<1>1. Running /\ AllKnown /\ Kept /\ pc = "idle"
  BY DEF Control, ConnectFails, HandleRead, HandleWrite, Connects, Due
<1>2. Still /\ UNCHANGED <<it, run, done>> /\ cb' \in {cb, NoCallback}
  BY DEF ConnectFails, HandleRead, HandleWrite, Still, history
<1>3. /\ pc' \in {"idle", "process", "free", "aborted"} /\ (pc' = "free" => Ending')
      /\ ("IN_CALLBACK" \in flags' <=> "IN_CALLBACK" \in flags)
  <2>1. ASSUME NEW e \in {"IO", "EOF"}, NEW fs \in {flags, Opened}, AsyncDisconnect(e, fs)
        PROVE  /\ pc' = "free" /\ Ending'
               /\ ("IN_CALLBACK" \in flags' <=> "IN_CALLBACK" \in flags)
    BY <2>1 DEF AsyncDisconnect, Opened, Ending
  <2>2. CASE ConnectFails
    BY <2>1, <2>2 DEF ConnectFails
  <2>3. CASE HandleRead
    <3>1. (\E e \in {"EOF", "IO"} : AsyncDisconnect(e, Opened)) \/ (pc' = "process" /\ flags' = Opened)
      BY <2>3 DEF HandleRead
    <3>2. QED
      BY <2>1, <3>1 DEF Opened
  <2>4. CASE HandleWrite
    <3>1. AsyncDisconnect("IO", Opened) \/ (pc' = pc /\ flags' = Opened)
      BY <2>4 DEF HandleWrite
    <3>2. QED
      BY <1>1, <2>1, <3>1 DEF Opened
  <2>5. QED
    BY <2>2, <2>3, <2>4
<1>4. AllKnown'
  BY <1>1, <1>2, StillKnown
<1>5. Kept'
  <2>1. \A n : Told_(n) => Told_(n)'
    BY <1>1, <1>2 DEF Told_
  <2>2. QED
    BY <1>1, <1>2, <2>1, StillKept
<1>6. Running'
  BY <1>1, <1>2, <1>3 DEF Running, Alive, Still
<1>7. QED
  BY <1>4, <1>5, <1>6 DEF Control

LEMMA ControlCalls ==
    ASSUME Typed, Control, SetCallbacks \/ Free \/ Disconnect
    PROVE  Control'
<1>1. Running /\ AllKnown /\ Kept /\ pc \in {"idle", "callback"}
  BY DEF Control, SetCallbacks, Free, Disconnect, MayCall
<1>2. Still /\ UNCHANGED <<it, run, done, cb, caller>>
  BY DEF SetCallbacks, Free, Disconnect, Still, history, thread
<1>3. /\ pc = "idle" => pc' \in {"idle", "free", "aborted"} /\ (pc' = "free" => Ending')
      /\ pc = "callback" => pc' = "callback"
      /\ flags \subseteq flags'
      /\ ("IN_CALLBACK" \in flags' <=> "IN_CALLBACK" \in flags)
  BY <1>1 DEF Running, SetCallbacks, Free, Disconnect, AsyncDisconnect, Ending, thread
<1>4. AllKnown'
  BY <1>1, <1>2, StillKnown
<1>5. Kept'
  <2>1. \A n : Told_(n) => Told_(n)'
    BY <1>1, <1>2, <1>3 DEF Told_
  <2>2. QED
    BY <1>1, <1>2, <2>1, StillKept
<1>6. Running'
  BY <1>1, <1>2, <1>3 DEF Running, Alive, Ending, Still
<1>7. QED
  BY <1>4, <1>5, <1>6 DEF Control

\* Redis and the network change nothing in the context.
Environment == Serve \/ Publish \/ Accept \/ Upset \/ UNCHANGED vars

LEMMA EnvironmentIs ==
    ASSUME Environment
    PROVE  UNCHANGED <<context, thread, scheduled, history>>
  BY DEF Environment, Serve, Publish, Accept, Upset, vars

LEMMA ControlEnvironment ==
    ASSUME Typed, Control, Environment
    PROVE  Control'
<1>1. Running /\ AllKnown /\ Kept
  BY DEF Control
<1>2. Still /\ UNCHANGED <<it, run, done, cb, caller, pc, flags, hook>>
  BY EnvironmentIs DEF Still, context, thread, history
<1>3. AllKnown'
  BY <1>1, <1>2, StillKnown
<1>4. Kept'
  <2>1. \A n : Told_(n) => Told_(n)'
    BY <1>2 DEF Told_
  <2>2. QED
    BY <1>1, <1>2, <2>1, StillKept
<1>5. Running'
  <2>1. Subscribed' = Subscribed
    BY <1>2 DEF Still, Subscribed
  <2>2. QED
    BY <1>1, <1>2, <2>1 DEF Running, Alive, Ending, Still
<1>6. QED
  BY <1>3, <1>4, <1>5 DEF Control

\* Commands are only sent while the context lives.
LEMMA CommandAlive ==
    ASSUME Typed, Running, NEW c \in Commands, Command(c)
    PROVE  Alive /\ ~Ending /\ it = 0 /\ pc \in {"idle", "callback"}
  BY DEF Running, Command, MayCall, Ending

\* The callbacks of a command.
LEMMA CommandWaits ==
    ASSUME Typed, NEW c \in Commands, Command(c)
    PROVE  /\ replies' = IF ListOf(c) = "replies" THEN Append(replies, CommandCallback(c)) ELSE replies
           /\ invalid' = IF ListOf(c) = "invalid" THEN Append(invalid, CommandCallback(c)) ELSE invalid
           /\ CommandCallback(c).fn = c.fn /\ CommandCallback(c).id = CommandId
           /\ CommandCallback(c).pending_subs = 1
           /\ UNCHANGED <<it, run, done, cb, caller, pc, hook>>
<1>1. UNCHANGED <<it, run, done, cb, caller, pc, hook>>
  BY DEF Command, thread
<1>2. /\ replies' = IF ListOf(c) = "replies" THEN Append(replies, CommandCallback(c)) ELSE replies
      /\ invalid' = IF ListOf(c) = "invalid" THEN Append(invalid, CommandCallback(c)) ELSE invalid
  BY DEF Command, CommandCallback, CommandId
<1>3. QED
  BY <1>1, <1>2, CommandIs

\* The value of a key that a SUBSCRIBE registers.
LEMMA CommandVal ==
    ASSUME Typed, NEW c \in Commands, Command(c), NEW p \in BOOLEAN, NEW k \in Keys
    PROVE  IF c.kind = "SUBSCRIBE" /\ About(c, p, k)
           THEN /\ Entry(p, k)' # {} /\ Val(p, k)'.fn = c.fn /\ Val(p, k)'.id = CommandId
                /\ Val(p, k)'.pending_subs = IF Entry(p, k) = {} THEN 1 ELSE Val(p, k).pending_subs + 1
           ELSE Entry(p, k)' = Entry(p, k) /\ Val(p, k)' = Val(p, k)
<1> DEFINE cc == CommandCallback(c)
           e == Entry(p, k)
<1>1. cc \in AnyCallback /\ cc.fn = c.fn /\ cc.id = CommandId /\ cc.pending_subs = 1
  BY CommandIs
<1>2. Entry(p, k)' = IF c.kind = "SUBSCRIBE" /\ About(c, p, k)
                      THEN {[key |-> k, val |-> OneMore(cc, e)]} ELSE e
  BY CommandAdds DEF Entry
<1>3. e # {} => Val(p, k).pending_subs \in Int
  BY EntryIs
<1> HIDE DEF cc
<1>4. CASE c.kind = "SUBSCRIBE" /\ About(c, p, k)
  <2>1. Entry(p, k)' # {} /\ Val(p, k)' = OneMore(cc, e)
    BY <1>2, <1>4, ValIs DEF Val
  <2>2. OneMore(cc, e) = IF e = {} THEN cc ELSE Owing(cc, Val(p, k).pending_subs + 1)
    BY DEF OneMore, Val
  <2>3. CASE e = {}
    BY <1>1, <1>4, <2>1, <2>2, <2>3
  <2>4. CASE e # {}
    <3>1. Val(p, k).pending_subs + 1 \in Int
      BY <1>3, <2>4
    <3>2. Val(p, k)' = Owing(cc, Val(p, k).pending_subs + 1)
      BY <2>1, <2>2, <2>4
    <3>3. QED
      BY <1>1, <1>4, <2>1, <2>4, <3>1, <3>2, OwingIs
  <2>5. QED
    BY <2>3, <2>4
<1>5. CASE ~(c.kind = "SUBSCRIBE" /\ About(c, p, k))
  <2>1. Entry(p, k)' = Entry(p, k)
    BY <1>2, <1>5
  <2>2. Val(p, k)' = Val(p, k)
    BY <2>1 DEF Val
  <2>3. QED
    BY <1>5, <2>1, <2>2
<1>6. QED
  BY <1>4, <1>5

LEMMA KnownIssued ==
    ASSUME Typed, NEW c \in Commands, Command(c), NEW x \in AnyCallback
    PROVE  Known(issued, x) => Known(issued', x)
<1>1. x.pending_subs \in Int /\ Len(issued) \in Nat /\ Len(issued') = Len(issued) + 1
  BY CommandIs DEF AnyCallback
<1>2. x.pending_subs <= Len(issued) => x.pending_subs <= Len(issued')
  BY <1>1
<1>3. QED
  BY <1>2, CommandIs DEF Known

LEMMA ControlCommand ==
    ASSUME Typed, Control, NEW c \in Commands, Command(c), Typed'
    PROVE  Control'
<1> DEFINE cc == CommandCallback(c)
<1>1. Running /\ AllKnown /\ Kept /\ Alive /\ it = 0
  BY CommandAlive DEF Control
<1>2. /\ replies' = IF ListOf(c) = "replies" THEN Append(replies, cc) ELSE replies
      /\ invalid' = IF ListOf(c) = "invalid" THEN Append(invalid, cc) ELSE invalid
      /\ cc.fn = c.fn /\ cc.id = CommandId /\ cc \in AnyCallback
      /\ UNCHANGED <<it, run, done, cb, caller, pc, hook>>
  BY CommandWaits, CommandIs
<1>3. replies \in Seq(AnyCallback) /\ invalid \in Seq(AnyCallback)
  BY DEF Typed, TypedContext
<1>4. Known(issued', cc)
  BY <1>2, CommandIs DEF Known
<1> HIDE DEF cc
<1>5. /\ \A i \in DOMAIN replies' : Known(issued', replies'[i])
      /\ \A n : Has(replies', n) <=> Has(replies, n) \/ (ListOf(c) = "replies" /\ n = CommandId)
  <2>1. \A i \in DOMAIN replies : Known(issued', replies[i])
    BY <1>1, <1>3, KnownIssued DEF AllKnown
  <2>2. /\ \A i \in DOMAIN Append(replies, cc) : Known(issued', Append(replies, cc)[i])
        /\ \A n : Has(Append(replies, cc), n) <=> Has(replies, n) \/ cc.id = n
    BY <1>2, <1>3, <1>4, <2>1, HasAppend
  <2>3. QED
    BY <1>2, <2>1, <2>2
<1>6. /\ \A i \in DOMAIN invalid' : Known(issued', invalid'[i])
      /\ \A n : Has(invalid', n) <=> Has(invalid, n) \/ (ListOf(c) = "invalid" /\ n = CommandId)
  <2>1. \A i \in DOMAIN invalid : Known(issued', invalid[i])
    BY <1>1, <1>3, KnownIssued DEF AllKnown
  <2>2. /\ \A i \in DOMAIN Append(invalid, cc) : Known(issued', Append(invalid, cc)[i])
        /\ \A n : Has(Append(invalid, cc), n) <=> Has(invalid, n) \/ cc.id = n
    BY <1>2, <1>3, <1>4, <2>1, HasAppend
  <2>3. QED
    BY <1>2, <2>1, <2>2
<1>7. AllKnown'
  <2>1. ASSUME NEW p \in BOOLEAN, NEW k \in Keys, Entry(p, k)' # {}
        PROVE  Known(issued', Val(p, k)')
    <3>1. CASE c.kind = "SUBSCRIBE" /\ About(c, p, k)
      <4>1. Val(p, k)'.pending_subs <= Len(issued')
        <5>1. CASE Entry(p, k) = {}
          <6>1. Val(p, k)'.pending_subs = 1
            BY <3>1, <5>1, CommandVal
          <6>2. QED
            BY <6>1, CommandIs
        <5>2. CASE Entry(p, k) # {}
          <6>1. Val(p, k).pending_subs \in Int /\ Val(p, k).pending_subs <= Len(issued)
            BY <1>1, <5>2, EntryIs DEF AllKnown, Known
          <6>2. Val(p, k)'.pending_subs = Val(p, k).pending_subs + 1
            BY <3>1, <5>2, CommandVal
          <6>3. QED
            BY <6>1, <6>2, CommandIs
        <5>3. QED
          BY <5>1, <5>2
      <4>2. QED
        BY <3>1, <4>1, CommandVal, CommandIs DEF Known
    <3>2. CASE ~(c.kind = "SUBSCRIBE" /\ About(c, p, k))
      <4>1. Entry(p, k)' = Entry(p, k) /\ Val(p, k)' = Val(p, k)
        BY <3>2, CommandVal
      <4>2. Known(issued, Val(p, k))
        BY <1>1, <2>1, <4>1 DEF AllKnown
      <4>3. Val(p, k) \in AnyCallback
        BY <2>1, <4>1, EntryIs
      <4>4. QED
        BY <4>1, <4>2, <4>3, KnownIssued
    <3>3. QED
      BY <3>1, <3>2
  <2>2. Known(issued', cb')
    BY <1>1, <1>2, KnownIssued DEF AllKnown, Typed, TypedContext
  <2>3. QED
    BY <1>5, <1>6, <2>1, <2>2 DEF AllKnown
<1>8. Kept'
  <2>1. ASSUME NEW n \in DOMAIN issued', Regular(n)' /\ issued'[n].fn
        PROVE  Has(replies', n) \/ Has(invalid', n) \/ Told_(n)'
    <3>1. CASE n = CommandId
      <4>1. c.kind \in {"GET", "QUIT"}
        BY <2>1, <3>1, CommandIs DEF Regular
      <4>2. ListOf(c) \in {"replies", "invalid"}
        BY <4>1 DEF ListOf
      <4>3. QED
        BY <1>5, <1>6, <3>1, <4>2
    <3>2. CASE n # CommandId
      <4>1. n \in DOMAIN issued /\ issued'[n] = issued[n]
        <5>1. DOMAIN issued = 1..Len(issued)
          BY DEF Typed, TypedStreams
        <5>2. n \in 1..Len(issued)
          BY <2>1, <3>2, CommandIs
        <5>3. QED
          BY <5>1, <5>2, CommandIs
      <4>2. Has(replies, n) \/ Has(invalid, n) \/ Told_(n)
        BY <1>1, <2>1, <4>1 DEF Kept, Regular
      <4>3. QED
        BY <1>2, <1>5, <1>6, <4>2 DEF Told_
    <3>3. QED
      BY <3>1, <3>2
  <2>2. \A i \in DOMAIN Subscribed' : ~(i <= it')
    <3>1. it' = 0
      BY <1>1, <1>2
    <3>2. Len(Subscribed') \in Nat /\ DOMAIN Subscribed' = 1..Len(Subscribed')
      BY SubscribedEntries
    <3>3. QED
      BY <3>1, <3>2
  <2>3. QED
    BY <2>1, <2>2 DEF Kept
<1>9. Running'
  <2>1. flags \subseteq flags' /\ ("IN_CALLBACK" \in flags' <=> "IN_CALLBACK" \in flags)
    BY DEF Command
  <2>2. pc' = "callback" => run'.id \in DOMAIN issued' /\ issued'[run'.id].fn
    BY <1>1, <1>2, CommandIs DEF Running
  <2>3. done' \subseteq DOMAIN issued'
    BY <1>1, <1>2, CommandIs DEF Running
  <2>4. QED
    BY <1>1, <1>2, <2>1, <2>2, <2>3 DEF Running, Alive, Ending
<1>10. QED
  BY <1>7, <1>8, <1>9 DEF Control

LEMMA ControlStep == Typed /\ Typed' /\ Control /\ [Next]_vars => Control'
<1> SUFFICES ASSUME Typed, Typed', Control, [Next]_vars PROVE Control'
  OBVIOUS
<1>1. QED
  BY ControlProcessReply, ControlFreeNext, ControlFreed, ControlReturns, ControlEnd, ControlIdle,
     ControlCalls, ControlEnvironment, ControlCommand DEF Next, Library, Over, Environment

LEMMA ControlAlways == Spec => [](Typed /\ Control)
<1>1. Typed /\ Control /\ [Next]_vars => Typed' /\ Control'
  BY TypedStep, ControlStep
<1>2. QED
  BY <1>1, TypedInit, ControlInit, PTL DEF Spec

\* When the context is gone no callback is forgotten: each that waited in a
\* list or a dict was run by __redisAsyncFree, commands are refused meanwhile,
\* and the user is told if the context was connected (async.c:276-318).
THEOREM AsyncForgetsNone == Spec => []NoneForgotten
<1>1. Typed /\ Control => NoneForgotten
  <2> SUFFICES ASSUME Typed, Control PROVE NoneForgotten
    OBVIOUS
  <2>1. Running /\ Kept
    BY DEF Control
  <2>2. ASSUME pc = "freed"
        PROVE  /\ \A id \in DOMAIN issued : Regular(id) /\ issued[id].fn => id \in done
               /\ \A i \in DOMAIN Subscribed : Subscribed[i].val.fn => Subscribed[i].val.id \in done
               /\ hook["disconnect"] = "set" => "CONNECTED" \notin flags
    <3>1. replies = << >> /\ invalid = << >> /\ ~(it < Len(Subscribed))
          /\ (hook["disconnect"] = "set" => "CONNECTED" \notin flags)
      BY <2>1, <2>2 DEF Running
    <3>2. \A n : ~Has(replies, n) /\ ~Has(invalid, n) /\ (Told_(n) => n \in done)
      BY <2>2, <3>1 DEF Has, Told_
    <3>3. \A id \in DOMAIN issued : Regular(id) /\ issued[id].fn => id \in done
      BY <2>1, <3>2 DEF Kept
    <3>4. ASSUME NEW i \in DOMAIN Subscribed, Subscribed[i].val.fn
          PROVE  Subscribed[i].val.id \in done
      <4>1. i <= it
        BY <3>1, SubscribedEntries DEF Typed, TypedDicts
      <4>2. QED
        BY <2>1, <3>2, <3>4, <4>1 DEF Kept
    <3>5. QED
      BY <3>1, <3>3, <3>4
  <2>3. pc = "free" => flags \cap {"DISCONNECTING", "FREEING"} # {}
    BY <2>1 DEF Running, Alive, Ending
  <2>4. QED
    BY <2>2, <2>3 DEF NoneForgotten
<1>2. QED
  BY <1>1, ControlAlways, PTL

-----------------------------------------------------------------------------
(* The order of the callbacks that wait, and what the commands want.        *)

IsRegular(is, n) == n \in DOMAIN is /\ is[n].kind \in {"GET", "QUIT"}

Sorted(s) == \A i, j \in DOMAIN s : i < j => s[i].id < s[j].id

LEMMA SortedPop ==
    ASSUME NEW s \in Seq(AnyCallback), s # << >>, Sorted(s)
    PROVE  /\ Sorted(Tail(s)) /\ Has(s, Head(s).id) /\ Head(s).id \in Nat
           /\ \A n : Has(Tail(s), n) <=> Has(s, n) /\ n # Head(s).id
           /\ \A n : Has(Tail(s), n) => n \in Nat /\ Head(s).id < n
<1> DEFINE t == Tail(s)
<1>1. /\ t \in Seq(AnyCallback) /\ Len(s) \in Nat /\ Len(s) >= 1 /\ Head(s) \in AnyCallback
      /\ Len(t) = Len(s) - 1 /\ Head(s) = s[1] /\ DOMAIN s = 1..Len(s)
      /\ \A i \in 1..(Len(s) - 1) : t[i] = s[i + 1] /\ i + 1 \in DOMAIN s
  BY HeadTailIs
<1>2. DOMAIN t = 1..(Len(s) - 1) /\ \A i \in DOMAIN t : t[i] \in AnyCallback
  BY <1>1
<1> HIDE DEF t
<1>3. Sorted(t)
  <2>1. ASSUME NEW i \in DOMAIN t, NEW j \in DOMAIN t, i < j
        PROVE  t[i].id < t[j].id
    <3>1. t[i] = s[i + 1] /\ t[j] = s[j + 1] /\ i + 1 \in DOMAIN s /\ j + 1 \in DOMAIN s /\ i + 1 < j + 1
      BY <1>1, <1>2, <2>1
    <3>2. QED
      BY <3>1 DEF Sorted
  <2>2. QED
    BY <2>1 DEF Sorted
<1>4. Has(s, Head(s).id) /\ Head(s).id \in Nat
  BY <1>1, SMTT(30) DEF Has, AnyCallback
<1>5. ASSUME NEW n, Has(t, n)
      PROVE  n \in Nat /\ Head(s).id < n /\ Has(s, n)
  <2>1. PICK i \in DOMAIN t : t[i].id = n
    BY <1>5 DEF Has
  <2>2. t[i] = s[i + 1] /\ i + 1 \in DOMAIN s /\ 1 < i + 1 /\ 1 \in DOMAIN s
    BY <1>1, <1>2
  <2>3. n \in Nat
    BY <1>2, <2>1 DEF AnyCallback
  <2>4. QED
    BY <1>1, <2>1, <2>2, <2>3 DEF Sorted, Has
<1>6. ASSUME NEW n, Has(s, n), n # Head(s).id
      PROVE  Has(t, n)
  <2>1. PICK i \in DOMAIN s : s[i].id = n
    BY <1>6 DEF Has
  <2>2. i # 1
    BY <1>1, <1>6, <2>1
  <2>3. i - 1 \in 1..(Len(s) - 1) /\ (i - 1) + 1 = i
    BY <1>1, <2>2
  <2>4. t[i - 1] = s[i] /\ i - 1 \in DOMAIN t
    BY <1>1, <1>2, <2>3
  <2>5. QED
    BY <2>1, <2>4 DEF Has
<1>7. \A n : Has(t, n) => n # Head(s).id
  <2>1. ASSUME NEW n, Has(t, n), n = Head(s).id
        PROVE  FALSE
    <3>1. n \in Nat /\ n < n
      BY <1>5, <2>1
    <3>2. QED
      BY <3>1
  <2>2. QED
    BY <2>1
<1>8. QED
  BY <1>3, <1>4, <1>5, <1>6, <1>7 DEF t

LEMMA SortedAppend ==
    ASSUME NEW s \in Seq(AnyCallback), NEW c \in AnyCallback, Sorted(s),
           \A n : Has(s, n) => n < c.id
    PROVE  Sorted(Append(s, c))
<1> DEFINE t == Append(s, c)
<1>1. /\ Len(s) \in Nat /\ DOMAIN s = 1..Len(s) /\ DOMAIN t = 1..(Len(s) + 1)
      /\ t[Len(s) + 1] = c /\ \A i \in 1..Len(s) : t[i] = s[i]
  OBVIOUS
<1> HIDE DEF t
<1>2. ASSUME NEW i \in DOMAIN t, NEW j \in DOMAIN t, i < j
      PROVE  t[i].id < t[j].id
  <2>1. i \in 1..Len(s) /\ t[i] = s[i]
    BY <1>1, <1>2
  <2>2. CASE j \in 1..Len(s)
    BY <1>1, <1>2, <2>1, <2>2 DEF Sorted
  <2>3. CASE j = Len(s) + 1
    BY <1>1, <2>1, <2>3 DEF Has
  <2>4. QED
    BY <1>1, <2>2, <2>3
<1>3. QED
  BY <1>2 DEF Sorted, t

\* The keys of a command, and what is wanted after so many.
KeysOf(c) == {k \in Pairs : About(c, k[1], k[2])}
WantedIn(is, n) ==
    {k \in Pairs : \E i \in 1..n :
        /\ is[i].kind = "SUBSCRIBE" /\ About(is[i], k[1], k[2])
        /\ \A j \in (i + 1)..n : ~About(is[j], k[1], k[2])}

LEMMA PairIs == \A k \in Pairs : k[1] \in BOOLEAN /\ k[2] \in Keys /\ k = <<k[1], k[2]>>
  BY DEF Pairs

LEMMA WantedStart == ASSUME NEW is PROVE WantedIn(is, 0) = {}
<1>1. 1..0 = {}
  OBVIOUS
<1>2. QED
  BY <1>1 DEF WantedIn

LEMMA WantedStep ==
    ASSUME NEW is \in Seq(AnyCommand), NEW n \in DOMAIN is
    PROVE  WantedIn(is, n) = IF is[n].kind = "SUBSCRIBE" THEN WantedIn(is, n - 1) \cup KeysOf(is[n])
                              ELSE WantedIn(is, n - 1) \ KeysOf(is[n])
<1>1. /\ n \in Nat /\ n - 1 \in Nat /\ n \in 1..n /\ (n + 1)..n = {}
      /\ \A i \in 1..n : (i = n \/ i \in 1..(n - 1))
      /\ \A i \in 1..(n - 1) : i \in 1..n /\ n \in (i + 1)..n
      /\ \A i \in 1..(n - 1) : \A j \in (i + 1)..n : (j = n \/ j \in (i + 1)..(n - 1))
      /\ \A i \in 1..(n - 1) : \A j \in (i + 1)..(n - 1) : j \in (i + 1)..n
  OBVIOUS
<1>2. ASSUME NEW k \in Pairs
      PROVE  k \in WantedIn(is, n) <=>
               IF is[n].kind = "SUBSCRIBE" THEN (k \in WantedIn(is, n - 1) \/ k \in KeysOf(is[n]))
               ELSE k \in WantedIn(is, n - 1) /\ k \notin KeysOf(is[n])
  <2> DEFINE A(i) == About(is[i], k[1], k[2])
             S(i) == is[i].kind = "SUBSCRIBE"
  <2>1. k \in WantedIn(is, n) <=> \E i \in 1..n : S(i) /\ A(i) /\ \A j \in (i + 1)..n : ~A(j)
    BY DEF WantedIn
  <2>2. k \in WantedIn(is, n - 1) <=>
          \E i \in 1..(n - 1) : S(i) /\ A(i) /\ \A j \in (i + 1)..(n - 1) : ~A(j)
    BY DEF WantedIn
  <2>3. k \in KeysOf(is[n]) <=> A(n)
    BY DEF KeysOf
  <2>4. S(n) <=> is[n].kind = "SUBSCRIBE"
    OBVIOUS
  <2> HIDE DEF A, S
  <2>5. CASE A(n)
    <3>1. (\E i \in 1..n : S(i) /\ A(i) /\ \A j \in (i + 1)..n : ~A(j)) <=> S(n)
      BY <1>1, <2>5
    <3>2. QED
      BY <2>1, <2>3, <2>4, <2>5, <3>1
  <2>6. CASE ~A(n)
    <3>1. \A i \in 1..(n - 1) : (\A j \in (i + 1)..n : ~A(j)) <=> \A j \in (i + 1)..(n - 1) : ~A(j)
      BY <1>1, <2>6
    <3>2. (\E i \in 1..n : S(i) /\ A(i) /\ \A j \in (i + 1)..n : ~A(j))
             <=> \E i \in 1..(n - 1) : S(i) /\ A(i) /\ \A j \in (i + 1)..(n - 1) : ~A(j)
      BY <1>1, <2>6, <3>1
    <3>3. QED
      BY <2>1, <2>2, <2>3, <2>6, <3>2
  <2>7. QED
    BY <2>5, <2>6
<1>3. WantedIn(is, n) \subseteq Pairs /\ WantedIn(is, n - 1) \subseteq Pairs /\ KeysOf(is[n]) \subseteq Pairs
  BY DEF WantedIn, KeysOf
<1>4. QED
  BY <1>2, <1>3

LEMMA WantedPrefix ==
    ASSUME NEW is, NEW js, NEW n, \A i \in 1..n : is[i] = js[i], n \in Nat
    PROVE  WantedIn(is, n) = WantedIn(js, n)
<1>1. \A i \in 1..n : \A j \in (i + 1)..n : j \in 1..n
  OBVIOUS
<1>2. QED
  BY <1>1 DEF WantedIn

\* Commands without keys, between, change nothing.
LEMMA WantedSame ==
    ASSUME NEW is \in Seq(AnyCommand), NEW a \in Nat, NEW b \in Nat, a <= b, b <= Len(is),
           \A n \in (a + 1)..b : KeysOf(is[n]) = {}
    PROVE  WantedIn(is, b) = WantedIn(is, a)
<1> DEFINE T == {m \in Nat : a + m <= b => WantedIn(is, a + m) = WantedIn(is, a)}
<1>1. 0 \in T
  OBVIOUS
<1>2. ASSUME NEW m \in Nat, m \in T
      PROVE  m + 1 \in T
  <2>1. CASE a + (m + 1) <= b
    <3> DEFINE n == a + (m + 1)
    <3>1. n \in (a + 1)..b /\ n - 1 = a + m /\ a + m <= b /\ n \in 1..Len(is)
      BY <2>1
    <3> HIDE DEF n
    <3>2. n \in DOMAIN is /\ KeysOf(is[n]) = {}
      <4>1. DOMAIN is = 1..Len(is)
        OBVIOUS
      <4>2. QED
        BY <3>1, <4>1
    <3>3. WantedIn(is, n) = WantedIn(is, n - 1)
      <4> DEFINE W == WantedIn(is, n)
                 V == WantedIn(is, n - 1)
      <4>1. W = V \cup {} \/ W = V \ {}
        BY <3>2, WantedStep
      <4> HIDE DEF W, V
      <4>2. QED
        BY <4>1 DEF W, V
    <3>4. WantedIn(is, n) = WantedIn(is, a)
      BY <1>2, <3>1, <3>3
    <3>5. QED
      BY <3>4 DEF n
  <2>2. CASE ~(a + (m + 1) <= b)
    BY <2>2
  <2>3. QED
    BY <2>1, <2>2
<1>3. b - a \in Nat /\ a + (b - a) = b
  OBVIOUS
<1> HIDE DEF T
<1>4. b - a \in T
  BY <1>1, <1>2, <1>3, SetInduction
<1>5. QED
  BY <1>3, <1>4 DEF T

\* The keys of a command that has names.
LEMMA KeysAre ==
    ASSUME NEW c \in Commands
    PROVE  /\ KeysOf(c) = {<<c.p, c.names[i]>> : i \in 1..Len(c.names)}
           /\ c.kind \in {"SUBSCRIBE", "UNSUBSCRIBE"} <=> KeysOf(c) # {}
<1>1. c \in AnyCommand /\ c.names \in Seq(Keys) /\ c.p \in BOOLEAN
      /\ DOMAIN c.names = 1..Len(c.names) /\ Len(c.names) \in Nat
      /\ \A i \in 1..Len(c.names) : c.names[i] \in Keys
  BY CommandsAre DEF AnyCommand
<1>2. KeysOf(c) = {<<c.p, c.names[i]>> : i \in 1..Len(c.names)}
  BY <1>1, PairIs DEF KeysOf, About, Range, Pairs
<1>3. c.kind \in {"SUBSCRIBE", "UNSUBSCRIBE"} <=> c.names # << >>
  BY CommandsAre
<1>4. c.names # << >> <=> 1 \in 1..Len(c.names)
  BY <1>1
<1>5. KeysOf(c) # {} <=> \E i \in 1..Len(c.names) : TRUE
  BY <1>2
<1>6. (\E i \in 1..Len(c.names) : TRUE) <=> 1 \in 1..Len(c.names)
  BY <1>1
<1>7. QED
  BY <1>2, <1>3, <1>4, <1>5, <1>6

-----------------------------------------------------------------------------
(* The log: what Redis has sent and the context has not processed, with     *)
(* what was subscribed to before and after each.                            *)

Key(m) == <<m.p, m.name>>
BAD == Reply("BAD", 0)
ERR0 == Reply("ERROR", 0)

Follows(m, before, after) ==
    /\ m.kind = "subscribe" => after = before \cup {Key(m)}
    /\ m.kind = "unsubscribe" =>
         Key(m) \in before /\ after = before \ {Key(m)} /\ (after = {} => m.count = 0)
    /\ m.kind = "message" => Key(m) \in before /\ after = before
    /\ m.kind = "reply" =>
         after = before /\ (m \in {BAD, ERR0} \/ (m.for # 0 /\ m.type \in {"STATUS", "ERROR"}))

IsLog(C, L) ==
    /\ C \in Seq(AnyMessage) /\ L \in Seq(SUBSET Pairs) /\ Len(L) = Len(C) + 1
    /\ \A i \in 1..Len(C) : Follows(C[i], L[i], L[i + 1])

LEMMA LogPop ==
    ASSUME NEW C, NEW L, IsLog(C, L), C # << >>
    PROVE  /\ IsLog(Tail(C), Tail(L)) /\ Follows(Head(C), L[1], Tail(L)[1])
           /\ Tail(L)[Len(Tail(C)) + 1] = L[Len(C) + 1] /\ Tail(L)[1] = L[2]
           /\ Len(C) \in Nat /\ Len(C) >= 1 /\ Len(Tail(C)) = Len(C) - 1
           /\ Head(C) = C[1] /\ Head(C) \in AnyMessage
           /\ \A i \in 1..(Len(C) - 1) :
                Tail(C)[i] = C[i + 1] /\ Tail(L)[i] = L[i + 1] /\ i + 1 \in 1..Len(C)
<1> DEFINE D == Tail(C)
           M == Tail(L)
<1>1. C \in Seq(AnyMessage) /\ L \in Seq(SUBSET Pairs) /\ Len(L) = Len(C) + 1
      /\ \A i \in 1..Len(C) : Follows(C[i], L[i], L[i + 1])
  BY DEF IsLog
<1>2. /\ D \in Seq(AnyMessage) /\ Len(C) \in Nat /\ Len(C) >= 1 /\ Len(D) = Len(C) - 1
      /\ Head(C) = C[1] /\ Head(C) \in AnyMessage
      /\ \A i \in 1..(Len(C) - 1) : D[i] = C[i + 1] /\ i + 1 \in DOMAIN C
  BY <1>1, HeadTailIs
<1>3. /\ M \in Seq(SUBSET Pairs) /\ Len(M) = Len(L) - 1
      /\ \A i \in 1..(Len(L) - 1) : M[i] = L[i + 1]
  <2>1. L # << >>
    BY <1>1, <1>2
  <2>2. QED
    BY <1>1, <2>1, HeadTailIs
<1>4. DOMAIN C = 1..Len(C)
  BY <1>1
<1> HIDE DEF D, M
<1>5. Len(M) = Len(C) /\ Len(M) = Len(D) + 1
  BY <1>1, <1>2, <1>3
<1>6. \A i \in 1..Len(C) : M[i] = L[i + 1]
  BY <1>1, <1>2, <1>3
<1>7. M[1] = L[2] /\ M[Len(D) + 1] = L[Len(C) + 1] /\ Follows(C[1], L[1], M[1])
  <2>1. 1 \in 1..Len(C) /\ Len(C) \in 1..Len(C) /\ 1 + 1 = 2 /\ Len(D) + 1 = Len(C)
    BY <1>2
  <2>2. QED
    BY <1>1, <1>6, <2>1
<1>8. IsLog(D, M)
  <2>1. ASSUME NEW i \in 1..Len(D)
        PROVE  Follows(D[i], M[i], M[i + 1])
    <3>1. i \in 1..(Len(C) - 1) /\ i + 1 \in 1..Len(C) /\ i \in 1..Len(C)
      BY <1>2
    <3>2. D[i] = C[i + 1] /\ M[i] = L[i + 1] /\ M[i + 1] = L[(i + 1) + 1]
      BY <1>2, <1>6, <3>1
    <3>3. QED
      BY <1>1, <3>1, <3>2
  <2>2. QED
    BY <1>2, <1>3, <1>5, <2>1 DEF IsLog
<1>9. \A i \in 1..(Len(C) - 1) : D[i] = C[i + 1] /\ M[i] = L[i + 1] /\ i + 1 \in 1..Len(C)
  BY <1>2, <1>4, <1>6
<1>10. QED
  BY <1>2, <1>7, <1>8, <1>9 DEF D, M

LEMMA LogAppend ==
    ASSUME NEW C, NEW L, IsLog(C, L), NEW A, NEW K, IsLog(A, K), L[Len(C) + 1] = K[1]
    PROVE  \E M : /\ IsLog(C \o A, M)
                  /\ \A i \in 1..(Len(C) + 1) : M[i] = L[i]
                  /\ \A j \in 1..(Len(A) + 1) : M[Len(C) + j] = K[j]
<1> DEFINE D == C \o A
           m == Len(C)
           n == Len(A)
           M == [i \in 1..((m + n) + 1) |-> IF i <= m THEN L[i] ELSE K[i - m]]
<1>1. /\ C \in Seq(AnyMessage) /\ L \in Seq(SUBSET Pairs) /\ Len(L) = m + 1
      /\ \A i \in 1..m : Follows(C[i], L[i], L[i + 1])
  BY DEF IsLog
<1>2. /\ A \in Seq(AnyMessage) /\ K \in Seq(SUBSET Pairs) /\ Len(K) = n + 1
      /\ \A i \in 1..n : Follows(A[i], K[i], K[i + 1])
  BY DEF IsLog
<1>3. /\ D \in Seq(AnyMessage) /\ m \in Nat /\ n \in Nat /\ Len(D) = m + n
      /\ \A i \in 1..m : D[i] = C[i]
      /\ \A i \in 1..n : D[m + i] = A[i]
  BY <1>1, <1>2
<1>4. /\ \A i \in 1..(m + 1) : L[i] \in SUBSET Pairs
      /\ \A i \in 1..(n + 1) : K[i] \in SUBSET Pairs
  BY <1>1, <1>2
<1>5. L[m + 1] = K[1]
  OBVIOUS
<1> HIDE DEF m, n, D
<1>6. M \in Seq(SUBSET Pairs) /\ Len(M) = (m + n) + 1
  <2>1. ASSUME NEW i \in 1..((m + n) + 1)
        PROVE  M[i] \in SUBSET Pairs
    <3>1. CASE i <= m
      BY <1>3, <1>4, <3>1
    <3>2. CASE ~(i <= m)
      <4>1. i - m \in 1..(n + 1)
        BY <1>3, <3>2
      <4>2. QED
        BY <1>4, <3>2, <4>1
    <3>3. QED
      BY <3>1, <3>2
  <2>2. (m + n) + 1 \in Nat
    BY <1>3
  <2>3. QED
    BY <2>1, <2>2
<1>7. \A i \in 1..(m + 1) : M[i] = L[i]
  <2>1. ASSUME NEW i \in 1..(m + 1)
        PROVE  M[i] = L[i]
    <3>1. i \in 1..((m + n) + 1)
      BY <1>3
    <3>2. CASE i <= m
      BY <3>1, <3>2
    <3>3. CASE ~(i <= m)
      <4>1. i = m + 1 /\ i - m = 1
        BY <1>3, <3>3
      <4>2. QED
        BY <1>5, <3>1, <3>3, <4>1
    <3>4. QED
      BY <3>2, <3>3
  <2>2. QED
    BY <2>1
<1>8. \A j \in 1..(n + 1) : M[m + j] = K[j]
  <2>1. ASSUME NEW j \in 1..(n + 1)
        PROVE  M[m + j] = K[j]
    <3>1. m + j \in 1..((m + n) + 1) /\ ~(m + j <= m) /\ (m + j) - m = j
      BY <1>3
    <3>2. QED
      BY <3>1
  <2>2. QED
    BY <2>1
<1> HIDE DEF M
<1>9. ASSUME NEW i \in 1..(m + n)
      PROVE  Follows(D[i], M[i], M[i + 1])
  <2>1. CASE i <= m
    <3>1. i \in 1..m /\ i \in 1..(m + 1) /\ i + 1 \in 1..(m + 1)
      BY <1>3, <2>1
    <3>2. QED
      BY <1>1, <1>3, <1>7, <3>1
  <2>2. CASE ~(i <= m)
    <3> DEFINE j == i - m
    <3>1. j \in 1..n /\ j \in 1..(n + 1) /\ j + 1 \in 1..(n + 1) /\ i = m + j /\ i + 1 = m + (j + 1)
      BY <1>3, <2>2
    <3> HIDE DEF j
    <3>2. D[i] = A[j] /\ M[i] = K[j] /\ M[i + 1] = K[j + 1]
      BY <1>3, <1>8, <3>1
    <3>3. QED
      BY <1>2, <3>1, <3>2
  <2>3. QED
    BY <2>1, <2>2
<1>10. IsLog(D, M)
  BY <1>3, <1>6, <1>9 DEF IsLog
<1>11. QED
  BY <1>7, <1>8, <1>10 DEF D, m, n

LEMMA LogOne ==
    ASSUME NEW m \in AnyMessage, NEW s \in SUBSET Pairs, Follows(m, s, s)
    PROVE  IsLog(<<m>>, <<s, s>>) /\ Len(<<m>>) = 1 /\ <<m>>[1] = m /\ <<s, s>>[1] = s /\ <<s, s>>[2] = s
<1> DEFINE C == <<m>>
           L == <<s, s>>
<1>1. C \in Seq(AnyMessage) /\ Len(C) = 1 /\ C[1] = m
  OBVIOUS
<1>2. L \in Seq(SUBSET Pairs) /\ Len(L) = 2 /\ L[1] = s /\ L[2] = s
  OBVIOUS
<1> HIDE DEF C, L
<1>3. ASSUME NEW i \in 1..Len(C)
      PROVE  Follows(C[i], L[i], L[i + 1])
  <2>1. i = 1 /\ i + 1 = 2
    BY <1>1
  <2>2. QED
    BY <1>1, <1>2, <2>1
<1>4. IsLog(C, L)
  BY <1>1, <1>2, <1>3 DEF IsLog
<1>5. QED
  BY <1>1, <1>2, <1>4 DEF C, L

LEMMA LogEmpty ==
    ASSUME NEW s \in SUBSET Pairs
    PROVE  IsLog(<< >>, <<s>>)
<1> DEFINE L == <<s>>
<1>1. L \in Seq(SUBSET Pairs) /\ Len(L) = 1 /\ Len(<< >>) = 0 /\ << >> \in Seq(AnyMessage)
  OBVIOUS
<1>2. 1..0 = {}
  OBVIOUS
<1> HIDE DEF L
<1>3. IsLog(<< >>, L)
  BY <1>1, <1>2 DEF IsLog
<1>4. QED
  BY <1>3 DEF L

\* Nothing is subscribed to, and nothing will be.
LEMMA LogQuiet ==
    ASSUME NEW C, NEW L, IsLog(C, L), L[1] = {}, \A i \in 1..Len(C) : C[i].kind # "subscribe"
    PROVE  /\ \A i \in 1..(Len(C) + 1) : L[i] = {}
           /\ \A i \in 1..Len(C) : C[i].kind = "reply"
<1>1. /\ C \in Seq(AnyMessage) /\ Len(C) \in Nat
      /\ \A i \in 1..Len(C) : Follows(C[i], L[i], L[i + 1]) /\ C[i] \in AnyMessage
  BY DEF IsLog
<1>2. ASSUME NEW i \in 1..Len(C), L[i] = {}
      PROVE  L[i + 1] = {} /\ C[i].kind = "reply"
  <2>1. C[i].kind \in {"subscribe", "unsubscribe", "message", "reply"}
    BY <1>1 DEF AnyMessage
  <2>2. C[i].kind = "reply"
    BY <1>1, <1>2, <2>1 DEF Follows
  <2>3. QED
    BY <1>1, <1>2, <2>2 DEF Follows
<1> DEFINE T == {n \in Nat : n + 1 <= Len(C) + 1 => L[n + 1] = {}}
<1>3. 0 \in T
  OBVIOUS
<1>4. ASSUME NEW n \in Nat, n \in T
      PROVE  n + 1 \in T
  <2>1. (n + 1) + 1 <= Len(C) + 1 => n + 1 \in 1..Len(C) /\ n + 1 <= Len(C) + 1
    BY <1>1
  <2>2. (n + 1) + 1 <= Len(C) + 1 => L[(n + 1) + 1] = {}
    BY <1>2, <1>4, <2>1
  <2>3. QED
    BY <2>2
<1> HIDE DEF T
<1>5. \A n \in Nat : n \in T
  BY <1>3, <1>4, SetInduction
<1>6. ASSUME NEW i \in 1..(Len(C) + 1)
      PROVE  L[i] = {}
  <2>1. i - 1 \in Nat /\ (i - 1) + 1 = i /\ (i - 1) + 1 <= Len(C) + 1
    BY <1>1
  <2>2. i - 1 \in T
    BY <1>5, <2>1
  <2>3. QED
    BY <2>1, <2>2 DEF T
<1>7. \A i \in 1..Len(C) : C[i].kind = "reply"
  <2>1. \A i \in 1..Len(C) : i \in 1..(Len(C) + 1)
    BY <1>1
  <2>2. QED
    BY <1>2, <1>6, <2>1
<1>8. QED
  BY <1>6, <1>7

\* How many replies to a SUBSCRIBE are to come for a key: of the commands that
\* Redis has not served, and of those that it has answered.
SubscribesIn(is, k) == {n \in DOMAIN is : is[n].kind = "SUBSCRIBE" /\ About(is[n], k[1], k[2])}
AcksOf(k) == {m \in AnyMessage : m.kind = "subscribe" /\ m.p = k[1] /\ m.name = k[2]}

LEMMA AcknowledgedLog ==
    ASSUME NEW c \in Commands, c.kind \in {"SUBSCRIBE", "UNSUBSCRIBE"},
           NEW before \in SUBSET Pairs, IsFiniteSet(before),
           c.kind = "UNSUBSCRIBE" => KeysOf(c) \subseteq before
    PROVE  LET A == Acknowledged(c, before) IN
           /\ \E K : /\ IsLog(A, K) /\ K[1] = before
                     /\ K[Len(A) + 1] = SubscribedTo(c, Len(c.names), before)
           /\ SubscribedTo(c, Len(c.names), before) =
                IF c.kind = "SUBSCRIBE" THEN before \cup KeysOf(c) ELSE before \ KeysOf(c)
           /\ A \in Seq(AnyMessage) /\ Len(A) >= 1
           /\ \A i \in 1..Len(A) : A[i].for = 0 /\ A[i].kind \in {"subscribe", "unsubscribe"}
           /\ \A k \in Pairs : Among(AcksOf(k), A) =
                IF c.kind = "SUBSCRIBE" /\ k \in KeysOf(c) THEN 1 ELSE 0
<1> DEFINE A == Acknowledged(c, before)
           N == Len(c.names)
           k1(i) == <<c.p, c.names[i]>>
           S(n) == SubscribedTo(c, n, before)
           kind == IF c.kind = "SUBSCRIBE" THEN "subscribe" ELSE "unsubscribe"
           K == [j \in 1..(N + 1) |-> S(j - 1)]
<1>1. /\ c \in AnyCommand /\ c.names \in Seq(Keys) /\ c.p \in BOOLEAN
      /\ DOMAIN c.names = 1..N /\ N \in Nat /\ N >= 1
      /\ \A i \in 1..N : c.names[i] \in Keys /\ k1(i) \in Pairs
  <2>1. c \in AnyCommand /\ c.names # << >>
    BY CommandsAre
  <2>2. c.names \in Seq(Keys) /\ c.p \in BOOLEAN
    BY <2>1 DEF AnyCommand
  <2>3. DOMAIN c.names = 1..N /\ N \in Nat /\ N >= 1 /\ \A i \in 1..N : c.names[i] \in Keys
    BY <2>1, <2>2
  <2>4. QED
    BY <2>1, <2>2, <2>3 DEF Pairs
<1>2. \A i, j \in 1..N : k1(i) = k1(j) => i = j
  <2>1. IsInjective(c.names)
    BY CommandsAre
  <2>2. QED
    BY <1>1, <2>1 DEF IsInjective
<1>3. KeysOf(c) = {k1(i) : i \in 1..N}
  BY KeysAre
<1>4. A \in Seq(AnyMessage) /\ Len(A) = N /\ DOMAIN A = 1..N
      /\ \A n \in 1..N : A[n] = Message("ARRAY", 0, kind, c.p, c.names[n], Cardinality(S(n)))
  <2>1. A \in Seq(AnyMessage)
    BY <1>1, AcknowledgedIs
  <2>2. A = [n \in 1..N |-> Message("ARRAY", 0, kind, c.p, c.names[n], Cardinality(S(n)))]
    BY <1>1 DEF Acknowledged
  <2> HIDE DEF A, S, N, kind
  <2>3. DOMAIN A = 1..N /\ \A n \in 1..N : A[n] = Message("ARRAY", 0, kind, c.p, c.names[n], Cardinality(S(n)))
    BY <2>2
  <2>4. QED
    BY <1>1, <2>1, <2>3
<1>5. \A n \in 1..N : /\ A[n].for = 0 /\ A[n].kind = kind /\ A[n].p = c.p /\ A[n].name = c.names[n]
                      /\ A[n].count = Cardinality(S(n)) /\ A[n] \in AnyMessage /\ Key(A[n]) = k1(n)
  <2>1. \A n \in 1..N : A[n] \in AnyMessage
    BY <1>4
  <2> HIDE DEF S, kind, A, N
  <2>2. QED
    BY <1>4, <2>1 DEF Message, Key
<1>6. \A n \in 0..N : S(n) \in SUBSET Pairs /\ IsFiniteSet(S(n))
  BY <1>1, SubscribedToIs
<1>7. S(0) = before
  <2>1. 1..0 = {}
    OBVIOUS
  <2>2. QED
    BY <2>1 DEF SubscribedTo
<1>8. \A n \in 0..N : \A k : k \in S(n) <=>
         IF c.kind = "SUBSCRIBE" THEN (k \in before \/ \E i \in 1..n : k = k1(i))
         ELSE (k \in before /\ ~\E i \in 1..n : k = k1(i))
  BY DEF SubscribedTo
<1>9. S(N) = IF c.kind = "SUBSCRIBE" THEN before \cup KeysOf(c) ELSE before \ KeysOf(c)
  BY <1>3 DEF SubscribedTo
<1> HIDE DEF A, N, S
<1>10. ASSUME NEW n \in 1..N
       PROVE  Follows(A[n], S(n - 1), S(n))
  <2>1. n - 1 \in 0..N /\ n \in 0..N /\ n \in 1..n /\ \A i \in 1..(n - 1) : i \in 1..N /\ i \in 1..n /\ i # n
    BY <1>1
  <2>2. \A i \in 1..n : i \in 1..(n - 1) \/ i = n
    BY <1>1
  <2>3. CASE c.kind = "SUBSCRIBE"
    <3>1. \A k : k \in S(n) <=> k \in S(n - 1) \/ k = k1(n)
      BY <1>8, <2>1, <2>2, <2>3
    <3>2. S(n) = S(n - 1) \cup {Key(A[n])}
      BY <1>5, <3>1
    <3>3. A[n].kind = "subscribe"
      BY <1>5, <2>3
    <3>4. QED
      BY <3>2, <3>3 DEF Follows
  <2>4. CASE c.kind = "UNSUBSCRIBE"
    <3>1. \A k : k \in S(n) <=> k \in S(n - 1) /\ k # k1(n)
      BY <1>8, <2>1, <2>2, <2>4
    <3>2. k1(n) \in before
      BY <1>3, <2>4
    <3>3. k1(n) \in S(n - 1)
      BY <1>2, <1>8, <2>1, <2>4, <3>2
    <3>4. S(n) = S(n - 1) \ {Key(A[n])} /\ Key(A[n]) \in S(n - 1)
      BY <1>5, <3>1, <3>3
    <3>5. S(n) = {} => A[n].count = 0
      BY <1>5, FS_EmptySet
    <3>6. A[n].kind = "unsubscribe"
      BY <1>5, <2>4
    <3>7. QED
      BY <3>4, <3>5, <3>6 DEF Follows
  <2>5. QED
    BY <2>3, <2>4
<1>11. IsLog(A, K) /\ K[1] = before /\ K[Len(A) + 1] = S(N)
  <2>1. \A j \in 1..(N + 1) : S(j - 1) \in SUBSET Pairs
    BY <1>1, <1>6
  <2>2. K \in Seq(SUBSET Pairs) /\ Len(K) = N + 1
    <3>1. N + 1 \in Nat
      BY <1>1
    <3>2. QED
      BY <2>1, <3>1
  <2>3. ASSUME NEW i \in 1..N
        PROVE  Follows(A[i], K[i], K[i + 1])
    <3>1. i \in 1..(N + 1) /\ i + 1 \in 1..(N + 1) /\ (i + 1) - 1 = i
      BY <1>1
    <3>2. QED
      BY <1>10, <3>1
  <2>4. 1 \in 1..(N + 1) /\ N + 1 \in 1..(N + 1) /\ 1 - 1 = 0 /\ (N + 1) - 1 = N
    BY <1>1
  <2>5. QED
    BY <1>4, <1>7, <2>2, <2>3, <2>4 DEF IsLog
<1>12. ASSUME NEW k \in Pairs
       PROVE  Among(AcksOf(k), A) = IF c.kind = "SUBSCRIBE" /\ k \in KeysOf(c) THEN 1 ELSE 0
  <2> DEFINE I == {i \in DOMAIN A : A[i] \in AcksOf(k)}
  <2>1. \A i \in 1..N : A[i] \in AcksOf(k) <=> c.kind = "SUBSCRIBE" /\ k = k1(i)
    BY <1>5, PairIs DEF AcksOf
  <2>2. CASE c.kind = "SUBSCRIBE" /\ k \in KeysOf(c)
    <3>1. PICK i \in 1..N : k = k1(i)
      BY <1>3, <2>2
    <3>2. I = {i}
      BY <1>2, <1>4, <2>1, <2>2, <3>1
    <3>3. Cardinality(I) = 1
      BY <3>2, FS_Singleton
    <3>4. QED
      BY <2>2, <3>3 DEF Among
  <2>3. CASE ~(c.kind = "SUBSCRIBE" /\ k \in KeysOf(c))
    <3>1. I = {}
      BY <1>3, <1>4, <2>1, <2>3
    <3>2. Cardinality(I) = 0
      BY <3>1, FS_EmptySet
    <3>3. QED
      BY <2>3, <3>2 DEF Among
  <2>4. QED
    BY <2>2, <2>3
<1>13. \A i \in 1..Len(A) : A[i].for = 0 /\ A[i].kind \in {"subscribe", "unsubscribe"}
  BY <1>4, <1>5
<1>14. QED
  BY <1>1, <1>4, <1>9, <1>11, <1>12, <1>13 DEF A, S, N

\* The unserved commands are the last; Redis has served those before.
Numbered(U, is) ==
    /\ Len(U) <= Len(is)
    /\ \A i \in 1..Len(U) : U[i] = (Len(is) - Len(U)) + i

ServedOf(U, is) == Len(is) - Len(U)

LEMMA NumberedIs ==
    ASSUME NEW is \in Seq(AnyCommand), NEW U \in Seq(Nat), Numbered(U, is)
    PROVE  /\ ServedOf(U, is) \in Nat /\ Len(is) \in Nat /\ ServedOf(U, is) <= Len(is)
           /\ DOMAIN is = 1..Len(is)
           /\ \A n : n \in Range(U) <=> n \in (ServedOf(U, is) + 1)..Len(is)
           /\ U # << >> => /\ Head(U) = ServedOf(U, is) + 1 /\ Head(U) \in DOMAIN is
                           /\ Tail(U) \in Seq(Nat) /\ Numbered(Tail(U), is)
                           /\ ServedOf(Tail(U), is) = ServedOf(U, is) + 1
                           /\ Head(U) - 1 = ServedOf(U, is)
<1> DEFINE s == ServedOf(U, is)
<1>1. /\ Len(U) \in Nat /\ Len(is) \in Nat /\ s = Len(is) - Len(U) /\ DOMAIN U = 1..Len(U)
      /\ s \in Nat /\ s <= Len(is) /\ \A i \in 1..Len(U) : U[i] = s + i
  BY DEF Numbered, ServedOf
<1>2. DOMAIN is = 1..Len(is)
  OBVIOUS
<1> HIDE DEF s
<1>3. \A n : n \in Range(U) <=> n \in (s + 1)..Len(is)
  <2>1. ASSUME NEW n \in Range(U)
        PROVE  n \in (s + 1)..Len(is)
    <3>1. PICK i \in 1..Len(U) : n = U[i]
      BY <1>1 DEF Range
    <3>2. QED
      BY <1>1, <3>1
  <2>2. ASSUME NEW n \in (s + 1)..Len(is)
        PROVE  n \in Range(U)
    <3>1. n - s \in 1..Len(U) /\ s + (n - s) = n
      BY <1>1
    <3>2. QED
      BY <1>1, <3>1 DEF Range
  <2>3. QED
    BY <2>1, <2>2
<1>4. ASSUME U # << >>
      PROVE  /\ Head(U) = s + 1 /\ Head(U) \in DOMAIN is
             /\ Tail(U) \in Seq(Nat) /\ Numbered(Tail(U), is)
             /\ ServedOf(Tail(U), is) = s + 1 /\ Head(U) - 1 = s
  <2>1. /\ Head(U) = U[1] /\ Tail(U) \in Seq(Nat) /\ Len(U) >= 1 /\ Len(Tail(U)) = Len(U) - 1
        /\ \A i \in 1..(Len(U) - 1) : Tail(U)[i] = U[i + 1] /\ i + 1 \in DOMAIN U
    BY <1>4, HeadTailIs
  <2>2. Head(U) = s + 1 /\ s + 1 <= Len(is)
    BY <1>1, <2>1
  <2> DEFINE V == Tail(U)
  <2>3. V \in Seq(Nat) /\ Len(V) = Len(U) - 1 /\ \A i \in 1..(Len(U) - 1) : V[i] = U[i + 1]
    BY <2>1
  <2> HIDE DEF V
  <2>4. ServedOf(V, is) = s + 1 /\ Len(V) <= Len(is)
    BY <1>1, <2>1, <2>3 DEF ServedOf
  <2>5. ASSUME NEW i \in 1..Len(V)
        PROVE  V[i] = (Len(is) - Len(V)) + i
    <3>1. V[i] = s + (i + 1)
      BY <1>1, <2>1, <2>3
    <3>2. QED
      BY <1>1, <2>1, <2>3, <3>1
  <2>6. Numbered(V, is)
    BY <2>4, <2>5 DEF Numbered
  <2>7. QED
    BY <1>1, <1>2, <2>1, <2>2, <2>4, <2>6 DEF V
<1>5. QED
  BY <1>1, <1>2, <1>3, <1>4 DEF s

\* A command is left of what it subscribed to.
Leaves(is) == \A n \in DOMAIN is : is[n].kind = "UNSUBSCRIBE" => KeysOf(is[n]) \subseteq WantedIn(is, n - 1)

\* Each entry of the dicts counts the replies to come; there is one for what
\* will be subscribed to and for nothing else.
SubCount(is, U, k) == Among(SubscribesIn(is, k), U)
AckCount(C, k) == Among(AcksOf(k), C)
Balanced(C, first, is, U, owes, holds) ==
    \A k \in Pairs : /\ owes[k] = SubCount(is, U, k) + AckCount(C, k)
                     /\ k \in holds <=> owes[k] > 0 \/ k \in first

LEMMA CountsAre ==
    ASSUME NEW C \in Seq(AnyMessage), NEW U \in Seq(Nat), NEW is, NEW k
    PROVE  /\ SubCount(is, U, k) \in Nat /\ AckCount(C, k) \in Nat
           /\ SubCount(is, U, k) = 0 <=> \A n \in Range(U) : n \notin SubscribesIn(is, k)
           /\ AckCount(C, k) = 0 <=> \A i \in 1..Len(C) : C[i] \notin AcksOf(k)
<1>1. /\ Among(SubscribesIn(is, k), U) \in Nat
      /\ Among(SubscribesIn(is, k), U) = 0 <=> \A i \in DOMAIN U : U[i] \notin SubscribesIn(is, k)
  BY AmongType
<1>2. /\ Among(AcksOf(k), C) \in Nat
      /\ Among(AcksOf(k), C) = 0 <=> \A i \in DOMAIN C : C[i] \notin AcksOf(k)
  BY AmongType
<1>3. DOMAIN C = 1..Len(C) /\ Range(U) = {U[i] : i \in DOMAIN U}
  BY DEF Range
<1>4. (\A i \in DOMAIN U : U[i] \notin SubscribesIn(is, k)) <=> \A n \in Range(U) : n \notin SubscribesIn(is, k)
  BY <1>3
<1>5. QED
  BY <1>1, <1>2, <1>3, <1>4 DEF SubCount, AckCount

\* A context without entries: nothing about subscriptions is on its way.
LEMMA Unheld ==
    ASSUME NEW C, NEW L, IsLog(C, L), NEW is \in Seq(Commands), NEW U \in Seq(Nat), Numbered(U, is),
           L[Len(C) + 1] = WantedIn(is, ServedOf(U, is)), Leaves(is),
           NEW owes, NEW holds, Balanced(C, L[1], is, U, owes, holds), holds = {}
    PROVE  /\ \A i \in 1..Len(C) : C[i].kind = "reply"
           /\ \A i \in 1..(Len(C) + 1) : L[i] = {}
           /\ \A n \in ServedOf(U, is)..Len(is) : WantedIn(is, n) = {}
           /\ \A n \in Range(U) : KeysOf(is[n]) = {}
<1> DEFINE s == ServedOf(U, is)
<1>1. C \in Seq(AnyMessage) /\ L \in Seq(SUBSET Pairs) /\ Len(L) = Len(C) + 1 /\ Len(C) \in Nat
      /\ \A i \in 1..Len(C) : C[i] \in AnyMessage
  BY DEF IsLog
<1>2. is \in Seq(AnyCommand) /\ \A n \in DOMAIN is : is[n] \in Commands
  <2>1. Commands \subseteq AnyCommand
    BY CommandsAre
  <2>2. QED
    BY <2>1, SeqWiden
<1>3. /\ s \in Nat /\ Len(is) \in Nat /\ s <= Len(is) /\ DOMAIN is = 1..Len(is)
      /\ \A n : n \in Range(U) <=> n \in (s + 1)..Len(is)
  BY <1>2, NumberedIs
<1>4. ASSUME NEW k \in Pairs
      PROVE  /\ k \notin L[1] /\ \A n \in Range(U) : n \notin SubscribesIn(is, k)
             /\ \A i \in 1..Len(C) : C[i] \notin AcksOf(k)
  <2> DEFINE a == SubCount(is, U, k)
             b == AckCount(C, k)
  <2>1. a \in Nat /\ b \in Nat
        /\ (a = 0 <=> \A n \in Range(U) : n \notin SubscribesIn(is, k))
        /\ (b = 0 <=> \A i \in 1..Len(C) : C[i] \notin AcksOf(k))
    BY <1>1, CountsAre
  <2>2. ~(a + b > 0) /\ k \notin L[1]
    BY DEF Balanced
  <2> HIDE DEF a, b
  <2>3. a = 0 /\ b = 0
    BY <2>1, <2>2
  <2>4. QED
    BY <2>1, <2>2, <2>3
<1>5. L[1] = {}
  <2>1. 1 \in 1..Len(L)
    BY <1>1
  <2>2. L[1] \in SUBSET Pairs
    BY <1>1, <2>1
  <2>3. QED
    BY <1>4, <2>2
<1>6. \A i \in 1..Len(C) : C[i].kind # "subscribe"
  <2>1. ASSUME NEW i \in 1..Len(C), C[i].kind = "subscribe"
        PROVE  FALSE
    <3>1. C[i].p \in BOOLEAN /\ C[i].name \in Keys /\ C[i] \in AnyMessage
      BY <1>1, <2>1 DEF AnyMessage
    <3>2. Key(C[i]) \in Pairs /\ Key(C[i])[1] = C[i].p /\ Key(C[i])[2] = C[i].name
      BY <3>1 DEF Key, Pairs
    <3>3. C[i] \in AcksOf(Key(C[i]))
      BY <2>1, <3>1, <3>2 DEF AcksOf
    <3>4. QED
      BY <1>4, <3>2, <3>3
  <2>2. QED
    BY <2>1
<1>7. /\ \A i \in 1..(Len(C) + 1) : L[i] = {}
      /\ \A i \in 1..Len(C) : C[i].kind = "reply"
  BY <1>5, <1>6, LogQuiet
<1>8. WantedIn(is, s) = {}
  <2>1. Len(C) + 1 \in 1..(Len(C) + 1)
    BY <1>1
  <2>2. QED
    BY <1>7, <2>1
<1>9. ASSUME NEW n \in (s + 1)..Len(is), WantedIn(is, n - 1) = {}
      PROVE  WantedIn(is, n) = {} /\ KeysOf(is[n]) = {}
  <2>1. n \in DOMAIN is /\ n \in Range(U)
    BY <1>3
  <2>2. is[n] \in Commands
    BY <1>2, <2>1
  <2>3. is[n].kind # "SUBSCRIBE"
    <3>1. SUFFICES ASSUME is[n].kind = "SUBSCRIBE" PROVE FALSE
      OBVIOUS
    <3>2. KeysOf(is[n]) # {}
      BY <2>2, <3>1, KeysAre
    <3>3. PICK k \in KeysOf(is[n]) : TRUE
      BY <3>2
    <3>4. k \in Pairs /\ n \in SubscribesIn(is, k)
      BY <2>1, <3>1, <3>3 DEF KeysOf, SubscribesIn
    <3>5. QED
      BY <1>4, <2>1, <3>4
  <2>4. is[n].kind # "UNSUBSCRIBE"
    <3>1. SUFFICES ASSUME is[n].kind = "UNSUBSCRIBE" PROVE FALSE
      OBVIOUS
    <3>2. KeysOf(is[n]) # {}
      BY <2>2, <3>1, KeysAre
    <3>3. KeysOf(is[n]) \subseteq WantedIn(is, n - 1)
      BY <2>1, <3>1 DEF Leaves
    <3>4. QED
      BY <1>9, <3>2, <3>3
  <2>5. KeysOf(is[n]) = {}
    BY <2>2, <2>3, <2>4, KeysAre
  <2>6. WantedIn(is, n) = WantedIn(is, n - 1) \ KeysOf(is[n])
    BY <1>2, <2>1, <2>3, WantedStep
  <2> DEFINE W == WantedIn(is, n)
             V == WantedIn(is, n - 1)
             X == KeysOf(is[n])
  <2>7. W = V \ X /\ V = {} /\ X = {}
    BY <1>9, <2>5, <2>6
  <2> HIDE DEF W, V, X
  <2>8. W = {}
    BY <2>7
  <2>9. QED
    BY <2>5, <2>8 DEF W
<1> DEFINE T == {m \in Nat : s + m <= Len(is) => WantedIn(is, s + m) = {}}
<1> HIDE DEF s
<1>10. 0 \in T
  BY <1>3, <1>8
<1>11. ASSUME NEW m \in Nat, m \in T
       PROVE  m + 1 \in T
  <2>1. CASE s + (m + 1) <= Len(is)
    <3>1. s + (m + 1) \in (s + 1)..Len(is) /\ (s + (m + 1)) - 1 = s + m /\ s + m <= Len(is)
      BY <1>3, <2>1
    <3>2. WantedIn(is, s + m) = {}
      BY <1>11, <3>1
    <3>3. WantedIn(is, s + (m + 1)) = {}
      BY <1>9, <3>1, <3>2
    <3>4. QED
      BY <3>3
  <2>2. CASE ~(s + (m + 1) <= Len(is))
    BY <2>2
  <2>3. QED
    BY <2>1, <2>2
<1> HIDE DEF T
<1>12. \A m \in Nat : m \in T
  BY <1>10, <1>11, SetInduction
<1>13. ASSUME NEW n \in s..Len(is)
       PROVE  WantedIn(is, n) = {}
  <2>1. n - s \in Nat /\ s + (n - s) = n /\ s + (n - s) <= Len(is)
    BY <1>3
  <2>2. n - s \in T
    BY <1>12, <2>1
  <2>3. QED
    BY <2>1, <2>2 DEF T
<1>14. \A n \in Range(U) : KeysOf(is[n]) = {}
  <2>1. ASSUME NEW n \in Range(U)
        PROVE  KeysOf(is[n]) = {}
    <3>1. n \in (s + 1)..Len(is) /\ n - 1 \in s..Len(is)
      BY <1>3
    <3>2. QED
      BY <1>9, <1>13, <3>1
  <2>2. QED
    BY <2>1
<1>15. QED
  BY <1>7, <1>13, <1>14 DEF s

\* The regular callbacks that wait are those of commands that Redis has not
\* served and of replies that are on their way, in their order; who waits in
\* the list of replies is behind no message.
Matched(C, L, U, is, R, I) ==
    /\ \A n : Has(R, n) \/ Has(I, n) <=>
         \/ n \in Range(U) /\ IsRegular(is, n)
         \/ n # 0 /\ \E i \in 1..Len(C) : C[i].for = n
    /\ \A i \in 1..Len(C) : C[i].for # 0 =>
         /\ IsRegular(is, C[i].for) /\ C[i].for <= ServedOf(U, is)
         /\ L[i] = WantedIn(is, C[i].for - 1)
    /\ \A i, j \in 1..Len(C) : i < j /\ C[i].for # 0 /\ C[j].for # 0 => C[i].for < C[j].for
    /\ \A n : Has(R, n) =>
         /\ WantedIn(is, n - 1) = {}
         /\ \A i, j \in 1..Len(C) : i < j /\ C[j].for = n => C[i].kind = "reply"
         /\ n > ServedOf(U, is) => \A i \in 1..Len(C) : C[i].kind = "reply"
         /\ \A k \in Range(U) : k < n => IsRegular(is, k)
    /\ \A n : Has(I, n) => WantedIn(is, n - 1) # {}

\* The next reply is processed, and its callback taken if it is for one.
LEMMA MatchedPop ==
    ASSUME NEW C, NEW L, IsLog(C, L), C # << >>, NEW is \in Seq(AnyCommand), NEW U \in Seq(Nat),
           Numbered(U, is), NEW R, NEW I, Matched(C, L, U, is, R, I),
           NEW R2, NEW I2,
           \A n : Has(R2, n) => Has(R, n), \A n : Has(I2, n) => Has(I, n),
           \A n : Has(R2, n) \/ Has(I2, n) <=>
                    (Has(R, n) \/ Has(I, n)) /\ (n = Head(C).for => n = 0)
    PROVE  Matched(Tail(C), Tail(L), U, is, R2, I2)
<1> DEFINE D == Tail(C)
           M == Tail(L)
           s == ServedOf(U, is)
           x == Head(C).for
<1>1. /\ Len(C) \in Nat /\ Len(C) >= 1 /\ Len(D) = Len(C) - 1 /\ x = C[1].for
      /\ \A i \in 1..(Len(C) - 1) : D[i] = C[i + 1] /\ M[i] = L[i + 1] /\ i + 1 \in 1..Len(C)
  BY LogPop
<1>2. s \in Nat /\ Len(is) \in Nat /\ s <= Len(is) /\ \A n : n \in Range(U) <=> n \in (s + 1)..Len(is)
  BY NumberedIs
<1> HIDE DEF D, M, s, x
<1>3. \A i \in 1..Len(D) : D[i] = C[i + 1] /\ M[i] = L[i + 1] /\ i + 1 \in 1..Len(C) /\ i \in Nat
  <2>1. 1..Len(D) = 1..(Len(C) - 1) /\ \A i \in 1..Len(D) : i \in Nat
    BY <1>1
  <2>2. QED
    BY <1>1, <2>1
<1>4. \A i \in 1..Len(C) : i = 1 \/ (i - 1 \in 1..Len(D) /\ i = (i - 1) + 1)
  BY <1>1
<1>5. \A i \in 1..Len(C) : C[i].for # 0 =>
         /\ IsRegular(is, C[i].for) /\ C[i].for <= s /\ L[i] = WantedIn(is, C[i].for - 1)
  BY DEF Matched, s
<1>6. \A i, j \in 1..Len(C) : i < j /\ C[i].for # 0 /\ C[j].for # 0 => C[i].for < C[j].for
  BY DEF Matched
<1>7. 1 \in 1..Len(C) /\ \A i \in 1..Len(D) : 1 < i + 1
  BY <1>1, <1>3
<1>8. x # 0 => x \notin Range(U) /\ ~\E i \in 1..Len(D) : D[i].for = x
  <2>1. SUFFICES ASSUME x # 0 PROVE x \notin Range(U) /\ ~\E i \in 1..Len(D) : D[i].for = x
    OBVIOUS
  <2>2. x \in DOMAIN is /\ x <= s
    BY <1>1, <1>5, <1>7, <2>1 DEF IsRegular
  <2>3. x \in Nat
    BY <2>2
  <2>4. x \notin Range(U)
    BY <1>2, <2>2, <2>3
  <2>5. ASSUME NEW i \in 1..Len(D), D[i].for = x
        PROVE  FALSE
    <3>1. C[1].for < C[i + 1].for /\ C[1].for = x /\ C[i + 1].for = x
      BY <1>1, <1>3, <1>6, <1>7, <2>1, <2>5
    <3>2. QED
      BY <2>3, <3>1
  <2>6. QED
    BY <2>4, <2>5
<1>9. ASSUME NEW n
      PROVE  Has(R2, n) \/ Has(I2, n) <=>
               \/ n \in Range(U) /\ IsRegular(is, n)
               \/ n # 0 /\ \E i \in 1..Len(D) : D[i].for = n
  <2>1. Has(R, n) \/ Has(I, n) <=>
         \/ n \in Range(U) /\ IsRegular(is, n)
         \/ n # 0 /\ \E i \in 1..Len(C) : C[i].for = n
    BY DEF Matched
  <2>2. Has(R2, n) \/ Has(I2, n) <=> (Has(R, n) \/ Has(I, n)) /\ (n = x => n = 0)
    BY DEF x
  <2>3. (\E i \in 1..Len(C) : C[i].for = n) <=> n = x \/ \E i \in 1..Len(D) : D[i].for = n
    <3>1. ASSUME NEW i \in 1..Len(C), C[i].for = n
          PROVE  n = x \/ \E j \in 1..Len(D) : D[j].for = n
      <4>1. CASE i = 1
        BY <1>1, <3>1, <4>1
      <4>2. CASE i # 1
        <5>1. i - 1 \in 1..Len(D) /\ i = (i - 1) + 1
          BY <1>4, <4>2
        <5>2. D[i - 1] = C[i]
          BY <1>3, <5>1
        <5>3. QED
          BY <3>1, <5>1, <5>2
      <4>3. QED
        BY <4>1, <4>2
    <3>2. QED
      BY <1>1, <1>3, <1>7, <3>1
  <2>4. 0 \notin Range(U)
    BY <1>2
  <2>5. QED
    BY <1>8, <2>1, <2>2, <2>3, <2>4
<1>10. \A i \in 1..Len(D) : D[i].for # 0 =>
         /\ IsRegular(is, D[i].for) /\ D[i].for <= s /\ M[i] = WantedIn(is, D[i].for - 1)
  BY <1>3, <1>5
<1>11. ASSUME NEW i \in 1..Len(D), NEW j \in 1..Len(D), i < j, D[i].for # 0, D[j].for # 0
       PROVE  D[i].for < D[j].for
  <2>1. i + 1 < j + 1
    BY <1>3, <1>11
  <2>2. QED
    <3>1. D[i] = C[i + 1] /\ D[j] = C[j + 1] /\ i + 1 \in 1..Len(C) /\ j + 1 \in 1..Len(C)
      BY <1>3
    <3>2. QED
      BY <1>6, <1>11, <2>1, <3>1
<1>12. ASSUME NEW n, Has(R2, n)
       PROVE  /\ WantedIn(is, n - 1) = {}
              /\ \A i, j \in 1..Len(D) : i < j /\ D[j].for = n => D[i].kind = "reply"
              /\ n > s => \A i \in 1..Len(D) : D[i].kind = "reply"
              /\ \A k \in Range(U) : k < n => IsRegular(is, k)
  <2>1. Has(R, n)
    BY <1>12
  <2>2. /\ WantedIn(is, n - 1) = {}
        /\ \A i, j \in 1..Len(C) : i < j /\ C[j].for = n => C[i].kind = "reply"
        /\ n > s => \A i \in 1..Len(C) : C[i].kind = "reply"
        /\ \A k \in Range(U) : k < n => IsRegular(is, k)
    BY <2>1 DEF Matched, s
  <2>3. \A i, j \in 1..Len(D) : i < j => i + 1 < j + 1
    BY <1>3
  <2>4. \A i, j \in 1..Len(D) : i < j /\ D[j].for = n => D[i].kind = "reply"
    BY <1>3, <2>2, <2>3
  <2>5. QED
    BY <1>3, <2>2, <2>4
<1>13. \A n : Has(I2, n) => WantedIn(is, n - 1) # {}
  BY DEF Matched
<1>14. Matched(D, M, U, is, R2, I2)
  BY <1>9, <1>10, <1>11, <1>12, <1>13 DEF Matched, s
<1>15. QED
  BY <1>14 DEF D, M

-----------------------------------------------------------------------------
(* The context and Redis together.                                          *)

\* What the flags say of the context, the commands that Redis has not served
\* and what is on its way, in order.
Mon == "MONITORING" \in flags
Sub == "SUBSCRIBED" \in flags
Unserved == wire \o obuf
Coming == rbuf \o inbox
\* A Redis that has too many clients says only that; what it says takes the
\* place of the first reply, so that no later one could be matched.
Full == conn = "closed" /\ (Coming = << >> \/ Coming = <<ERR0>>)
Reg == Alive /\ ~Mon /\ ~Full

\* The keys that have an entry, and how many replies each counts.
Holds == {k \in Pairs : Entry(k[1], k[2]) # {}}
Owes == [k \in Pairs |-> IF Entry(k[1], k[2]) = {} THEN 0 ELSE Val(k[1], k[2]).pending_subs]
Waits(n) == Has(replies, n) \/ Has(invalid, n)

\* The log L of what comes, C, leads to what is subscribed to now; with it the
\* entries are balanced and the callbacks that wait are matched.
LoggedBy(C, L) ==
    /\ IsLog(C, L) /\ L[Len(C) + 1] = subs
    /\ Balanced(C, L[1], issued, Unserved, Owes, Holds)
    /\ Reg => Matched(C, L, Unserved, issued, replies, invalid)

\* The log ends with what was lost when the connection was.
Logged ==
    \E lost, L :
        /\ lost \in Seq(AnyMessage) /\ (conn # "closed" => lost = << >>)
        /\ LoggedBy(Coming \o lost, L)

\* What is subscribed to is what the commands that Redis has served want.
Serves ==
    /\ Numbered(Unserved, issued) /\ subs = WantedIn(issued, ServedOf(Unserved, issued))
    /\ Leaves(issued)

\* The context is flagged as subscribed when it has an entry, and an entry is
\* that of a SUBSCRIBE of its key.
Flagged ==
    /\ Sub <=> Holds # {}
    /\ (\E i \in 1..Len(Coming) : Coming[i] = ERR0) => Full
    /\ conn \in {"connecting", "failed"} => Coming = << >>
    /\ \A p \in BOOLEAN, k \in Keys : Entry(p, k) # {} =>
         /\ Val(p, k).id \in DOMAIN issued /\ issued[Val(p, k).id].kind = "SUBSCRIBE"
         /\ About(issued[Val(p, k).id], p, k)

\* The variable cb is that of redisProcessCallbacks.
Processing == pc = "process" \/ (pc = "callback" /\ caller = "process")

\* While the context monitors its last command, MONITOR, is the only one that
\* waits, and nothing comes but its lines.
Monitored ==
    IF Mon
    THEN LET M == Len(issued) IN
         /\ M > 0 /\ issued[M].kind = "MONITOR"
         /\ \A i \in 1..Len(Coming) : Coming[i] \in {BAD, ERR0, Reply("STATUS", M)}
         /\ ~Sub /\ invalid = << >> /\ monitors \in {0, M}
         /\ \A n : Has(replies, n) => n \in {0, M}
         /\ Processing => cb.id \in {0, M}
         /\ conn # "closed" => subs = {} /\ \A n \in Range(Unserved) : n = M
    ELSE monitors = 0 /\ \A n \in DOMAIN issued : issued[n].kind # "MONITOR"

\* Callbacks wait in the order of their commands, those of the invalid ones
\* behind the others, and none that waits has run or is to run before the one
\* that runs.
Ordered ==
    /\ ~Mon => /\ Sorted(replies) /\ Sorted(invalid)
               /\ \A m, n : Has(replies, m) /\ Has(invalid, n) => m < n
               /\ \A n : Waits(n) => IsRegular(issued, n)
    /\ Alive /\ ~Sub => invalid = << >>
    /\ \A n : Waits(n) /\ IsRegular(issued, n) => n \notin done
    /\ pc = "callback" /\ IsRegular(issued, run.id) =>
         run.id \notin done /\ \A n : Waits(n) /\ IsRegular(issued, n) => run.id < n

\* The first part of RepliesMatch.
Answered ==
    pc = "callback" =>
        \/ run.reply = NULL \/ run.reply = ERR0 \/ run.reply.for = run.id
        \/ /\ issued[run.id].kind = "SUBSCRIBE"
           /\ run.reply.p = issued[run.id].p /\ run.reply.name \in Range(issued[run.id].names)

\* No callback outside of the dicts counts less than nothing.
Counted ==
    /\ cb.pending_subs >= 0
    /\ \A i \in DOMAIN replies : replies[i].pending_subs >= 0
    /\ \A i \in DOMAIN invalid : invalid[i].pending_subs >= 0

\* The inductive invariant, together with Typed and Control.
Joint ==
    /\ Logged /\ Serves /\ Flagged /\ Monitored
    /\ Ordered /\ Answered /\ Counted /\ NeverAborts

\* The sequences of the streams.
LEMMA Streams ==
    ASSUME Typed
    PROVE  /\ issued \in Seq(Commands) /\ issued \in Seq(AnyCommand) /\ Len(issued) \in Nat
           /\ DOMAIN issued = 1..Len(issued)
           /\ wire \in Seq(Nat) /\ obuf \in Seq(Nat) /\ Unserved \in Seq(Nat)
           /\ rbuf \in Seq(AnyMessage) /\ inbox \in Seq(AnyMessage) /\ Coming \in Seq(AnyMessage)
           /\ subs \in SUBSET Pairs /\ IsFiniteSet(subs)
           /\ replies \in Seq(AnyCallback) /\ invalid \in Seq(AnyCallback) /\ cb \in AnyCallback
<1>1. /\ issued \in Seq(Commands) /\ wire \in Seq(1..Len(issued)) /\ obuf \in Seq(1..Len(issued))
      /\ rbuf \in Seq(AnyMessage) /\ inbox \in Seq(AnyMessage)
      /\ subs \in SUBSET Pairs /\ IsFiniteSet(subs)
  BY DEF Typed, TypedStreams
<1>2. issued \in Seq(AnyCommand) /\ Len(issued) \in Nat /\ DOMAIN issued = 1..Len(issued)
  <2>1. Commands \subseteq AnyCommand
    BY CommandsAre
  <2>2. QED
    BY <1>1, <2>1, SeqWiden
<1>3. wire \in Seq(Nat) /\ obuf \in Seq(Nat)
  <2>1. 1..Len(issued) \subseteq Nat
    OBVIOUS
  <2>2. QED
    BY <1>1, <2>1, SeqWiden
<1>4. Unserved \in Seq(Nat) /\ Coming \in Seq(AnyMessage)
  BY <1>1, <1>3, ConcatProperties DEF Unserved, Coming
<1>5. QED
  BY <1>1, <1>2, <1>3, <1>4 DEF Typed, TypedContext

\* Nothing is on its way at first.
LEMMA JointInit == Init => Joint
<1> SUFFICES ASSUME Init PROVE Joint
  OBVIOUS
<1>1. /\ issued = << >> /\ replies = << >> /\ invalid = << >> /\ pc = "idle" /\ done = {} /\ subs = {}
      /\ flags = {} /\ channels = dictCreate /\ patterns = dictCreate /\ cb = NoCallback
      /\ rbuf = << >> /\ inbox = << >> /\ wire = << >> /\ obuf = << >> /\ monitors = 0
      /\ conn = "connecting"
  BY DEF Init
<1>2. \A p \in BOOLEAN, k \in Keys : Entry(p, k) = {}
  BY <1>1, CreateIs DEF Entry, DictOf
<1>3. Coming = << >> /\ Unserved = << >>
  BY <1>1 DEF Coming, Unserved
<1>4. Len(issued) = 0 /\ DOMAIN issued = {} /\ Len(Coming) = 0 /\ Len(Unserved) = 0 /\ 1..0 = {}
      /\ 0 - 0 = 0 /\ 0 <= 0 /\ Range(Unserved) = {}
  BY <1>1, <1>3 DEF Range
<1>5. Serves
  BY <1>1, <1>4, WantedStart DEF Serves, Numbered, ServedOf, Leaves
<1>6. Holds = {} /\ \A k \in Pairs : Owes[k] = 0
  BY <1>2, PairIs DEF Holds, Owes
<1>7. Flagged
  BY <1>1, <1>2, <1>3, <1>4, <1>6 DEF Flagged, Sub
<1>8. Monitored
  BY <1>1, <1>4 DEF Monitored, Mon
<1>9. \A n : ~Has(replies, n) /\ ~Has(invalid, n)
  BY <1>1 DEF Has
<1>10. Ordered
  BY <1>1, <1>9 DEF Ordered, Sorted, Waits
<1>11. Answered /\ Counted /\ NeverAborts
  BY <1>1 DEF Answered, Counted, NeverAborts, NoCallback
<1>12. Logged
  <2> DEFINE L == <<{}>>
  <2>1. IsLog(<< >>, L)
    BY LogEmpty
  <2>2. L[1] = {} /\ L[0 + 1] = {}
    OBVIOUS
  <2> HIDE DEF L
  <2>3. Coming \o << >> = << >> /\ << >> \in Seq(AnyMessage) /\ Len(<< >>) = 0
    BY <1>3
  <2>4. ASSUME NEW k \in Pairs
        PROVE  SubCount(issued, Unserved, k) = 0 /\ AckCount(<< >>, k) = 0
    BY <1>3, AmongEmpty DEF SubCount, AckCount
  <2>5. Balanced(<< >>, L[1], issued, Unserved, Owes, Holds)
    BY <1>6, <2>2, <2>4 DEF Balanced
  <2>6. Matched(<< >>, L, Unserved, issued, replies, invalid)
    BY <1>4, <1>9, <2>3 DEF Matched
  <2>7. LoggedBy(<< >>, L)
    BY <1>1, <2>1, <2>2, <2>3, <2>5, <2>6 DEF LoggedBy
  <2>8. QED
    BY <2>3, <2>7 DEF Logged
<1>13. QED
  BY <1>5, <1>7, <1>8, <1>10, <1>11, <1>12 DEF Joint

\* A step that moves nothing between the context and Redis.
Quietly ==
    /\ UNCHANGED <<channels, patterns, issued, subs, monitors, conn>>
    /\ Unserved' = Unserved /\ Coming' = Coming
    /\ (Sub' <=> Sub) /\ (Mon' <=> Mon)

LEMMA SameDicts ==
    ASSUME UNCHANGED <<channels, patterns>>
    PROVE  /\ Holds' = Holds /\ Owes' = Owes
           /\ \A p \in BOOLEAN, k \in Keys : Entry(p, k)' = Entry(p, k) /\ Val(p, k)' = Val(p, k)
<1>1. \A p, k : Entry(p, k)' = Entry(p, k) /\ Val(p, k)' = Val(p, k)
  BY DEF Entry, Val, DictOf
<1>2. QED
  BY <1>1 DEF Holds, Owes

LEMMA QuietStep ==
    ASSUME Joint, Quietly, Reg' => Reg /\ UNCHANGED <<replies, invalid>>
    PROVE  Logged' /\ Serves' /\ Flagged'
<1>1. /\ UNCHANGED <<issued, subs, monitors, conn>> /\ Unserved' = Unserved /\ Coming' = Coming
      /\ Holds' = Holds /\ Owes' = Owes /\ (Sub' <=> Sub) /\ (Full' <=> Full)
      /\ \A p \in BOOLEAN, k \in Keys : Entry(p, k)' = Entry(p, k) /\ Val(p, k)' = Val(p, k)
  BY SameDicts DEF Quietly, Full
<1>2. PICK lost, L :
        /\ lost \in Seq(AnyMessage) /\ (conn # "closed" => lost = << >>)
        /\ LoggedBy(Coming \o lost, L)
  BY DEF Joint, Logged
<1>3. LoggedBy(Coming \o lost, L)'
  BY <1>1, <1>2 DEF LoggedBy
<1>4. Logged'
  BY <1>1, <1>2, <1>3 DEF Logged
<1>5. Serves'
  BY <1>1 DEF Joint, Serves
<1>6. Flagged'
  BY <1>1 DEF Joint, Flagged
<1>7. QED
  BY <1>4, <1>5, <1>6

LEMMA QuietMonitored ==
    ASSUME Joint, Quietly,
           Mon => /\ invalid' = << >>
                  /\ \A n : Has(replies', n) => Has(replies, n) \/ (Processing /\ n = cb.id)
                  /\ Processing' => cb' = NoCallback \/ (Processing /\ cb' = cb)
                                     \/ (replies # << >> /\ cb' = Head(replies))
                                     \/ (Processing /\ cb'.id = cb.id),
           replies \in Seq(AnyCallback)
    PROVE  Monitored'
<1>1. /\ UNCHANGED <<issued, subs, monitors, conn>> /\ Unserved' = Unserved /\ Coming' = Coming
      /\ (Sub' <=> Sub) /\ (Mon' <=> Mon)
  BY DEF Quietly
<1>2. CASE ~Mon
  BY <1>1, <1>2 DEF Joint, Monitored
<1>3. CASE Mon
  <2> DEFINE M == Len(issued)
  <2>1. /\ M > 0 /\ issued[M].kind = "MONITOR"
        /\ \A i \in 1..Len(Coming) : Coming[i] \in {BAD, ERR0, Reply("STATUS", M)}
        /\ ~Sub /\ invalid = << >> /\ monitors \in {0, M}
        /\ \A n : Has(replies, n) => n \in {0, M}
        /\ Processing => cb.id \in {0, M}
        /\ conn # "closed" => subs = {} /\ \A n \in Range(Unserved) : n = M
    BY <1>3 DEF Joint, Monitored
  <2>2. NoCallback.id = 0
    BY DEF NoCallback
  <2>3. replies # << >> => Has(replies, Head(replies).id)
    <3>1. replies # << >> => 1 \in DOMAIN replies /\ Head(replies) = replies[1]
      OBVIOUS
    <3>2. QED
      BY <3>1 DEF Has
  <2>4. \A n : Has(replies', n) => n \in {0, M}
    BY <1>3, <2>1
  <2>5. Processing' => cb'.id \in {0, M}
    BY <1>3, <2>1, <2>2, <2>3
  <2>6. QED
    BY <1>1, <1>3, <2>1, <2>4, <2>5 DEF Monitored
<1>4. QED
  BY <1>2, <1>3

-----------------------------------------------------------------------------
(* Steps that move nothing between the context and Redis.                   *)

\* While the context monitors, no regular callback waits.
LEMMA MonitorAlone ==
    ASSUME Typed, Mon, Monitored, NEW n, Waits(n)
    PROVE  ~IsRegular(issued, n)
<1>1. n \in {0, Len(issued)} /\ issued[Len(issued)].kind = "MONITOR" /\ Len(issued) > 0
  BY DEF Monitored, Waits, Has
<1>2. DOMAIN issued = 1..Len(issued)
  BY Streams
<1>3. 0 \notin DOMAIN issued
  BY <1>2
<1>4. QED
  BY <1>1, <1>3 DEF IsRegular

\* The lists stay, and the thread runs no new callback.
LEMMA QuietJoint ==
    ASSUME Typed, Control, Joint, Quietly, UNCHANGED <<replies, invalid>>,
           cb' \in {cb, NoCallback}, Alive' => Alive, Reg' => Reg, pc' # "aborted",
           Processing' => Processing \/ cb' = NoCallback,
           UNCHANGED done \/ (pc = "callback" /\ done' = done \cup {run.id} /\ pc' # "callback"),
           pc' = "callback" => pc = "callback" /\ UNCHANGED <<run, done>>
    PROVE  Joint'
<1>1. Logged' /\ Serves' /\ Flagged'
  BY QuietStep
<1>2. replies \in Seq(AnyCallback)
  BY Streams
<1>3. Mon => invalid = << >>
  BY DEF Joint, Monitored
<1>4. Monitored'
  BY <1>2, <1>3, QuietMonitored
<1>5. /\ issued' = issued /\ (Sub' <=> Sub) /\ (Mon' <=> Mon)
      /\ \A n : Waits(n)' <=> Waits(n)
      /\ Sorted(replies') <=> Sorted(replies)
      /\ Sorted(invalid') <=> Sorted(invalid)
  BY DEF Quietly, Waits
<1>6. run.id \in Nat /\ ~(run.id < run.id)
  BY DEF Typed, TypedThread
<1>7. Ordered'
  <2>1. /\ ~Mon => /\ Sorted(replies) /\ Sorted(invalid)
                   /\ \A m, n : Has(replies, m) /\ Has(invalid, n) => m < n
                   /\ \A n : Waits(n) => IsRegular(issued, n)
        /\ Alive /\ ~Sub => invalid = << >>
        /\ \A n : Waits(n) /\ IsRegular(issued, n) => n \notin done
        /\ pc = "callback" /\ IsRegular(issued, run.id) =>
             run.id \notin done /\ \A n : Waits(n) /\ IsRegular(issued, n) => run.id < n
    BY DEF Joint, Ordered
  <2>2. ~Mon' => /\ Sorted(replies') /\ Sorted(invalid')
                 /\ \A m, n : Has(replies', m) /\ Has(invalid', n) => m < n
                 /\ \A n : Waits(n)' => IsRegular(issued', n)
    BY <1>5, <2>1
  <2>3. Alive' /\ ~Sub' => invalid' = << >>
    BY <1>5, <2>1
  <2>4. ASSUME NEW n, Waits(n)', IsRegular(issued', n)
        PROVE  n \notin done'
    BY <1>5, <1>6, <2>1, <2>4
  <2>5. pc' = "callback" /\ IsRegular(issued', run'.id) =>
           run'.id \notin done' /\ \A n : Waits(n)' /\ IsRegular(issued', n) => run'.id < n
    BY <1>5, <2>1
  <2>6. QED
    BY <2>2, <2>3, <2>4, <2>5 DEF Ordered
<1>8. Answered'
  BY <1>5 DEF Joint, Answered
<1>9. Counted'
  BY DEF Joint, Counted, NoCallback
<1>10. NeverAborts'
  BY DEF NeverAborts
<1>11. QED
  BY <1>1, <1>4, <1>7, <1>8, <1>9, <1>10 DEF Joint

\* The flags that the properties look at.
LEMMA SameFlags ==
    ASSUME flags' \cap {"SUBSCRIBED", "MONITORING"} = flags \cap {"SUBSCRIBED", "MONITORING"}
    PROVE  (Sub' <=> Sub) /\ (Mon' <=> Mon)
BY DEF Sub, Mon

\* A disconnect that is clean leaves no callback.
LEMMA DisconnectIs ==
    ASSUME NEW e, NEW fs, AsyncDisconnect(e, fs), e = "none" => replies = << >>
    PROVE  pc' = "free" /\ flags' \in {fs, fs \cup {"DISCONNECTING"}}
BY DEF AsyncDisconnect

LEMMA JointReturns ==
    ASSUME Typed, Control, Joint, CallbackReturns
    PROVE  Joint'
<1>1. /\ pc = "callback" /\ pc' = (IF "FREEING" \in flags THEN "free" ELSE caller)
      /\ flags' = flags \ {"IN_CALLBACK"} /\ done' = done \cup {run.id}
      /\ UNCHANGED <<replies, invalid, channels, patterns, obuf, rbuf, cb, caller, run, network,
                     server, issued>>
  BY DEF CallbackReturns
<1>2. (Sub' <=> Sub) /\ (Mon' <=> Mon)
  BY <1>1, SameFlags
<1>3. Quietly
  BY <1>1, <1>2 DEF Quietly, Unserved, Coming, network, server
<1>4. caller \in {"process", "free"}
  BY <1>1 DEF Typed, TypedThread
<1>5. pc' \in {"free", "process"} /\ (pc' = "process" => caller = "process")
  BY <1>1, <1>4
<1>6. Alive' => Alive
  BY <1>1, <1>5 DEF Alive
<1>7. Processing' => Processing
  BY <1>1, <1>5 DEF Processing
<1>8. Reg' => Reg
  BY <1>2, <1>3, <1>6 DEF Reg, Full, Quietly
<1>9. QED
  BY <1>1, <1>3, <1>5, <1>6, <1>7, <1>8, QuietJoint

\* A step that leaves the thread as it is, or ends it.
LEMMA StillJoint ==
    ASSUME Typed, Control, Joint, Quietly, UNCHANGED <<replies, invalid, cb, caller, run, done>>,
           pc' \in {pc, "free"} \/ (pc = "process" /\ pc' = "idle"), pc \in {"idle", "process", "callback"}
    PROVE  Joint'
<1>1. Alive' => Alive
  BY DEF Alive
<1>2. Processing' => Processing
  BY DEF Processing
<1>3. Reg' => Reg
  BY <1>1 DEF Reg, Full, Quietly
<1>4. pc' # "aborted" /\ (pc' = "callback" => pc = "callback")
  OBVIOUS
<1>5. QED
  BY <1>1, <1>2, <1>3, <1>4, QuietJoint

LEMMA JointCalls ==
    ASSUME Typed, Control, Joint, ConnectFails \/ SetCallbacks \/ Free \/ Disconnect
    PROVE  Joint'
<1>1. /\ UNCHANGED <<replies, invalid, channels, patterns, obuf, rbuf, cb, caller, run, network,
                     server, issued, done>>
      /\ pc' \in {pc, "free"} /\ pc \in {"idle", "callback"}
      /\ \E S \in SUBSET {"FREEING", "DISCONNECTING"} : flags' = flags \cup S
  <2>1. CASE ConnectFails
    <3>1. AsyncDisconnect("IO", flags) /\ pc = "idle"
      BY <2>1 DEF ConnectFails, Due
    <3>2. pc' = "free" /\ flags' = flags \cup {"DISCONNECTING"}
      BY <3>1 DEF AsyncDisconnect
    <3>3. QED
      BY <2>1, <3>1, <3>2 DEF ConnectFails, network, server, history
  <2>2. CASE SetCallbacks
    <3>1. flags' = flags \cup {}
      BY <2>2 DEF SetCallbacks
    <3>2. QED
      BY <2>2, <3>1 DEF SetCallbacks, network, server, history, thread
  <2>3. CASE Free
    BY <2>3 DEF Free, MayCall, network, server, history
  <2>4. CASE Disconnect
    <3>1. CASE "IN_CALLBACK" \notin flags /\ replies = << >>
      <4>1. AsyncDisconnect(err, flags \cup {"DISCONNECTING"})
        BY <2>4, <3>1 DEF Disconnect
      <4>2. pc' = "free" /\ flags' = flags \cup {"DISCONNECTING"}
        BY <3>1, <4>1 DEF AsyncDisconnect
      <4>3. QED
        BY <2>4, <4>2 DEF Disconnect, MayCall, network, server, history
    <3>2. CASE ~("IN_CALLBACK" \notin flags /\ replies = << >>)
      BY <2>4, <3>2 DEF Disconnect, MayCall, network, server, history
    <3>3. QED
      BY <3>1, <3>2
  <2>5. QED
    BY <2>1, <2>2, <2>3, <2>4
<1>2. (Sub' <=> Sub) /\ (Mon' <=> Mon)
  BY <1>1, SameFlags
<1>3. Quietly
  BY <1>1, <1>2 DEF Quietly, Unserved, Coming, network, server
<1>4. QED
  BY <1>1, <1>3, StillJoint

LEMMA WriteIs ==
    ASSUME Typed, NEW n \in 0..Len(obuf)
    PROVE  (wire \o SubSeq(obuf, 1, n)) \o SubSeq(obuf, n + 1, Len(obuf)) = wire \o obuf
<1>1. PICK E : E = 1..Len(issued)
  OBVIOUS
<1>2. wire \in Seq(E) /\ obuf \in Seq(E)
  BY <1>1 DEF Typed, TypedStreams
<1>3. PICK s, t : s = wire /\ t = obuf
  OBVIOUS
<1>4. s \in Seq(E) /\ t \in Seq(E) /\ n \in 0..Len(t)
  BY <1>2, <1>3
<1>5. (s \o SubSeq(t, 1, n)) \o SubSeq(t, n + 1, Len(t)) = s \o t
  BY <1>4, PartMoves, Zenon
<1>6. QED
  BY <1>3, <1>5

LEMMA JointWrite ==
    ASSUME Typed, Control, Joint, HandleWrite
    PROVE  Joint'
<1>1. /\ UNCHANGED <<replies, invalid, channels, patterns, rbuf, cb, caller, run, conn, inbox,
                     server, issued, done>>
      /\ pc' \in {pc, "free"} /\ pc = "idle"
      /\ flags' \in {Opened, Opened \cup {"DISCONNECTING"}}
      /\ wire' \o obuf' = wire \o obuf
  <2>1. pc = "idle"
    BY DEF HandleWrite, Connects, Due
  <2>2. ASSUME NEW n \in 0..Len(obuf), flags' = Opened, UNCHANGED pc,
               obuf' = SubSeq(obuf, n + 1, Len(obuf)), wire' = wire \o SubSeq(obuf, 1, n)
        PROVE  wire' \o obuf' = wire \o obuf
    <3>1. (wire \o SubSeq(obuf, 1, n)) \o SubSeq(obuf, n + 1, Len(obuf)) = wire \o obuf
      BY WriteIs
    <3>2. QED
      BY <2>2, <3>1
  <2>3. CASE AsyncDisconnect("IO", Opened) /\ UNCHANGED <<obuf, wire>>
    <3>1. pc' = "free" /\ flags' = Opened \cup {"DISCONNECTING"}
      BY <2>3 DEF AsyncDisconnect
    <3>2. QED
      BY <2>1, <2>3, <3>1 DEF HandleWrite, history
  <2>4. QED
    BY <2>1, <2>2, <2>3 DEF HandleWrite, history
<1>2. (Sub' <=> Sub) /\ (Mon' <=> Mon)
  BY <1>1, SameFlags DEF Opened
<1>3. Quietly
  BY <1>1, <1>2 DEF Quietly, Unserved, Coming, server
<1>4. QED
  BY <1>1, <1>3, StillJoint

LEMMA JointRead ==
    ASSUME Typed, Control, Joint, HandleRead
    PROVE  Joint'
<1>1. /\ UNCHANGED <<replies, invalid, channels, patterns, obuf, caller, run, conn, wire,
                     server, issued, done>>
      /\ pc = "idle"
  BY DEF HandleRead, Connects, Due, history
<1>2. CASE /\ conn = "closed" /\ inbox = << >> /\ UNCHANGED <<rbuf, inbox, cb, counts>>
           /\ \E e \in {"EOF", "IO"} : AsyncDisconnect(e, Opened)
  <2>1. pc' = "free" /\ flags' = Opened \cup {"DISCONNECTING"}
    BY <1>2 DEF AsyncDisconnect
  <2>2. (Sub' <=> Sub) /\ (Mon' <=> Mon)
    BY <2>1, SameFlags DEF Opened
  <2>3. Quietly
    BY <1>1, <1>2, <2>2 DEF Quietly, Unserved, Coming, server
  <2>4. QED
    BY <1>1, <1>2, <2>1, <2>3, StillJoint
<1>3. ASSUME NEW n \in 0..Len(inbox), rbuf' = rbuf \o SubSeq(inbox, 1, n),
             inbox' = SubSeq(inbox, n + 1, Len(inbox)),
             cb' = NoCallback, pc' = "process", flags' = Opened
      PROVE  Joint'
  <2>1. rbuf' \o inbox' = rbuf \o inbox
    <3>1. rbuf \in Seq(AnyMessage) /\ inbox \in Seq(AnyMessage)
      BY Streams
    <3>2. (rbuf \o SubSeq(inbox, 1, n)) \o SubSeq(inbox, n + 1, Len(inbox)) = rbuf \o inbox
      BY <3>1, PartMoves, Zenon
    <3>3. QED
      BY <1>3, <3>2
  <2>2. (Sub' <=> Sub) /\ (Mon' <=> Mon)
    BY <1>3, SameFlags DEF Opened
  <2>3. Quietly
    BY <1>1, <2>1, <2>2 DEF Quietly, Unserved, Coming, server
  <2>4. Reg' => Reg
    BY <1>1, <2>3 DEF Reg, Full, Quietly, Alive
  <2>5. QED
    BY <1>1, <1>3, <2>3, <2>4, QuietJoint DEF Alive
<1>4. QED
  BY <1>2, <1>3 DEF HandleRead

LEMMA JointEnd ==
    ASSUME Typed, Control, Joint, ProcessEnd
    PROVE  Joint'
<1>1. /\ UNCHANGED <<invalid, channels, patterns, obuf, rbuf, cb, caller, run, network,
                     server, issued, done>>
      /\ pc = "process" /\ pc' \in {"free", "idle"}
      /\ flags' \in {flags, flags \cup {"DISCONNECTING"}}
      /\ replies' = replies \/ (Mon /\ replies' = Append(replies, cb) /\ pc' = "idle")
  <2>1. CASE "DISCONNECTING" \in flags /\ obuf = << >> /\ replies = << >>
    <3>1. AsyncDisconnect(err, flags) /\ UNCHANGED replies
      BY <2>1 DEF ProcessEnd
    <3>2. pc' = "free" /\ flags' \in {flags, flags \cup {"DISCONNECTING"}}
      BY <2>1, <3>1, DisconnectIs
    <3>3. QED
      BY <3>1, <3>2 DEF ProcessEnd, history
  <2>2. CASE ~("DISCONNECTING" \in flags /\ obuf = << >> /\ replies = << >>)
    BY <2>2 DEF ProcessEnd, history, Mon
  <2>3. QED
    BY <2>1, <2>2
<1>2. (Sub' <=> Sub) /\ (Mon' <=> Mon)
  BY <1>1, SameFlags
<1>3. Quietly
  BY <1>1, <1>2 DEF Quietly, Unserved, Coming, network, server
<1>4. CASE replies' = replies
  BY <1>1, <1>3, <1>4, StillJoint
<1>5. CASE Mon /\ replies' = Append(replies, cb) /\ pc' = "idle"
  <2>1. ~Reg'
    BY <1>2, <1>5 DEF Reg
  <2>2. Logged' /\ Serves' /\ Flagged'
    BY <1>3, <2>1, QuietStep
  <2>3. /\ replies \in Seq(AnyCallback) /\ cb \in AnyCallback /\ invalid = << >>
        /\ cb.id = Len(issued) \/ cb.id = 0
    BY <1>1, <1>5, Streams DEF Joint, Monitored, Processing
  <2>4. \A n : Has(replies', n) => Has(replies, n) \/ n = cb.id
    BY <1>5, <2>3, HasAppend
  <2>5. ~Processing' /\ Processing
    BY <1>1, <1>5 DEF Processing
  <2>6. Monitored'
    BY <1>1, <1>3, <2>3, <2>4, <2>5, QuietMonitored
  <2>7. \A n : Waits(n)' => ~IsRegular(issued, n)
    <3>1. \A n : Waits(n)' => Waits(n) \/ n = cb.id
      BY <1>1, <2>4 DEF Waits
    <3>2. issued[Len(issued)].kind = "MONITOR" /\ DOMAIN issued = 1..Len(issued) /\ Monitored
      BY <1>5, Streams DEF Joint, Monitored
    <3>3. 0 \notin DOMAIN issued
      BY <3>2
    <3>4. ~IsRegular(issued, cb.id)
      BY <2>3, <3>2, <3>3 DEF IsRegular
    <3>5. QED
      BY <1>5, <3>1, <3>2, <3>4, MonitorAlone
  <2>8. Ordered'
    BY <1>1, <1>2, <1>5, <2>3, <2>7 DEF Ordered
  <2>9. Counted'
    <3>1. \A i \in DOMAIN replies' : replies'[i] = cb \/ (i \in DOMAIN replies /\ replies'[i] = replies[i])
      BY <1>5, <2>3
    <3>2. QED
      BY <1>1, <3>1 DEF Joint, Counted
  <2>10. Answered' /\ NeverAborts'
    BY <1>5 DEF Answered, NeverAborts
  <2>11. QED
    BY <2>2, <2>6, <2>8, <2>9, <2>10 DEF Joint
<1>6. QED
  BY <1>1, <1>4, <1>5

-----------------------------------------------------------------------------
(* Callbacks that are taken from the lists, and others, keep the order.     *)

Taken(c) ==
    \/ /\ replies # << >> /\ c = Head(replies)
       /\ replies' = Tail(replies) /\ UNCHANGED invalid
    \/ /\ replies = << >> /\ invalid # << >> /\ c = Head(invalid)
       /\ invalid' = Tail(invalid) /\ UNCHANGED replies

LEMMA TailHas ==
    ASSUME NEW s \in Seq(AnyCallback), s # << >>
    PROVE  /\ Has(s, Head(s).id) /\ Head(s) \in AnyCallback /\ Head(s).id \in Nat
           /\ \A n : Has(Tail(s), n) => Has(s, n)
           /\ \A i \in DOMAIN Tail(s) : i + 1 \in DOMAIN s /\ Tail(s)[i] = s[i + 1]
<1>1. /\ Head(s) \in AnyCallback /\ Len(Tail(s)) = Len(s) - 1 /\ Head(s) = s[1] /\ Len(s) >= 1
      /\ Len(s) \in Nat
      /\ \A i \in 1..(Len(s) - 1) : Tail(s)[i] = s[i + 1] /\ i + 1 \in DOMAIN s
      /\ Tail(s) \in Seq(AnyCallback) /\ DOMAIN s = 1..Len(s)
  BY HeadTailIs
<1>2. DOMAIN Tail(s) = 1..(Len(s) - 1)
  BY <1>1
<1>3. 1 \in DOMAIN s
  BY <1>1
<1>4. Has(s, Head(s).id)
  BY <1>1, <1>3 DEF Has
<1>5. \A i \in DOMAIN Tail(s) : i + 1 \in DOMAIN s /\ Tail(s)[i] = s[i + 1]
  BY <1>1, <1>2
<1>6. \A n : Has(Tail(s), n) => Has(s, n)
  BY <1>5 DEF Has
<1>7. Head(s).id \in Nat
  BY <1>1 DEF AnyCallback
<1>8. QED
  BY <1>1, <1>4, <1>5, <1>6, <1>7

LEMMA TakenIs ==
    ASSUME Typed, Joint, NEW c, Taken(c)
    PROVE  /\ Waits(c.id) /\ c \in AnyCallback /\ c.id \in Nat /\ c.pending_subs >= 0
           /\ \A n : (Has(replies', n) => Has(replies, n)) /\ (Has(invalid', n) => Has(invalid, n))
           /\ \A i \in DOMAIN replies' : replies'[i].pending_subs >= 0
           /\ \A i \in DOMAIN invalid' : invalid'[i].pending_subs >= 0
           /\ ~Mon =>
                /\ Sorted(replies') /\ Sorted(invalid')
                /\ \A n : Waits(n)' <=> Waits(n) /\ n # c.id
                /\ \A n : Waits(n)' => c.id < n
<1> DEFINE before == /\ Sorted(replies) /\ Sorted(invalid)
                     /\ \A m, n : Has(replies, m) /\ Has(invalid, n) => m < n
<1>1. /\ replies \in Seq(AnyCallback) /\ invalid \in Seq(AnyCallback)
      /\ ~Mon => before
      /\ \A i \in DOMAIN replies : replies[i].pending_subs >= 0
      /\ \A i \in DOMAIN invalid : invalid[i].pending_subs >= 0
  BY Streams DEF Joint, Ordered, Counted
<1>2. CASE /\ replies # << >> /\ c = Head(replies) /\ replies' = Tail(replies) /\ UNCHANGED invalid
  <2>1. /\ Has(replies, c.id) /\ c \in AnyCallback /\ c.id \in Nat
        /\ \A n : Has(replies', n) => Has(replies, n)
        /\ \A i \in DOMAIN replies' : i + 1 \in DOMAIN replies /\ replies'[i] = replies[i + 1]
    BY <1>1, <1>2, TailHas
  <2>2. c.pending_subs >= 0
    <3>1. c = replies[1] /\ 1 \in DOMAIN replies
      BY <1>1, <1>2
    <3>2. QED
      BY <1>1, <3>1
  <2>3. ASSUME ~Mon
        PROVE  /\ Sorted(replies') /\ Sorted(invalid')
               /\ \A n : Waits(n)' <=> Waits(n) /\ n # c.id
               /\ \A n : Waits(n)' => c.id < n
    <3>1. /\ Sorted(replies') /\ \A n : Has(replies', n) <=> Has(replies, n) /\ n # c.id
          /\ \A n : Has(replies', n) => n \in Nat /\ c.id < n
      BY <1>1, <1>2, <2>3, SortedPop
    <3>2. \A n : Has(invalid, n) => c.id < n
      BY <1>1, <2>1, <2>3
    <3>3. ~(c.id < c.id)
      BY <2>1
    <3>4. QED
      BY <1>1, <1>2, <2>3, <3>1, <3>2, <3>3 DEF Waits
  <2>4. QED
    BY <1>1, <1>2, <2>1, <2>2, <2>3 DEF Waits
<1>3. CASE /\ replies = << >> /\ invalid # << >> /\ c = Head(invalid)
           /\ invalid' = Tail(invalid) /\ UNCHANGED replies
  <2>1. /\ Has(invalid, c.id) /\ c \in AnyCallback /\ c.id \in Nat
        /\ \A n : Has(invalid', n) => Has(invalid, n)
        /\ \A i \in DOMAIN invalid' : i + 1 \in DOMAIN invalid /\ invalid'[i] = invalid[i + 1]
    BY <1>1, <1>3, TailHas
  <2>2. c.pending_subs >= 0
    <3>1. c = invalid[1] /\ 1 \in DOMAIN invalid
      BY <1>1, <1>3
    <3>2. QED
      BY <1>1, <3>1
  <2>3. \A n : ~Has(replies, n)
    BY <1>3 DEF Has
  <2>4. ASSUME ~Mon
        PROVE  /\ Sorted(replies') /\ Sorted(invalid')
               /\ \A n : Waits(n)' <=> Waits(n) /\ n # c.id
               /\ \A n : Waits(n)' => c.id < n
    <3>1. /\ Sorted(invalid') /\ \A n : Has(invalid', n) <=> Has(invalid, n) /\ n # c.id
          /\ \A n : Has(invalid', n) => n \in Nat /\ c.id < n
      BY <1>1, <1>3, <2>4, SortedPop
    <3>2. QED
      BY <1>1, <1>3, <2>3, <2>4, <3>1 DEF Waits
  <2>5. QED
    BY <1>1, <1>3, <2>1, <2>2, <2>4 DEF Waits
<1>4. QED
  BY <1>2, <1>3 DEF Taken

LEMMA TakenOrdered ==
    ASSUME Typed, Joint, NEW c, Taken(c), UNCHANGED <<issued, done>>, Alive' => Alive,
           (Sub' <=> Sub), (Mon' <=> Mon), pc' = "callback" => run'.id = c.id
    PROVE  Ordered'
<1>1. /\ Waits(c.id) /\ c.id \in Nat
      /\ \A n : (Has(replies', n) => Has(replies, n)) /\ (Has(invalid', n) => Has(invalid, n))
      /\ ~Mon => /\ Sorted(replies') /\ Sorted(invalid')
                 /\ \A n : Waits(n)' <=> Waits(n) /\ n # c.id
                 /\ \A n : Waits(n)' => c.id < n
  BY TakenIs
<1>2. /\ ~Mon => /\ \A m, n : Has(replies, m) /\ Has(invalid, n) => m < n
                 /\ \A n : Waits(n) => IsRegular(issued, n)
      /\ Alive /\ ~Sub => invalid = << >>
      /\ \A n : Waits(n) /\ IsRegular(issued, n) => n \notin done
  BY DEF Joint, Ordered
<1>3. \A n : Waits(n)' => Waits(n)
  BY <1>1 DEF Waits
<1>4. Mon => \A n : Waits(n) => ~IsRegular(issued, n)
  BY MonitorAlone DEF Joint
<1>5. ~Mon' => /\ Sorted(replies') /\ Sorted(invalid')
               /\ \A m, n : Has(replies', m) /\ Has(invalid', n) => m < n
               /\ \A n : Waits(n)' => IsRegular(issued', n)
  BY <1>1, <1>2, <1>3
<1>6. Alive' /\ ~Sub' => invalid' = << >>
  BY <1>2 DEF Taken
<1>7. \A n : Waits(n)' /\ IsRegular(issued', n) => n \notin done'
  BY <1>2, <1>3
<1>8. pc' = "callback" /\ IsRegular(issued', run'.id) =>
         run'.id \notin done' /\ \A n : Waits(n)' /\ IsRegular(issued', n) => run'.id < n
  BY <1>1, <1>2, <1>4
<1>9. QED
  BY <1>5, <1>6, <1>7, <1>8 DEF Ordered

LEMMA OtherOrdered ==
    ASSUME Joint, UNCHANGED <<replies, invalid, issued, done>>,
           Alive' /\ ~Sub' => invalid' = << >>, (Mon' <=> Mon),
           pc' = "callback" => ~IsRegular(issued, run'.id)
    PROVE  Ordered'
<1>1. /\ ~Mon => /\ Sorted(replies) /\ Sorted(invalid)
                 /\ \A m, n : Has(replies, m) /\ Has(invalid, n) => m < n
                 /\ \A n : Waits(n) => IsRegular(issued, n)
      /\ \A n : Waits(n) /\ IsRegular(issued, n) => n \notin done
  BY DEF Joint, Ordered
<1>2. \A n : Waits(n)' <=> Waits(n)
  BY DEF Waits
<1>3. QED
  BY <1>1, <1>2 DEF Ordered

LEMMA JointFreeNext ==
    ASSUME Typed, Control, Joint, FreeNext
    PROVE  Joint'
<1>1. /\ UNCHANGED <<channels, patterns, obuf, rbuf, cb, network, server, issued, done>>
      /\ pc = "free"
  BY DEF FreeNext, history
<1>2. PICK c :
        /\ RunCallback(c, NULL, "free", flags)
        /\ \/ Taken(c)
           \/ /\ \E i \in DOMAIN Subscribed : c = Subscribed[i].val
              /\ UNCHANGED <<replies, invalid>>
  <2>1. CASE /\ replies # << >>
             /\ replies' = Tail(replies) /\ RunCallback(Head(replies), NULL, "free", flags)
             /\ UNCHANGED <<invalid, it>>
    BY <2>1 DEF Taken
  <2>2. CASE /\ replies = << >> /\ invalid # << >>
             /\ invalid' = Tail(invalid) /\ RunCallback(Head(invalid), NULL, "free", flags)
             /\ UNCHANGED <<replies, it>>
    BY <2>2 DEF Taken
  <2>3. CASE /\ replies = << >> /\ invalid = << >> /\ it < Len(Subscribed)
             /\ it' = it + 1 /\ RunCallback(Subscribed[it + 1].val, NULL, "free", flags)
             /\ UNCHANGED <<replies, invalid>>
    <3>1. Len(Subscribed) \in Nat /\ DOMAIN Subscribed = 1..Len(Subscribed) /\ it \in Nat
      BY SubscribedEntries DEF Typed, TypedDicts
    <3>2. it + 1 \in DOMAIN Subscribed
      BY <2>3, <3>1
    <3>3. QED
      BY <2>3, <3>2
  <2>4. QED
    BY <2>1, <2>2, <2>3 DEF FreeNext
<1>3. /\ pc' = "free" \/ (pc' = "callback" /\ caller' = "free" /\ run'.id = c.id /\ run'.reply = NULL)
      /\ flags' \in {flags, flags \cup {"IN_CALLBACK"}}
  BY <1>2 DEF RunCallback
<1>4. (Sub' <=> Sub) /\ (Mon' <=> Mon)
  BY <1>3, SameFlags
<1>5. Quietly
  BY <1>1, <1>4 DEF Quietly, Unserved, Coming, network, server
<1>6. ~Alive' /\ ~Reg' /\ ~Processing'
  BY <1>3 DEF Alive, Reg, Processing
<1>7. Logged' /\ Serves' /\ Flagged'
  BY <1>5, <1>6, QuietStep
<1>8. replies \in Seq(AnyCallback) /\ (Mon => invalid = << >>)
  BY Streams DEF Joint, Monitored
<1>9. /\ \A n : Has(replies', n) => Has(replies, n)
      /\ Mon => invalid' = << >>
      /\ \A i \in DOMAIN replies' : replies'[i].pending_subs >= 0
      /\ \A i \in DOMAIN invalid' : invalid'[i].pending_subs >= 0
  <2>1. CASE Taken(c)
    BY <1>8, <2>1, TakenIs DEF Taken
  <2>2. CASE UNCHANGED <<replies, invalid>>
    BY <1>8, <2>2 DEF Joint, Counted
  <2>3. QED
    BY <1>2, <2>1, <2>2
<1>10. Monitored'
  BY <1>5, <1>6, <1>8, <1>9, QuietMonitored
<1>11. Ordered'
  <2>1. CASE Taken(c)
    BY <1>1, <1>3, <1>4, <1>6, <2>1, TakenOrdered
  <2>2. ASSUME UNCHANGED <<replies, invalid>>, NEW i \in DOMAIN Subscribed, c = Subscribed[i].val
        PROVE  Ordered'
    <3>1. PICK p \in BOOLEAN, k \in Keys : Entry(p, k) # {} /\ c = Val(p, k)
      BY <2>2, SubscribedEntries
    <3>2. issued[c.id].kind = "SUBSCRIBE"
      BY <3>1 DEF Joint, Flagged
    <3>3. ~IsRegular(issued, c.id)
      BY <3>2 DEF IsRegular
    <3>4. QED
      BY <1>1, <1>3, <1>4, <1>6, <2>2, <3>3, OtherOrdered
  <2>3. QED
    BY <1>2, <2>1, <2>2
<1>12. Answered' /\ NeverAborts'
  BY <1>3 DEF Answered, NeverAborts
<1>13. Counted'
  BY <1>1, <1>9 DEF Joint, Counted
<1>14. QED
  BY <1>7, <1>10, <1>11, <1>12, <1>13 DEF Joint

\* What has not been read when the context goes is lost.
LEMMA JointFreed ==
    ASSUME Typed, Control, Joint, FreeContext
    PROVE  Joint'
<1>1. /\ UNCHANGED <<flags, replies, invalid, channels, patterns, obuf, rbuf, cb, caller, run,
                     wire, server, issued, done>>
      /\ pc = "free" /\ pc' = "freed" /\ conn' = "closed" /\ inbox' = << >>
  BY DEF FreeContext, history
<1>2. (Sub' <=> Sub) /\ (Mon' <=> Mon) /\ ~Alive' /\ ~Reg' /\ ~Processing' /\ Unserved' = Unserved
      /\ issued' = issued /\ subs' = subs /\ monitors' = monitors
  BY <1>1 DEF Sub, Mon, Alive, Reg, Processing, Unserved, server
<1>3. /\ Holds' = Holds /\ Owes' = Owes
      /\ \A p \in BOOLEAN, k \in Keys : Entry(p, k)' = Entry(p, k) /\ Val(p, k)' = Val(p, k)
  BY <1>1, SameDicts
<1>4. rbuf \in Seq(AnyMessage) /\ inbox \in Seq(AnyMessage)
  BY Streams
<1>5. Coming' = rbuf
  BY <1>1, <1>4 DEF Coming
<1>6. Len(Coming') \in Nat /\ \A i \in 1..Len(Coming') : Coming'[i] = Coming[i] /\ i \in 1..Len(Coming)
  BY <1>4, <1>5 DEF Coming
<1>7. Logged'
  <2>1. PICK lost, L :
          /\ lost \in Seq(AnyMessage) /\ (conn # "closed" => lost = << >>)
          /\ LoggedBy(Coming \o lost, L)
    BY DEF Joint, Logged
  <2>2. inbox \o lost \in Seq(AnyMessage) /\ Coming' \o (inbox \o lost) = Coming \o lost
    BY <1>4, <1>5, <2>1, ConcatAssociative, ConcatProperties DEF Coming
  <2>3. PICK more \in Seq(AnyMessage) : Coming' \o more = Coming \o lost
    BY <2>2
  <2>4. LoggedBy(Coming \o more, L)'
    BY <1>2, <1>3, <2>1, <2>3 DEF LoggedBy
  <2>5. QED
    BY <1>1, <2>4 DEF Logged
<1>8. Serves'
  BY <1>2 DEF Joint, Serves
<1>9. Flagged'
  <2>1. /\ Sub <=> Holds # {}
        /\ (\E i \in 1..Len(Coming) : Coming[i] = ERR0) => Full
        /\ \A p \in BOOLEAN, k \in Keys : Entry(p, k) # {} =>
             /\ Val(p, k).id \in DOMAIN issued /\ issued[Val(p, k).id].kind = "SUBSCRIBE"
             /\ About(issued[Val(p, k).id], p, k)
    BY DEF Joint, Flagged
  <2>2. ASSUME NEW i \in 1..Len(Coming'), Coming'[i] = ERR0
        PROVE  Full'
    <3>1. Coming = <<ERR0>>
      BY <1>6, <2>1, <2>2 DEF Full
    <3>2. Len(rbuf) = 1 /\ rbuf[1] = ERR0
      <4>1. Len(Coming) = 1 /\ Coming[1] = ERR0 /\ 1 \in 1..Len(Coming)
        BY <3>1
      <4>2. Len(Coming) = Len(rbuf) + Len(inbox) /\ Len(rbuf) \in Nat /\ Len(inbox) \in Nat
        BY <1>4 DEF Coming
      <4>3. Len(rbuf) >= 1
        BY <1>4, <1>5, <2>2
      <4>4. Len(rbuf) = 1
        BY <4>1, <4>2, <4>3
      <4>5. 1 \in 1..Len(Coming')
        BY <1>5, <4>4
      <4>6. QED
        BY <1>5, <1>6, <4>1, <4>4, <4>5
    <3>3. Coming' = <<ERR0>>
      BY <1>4, <1>5, <3>2
    <3>4. QED
      BY <1>1, <3>3 DEF Full
  <2>3. conn' \notin {"connecting", "failed"}
    BY <1>1
  <2>4. QED
    BY <1>2, <1>3, <2>1, <2>2, <2>3 DEF Flagged
<1>10. Monitored'
  BY <1>1, <1>2, <1>6 DEF Joint, Monitored
<1>11. Ordered'
  BY <1>1, <1>2, OtherOrdered
<1>12. Answered' /\ NeverAborts' /\ Counted'
  BY <1>1 DEF Joint, Answered, NeverAborts, Counted
<1>13. QED
  BY <1>7, <1>8, <1>9, <1>10, <1>11, <1>12 DEF Joint

-----------------------------------------------------------------------------
(* The next reply.                                                          *)

LEMMA HeadConcat ==
    ASSUME NEW E, NEW s \in Seq(E), NEW t \in Seq(E), s # << >>
    PROVE  /\ s \o t # << >> /\ Head(s \o t) = Head(s) /\ Tail(s \o t) = Tail(s) \o t
           /\ s \o t \in Seq(E)
<1>1. /\ s \o t \in Seq(E) /\ Len(s \o t) = Len(s) + Len(t) /\ Len(s) \in Nat /\ Len(t) \in Nat
      /\ Len(s) >= 1
      /\ \A i \in 1..Len(s) : (s \o t)[i] = s[i]
      /\ \A i \in 1..Len(t) : (s \o t)[Len(s) + i] = t[i]
  OBVIOUS
<1>2. s \o t # << >>
  BY <1>1
<1>3. Head(s \o t) = Head(s)
  BY <1>1, <1>2, HeadTailIs
<1>4. /\ Tail(s) \in Seq(E) /\ Len(Tail(s)) = Len(s) - 1
      /\ \A i \in 1..(Len(s) - 1) : Tail(s)[i] = s[i + 1]
  BY HeadTailIs
<1>5. /\ Tail(s \o t) \in Seq(E) /\ Len(Tail(s \o t)) = Len(s \o t) - 1
      /\ \A i \in 1..(Len(s \o t) - 1) : Tail(s \o t)[i] = (s \o t)[i + 1]
  BY <1>1, <1>2, HeadTailIs
<1>6. /\ Tail(s) \o t \in Seq(E) /\ Len(Tail(s) \o t) = (Len(s) - 1) + Len(t)
      /\ \A i \in 1..(Len(s) - 1) : (Tail(s) \o t)[i] = Tail(s)[i]
      /\ \A i \in 1..Len(t) : (Tail(s) \o t)[(Len(s) - 1) + i] = t[i]
  BY <1>4, ConcatProperties
<1> DEFINE a == Tail(s \o t)
           b == Tail(s) \o t
           n == (Len(s) - 1) + Len(t)
<1>7. Len(a) = n /\ Len(b) = n /\ n \in Nat
  BY <1>1, <1>5, <1>6
<1>8. ASSUME NEW i \in 1..n
      PROVE  a[i] = b[i]
  <2>1. CASE i \in 1..(Len(s) - 1)
    BY <1>1, <1>4, <1>5, <1>6, <2>1
  <2>2. CASE i > Len(s) - 1
    <3>1. PICK j \in 1..Len(t) : i = (Len(s) - 1) + j
      <4>1. i - (Len(s) - 1) \in 1..Len(t) /\ i = (Len(s) - 1) + (i - (Len(s) - 1))
        BY <1>1, <2>2
      <4>2. QED
        BY <4>1
    <3>2. i + 1 = Len(s) + j /\ i \in 1..(Len(s \o t) - 1)
      BY <1>1, <3>1
    <3>3. QED
      BY <1>1, <1>5, <1>6, <3>1, <3>2
  <2>3. QED
    BY <1>1, <2>1, <2>2
<1>9. a = b
  <2>1. a \in Seq(E) /\ b \in Seq(E)
    BY <1>5, <1>6
  <2> HIDE DEF a, b
  <2>2. QED
    BY <1>7, <1>8, <2>1
<1>10. QED
  BY <1>1, <1>2, <1>3, <1>9

\* What a message may be.
LEMMA AnyMessageIs ==
    ASSUME NEW m \in AnyMessage
    PROVE  /\ m.for \in Nat /\ (m.for # 0 => m.kind = "reply")
           /\ m.type \in {"ARRAY", "STATUS", "ERROR", "BAD"}
           /\ m.type = "ARRAY" => /\ m.kind \in {"subscribe", "unsubscribe", "message"}
                                  /\ m.for = 0 /\ Key(m) \in Pairs /\ m.count \in Nat
           /\ m.type # "ARRAY" => m.kind = "reply"
<1> DEFINE A == [type : {"ARRAY"}, for : {0}, kind : {"subscribe", "unsubscribe", "message"},
                 p : BOOLEAN, name : Keys, count : Nat]
           B == [type : {"STATUS", "ERROR", "BAD"}, for : Nat, kind : {"reply"},
                 p : {FALSE}, name : {"none"}, count : {0}]
<1>1. m \in A \/ m \in B
  BY DEF AnyMessage
<1>2. CASE m \in A
  <2>1. /\ m.type = "ARRAY" /\ m.for = 0 /\ m.kind \in {"subscribe", "unsubscribe", "message"}
        /\ m.p \in BOOLEAN /\ m.name \in Keys /\ m.count \in Nat
    BY <1>2
  <2>2. QED
    BY <2>1 DEF Key, Pairs
<1>3. CASE m \in B
  <2>1. m.type \in {"STATUS", "ERROR", "BAD"} /\ m.for \in Nat /\ m.kind = "reply"
    BY <1>3
  <2>2. QED
    BY <2>1
<1>4. QED
  BY <1>1, <1>2, <1>3

\* A log with replies to regular commands starts with the first of them.
LEMMA MatchedHead ==
    ASSUME NEW C, NEW L, IsLog(C, L), C # << >>, NEW is \in Seq(AnyCommand), NEW U \in Seq(Nat),
           Numbered(U, is), NEW R, NEW I, Matched(C, L, U, is, R, I),
           C[1].type # "BAD", C[1] # ERR0,
           C[1].kind = "reply" \/ (\E n \in Nat : Has(R, n) /\ \A k : Has(R, k) \/ Has(I, k) => n <= k)
    PROVE  /\ C[1].kind = "reply" /\ C[1].for \in Nat \ {0} /\ C[1].type \in {"STATUS", "ERROR"}
           /\ Has(R, C[1].for) \/ Has(I, C[1].for)
           /\ \A n : Has(R, n) \/ Has(I, n) => C[1].for <= n
<1> DEFINE S == ServedOf(U, is)
<1>1. /\ 1 \in 1..Len(C) /\ Len(C) \in Nat /\ \A i \in 1..Len(C) : C[i] \in AnyMessage
      /\ Follows(C[1], L[1], L[1 + 1])
  BY DEF IsLog
<1>2. /\ \A i \in 1..Len(C) : C[i].for \in Nat /\ (C[i].for # 0 => C[i].kind = "reply")
      /\ C[1].type \in {"ARRAY", "STATUS", "ERROR", "BAD"}
  <2>1. \A m \in AnyMessage : /\ m.for \in Nat /\ (m.for # 0 => m.kind = "reply")
                             /\ m.type \in {"ARRAY", "STATUS", "ERROR", "BAD"}
    BY AnyMessageIs
  <2>2. QED
    BY <1>1, <2>1
<1>3. /\ S \in Nat /\ Len(is) \in Nat
      /\ \A n : n \in Range(U) <=> n \in (S + 1)..Len(is)
  BY NumberedIs
<1> HIDE DEF S
<1>4. /\ \A n : Has(R, n) \/ Has(I, n) <=>
           \/ n \in Range(U) /\ IsRegular(is, n)
           \/ n # 0 /\ \E i \in 1..Len(C) : C[i].for = n
      /\ \A i \in 1..Len(C) : C[i].for # 0 => C[i].for <= S
      /\ \A i, j \in 1..Len(C) : i < j /\ C[i].for # 0 /\ C[j].for # 0 => C[i].for < C[j].for
      /\ \A n : Has(R, n) =>
           /\ \A i, j \in 1..Len(C) : i < j /\ C[j].for = n => C[i].kind = "reply"
           /\ n > S => \A i \in 1..Len(C) : C[i].kind = "reply"
  BY DEF Matched, S
<1>5. BAD.type = "BAD"
  BY DEF BAD, Reply, Message
<1>6. C[1].kind = "reply" => C[1].for # 0 /\ C[1].type \in {"STATUS", "ERROR"}
  BY <1>1, <1>5 DEF Follows
<1>7. C[1].kind = "reply"
  <2>1. SUFFICES ASSUME NEW n \in Nat, Has(R, n), \A k : Has(R, k) \/ Has(I, k) => n <= k
                 PROVE  C[1].kind = "reply"
    OBVIOUS
  <2>2. CASE n > S
    BY <1>1, <1>4, <2>1, <2>2
  <2>3. ASSUME NEW j \in 1..Len(C), C[j].for = n, n # 0
        PROVE  C[1].kind = "reply"
    <3>1. j = 1 \/ 1 < j
      BY <1>1
    <3>2. QED
      BY <1>1, <1>2, <1>4, <2>1, <2>3, <3>1
  <2>4. n \in Range(U) \/ (n # 0 /\ \E j \in 1..Len(C) : C[j].for = n)
    BY <1>4, <2>1
  <2>5. n \in Range(U) => n > S
    BY <1>3
  <2>6. QED
    BY <2>2, <2>3, <2>4, <2>5
<1>8. C[1].for # 0 /\ C[1].for \in Nat /\ C[1].for <= S
  BY <1>1, <1>2, <1>4, <1>6, <1>7
<1>9. Has(R, C[1].for) \/ Has(I, C[1].for)
  BY <1>1, <1>4, <1>8
<1>10. ASSUME NEW n, Has(R, n) \/ Has(I, n)
       PROVE  C[1].for <= n
  <2>1. n \in Range(U) \/ (n # 0 /\ \E j \in 1..Len(C) : C[j].for = n)
    BY <1>4, <1>10
  <2>2. CASE n \in Range(U)
    BY <1>3, <1>8, <2>2
  <2>3. ASSUME NEW j \in 1..Len(C), C[j].for = n, n # 0
        PROVE  C[1].for <= n
    <3>1. j = 1 \/ 1 < j
      BY <1>1
    <3>2. n \in Nat
      BY <1>2, <2>3
    <3>3. CASE 1 < j
      <4>1. C[1].for < C[j].for
        BY <1>1, <1>4, <1>8, <2>3, <3>3
      <4>2. QED
        BY <1>8, <2>3, <3>2, <4>1
    <3>4. QED
      BY <1>8, <2>3, <3>1, <3>3
  <2>4. QED
    BY <2>1, <2>2, <2>3
<1>11. QED
  BY <1>6, <1>7, <1>8, <1>9, <1>10

Popping ==
    /\ pc = "process" /\ rbuf # << >> /\ rbuf' = Tail(rbuf)
    /\ UNCHANGED <<obuf, wire, inbox, conn, subs, monitors, issued, done>>

LEMMA PopIs ==
    ASSUME Typed, Popping
    PROVE  /\ Coming # << >> /\ Head(rbuf) \in AnyMessage /\ Coming[1] = Head(rbuf)
           /\ 1 \in 1..Len(Coming) /\ Coming' = Tail(Coming)
           /\ \A i \in 1..Len(Coming') : i + 1 \in 1..Len(Coming) /\ Coming'[i] = Coming[i + 1]
           /\ \A lost \in Seq(AnyMessage) :
                /\ Coming \o lost # << >> /\ Head(Coming \o lost) = Head(rbuf)
                /\ Tail(Coming \o lost) = Coming' \o lost
           /\ Unserved' = Unserved /\ issued' = issued
<1>1. rbuf \in Seq(AnyMessage) /\ inbox \in Seq(AnyMessage) /\ Coming \in Seq(AnyMessage)
  BY Streams
<1>2. rbuf # << >> /\ rbuf' = Tail(rbuf) /\ inbox' = inbox /\ Unserved' = Unserved /\ issued' = issued
  BY DEF Popping, Unserved
<1>3. /\ Coming # << >> /\ Head(Coming) = Head(rbuf) /\ Tail(Coming) = Tail(rbuf) \o inbox
  BY <1>1, <1>2, HeadConcat DEF Coming
<1>4. Coming' = Tail(Coming)
  BY <1>2, <1>3 DEF Coming
<1>5. /\ Head(Coming) \in AnyMessage /\ Head(Coming) = Coming[1] /\ Len(Coming) >= 1 /\ Len(Coming) \in Nat
      /\ Tail(Coming) \in Seq(AnyMessage) /\ Len(Tail(Coming)) = Len(Coming) - 1
      /\ \A i \in 1..(Len(Coming) - 1) : Tail(Coming)[i] = Coming[i + 1]
  BY <1>1, <1>3, HeadTailIs
<1>6. \A i \in 1..Len(Coming') : i + 1 \in 1..Len(Coming) /\ Coming'[i] = Coming[i + 1]
  BY <1>4, <1>5
<1>7. ASSUME NEW lost \in Seq(AnyMessage)
      PROVE  /\ Coming \o lost # << >> /\ Head(Coming \o lost) = Head(rbuf)
             /\ Tail(Coming \o lost) = Coming' \o lost
  BY <1>1, <1>3, <1>4, HeadConcat
<1>8. 1 \in 1..Len(Coming) /\ Coming[1] = Head(rbuf) /\ Head(rbuf) \in AnyMessage
  <2>1. 1 \in 1..Len(Coming)
    BY <1>5
  <2>2. Coming[1] = Head(rbuf)
    BY <1>3, <1>5
  <2>3. Head(rbuf) \in AnyMessage
    BY <1>3, <1>5, Zenon
  <2>4. QED
    BY <2>1, <2>2, <2>3
<1>9. QED
  BY <1>2, <1>3, <1>4, <1>6, <1>7, <1>8

LEMMA PopFull ==
    ASSUME Typed, Joint, Popping
    PROVE  /\ Full => Head(rbuf) = ERR0 /\ Full'
           /\ Head(rbuf) = ERR0 => Full
           /\ \A i \in 1..Len(Coming') : Coming'[i] # ERR0
           /\ conn' \notin {"connecting", "failed"}
<1>1. /\ Coming # << >> /\ Head(rbuf) \in AnyMessage /\ Coming[1] = Head(rbuf)
      /\ 1 \in 1..Len(Coming) /\ Coming' = Tail(Coming) /\ conn' = conn
      /\ \A i \in 1..Len(Coming') : i + 1 \in 1..Len(Coming) /\ Coming'[i] = Coming[i + 1]
  BY PopIs DEF Popping
<1>2. /\ (\E i \in 1..Len(Coming) : Coming[i] = ERR0) => Full
      /\ conn \in {"connecting", "failed"} => Coming = << >>
  BY DEF Joint, Flagged
<1>3. Full => Coming = <<ERR0>> /\ conn = "closed"
  BY <1>1 DEF Full
<1>4. Full => Coming' = << >> /\ Len(Coming') = 0 /\ conn' = "closed" /\ Head(rbuf) = ERR0
  BY <1>1, <1>3
<1>5. Full => Full'
  BY <1>4 DEF Full
<1>6. ASSUME NEW i \in 1..Len(Coming'), Coming'[i] = ERR0
      PROVE  FALSE
  <2>1. Full
    BY <1>1, <1>2, <1>6
  <2>2. QED
    BY <1>4, <1>6, <2>1
<1>7. QED
  BY <1>1, <1>2, <1>4, <1>5, <1>6

\* What comes by itself or answers a command says nothing about subscriptions.
LEMMA PopLogged ==
    ASSUME Typed, Joint, Popping, Head(rbuf).kind = "reply", UNCHANGED <<channels, patterns>>,
           (Sub' <=> Sub), (Mon' <=> Mon), Alive' => Alive,
           Reg' => /\ \A n : Has(replies', n) => Has(replies, n)
                   /\ \A n : Has(invalid', n) => Has(invalid, n)
                   /\ \A n : Waits(n)' <=> Waits(n) /\ (n = Head(rbuf).for => n = 0)
    PROVE  Logged' /\ Serves' /\ Flagged'
<1> DEFINE m == Head(rbuf)
<1>1. /\ m \in AnyMessage /\ Unserved' = Unserved /\ UNCHANGED <<issued, subs, monitors, conn>>
      /\ Holds' = Holds /\ Owes' = Owes
      /\ \A p \in BOOLEAN, k \in Keys : Entry(p, k)' = Entry(p, k) /\ Val(p, k)' = Val(p, k)
  BY PopIs, SameDicts DEF Popping
<1>2. Reg' => Reg
  BY PopFull DEF Reg
<1>3. PICK lost, L :
        /\ lost \in Seq(AnyMessage) /\ (conn # "closed" => lost = << >>)
        /\ LoggedBy(Coming \o lost, L)
  BY DEF Joint, Logged
<1>4. PICK C : C = Coming \o lost
  OBVIOUS
<1>5. PICK M : M = Tail(L)
  OBVIOUS
<1>6. C # << >> /\ Head(C) = m /\ Tail(C) = Coming' \o lost
  BY <1>3, <1>4, PopIs
<1>7. /\ IsLog(C, L) /\ L[Len(C) + 1] = subs
      /\ Balanced(C, L[1], issued, Unserved, Owes, Holds)
      /\ Reg => Matched(C, L, Unserved, issued, replies, invalid)
  BY <1>3, <1>4 DEF LoggedBy
<1>8. /\ IsLog(Tail(C), M) /\ Follows(m, L[1], M[1]) /\ M[Len(Tail(C)) + 1] = subs
      /\ C \in Seq(AnyMessage) /\ Tail(C) \in Seq(AnyMessage) /\ C = <<m>> \o Tail(C)
  <2>1. C \in Seq(AnyMessage)
    BY <1>7 DEF IsLog
  <2>2. QED
    BY <1>5, <1>6, <1>7, <2>1, LogPop, HeadTailIs
<1>9. M[1] = L[1]
  BY <1>8 DEF Follows
<1>10. \A k : AckCount(Tail(C), k) = AckCount(C, k)
  <2>1. SUFFICES ASSUME NEW k PROVE AckCount(Tail(C), k) = AckCount(C, k)
    OBVIOUS
  <2>2. m \notin AcksOf(k)
    BY DEF AcksOf
  <2>3. AckCount(C, k) = Among(AcksOf(k), <<m>>) + AckCount(Tail(C), k)
    <3>1. <<m>> \in Seq(AnyMessage)
      BY <1>1
    <3>2. QED
      BY <1>8, <3>1, AmongConcat DEF AckCount
  <2>4. Among(AcksOf(k), <<m>>) = 0
    BY <2>2, AmongOne
  <2>5. AckCount(Tail(C), k) \in Nat
    BY <1>8, AmongType DEF AckCount
  <2>6. QED
    BY <2>3, <2>4, <2>5
<1>11. Balanced(Tail(C), M[1], issued, Unserved, Owes, Holds)
  BY <1>7, <1>9, <1>10 DEF Balanced
<1>12. ASSUME Reg'
       PROVE  Matched(Tail(C), M, Unserved, issued, replies', invalid')
  <2>1. issued \in Seq(AnyCommand) /\ Unserved \in Seq(Nat) /\ Numbered(Unserved, issued)
    BY Streams DEF Joint, Serves
  <2>2. /\ \A n : Has(replies', n) => Has(replies, n)
        /\ \A n : Has(invalid', n) => Has(invalid, n)
        /\ \A n : Has(replies', n) \/ Has(invalid', n) <=>
                    (Has(replies, n) \/ Has(invalid, n)) /\ (n = Head(C).for => n = 0)
    BY <1>6, <1>12 DEF Waits
  <2>3. QED
    BY <1>2, <1>5, <1>6, <1>7, <1>12, <2>1, <2>2, MatchedPop
<1>13. LoggedBy(Coming \o lost, M)'
  BY <1>1, <1>6, <1>8, <1>11, <1>12 DEF LoggedBy
<1>14. Logged'
  BY <1>1, <1>3, <1>13 DEF Logged
<1>15. Serves'
  BY <1>1 DEF Joint, Serves
<1>16. Flagged'
  BY <1>1, PopFull DEF Joint, Flagged
<1>17. QED
  BY <1>14, <1>15, <1>16

LEMMA PopMonitored ==
    ASSUME Typed, Joint, Popping, (Mon' <=> Mon), (Sub' <=> Sub),
           Mon => /\ invalid' = << >> /\ \A n : Has(replies', n) => Has(replies, n)
                  /\ cb' = cb \/ Has(replies, cb'.id)
    PROVE  Monitored'
<1>1. /\ UNCHANGED <<issued, subs, monitors, conn>> /\ Unserved' = Unserved /\ Processing
      /\ \A i \in 1..Len(Coming') : i + 1 \in 1..Len(Coming) /\ Coming'[i] = Coming[i + 1]
  BY PopIs DEF Popping, Processing
<1>2. QED
  BY <1>1 DEF Joint, Monitored

LEMMA HasNat ==
    ASSUME NEW s \in Seq(AnyCallback), NEW n, Has(s, n)
    PROVE  n \in Nat
<1>1. PICK i \in DOMAIN s : s[i].id = n
  BY DEF Has
<1>2. s[i] \in AnyCallback
  OBVIOUS
<1>3. QED
  BY <1>1, <1>2 DEF AnyCallback

LEMMA JointEnds ==
    ASSUME Typed, Joint, Popping, Head(rbuf).kind = "reply", pc' = "free",
           flags' = flags \cup {"DISCONNECTING"},
           UNCHANGED <<replies, invalid, channels, patterns, cb, caller, run>>
    PROVE  Joint'
<1>1. (Sub' <=> Sub) /\ (Mon' <=> Mon) /\ ~Alive' /\ ~Reg'
  BY DEF Sub, Mon, Alive, Reg
<1>2. Logged' /\ Serves' /\ Flagged'
  BY <1>1, PopLogged
<1>3. Monitored'
  BY <1>1, PopMonitored DEF Joint, Monitored
<1>4. Ordered'
  BY <1>1, OtherOrdered DEF Popping
<1>5. Answered' /\ Counted' /\ NeverAborts'
  BY DEF Joint, Answered, Counted, NeverAborts
<1>6. QED
  BY <1>2, <1>3, <1>4, <1>5 DEF Joint

\* A reply while the context is not broken: it is for the first that waits.
LEMMA ReplyMatched ==
    ASSUME Typed, Joint, Reg, Popping, Head(rbuf).type # "BAD", Head(rbuf) # ERR0,
           Head(rbuf).kind = "reply" \/ (\E n \in Nat : Has(replies, n) /\ \A k : Waits(k) => n <= k)
    PROVE  /\ Head(rbuf).kind = "reply" /\ Head(rbuf).for \in Nat \ {0}
           /\ Waits(Head(rbuf).for) /\ \A n : Waits(n) => Head(rbuf).for <= n
<1>1. PICK lost, L :
        /\ lost \in Seq(AnyMessage) /\ (conn # "closed" => lost = << >>)
        /\ LoggedBy(Coming \o lost, L)
  BY DEF Joint, Logged
<1>2. PICK C : C = Coming \o lost
  OBVIOUS
<1>3. C # << >> /\ Head(C) = Head(rbuf)
  BY <1>1, <1>2, PopIs
<1>4. IsLog(C, L) /\ Matched(C, L, Unserved, issued, replies, invalid)
  BY <1>1, <1>2 DEF LoggedBy
<1>5. C[1] = Head(rbuf)
  BY <1>3, <1>4, LogPop
<1>6. issued \in Seq(AnyCommand) /\ Unserved \in Seq(Nat) /\ Numbered(Unserved, issued)
  BY Streams DEF Joint, Serves
<1>7. C[1].kind = "reply" \/ (\E n \in Nat : Has(replies, n)
                                /\ \A k : Has(replies, k) \/ Has(invalid, k) => n <= k)
  BY <1>5 DEF Waits
<1>8. /\ C[1].kind = "reply" /\ C[1].for \in Nat \ {0}
      /\ Has(replies, C[1].for) \/ Has(invalid, C[1].for)
      /\ \A n : Has(replies, n) \/ Has(invalid, n) => C[1].for <= n
  BY <1>3, <1>4, <1>5, <1>6, <1>7, MatchedHead
<1>9. QED
  BY <1>5, <1>8 DEF Waits

LEMMA JointTaken ==
    ASSUME Typed, Control, Joint, Popping, NEW c, Taken(c), cb' = c,
           RunCallback(c, Head(rbuf), "process", flags), UNCHANGED <<channels, patterns>>,
           Head(rbuf).type # "BAD", replies # << >> \/ Head(rbuf).kind = "reply"
    PROVE  Joint'
<1> DEFINE m == Head(rbuf)
<1>1. /\ Waits(c.id) /\ c \in AnyCallback /\ c.id \in Nat /\ c.pending_subs >= 0
      /\ \A n : (Has(replies', n) => Has(replies, n)) /\ (Has(invalid', n) => Has(invalid, n))
      /\ \A i \in DOMAIN replies' : replies'[i].pending_subs >= 0
      /\ \A i \in DOMAIN invalid' : invalid'[i].pending_subs >= 0
      /\ ~Mon =>
           /\ \A n : Waits(n)' <=> Waits(n) /\ n # c.id
           /\ \A n : Waits(n)' => c.id < n
  BY TakenIs
<1>2. Known(issued, c)
  BY <1>1, FromKnown DEF Taken, From, Control
<1>3. /\ \/ pc' = "callback" /\ caller' = "process" /\ run'.id = c.id /\ run'.reply = m
            /\ c.id \in DOMAIN issued /\ flags' = flags \cup {"IN_CALLBACK"}
         \/ pc' = "process" /\ flags' = flags
  BY <1>1, <1>2, RunIs
<1>4. (Sub' <=> Sub) /\ (Mon' <=> Mon) /\ Alive /\ Alive' /\ pc' # "aborted"
  BY <1>3 DEF Sub, Mon, Alive, Popping
<1>5. m.kind = "reply" /\ (m = ERR0 \/ m.for = c.id \/ (Mon /\ c.id = 0)) /\ (Reg => m.for = c.id)
  <2>1. /\ Coming[1] = m /\ 1 \in 1..Len(Coming)
        /\ Full => m = ERR0
        /\ m = ERR0 => Full
    BY PopIs, PopFull
  <2>2. ERR0.kind = "reply" /\ BAD.type = "BAD"
    BY DEF ERR0, BAD, Reply, Message
  <2>3. CASE Mon
    <3>1. m \in {BAD, ERR0, Reply("STATUS", Len(issued))} /\ invalid = << >>
          /\ \A n : Has(replies, n) => n \in {0, Len(issued)}
      BY <2>1, <2>3 DEF Joint, Monitored
    <3>2. c.id \in {0, Len(issued)}
      BY <1>1, <3>1 DEF Waits, Has
    <3>3. Reply("STATUS", Len(issued)).for = Len(issued) /\ Reply("STATUS", Len(issued)).kind = "reply"
      BY DEF Reply, Message
    <3>4. QED
      BY <2>2, <2>3, <3>1, <3>2, <3>3 DEF Reg
  <2>4. CASE ~Mon /\ Full
    BY <2>1, <2>2, <2>4 DEF Reg
  <2>5. CASE ~Mon /\ ~Full
    <3>1. Reg /\ m # ERR0
      BY <1>4, <2>1, <2>5 DEF Reg
    <3>2. \A k : Waits(k) => c.id <= k
      <4>1. ASSUME NEW k, Waits(k) PROVE c.id <= k
        <5>1. k = c.id \/ c.id < k
          BY <1>1, <2>5, <4>1
        <5>2. k = c.id => c.id <= k
          BY <1>1
        <5>3. c.id < k => c.id <= k
          <6>1. Waits(k) => k \in Nat
            BY Streams, HasNat DEF Waits
          <6>2. QED
            BY <1>1, <4>1, <6>1
        <5>4. QED
          BY <5>1, <5>2, <5>3
      <4>2. QED
        BY <4>1
    <3>3. replies # << >> => Has(replies, c.id)
      BY Streams, TailHas DEF Taken
    <3>4. m.kind = "reply" /\ m.for \in Nat \ {0} /\ Waits(m.for) /\ \A n : Waits(n) => m.for <= n
      BY <1>1, <3>1, <3>2, <3>3, ReplyMatched
    <3>5. m.for <= c.id /\ c.id <= m.for
      BY <1>1, <3>2, <3>4
    <3>6. m.for = c.id
      BY <1>1, <3>4, <3>5
    <3>7. QED
      BY <3>4, <3>6
  <2>6. QED
    BY <2>3, <2>4, <2>5
<1>6. Reg' => Reg
  BY <1>4, PopFull DEF Reg
<1>7. Reg => /\ ~Mon /\ c.id # 0
  <2>1. ~Mon /\ Waits(c.id) => IsRegular(issued, c.id)
    BY DEF Joint, Ordered
  <2>2. 0 \notin DOMAIN issued
    BY Streams
  <2>3. QED
    BY <1>1, <2>1, <2>2 DEF Reg, IsRegular
<1>8. Reg' => /\ \A n : Has(replies', n) => Has(replies, n)
              /\ \A n : Has(invalid', n) => Has(invalid, n)
              /\ \A n : Waits(n)' <=> Waits(n) /\ (n = Head(rbuf).for => n = 0)
  BY <1>1, <1>5, <1>6, <1>7
<1>9. Logged' /\ Serves' /\ Flagged'
  BY <1>4, <1>5, <1>8, PopLogged
<1>10. Monitored'
  <2>1. Mon => invalid = << >> /\ replies # << >> /\ invalid' = << >>
    BY DEF Joint, Monitored, Taken
  <2>2. Mon => Has(replies, cb'.id)
    BY <1>1, <2>1 DEF Waits, Has
  <2>3. QED
    BY <1>1, <1>4, <2>1, <2>2, PopMonitored
<1>11. Ordered'
  BY <1>3, <1>4, TakenOrdered DEF Popping
<1>12. Answered'
  <2>1. c.id \in DOMAIN issued => c.id # 0
    BY Streams
  <2>2. QED
    BY <1>3, <1>5, <2>1 DEF Answered
<1>13. Counted' /\ NeverAborts'
  BY <1>1, <1>4 DEF Counted, NeverAborts
<1>14. QED
  BY <1>9, <1>10, <1>11, <1>12, <1>13 DEF Joint

\* There is an entry for a message.
LEMMA ArrayHeld ==
    ASSUME Typed, Joint, Popping, Head(rbuf).type = "ARRAY"
    PROVE  Entry(Head(rbuf).p, Head(rbuf).name) # {}
<1> DEFINE m == Head(rbuf)
           k == Key(m)
<1>1. PICK lost, L :
        /\ lost \in Seq(AnyMessage) /\ (conn # "closed" => lost = << >>)
        /\ LoggedBy(Coming \o lost, L)
  BY DEF Joint, Logged
<1>2. PICK C : C = Coming \o lost
  OBVIOUS
<1>3. C # << >> /\ Head(C) = m /\ m \in AnyMessage
  BY <1>1, <1>2, PopIs
<1>4. IsLog(C, L) /\ Balanced(C, L[1], issued, Unserved, Owes, Holds)
  BY <1>1, <1>2 DEF LoggedBy
<1>5. C[1] = m /\ 1 \in 1..Len(C) /\ Follows(m, L[1], Tail(L)[1]) /\ C \in Seq(AnyMessage)
  BY <1>3, <1>4, LogPop DEF IsLog
<1>6. k \in Pairs /\ m.kind \in {"subscribe", "unsubscribe", "message"} /\ k[1] = m.p /\ k[2] = m.name
  BY <1>3, AnyMessageIs DEF Key
<1> HIDE DEF k
<1>7. k \in Holds
  <2>1. Owes[k] = SubCount(issued, Unserved, k) + AckCount(C, k) /\ (k \in Holds <=> Owes[k] > 0 \/ k \in L[1])
    BY <1>4, <1>6 DEF Balanced
  <2>2. CASE m.kind = "subscribe"
    <3>1. m \in AcksOf(k)
      BY <1>3, <1>6, <2>2 DEF AcksOf
    <3>2. Unserved \in Seq(Nat)
      BY Streams
    <3>3. AckCount(C, k) # 0 /\ AckCount(C, k) \in Nat /\ SubCount(issued, Unserved, k) \in Nat
      BY <1>5, <3>1, <3>2, CountsAre
    <3>4. QED
      BY <2>1, <3>3
  <2>3. CASE m.kind # "subscribe"
    <3>1. k \in L[1]
      BY <1>5, <1>6, <2>3 DEF Follows, k
    <3>2. QED
      BY <2>1, <3>1
  <2>4. QED
    BY <2>2, <2>3
<1>8. QED
  BY <1>6, <1>7 DEF Holds

\* Without entries nobody waits in the list of invalid commands.
LEMMA NoneInvalid ==
    ASSUME NEW C, NEW L, IsLog(C, L), NEW is \in Seq(Commands), NEW U \in Seq(Nat), Numbered(U, is),
           L[Len(C) + 1] = WantedIn(is, ServedOf(U, is)), Leaves(is),
           NEW owes, NEW holds, Balanced(C, L[1], is, U, owes, holds), holds = {},
           NEW R, NEW I, Matched(C, L, U, is, R, I), NEW n, Has(I, n)
    PROVE  FALSE
<1>1. /\ \A i \in 1..(Len(C) + 1) : L[i] = {}
      /\ \A k \in ServedOf(U, is)..Len(is) : WantedIn(is, k) = {}
  BY Unheld
<1>2. is \in Seq(AnyCommand)
  BY CommandsAre, SeqWiden
<1>3. /\ ServedOf(U, is) \in Nat /\ Len(is) \in Nat
      /\ n \in Range(U) => n \in (ServedOf(U, is) + 1)..Len(is)
  BY <1>2, NumberedIs
<1>4. /\ WantedIn(is, n - 1) # {}
      /\ n \in Range(U) \/ \E i \in 1..Len(C) : C[i].for = n /\ n # 0
      /\ \A i \in 1..Len(C) : C[i].for # 0 => L[i] = WantedIn(is, C[i].for - 1)
  BY DEF Matched
<1>5. CASE n \in Range(U)
  <2>1. n - 1 \in ServedOf(U, is)..Len(is)
    BY <1>3, <1>5
  <2>2. QED
    BY <1>1, <1>4, <2>1
<1>6. ASSUME NEW i \in 1..Len(C), C[i].for = n, n # 0
      PROVE  FALSE
  <2>1. Len(C) \in Nat
    BY DEF IsLog
  <2>2. i \in 1..(Len(C) + 1)
    BY <2>1
  <2>3. QED
    BY <1>1, <1>4, <1>6, <2>2
<1>7. QED
  BY <1>4, <1>5, <1>6

\* The dicts are used while there is an entry.
LEMMA UsedIs ==
    ASSUME NEW ch, NEW pa, IsDict(ch, AnyCallback), IsDict(pa, AnyCallback),
           NEW H, H = {k \in Pairs : dictFind(IF k[1] THEN pa ELSE ch, k[2]) # {}}
    PROVE  H = {} <=> ch.used = 0 /\ pa.used = 0
<1>1. /\ ch.used = 0 <=> \A k \in Keys : dictFind(ch, k) = {}
      /\ pa.used = 0 <=> \A k \in Keys : dictFind(pa, k) = {}
  BY EntriesFound
<1>2. H = {} <=> \A p \in BOOLEAN, k \in Keys : dictFind(IF p THEN pa ELSE ch, k) = {}
  <2>1. \A p \in BOOLEAN, k \in Keys : <<p, k>> \in Pairs /\ <<p, k>>[1] = p /\ <<p, k>>[2] = k
    BY DEF Pairs
  <2> DEFINE F(p, k) == dictFind(IF p THEN pa ELSE ch, k)
  <2>2. H = {k \in Pairs : F(k[1], k[2]) # {}}
    OBVIOUS
  <2> HIDE DEF F
  <2>3. ASSUME H = {}, NEW p \in BOOLEAN, NEW k \in Keys
        PROVE  F(p, k) = {}
    <3>1. <<p, k>> \notin H
      BY <2>3
    <3>2. QED
      BY <2>1, <2>2, <3>1
  <2>4. ASSUME \A p \in BOOLEAN, k \in Keys : F(p, k) = {}
        PROVE  H = {}
    BY <2>2, <2>4, PairIs
  <2>5. H = {} <=> \A p \in BOOLEAN, k \in Keys : F(p, k) = {}
    BY <2>3, <2>4
  <2>6. QED
    BY <2>5 DEF F
<1>3. QED
  BY <1>1, <1>2

\* What a message does to what the entries count.
LEMMA MessageCounts ==
    ASSUME Typed, NEW m \in AnyMessage, m.type = "ARRAY", Entry(m.p, m.name) # {},
           GetSubscribeCallback(m)
    PROVE  /\ Key(m) \in Pairs /\ Key(m) \in Holds
           /\ Owes'[Key(m)] = cb'.pending_subs
           /\ cb'.pending_subs = IF m.kind = "subscribe" THEN Owes[Key(m)] - 1 ELSE Owes[Key(m)]
           /\ Key(m) \in Holds' <=> ~(m.kind = "unsubscribe" /\ Owes'[Key(m)] = 0)
           /\ \A k \in Pairs \ {Key(m)} : Owes'[k] = Owes[k] /\ (k \in Holds' <=> k \in Holds)
           /\ \A p \in BOOLEAN, k \in Keys : Entry(p, k)' # {} =>
                Entry(p, k) # {} /\ (Val(p, k).id)' = Val(p, k).id
<1> DEFINE k0 == Key(m)
           E2(k) == IF k = k0 THEN IF Gone(m, cb') THEN {} ELSE {[key |-> m.name, val |-> cb']}
                    ELSE Entry(k[1], k[2])
<1>1. /\ m.p \in BOOLEAN /\ m.name \in Keys
      /\ cb'.id = Val(m.p, m.name).id
      /\ cb'.pending_subs = IF m.kind = "subscribe" THEN Val(m.p, m.name).pending_subs - 1
                             ELSE Val(m.p, m.name).pending_subs
      /\ \A p \in BOOLEAN, k \in Keys :
           Entry(p, k)' = IF p = m.p /\ k = m.name
                           THEN IF Gone(m, cb') THEN {} ELSE {[key |-> k, val |-> cb']}
                           ELSE Entry(p, k)
  BY MessageIs
<1>2. k0 \in Pairs /\ k0[1] = m.p /\ k0[2] = m.name
  BY <1>1 DEF Key, Pairs
<1>3. \A k \in Pairs : Entry(k[1], k[2])' = E2(k) /\ (k # k0 => Val(k[1], k[2])' = Val(k[1], k[2]))
  <2>1. SUFFICES ASSUME NEW k \in Pairs
                 PROVE  Entry(k[1], k[2])' = E2(k) /\ (k # k0 => Val(k[1], k[2])' = Val(k[1], k[2]))
    OBVIOUS
  <2>2. k[1] \in BOOLEAN /\ k[2] \in Keys /\ k = <<k[1], k[2]>>
    BY PairIs
  <2>3. k = k0 <=> k[1] = m.p /\ k[2] = m.name
    BY <2>2 DEF Key
  <2>4. Entry(k[1], k[2])' = E2(k)
    BY <1>1, <2>2, <2>3
  <2>5. k # k0 => Val(k[1], k[2])' = Val(k[1], k[2])
    <3>1. k # k0 => Entry(k[1], k[2])' = Entry(k[1], k[2])
      BY <2>4
    <3>2. QED
      BY <3>1 DEF Val
  <2>6. QED
    BY <2>4, <2>5
<1>4. ~Gone(m, cb') => Val(m.p, m.name)' = cb'
  <2>1. ~Gone(m, cb') => Entry(m.p, m.name)' = {[key |-> m.name, val |-> cb']}
    BY <1>1
  <2>2. QED
    BY <2>1, ValIs DEF Val
<1> HIDE DEF k0
<1>5. k0 \in Holds /\ Owes[k0] = Val(m.p, m.name).pending_subs
  BY <1>2 DEF Holds, Owes
<1>6. Owes'[k0] = (IF Gone(m, cb') THEN 0 ELSE cb'.pending_subs) /\ (k0 \in Holds' <=> ~Gone(m, cb'))
  <2>1. Entry(m.p, m.name)' = {} <=> Gone(m, cb')
    BY <1>1
  <2>2. k0 \in Holds' <=> Entry(m.p, m.name)' # {}
    BY <1>2 DEF Holds
  <2>3. Owes'[k0] = IF Entry(m.p, m.name)' = {} THEN 0 ELSE (Val(m.p, m.name).pending_subs)'
    BY <1>2 DEF Owes
  <2>4. QED
    BY <1>4, <2>1, <2>2, <2>3
<1>7. Owes'[k0] = cb'.pending_subs
  BY <1>6 DEF Gone
<1>8. \A k \in Pairs \ {k0} : Owes'[k] = Owes[k] /\ (k \in Holds' <=> k \in Holds)
  BY <1>3 DEF Owes, Holds
<1>9. ASSUME NEW p \in BOOLEAN, NEW k \in Keys, Entry(p, k)' # {}
      PROVE  Entry(p, k) # {} /\ (Val(p, k).id)' = Val(p, k).id
  <2>1. CASE p = m.p /\ k = m.name
    <3>1. ~Gone(m, cb')
      BY <1>1, <1>9, <2>1
    <3>2. QED
      BY <1>1, <1>4, <2>1, <3>1
  <2>2. CASE ~(p = m.p /\ k = m.name)
    <3>1. Entry(p, k)' = Entry(p, k)
      BY <1>1, <2>2
    <3>2. QED
      BY <1>9, <3>1 DEF Val
  <2>3. QED
    BY <2>1, <2>2
<1>10. k0 \in Holds' <=> ~(m.kind = "unsubscribe" /\ Owes'[k0] = 0)
  BY <1>6, <1>7 DEF Gone
<1>11. QED
  BY <1>1, <1>2, <1>5, <1>7, <1>8, <1>9, <1>10 DEF k0

\* What a message m does to counts.
Adjusts(m, owes, holds, owes2, holds2) ==
    LET k0 == Key(m) IN
    /\ m.type = "ARRAY" /\ k0 \in Pairs /\ k0 \in holds
    /\ owes2[k0] = IF m.kind = "subscribe" THEN owes[k0] - 1 ELSE owes[k0]
    /\ k0 \in holds2 <=> ~(m.kind = "unsubscribe" /\ owes2[k0] = 0)
    /\ \A k \in Pairs \ {k0} : owes2[k] = owes[k] /\ (k \in holds2 <=> k \in holds)

\* The counts go on to say how many replies to SUBSCRIBE are to come.
LEMMA BalancedPop ==
    ASSUME NEW C, NEW L, IsLog(C, L), C # << >>, NEW is, NEW U \in Seq(Nat),
           NEW owes, NEW holds, Balanced(C, L[1], is, U, owes, holds),
           NEW owes2, NEW holds2, Adjusts(Head(C), owes, holds, owes2, holds2)
    PROVE  Balanced(Tail(C), Tail(L)[1], is, U, owes2, holds2)
<1> DEFINE m == Head(C)
           k0 == Key(m)
<1>0. /\ m.type = "ARRAY" /\ k0 \in Pairs /\ k0 \in holds
      /\ owes2[k0] = IF m.kind = "subscribe" THEN owes[k0] - 1 ELSE owes[k0]
      /\ k0 \in holds2 <=> ~(m.kind = "unsubscribe" /\ owes2[k0] = 0)
      /\ \A k \in Pairs \ {k0} : owes2[k] = owes[k] /\ (k \in holds2 <=> k \in holds)
  BY DEF Adjusts
<1>1. /\ IsLog(Tail(C), Tail(L)) /\ Follows(m, L[1], Tail(L)[1]) /\ m \in AnyMessage
  BY LogPop
<1>2. C \in Seq(AnyMessage) /\ Tail(C) \in Seq(AnyMessage) /\ C = <<m>> \o Tail(C)
  <2>1. C \in Seq(AnyMessage) /\ Tail(C) \in Seq(AnyMessage)
    BY <1>1 DEF IsLog
  <2>2. QED
    BY <2>1, HeadTailIs
<1>3. m.kind \in {"subscribe", "unsubscribe", "message"}
  BY <1>0, <1>1, AnyMessageIs
<1>4. PICK after : after = Tail(L)[1]
  OBVIOUS
<1>5. ASSUME NEW k \in Pairs
      PROVE  /\ AckCount(C, k) = AckCount(Tail(C), k) + (IF k = k0 /\ m.kind = "subscribe" THEN 1 ELSE 0)
             /\ AckCount(Tail(C), k) \in Nat /\ SubCount(is, U, k) \in Nat
  <2>1. AckCount(C, k) = Among(AcksOf(k), <<m>>) + AckCount(Tail(C), k)
    <3>1. <<m>> \in Seq(AnyMessage)
      BY <1>1
    <3>2. QED
      BY <1>2, <3>1, AmongConcat DEF AckCount
  <2>2. m \in AcksOf(k) <=> k = k0 /\ m.kind = "subscribe"
    <3>1. k = <<k[1], k[2]>>
      BY PairIs
    <3>2. k = k0 <=> m.p = k[1] /\ m.name = k[2]
      BY <3>1 DEF Key
    <3>3. QED
      BY <1>1, <3>2 DEF AcksOf
  <2>3. Among(AcksOf(k), <<m>>) = IF k = k0 /\ m.kind = "subscribe" THEN 1 ELSE 0
    BY <2>2, AmongOne
  <2>4. AckCount(Tail(C), k) \in Nat /\ SubCount(is, U, k) \in Nat
    BY <1>2, CountsAre
  <2>5. QED
    BY <2>1, <2>3, <2>4
<1>6. ASSUME NEW k \in Pairs
      PROVE  /\ owes2[k] = SubCount(is, U, k) + AckCount(Tail(C), k)
             /\ k \in holds2 <=> owes2[k] > 0 \/ k \in after
  <2>1. /\ owes[k] = SubCount(is, U, k) + AckCount(C, k)
        /\ k \in holds <=> owes[k] > 0 \/ k \in L[1]
    BY DEF Balanced
  <2>2. /\ m.kind = "subscribe" => after = L[1] \cup {k0}
        /\ m.kind = "unsubscribe" => k0 \in L[1] /\ after = L[1] \ {k0}
        /\ m.kind = "message" => k0 \in L[1] /\ after = L[1]
    BY <1>1, <1>4 DEF Follows
  <2>3. owes2[k] = SubCount(is, U, k) + AckCount(Tail(C), k)
    BY <1>0, <1>5, <2>1
  <2>4. PICK x \in Nat : x = owes2[k]
    BY <1>5, <2>3
  <2> HIDE DEF m
  <2>5. CASE k = k0
    <3>1. k0 \in holds2 <=> ~(m.kind = "unsubscribe" /\ owes2[k0] = 0)
      BY <1>0 DEF m
    <3>2. m.kind = "unsubscribe" => k0 \notin after
      BY <2>2
    <3>3. m.kind # "unsubscribe" => k0 \in after
      BY <1>3, <2>2
    <3>4. x # 0 <=> x > 0
      BY <2>4
    <3>5. k \in holds2 <=> x > 0 \/ k \in after
      BY <2>4, <2>5, <3>1, <3>2, <3>3, <3>4
    <3>6. QED
      BY <2>3, <2>4, <3>5
  <2>6. CASE k # k0
    <3>1. k \in after <=> k \in L[1]
      BY <1>3, <2>2, <2>6
    <3>2. owes2[k] = owes[k] /\ (k \in holds2 <=> k \in holds)
      BY <1>0, <2>6
    <3>3. k \in holds2 <=> x > 0 \/ k \in after
      BY <2>1, <2>4, <3>1, <3>2
    <3>4. QED
      BY <2>3, <2>4, <3>3
  <2>7. QED
    BY <2>3, <2>5, <2>6
<1>7. QED
  BY <1>4, <1>6 DEF Balanced

\* A message runs the callback of its key.
LEMMA JointMessage ==
    ASSUME Typed, Control, Joint, Popping, Head(rbuf).type = "ARRAY", replies = << >>, UNCHANGED replies,
           Sub, GetSubscribeCallback(Head(rbuf))
    PROVE  Joint'
<1> DEFINE m == Head(rbuf)
           k0 == Key(m)
           ends == m.kind = "unsubscribe" /\ m.count = 0 /\ channels'.used = 0 /\ patterns'.used = 0
<1>1. m \in AnyMessage /\ Entry(m.p, m.name) # {} /\ UNCHANGED <<issued, subs, monitors, conn, done>>
      /\ Unserved' = Unserved
  BY PopIs, ArrayHeld DEF Popping
<1>2. /\ m.p \in BOOLEAN /\ m.name \in Keys /\ m.kind \in {"subscribe", "unsubscribe", "message"}
      /\ cb' \in AnyCallback /\ cb'.fn = Val(m.p, m.name).fn /\ cb'.id = Val(m.p, m.name).id
      /\ RunCallback(cb', m, "process", Unsubscribed(m, channels', patterns'))
      /\ UNCHANGED invalid
      /\ IsDict(channels', AnyCallback) /\ IsDict(patterns', AnyCallback)
  BY <1>1, MessageIs
<1>3. /\ k0 \in Pairs /\ k0 \in Holds
      /\ Owes'[k0] = cb'.pending_subs
      /\ cb'.pending_subs = IF m.kind = "subscribe" THEN Owes[k0] - 1 ELSE Owes[k0]
      /\ k0 \in Holds' <=> ~(m.kind = "unsubscribe" /\ Owes'[k0] = 0)
      /\ \A k \in Pairs \ {k0} : Owes'[k] = Owes[k] /\ (k \in Holds' <=> k \in Holds)
      /\ \A p \in BOOLEAN, k \in Keys : Entry(p, k)' # {} =>
           Entry(p, k) # {} /\ (Val(p, k).id)' = Val(p, k).id
  BY <1>1, MessageCounts
<1> DEFINE id == Val(m.p, m.name).id
<1>4. /\ id \in DOMAIN issued /\ issued[id].kind = "SUBSCRIBE" /\ About(issued[id], m.p, m.name)
  BY <1>1, <1>2 DEF Joint, Flagged
<1>5. /\ flags' \in {Unsubscribed(m, channels', patterns'),
                     Unsubscribed(m, channels', patterns') \cup {"IN_CALLBACK"}}
      /\ \/ pc' = "callback" /\ caller' = "process" /\ run' = [id |-> id, reply |-> m]
         \/ pc' = "process"
  BY <1>2 DEF RunCallback
<1>6. ~Mon /\ Alive /\ Alive' /\ ~Full /\ Reg
  <2>1. ~Mon
    BY DEF Joint, Monitored
  <2>2. Alive /\ Alive'
    BY <1>5 DEF Alive, Popping
  <2>3. ERR0.type = "ERROR"
    BY DEF ERR0, Reply, Message
  <2>4. ~Full
    BY <2>3, PopFull
  <2>5. QED
    BY <2>1, <2>2, <2>4 DEF Reg
<1>7. ~Mon' /\ (Sub' <=> ~ends)
  <2>1. /\ Unsubscribed(m, channels', patterns') \subseteq flags
        /\ "SUBSCRIBED" \in Unsubscribed(m, channels', patterns') <=> ~ends
    BY DEF Unsubscribed, Sub
  <2>2. QED
    BY <1>5, <1>6, <2>1 DEF Mon, Sub
<1>8. Holds' = {} <=> channels'.used = 0 /\ patterns'.used = 0
  <2>1. Holds' = {k \in Pairs : dictFind(IF k[1] THEN patterns' ELSE channels', k[2]) # {}}
    BY DEF Holds, Entry, DictOf
  <2>2. QED
    BY <1>2, <2>1, UsedIs
<1> HIDE DEF k0, id
<1>9. PICK lost, L :
        /\ lost \in Seq(AnyMessage) /\ (conn # "closed" => lost = << >>)
        /\ LoggedBy(Coming \o lost, L)
  BY DEF Joint, Logged
<1>10. PICK C : C = Coming \o lost
  OBVIOUS
<1>11. PICK M : M = Tail(L)
  OBVIOUS
<1>12. PICK D : D = Tail(C)
  OBVIOUS
<1>13. C # << >> /\ Head(C) = m /\ D = Coming' \o lost
  BY <1>9, <1>10, <1>12, PopIs
<1>14. /\ IsLog(C, L) /\ L[Len(C) + 1] = subs
       /\ Balanced(C, L[1], issued, Unserved, Owes, Holds)
       /\ Matched(C, L, Unserved, issued, replies, invalid)
  BY <1>6, <1>9, <1>10 DEF LoggedBy
<1>15. /\ IsLog(D, M) /\ Follows(m, L[1], M[1]) /\ M[Len(D) + 1] = subs
  <2>1. /\ IsLog(Tail(C), Tail(L)) /\ Follows(Head(C), L[1], Tail(L)[1])
        /\ Tail(L)[Len(Tail(C)) + 1] = L[Len(C) + 1]
    BY <1>13, <1>14, LogPop
  <2>2. QED
    BY <1>11, <1>12, <1>13, <1>14, <2>1
<1>16. /\ issued \in Seq(AnyCommand) /\ issued \in Seq(Commands) /\ Unserved \in Seq(Nat)
       /\ Numbered(Unserved, issued) /\ subs = WantedIn(issued, ServedOf(Unserved, issued))
       /\ Leaves(issued)
  BY Streams DEF Joint, Serves
<1>17. Balanced(D, M[1], issued, Unserved, Owes', Holds')
  <2>1. /\ k0 = Key(Head(C)) /\ Head(C).type = "ARRAY" /\ k0 \in Holds
        /\ Owes'[k0] = IF Head(C).kind = "subscribe" THEN Owes[k0] - 1 ELSE Owes[k0]
        /\ k0 \in Holds' <=> ~(Head(C).kind = "unsubscribe" /\ Owes'[k0] = 0)
    BY <1>3, <1>13 DEF k0
  <2>2. \A k \in Pairs \ {k0} : Owes'[k] = Owes[k] /\ (k \in Holds' <=> k \in Holds)
    BY <1>3
  <2>3. PICK owes : owes = Owes'
    OBVIOUS
  <2>4. PICK holds : holds = Holds'
    OBVIOUS
  <2>5. Balanced(Tail(C), Tail(L)[1], issued, Unserved, owes, holds)
    <3>1. /\ owes[k0] = IF Head(C).kind = "subscribe" THEN Owes[k0] - 1 ELSE Owes[k0]
          /\ k0 \in holds <=> ~(Head(C).kind = "unsubscribe" /\ owes[k0] = 0)
          /\ \A k \in Pairs \ {k0} : owes[k] = Owes[k] /\ (k \in holds <=> k \in Holds)
          /\ k0 = Key(Head(C)) /\ Head(C).type = "ARRAY" /\ k0 \in Holds /\ k0 \in Pairs
      BY <1>3, <2>1, <2>2, <2>3, <2>4
    <3>2. C # << >> /\ IsLog(C, L) /\ Unserved \in Seq(Nat)
          /\ Balanced(C, L[1], issued, Unserved, Owes, Holds)
      BY <1>13, <1>14, <1>16
    <3>3. Adjusts(Head(C), Owes, Holds, owes, holds)
      BY <3>1 DEF Adjusts
    <3>4. QED
      BY <3>2, <3>3, BalancedPop
  <2>6. QED
    BY <1>11, <1>12, <2>3, <2>4, <2>5
<1>18. Matched(D, M, Unserved, issued, replies, invalid)
  <2>1. m.for = 0
    BY <1>1, AnyMessageIs
  <2>2. \A n : Has(replies, n) \/ Has(invalid, n) <=>
                 (Has(replies, n) \/ Has(invalid, n)) /\ (n = Head(C).for => n = 0)
    BY <1>13, <2>1
  <2>3. Matched(Tail(C), Tail(L), Unserved, issued, replies, invalid)
    BY <1>13, <1>14, <1>16, <2>2, MatchedPop
  <2>4. QED
    BY <1>11, <1>12, <2>3
<1>19. Logged'
  <2>1. LoggedBy(Coming \o lost, M)'
    BY <1>1, <1>2, <1>13, <1>15, <1>17, <1>18 DEF LoggedBy
  <2>2. QED
    BY <1>1, <1>9, <2>1 DEF Logged
<1>20. Sub' <=> Holds' # {}
  <2>1. ASSUME Sub', Holds' = {}
        PROVE  FALSE
    <3>1. m.kind = "unsubscribe"
      BY <1>3, <2>1
    <3>2. M[1] = {}
      <4>1. \A k \in Pairs : k \notin M[1]
        BY <1>17, <2>1 DEF Balanced
      <4>2. 1 \in 1..(Len(D) + 1) /\ M \in Seq(SUBSET Pairs) /\ Len(M) = Len(D) + 1
        <5>1. Len(D) \in Nat
          BY <1>15 DEF IsLog
        <5>2. QED
          BY <1>15, <5>1 DEF IsLog
      <4>3. M[1] \subseteq Pairs
        BY <4>2
      <4>4. QED
        BY <4>1, <4>3
    <3>3. m.count = 0
      BY <1>15, <3>1, <3>2 DEF Follows
    <3>4. QED
      BY <1>7, <1>8, <2>1, <3>1, <3>3
  <2>2. ~Sub' => Holds' = {}
    BY <1>7, <1>8
  <2>3. QED
    BY <2>1, <2>2
<1>21. Serves'
  BY <1>1 DEF Joint, Serves
<1>22. Flagged'
  <2>1. \A p \in BOOLEAN, k \in Keys : Entry(p, k)' # {} =>
          /\ Val(p, k)'.id \in DOMAIN issued' /\ issued'[Val(p, k)'.id].kind = "SUBSCRIBE"
          /\ About(issued'[Val(p, k)'.id], p, k)
    BY <1>1, <1>3 DEF Joint, Flagged
  <2>2. QED
    BY <1>20, <2>1, PopFull DEF Flagged
<1>23. Monitored'
  BY <1>1, <1>6, <1>7 DEF Joint, Monitored
<1>24. Ordered'
  <2>1. ASSUME ~Sub', invalid # << >>
        PROVE  FALSE
    <3>1. Holds' = {}
      BY <1>20, <2>1
    <3>2. Has(invalid, Head(invalid).id)
      BY <2>1, Streams, TailHas
    <3>3. M[Len(D) + 1] = WantedIn(issued, ServedOf(Unserved, issued))
      BY <1>15, <1>16
    <3>4. QED
      BY <1>15, <1>16, <1>17, <1>18, <3>1, <3>2, <3>3, NoneInvalid
  <2>2. ~IsRegular(issued, id)
    BY <1>4 DEF IsRegular
  <2>3. QED
    BY <1>1, <1>2, <1>5, <1>6, <1>7, <2>1, <2>2, OtherOrdered
<1>25. Answered'
  BY <1>1, <1>4, <1>5 DEF Answered, About
<1>26. Counted'
  <2>1. cb'.pending_subs >= 0
    <3>1. Owes'[k0] = SubCount(issued, Unserved, k0) + AckCount(D, k0)
      BY <1>3, <1>17 DEF Balanced
    <3>2. SubCount(issued, Unserved, k0) \in Nat /\ AckCount(D, k0) \in Nat
      BY <1>15, <1>16, CountsAre DEF IsLog
    <3>3. QED
      BY <1>3, <3>1, <3>2
  <2>2. QED
    BY <1>2, <2>1 DEF Joint, Counted
<1>27. NeverAborts'
  BY <1>5 DEF NeverAborts
<1>28. QED
  BY <1>19, <1>21, <1>22, <1>23, <1>24, <1>25, <1>26, <1>27 DEF Joint

LEMMA JointProcessReply ==
    ASSUME Typed, Control, Joint, ProcessReply
    PROVE  Joint'
<1> DEFINE m == Head(rbuf)
<1>1. Popping
  BY DEF ProcessReply, Popping, network, server, history
<1>2. /\ m \in AnyMessage /\ pc = "process"
      /\ m.type \in {"ARRAY", "STATUS", "ERROR", "BAD"} /\ (m.type # "ARRAY" => m.kind = "reply")
  BY <1>1, PopIs, AnyMessageIs DEF Popping
<1>3. CASE m.type = "BAD"
  <2>1. /\ AsyncDisconnect("PROTOCOL", flags)
        /\ UNCHANGED <<replies, invalid, channels, patterns, cb, caller, run>>
    BY <1>3 DEF ProcessReply
  <2>2. pc' = "free" /\ flags' = flags \cup {"DISCONNECTING"}
    BY <2>1 DEF AsyncDisconnect
  <2>3. m.kind = "reply"
    BY <1>2, <1>3
  <2>4. QED
    BY <1>1, <2>1, <2>2, <2>3, JointEnds
<1>4. CASE m.type # "BAD" /\ replies # << >>
  <2>1. /\ replies' = Tail(replies) /\ cb' = Head(replies)
        /\ RunCallback(cb', m, "process", flags)
        /\ UNCHANGED <<err, invalid, channels, patterns>>
    BY <1>4 DEF ProcessReply
  <2>2. PICK c : c = Head(replies)
    OBVIOUS
  <2>3. Taken(c) /\ cb' = c /\ RunCallback(c, m, "process", flags)
    BY <1>4, <2>1, <2>2 DEF Taken
  <2>4. QED
    BY <1>1, <1>4, <2>1, <2>3, JointTaken
<1>5. CASE m.type = "ERROR" /\ replies = << >>
  <2>1. /\ AsyncDisconnect("OTHER", flags)
        /\ UNCHANGED <<replies, invalid, channels, patterns, cb, caller, run>>
    BY <1>5 DEF ProcessReply
  <2>2. pc' = "free" /\ flags' = flags \cup {"DISCONNECTING"}
    BY <2>1 DEF AsyncDisconnect
  <2>3. m.kind = "reply"
    BY <1>2, <1>5
  <2>4. QED
    BY <1>1, <2>1, <2>2, <2>3, JointEnds
<1>6. CASE m.type \in {"ARRAY", "STATUS"} /\ replies = << >>
  <2>1. ERR0.type = "ERROR" /\ m # ERR0 /\ m.type # "BAD" /\ m.type # "ERROR"
    BY <1>6 DEF ERR0, Reply, Message
  <2>2. Alive /\ ~Full /\ Coming[1] = m /\ 1 \in 1..Len(Coming)
    BY <1>1, <1>2, <2>1, PopFull, PopIs DEF Alive
  <2>3. CASE Mon
    <3>1. /\ m \in {BAD, ERR0, Reply("STATUS", Len(issued))} /\ ~Sub /\ invalid = << >>
          /\ cb.id \in {0, Len(issued)}
      BY <1>2, <2>2, <2>3 DEF Joint, Monitored, Processing
    <3>2. m = Reply("STATUS", Len(issued)) /\ m.for = Len(issued) /\ m.kind = "reply"
      BY <2>1, <3>1 DEF BAD, Reply, Message
    <3>3. /\ RunCallback(cb, m, "process", flags)
          /\ UNCHANGED <<replies, invalid, channels, patterns, cb>>
      BY <1>6, <2>1, <2>3, <3>1 DEF ProcessReply, Mon, Sub
    <3>4. cb \in AnyCallback /\ Known(issued, cb)
      BY Streams DEF Control, AllKnown
    <3>5. /\ \/ pc' = "callback" /\ caller' = "process" /\ run'.id = cb.id /\ run'.reply = m
                /\ cb.id \in DOMAIN issued /\ flags' = flags \cup {"IN_CALLBACK"}
             \/ pc' = "process" /\ flags' = flags
      <4>1. run' = [id |-> cb.id, reply |-> m] => run'.reply = m
        OBVIOUS
      <4>2. QED
        BY <3>3, <3>4, <4>1, RunIs
    <3>6. (Sub' <=> Sub) /\ (Mon' <=> Mon) /\ Alive' /\ pc' # "aborted" /\ ~Reg'
      BY <2>3, <3>5 DEF Sub, Mon, Alive, Reg
    <3>7. Logged' /\ Serves' /\ Flagged'
      BY <1>1, <2>2, <3>2, <3>3, <3>6, PopLogged
    <3>8. Monitored'
      BY <1>1, <3>1, <3>3, <3>6, PopMonitored
    <3>9. 0 \notin DOMAIN issued /\ issued[Len(issued)].kind = "MONITOR"
      BY <2>3, Streams DEF Joint, Monitored
    <3>10. Ordered'
      <4>1. ~IsRegular(issued, cb.id)
        BY <3>1, <3>9 DEF IsRegular
      <4>2. pc' = "callback" => ~IsRegular(issued, run'.id)
        BY <3>5, <4>1
      <4>3. UNCHANGED <<issued, done>>
        BY <1>1 DEF Popping
      <4>4. QED
        BY <3>1, <3>3, <3>6, <4>2, <4>3, OtherOrdered
    <3>11. Answered'
      BY <3>1, <3>2, <3>5, <3>9 DEF Answered
    <3>12. Counted' /\ NeverAborts'
      BY <3>3, <3>6 DEF Joint, Counted, NeverAborts
    <3>13. QED
      BY <3>7, <3>8, <3>10, <3>11, <3>12 DEF Joint
  <2>4. CASE ~Mon
    <3>1. Reg
      BY <2>2, <2>4 DEF Reg
    <3>2. CASE m.type = "ARRAY"
      <4>1. Sub
        <5>1. Entry(m.p, m.name) # {} /\ Key(m) \in Pairs /\ Key(m)[1] = m.p /\ Key(m)[2] = m.name
          BY <1>1, <1>2, <3>2, ArrayHeld, AnyMessageIs DEF Key
        <5>2. Key(m) \in Holds
          BY <5>1 DEF Holds
        <5>3. QED
          BY <5>2 DEF Joint, Flagged
      <4>2. GetSubscribeCallback(m) /\ UNCHANGED replies
        BY <1>6, <2>1, <4>1 DEF ProcessReply, Sub
      <4>3. QED
        BY <1>1, <1>6, <3>2, <4>1, <4>2, JointMessage
    <3>3. CASE m.type = "STATUS"
      <4>1. m.kind = "reply"
        BY <1>2, <3>3
      <4>2. Waits(m.for)
        BY <1>1, <2>1, <3>1, <4>1, ReplyMatched
      <4>3. invalid # << >>
        BY <1>6, <4>2 DEF Waits, Has
      <4>4. Sub
        BY <2>2, <4>3 DEF Joint, Ordered
      <4>5. GetSubscribeCallback(m) /\ UNCHANGED replies
        BY <1>6, <2>1, <4>4 DEF ProcessReply, Sub
      <4>6. /\ cb' = Head(invalid) /\ invalid' = Tail(invalid)
            /\ RunCallback(cb', m, "process", flags) /\ UNCHANGED <<channels, patterns>>
        BY <3>3, <4>3, <4>5 DEF GetSubscribeCallback
      <4>7. PICK c : c = Head(invalid)
        OBVIOUS
      <4>8. Taken(c) /\ cb' = c /\ RunCallback(c, m, "process", flags)
        BY <1>6, <4>3, <4>5, <4>6, <4>7 DEF Taken
      <4>9. QED
        BY <1>1, <2>1, <4>1, <4>6, <4>8, JointTaken
    <3>4. QED
      BY <1>6, <3>2, <3>3
  <2>5. QED
    BY <2>3, <2>4
<1>7. QED
  BY <1>2, <1>3, <1>4, <1>5, <1>6

-----------------------------------------------------------------------------
(* A command is issued.                                                     *)

LEMMA WantsIs ==
    ASSUME NEW p \in BOOLEAN, NEW k \in Keys
    PROVE  Wants(p, k) <=> <<p, k>> \in WantedIn(issued, Len(issued))
<1>1. <<p, k>> \in Pairs /\ <<p, k>>[1] = p /\ <<p, k>>[2] = k
  BY DEF Pairs
<1>2. QED
  BY <1>1 DEF Wants, WantedAfter, WantedIn

LEMMA WantsNoneIs == WantsNone <=> WantedIn(issued, Len(issued)) = {}
<1>1. WantedIn(issued, Len(issued)) \subseteq Pairs
  BY DEF WantedIn
<1>2. \A p \in BOOLEAN, k \in Keys : Wants(p, k) <=> <<p, k>> \in WantedIn(issued, Len(issued))
  BY WantsIs
<1>3. \A k \in Pairs : k[1] \in BOOLEAN /\ k[2] \in Keys /\ k = <<k[1], k[2]>>
  BY PairIs
<1>4. ASSUME WantsNone, NEW k \in WantedIn(issued, Len(issued))
      PROVE  FALSE
  <2>1. k[1] \in BOOLEAN /\ k[2] \in Keys /\ k = <<k[1], k[2]>>
    BY <1>1, <1>3, <1>4
  <2>2. ~Wants(k[1], k[2])
    BY <1>4, <2>1 DEF WantsNone
  <2>3. QED
    BY <1>2, <1>4, <2>1, <2>2
<1>5. WantedIn(issued, Len(issued)) = {} => WantsNone
  BY <1>2 DEF WantsNone
<1>6. QED
  BY <1>4, <1>5

\* The commands, and those that Redis has not served, with one more.
LEMMA IssuedIs ==
    ASSUME Typed, Joint, NEW c \in Commands, Command(c)
    PROVE  /\ \A n \in 0..Len(issued) : WantedIn(issued', n) = WantedIn(issued, n)
           /\ \A n : IsRegular(issued', n) <=>
                IsRegular(issued, n) \/ (n = CommandId /\ c.kind \in {"GET", "QUIT"})
           /\ Unserved' = Unserved \o <<CommandId>>
           /\ \A n : n \in Range(Unserved') <=> n \in Range(Unserved) \/ n = CommandId
           /\ \A n \in Range(Unserved) : n \in DOMAIN issued
           /\ Numbered(Unserved', issued') /\ ServedOf(Unserved', issued') = ServedOf(Unserved, issued)
<1>1. /\ Len(issued) \in Nat /\ CommandId \in Nat \ {0} /\ CommandId = Len(issued) + 1
      /\ issued' = Append(issued, c) /\ issued' \in Seq(Commands) /\ Len(issued') = CommandId
      /\ DOMAIN issued' = 1..CommandId /\ issued'[CommandId] = c
      /\ \A n \in DOMAIN issued : n \in 1..Len(issued) /\ n \in DOMAIN issued' /\ issued'[n] = issued[n]
      /\ obuf' = obuf \o <<CommandId>> /\ wire' = wire
  BY CommandIs DEF Command, network
<1>2. /\ issued \in Seq(AnyCommand) /\ DOMAIN issued = 1..Len(issued) /\ Unserved \in Seq(Nat)
      /\ wire \in Seq(Nat) /\ obuf \in Seq(Nat) /\ Numbered(Unserved, issued)
  BY Streams DEF Joint, Serves
<1> DEFINE U == Unserved
           N == Len(issued)
           id == CommandId
<1>3. U \o <<id>> = wire \o (obuf \o <<id>>)
  <2>1. <<id>> \in Seq(Nat)
    BY <1>1
  <2>2. QED
    BY <1>2, <2>1, ConcatAssociative DEF Unserved
<1>4. Unserved' = U \o <<id>>
  BY <1>1, <1>3 DEF Unserved
<1>5. ASSUME NEW n \in 0..N
      PROVE  WantedIn(issued', n) = WantedIn(issued, n)
  <2>1. n \in Nat /\ \A i \in 1..n : issued[i] = issued'[i]
    BY <1>1, <1>2
  <2>2. QED
    BY <2>1, WantedPrefix
<1>6. ASSUME NEW n
      PROVE  IsRegular(issued', n) <=> IsRegular(issued, n) \/ (n = id /\ c.kind \in {"GET", "QUIT"})
  <2>1. n \in DOMAIN issued' <=> n \in DOMAIN issued \/ n = id
    BY <1>1, <1>2
  <2>2. id \notin DOMAIN issued
    BY <1>1, <1>2
  <2>3. QED
    BY <1>1, <2>1, <2>2 DEF IsRegular
<1> HIDE DEF U, id
<1>7. /\ Len(U \o <<id>>) = Len(U) + 1 /\ Len(U) \in Nat
      /\ \A i \in 1..Len(U) : (U \o <<id>>)[i] = U[i]
      /\ (U \o <<id>>)[Len(U) + 1] = id
      /\ DOMAIN (U \o <<id>>) = 1..(Len(U) + 1) /\ DOMAIN U = 1..Len(U)
  <2>1. U \in Seq(Nat) /\ id \in Nat
    BY <1>1, <1>2 DEF U, id
  <2>2. U \o <<id>> = Append(U, id)
    BY <2>1, AppendIsConcat
  <2>3. QED
    BY <2>1, <2>2, AppendProperties
<1>8. \A n : n \in Range(U \o <<id>>) <=> n \in Range(U) \/ n = id
  <2>1. \A i \in 1..(Len(U) + 1) : i \in 1..Len(U) \/ i = Len(U) + 1
    BY <1>7
  <2>2. Len(U) + 1 \in 1..(Len(U) + 1) /\ \A i \in 1..Len(U) : i \in 1..(Len(U) + 1)
    BY <1>7
  <2>3. QED
    BY <1>7, <2>1, <2>2 DEF Range
<1>9. \A n \in Range(U) : n \in DOMAIN issued
  <2>1. \A n \in Range(U) : n \in (ServedOf(U, issued) + 1)..N
    BY <1>2, NumberedIs DEF U
  <2>2. ServedOf(U, issued) \in Nat
    BY <1>2, NumberedIs DEF U
  <2>3. QED
    BY <1>1, <1>2, <2>1, <2>2
<1>10. /\ Numbered(U \o <<id>>, issued') /\ ServedOf(U \o <<id>>, issued') = ServedOf(U, issued)
  <2>1. Len(U) <= N /\ \A i \in 1..Len(U) : U[i] = (N - Len(U)) + i
    BY <1>2 DEF Numbered, U
  <2>2. Len(issued') = N + 1 /\ id = N + 1 /\ N \in Nat
    BY <1>1 DEF id
  <2>3. (N + 1) - (Len(U) + 1) = N - Len(U)
    BY <1>7, <2>2
  <2>4. ASSUME NEW i \in 1..(Len(U) + 1)
        PROVE  (U \o <<id>>)[i] = (N - Len(U)) + i
    <3>1. i \in 1..Len(U) \/ i = Len(U) + 1
      BY <1>7
    <3>2. (N - Len(U)) + (Len(U) + 1) = id
      BY <1>7, <2>2
    <3>3. QED
      BY <1>7, <2>1, <3>1, <3>2
  <2>5. Len(U) + 1 <= N + 1
    BY <1>7, <2>1, <2>2
  <2>6. QED
    BY <1>7, <2>2, <2>3, <2>4, <2>5 DEF Numbered, ServedOf
<1>11. QED
  BY <1>4, <1>5, <1>6, <1>8, <1>9, <1>10 DEF U, id

\* What a command does to what the entries count.
Registers(c) == IF c.kind = "SUBSCRIBE" THEN KeysOf(c) ELSE {}

LEMMA CommandCounts ==
    ASSUME Typed, NEW c \in Commands, Command(c), NEW k \in Pairs
    PROVE  /\ k \in Holds' <=> k \in Holds \/ k \in Registers(c)
           /\ Owes'[k] = IF k \in Registers(c) THEN Owes[k] + 1 ELSE Owes[k]
<1>1. k[1] \in BOOLEAN /\ k[2] \in Keys
  BY PairIs
<1>2. k \in Registers(c) <=> c.kind = "SUBSCRIBE" /\ About(c, k[1], k[2])
  BY DEF Registers, KeysOf
<1>3. CASE k \in Registers(c)
  <2>1. /\ Entry(k[1], k[2])' # {}
        /\ Val(k[1], k[2])'.pending_subs = IF Entry(k[1], k[2]) = {} THEN 1 ELSE Val(k[1], k[2]).pending_subs + 1
    BY <1>1, <1>2, <1>3, CommandVal
  <2>2. k \in Holds' /\ Owes'[k] = Val(k[1], k[2])'.pending_subs
    BY <2>1 DEF Holds, Owes
  <2>3. Owes[k] = IF Entry(k[1], k[2]) = {} THEN 0 ELSE Val(k[1], k[2]).pending_subs
    BY DEF Owes
  <2>4. 0 + 1 = 1
    OBVIOUS
  <2>5. CASE Entry(k[1], k[2]) = {}
    BY <1>3, <2>1, <2>2, <2>3, <2>4, <2>5
  <2>6. CASE Entry(k[1], k[2]) # {}
    BY <1>3, <2>1, <2>2, <2>3, <2>6
  <2>7. QED
    BY <2>5, <2>6
<1>4. CASE k \notin Registers(c)
  <2>1. Entry(k[1], k[2])' = Entry(k[1], k[2]) /\ Val(k[1], k[2])' = Val(k[1], k[2])
    BY <1>1, <1>2, <1>4, CommandVal
  <2>2. QED
    BY <1>4, <2>1 DEF Holds, Owes
<1>5. QED
  BY <1>3, <1>4

\* A command c is added to is, as its last, and to the counts.
Adds(is, js, U, id, c, owes, holds, owes2, holds2) ==
    /\ \A n \in Range(U) : n \in DOMAIN is /\ n \in DOMAIN js /\ js[n] = is[n]
    /\ id \in DOMAIN js /\ js[id] = c
    /\ \A k \in Pairs :
          /\ k \in holds2 <=> k \in holds \/ k \in Registers(c)
          /\ owes2[k] = IF k \in Registers(c) THEN owes[k] + 1 ELSE owes[k]

LEMMA BalancedIssue ==
    ASSUME NEW C \in Seq(AnyMessage), NEW first, NEW is, NEW js, NEW U \in Seq(Nat), NEW id \in Nat,
           NEW c, NEW owes, NEW holds, Balanced(C, first, is, U, owes, holds), NEW owes2, NEW holds2,
           Adds(is, js, U, id, c, owes, holds, owes2, holds2)
    PROVE  Balanced(C, first, js, U \o <<id>>, owes2, holds2)
<1>0. /\ \A n \in Range(U) : n \in DOMAIN is /\ n \in DOMAIN js /\ js[n] = is[n]
      /\ id \in DOMAIN js /\ js[id] = c
      /\ \A k \in Pairs :
           /\ k \in holds2 <=> k \in holds \/ k \in Registers(c)
           /\ owes2[k] = IF k \in Registers(c) THEN owes[k] + 1 ELSE owes[k]
  BY DEF Adds
<1>1. SUFFICES ASSUME NEW k \in Pairs
      PROVE  /\ owes2[k] = SubCount(js, U \o <<id>>, k) + AckCount(C, k)
             /\ k \in holds2 <=> owes2[k] > 0 \/ k \in first
  BY DEF Balanced
<1>2. /\ owes[k] = SubCount(is, U, k) + AckCount(C, k)
      /\ k \in holds <=> owes[k] > 0 \/ k \in first
  BY DEF Balanced
<1>3. SubCount(is, U, k) \in Nat /\ AckCount(C, k) \in Nat
  BY CountsAre
<1>4. id \in SubscribesIn(js, k) <=> k \in Registers(c)
  BY <1>0 DEF SubscribesIn, Registers, KeysOf
<1>5. SubCount(js, U \o <<id>>, k) = Among(SubscribesIn(js, k), U) + Among(SubscribesIn(js, k), <<id>>)
  <2>1. <<id>> \in Seq(Nat)
    OBVIOUS
  <2>2. QED
    BY <2>1, AmongConcat DEF SubCount
<1>6. Among(SubscribesIn(js, k), U) = SubCount(is, U, k)
  <2>1. \A i \in DOMAIN U : U[i] \in Range(U)
    BY DEF Range
  <2>2. \A i \in DOMAIN U : U[i] \in SubscribesIn(js, k) <=> U[i] \in SubscribesIn(is, k)
    BY <1>0, <2>1 DEF SubscribesIn
  <2>3. QED
    BY <2>2, AmongSame DEF SubCount
<1>7. Among(SubscribesIn(js, k), <<id>>) = IF k \in Registers(c) THEN 1 ELSE 0
  BY <1>4, AmongOne
<1>8. PICK x \in Nat : x = owes[k]
  BY <1>2, <1>3
<1>9. /\ k \in holds2 <=> k \in holds \/ k \in Registers(c)
      /\ owes2[k] = IF k \in Registers(c) THEN owes[k] + 1 ELSE owes[k]
  BY <1>0
<1>10. CASE k \in Registers(c)
  <2>1. owes2[k] = x + 1 /\ k \in holds2 /\ x + 1 > 0
    BY <1>8, <1>9, <1>10
  <2>2. SubCount(js, U \o <<id>>, k) = SubCount(is, U, k) + 1
    BY <1>5, <1>6, <1>7, <1>10
  <2>3. x + 1 = (SubCount(is, U, k) + 1) + AckCount(C, k)
    BY <1>2, <1>3, <1>8
  <2>4. QED
    BY <2>1, <2>2, <2>3
<1>11. CASE k \notin Registers(c)
  <2>1. owes2[k] = owes[k] /\ (k \in holds2 <=> k \in holds)
    BY <1>9, <1>11
  <2>2. SubCount(js, U \o <<id>>, k) = SubCount(is, U, k)
    BY <1>3, <1>5, <1>6, <1>7, <1>11
  <2>3. QED
    BY <1>2, <2>1, <2>2
<1>12. QED
  BY <1>10, <1>11

\* The callback of a regular command goes to one of the lists.
Enlists(is, U, R, I, js, V, R2, I2, toR, toI) ==
    /\ \A n \in 0..Len(is) : WantedIn(js, n) = WantedIn(is, n)
    /\ \A n : IsRegular(js, n) <=> IsRegular(is, n) \/ (n = Len(is) + 1 /\ (toR \/ toI))
    /\ \A n : n \in Range(V) <=> n \in Range(U) \/ n = Len(is) + 1
    /\ ServedOf(V, js) = ServedOf(U, is)
    /\ \A n : Has(R2, n) <=> Has(R, n) \/ (n = Len(is) + 1 /\ toR)
    /\ \A n : Has(I2, n) <=> Has(I, n) \/ (n = Len(is) + 1 /\ toI)

LEMMA MatchedIssue ==
    ASSUME NEW C, NEW L, IsLog(C, L), NEW is \in Seq(AnyCommand), NEW U \in Seq(Nat), Numbered(U, is),
           NEW R, NEW I, Matched(C, L, U, is, R, I),
           NEW js, NEW V, NEW R2, NEW I2, NEW toR \in BOOLEAN, NEW toI \in BOOLEAN,
           Enlists(is, U, R, I, js, V, R2, I2, toR, toI),
           toR => /\ WantedIn(is, Len(is)) = {}
                  /\ \A i \in 1..Len(C) : C[i].kind = "reply"
                  /\ \A k \in Range(U) : IsRegular(is, k),
           toI => WantedIn(is, Len(is)) # {}
    PROVE  Matched(C, L, V, js, R2, I2)
<1> DEFINE N == Len(is)
           S == ServedOf(U, is)
           id == Len(is) + 1
<1>0. /\ \A n \in 0..Len(is) : WantedIn(js, n) = WantedIn(is, n)
      /\ \A n : IsRegular(js, n) <=> IsRegular(is, n) \/ (n = id /\ (toR \/ toI))
      /\ \A n : n \in Range(V) <=> n \in Range(U) \/ n = id
      /\ ServedOf(V, js) = ServedOf(U, is)
      /\ \A n : Has(R2, n) <=> Has(R, n) \/ (n = id /\ toR)
      /\ \A n : Has(I2, n) <=> Has(I, n) \/ (n = id /\ toI)
  BY DEF Enlists
<1>1. /\ N \in Nat /\ S \in Nat /\ S <= N /\ DOMAIN is = 1..N
      /\ \A n : n \in Range(U) => n \in (S + 1)..N
  BY NumberedIs
<1>2. /\ \A n : Has(R, n) \/ Has(I, n) <=>
           \/ n \in Range(U) /\ IsRegular(is, n)
           \/ n # 0 /\ \E i \in 1..Len(C) : C[i].for = n
      /\ \A i \in 1..Len(C) : C[i].for # 0 =>
           /\ IsRegular(is, C[i].for) /\ C[i].for <= S
           /\ L[i] = WantedIn(is, C[i].for - 1)
      /\ \A i, j \in 1..Len(C) : i < j /\ C[i].for # 0 /\ C[j].for # 0 => C[i].for < C[j].for
      /\ \A n : Has(R, n) =>
           /\ WantedIn(is, n - 1) = {}
           /\ \A i, j \in 1..Len(C) : i < j /\ C[j].for = n => C[i].kind = "reply"
           /\ n > S => \A i \in 1..Len(C) : C[i].kind = "reply"
           /\ \A k \in Range(U) : k < n => IsRegular(is, k)
      /\ \A n : Has(I, n) => WantedIn(is, n - 1) # {}
  BY DEF Matched
<1>3. ServedOf(V, js) = S /\ id = N + 1 /\ id # 0 /\ id - 1 = N /\ N \in 0..N
  BY <1>0, <1>1
<1>4. \A n : IsRegular(is, n) => n \in 1..N /\ n - 1 \in 0..N /\ WantedIn(js, n - 1) = WantedIn(is, n - 1)
  BY <1>0, <1>1 DEF IsRegular
<1>5. ~IsRegular(is, id) /\ id \notin Range(U)
  BY <1>1, <1>3 DEF IsRegular
<1> HIDE DEF N, S, id
<1>6. \A i \in 1..Len(C) : C[i].for # id
  BY <1>2, <1>3, <1>5
<1>7. \A n : Has(R, n) \/ Has(I, n) => IsRegular(is, n)
  BY <1>2
<1>8. ASSUME NEW n
      PROVE  Has(R2, n) \/ Has(I2, n) <=>
                \/ n \in Range(V) /\ IsRegular(js, n)
                \/ n # 0 /\ \E i \in 1..Len(C) : C[i].for = n
  <2>1. CASE n = id
    <3>1. ~Has(R, id) /\ ~Has(I, id)
      BY <1>0, <1>5, <1>7
    <3>2. IsRegular(js, id) <=> toR \/ toI
      BY <1>0, <1>5
    <3>3. QED
      BY <1>0, <1>6, <2>1, <3>1, <3>2
  <2>2. CASE n # id
    <3>1. (Has(R2, n) <=> Has(R, n)) /\ (Has(I2, n) <=> Has(I, n))
      BY <1>0, <2>2
    <3>2. (n \in Range(V) <=> n \in Range(U)) /\ (IsRegular(js, n) <=> IsRegular(is, n))
      BY <1>0, <2>2
    <3>3. QED
      BY <1>0, <1>2, <3>1, <3>2
  <2>3. QED
    BY <2>1, <2>2
<1>9. ASSUME NEW i \in 1..Len(C), C[i].for # 0
      PROVE  /\ IsRegular(js, C[i].for) /\ C[i].for <= S
             /\ L[i] = WantedIn(js, C[i].for - 1)
  BY <1>0, <1>2, <1>4, <1>9
<1>10. ASSUME NEW n, Has(R2, n)
       PROVE  /\ WantedIn(js, n - 1) = {}
              /\ \A i, j \in 1..Len(C) : i < j /\ C[j].for = n => C[i].kind = "reply"
              /\ n > S => \A i \in 1..Len(C) : C[i].kind = "reply"
              /\ \A k \in Range(V) : k < n => IsRegular(js, k)
  <2>1. CASE n = id /\ toR
    <3>1. WantedIn(js, n - 1) = {}
      BY <1>0, <1>3, <2>1 DEF N
    <3>2. ~(id < id)
      BY <1>0, <1>1, <1>3 DEF N
    <3>3. QED
      BY <1>0, <1>6, <2>1, <3>1, <3>2
  <2>2. CASE Has(R, n)
    <3>1. IsRegular(is, n)
      BY <1>0, <1>7, <2>2
    <3>2. n \in 1..N /\ WantedIn(js, n - 1) = WantedIn(is, n - 1)
      BY <1>0, <1>4, <3>1
    <3>3. ~(id < n)
      BY <1>0, <1>1, <1>3, <3>2 DEF N
    <3>4. QED
      BY <1>0, <1>2, <2>2, <3>2, <3>3
  <2>3. QED
    BY <1>0, <1>10, <2>1, <2>2
<1>11. ASSUME NEW n, Has(I2, n)
       PROVE  WantedIn(js, n - 1) # {}
  <2>1. CASE n = id /\ toI
    BY <1>0, <1>3, <2>1 DEF N
  <2>2. CASE Has(I, n)
    BY <1>0, <1>2, <1>4, <1>7, <2>2
  <2>3. QED
    BY <1>0, <1>11, <2>1, <2>2
<1>12. QED
  BY <1>0, <1>2, <1>3, <1>8, <1>9, <1>10, <1>11 DEF Matched

LEMMA CommandFlags ==
    ASSUME Typed, Control, Joint, NEW c \in Commands, Command(c)
    PROVE  /\ ~Mon /\ Alive /\ Alive' /\ (Mon' <=> c.kind = "MONITOR")
           /\ Sub' <=> Sub \/ c.kind = "SUBSCRIBE"
           /\ UNCHANGED <<pc, caller, run, cb, done, rbuf, inbox, conn, subs, monitors>>
           /\ Coming' = Coming /\ (Full' <=> Full)
           /\ c.kind = "UNSUBSCRIBE" => KeysOf(c) \subseteq WantedIn(issued, Len(issued))
           /\ c.kind \in {"GET", "QUIT"} /\ Sub => WantedIn(issued, Len(issued)) # {}
           /\ c.kind = "MONITOR" => pc = "idle" /\ replies = << >> /\ ~Sub
           /\ c.kind \in {"GET", "QUIT", "MONITOR", "SUBSCRIBE", "UNSUBSCRIBE"}
<1>1. Alive /\ Proper(c) /\ c \in AnyCommand
      /\ UNCHANGED <<pc, caller, run, cb, done, rbuf, inbox, conn, subs, monitors>>
      /\ flags' = flags \cup (CASE c.kind = "SUBSCRIBE" -> {"SUBSCRIBED"}
                                [] c.kind = "MONITOR"   -> {"MONITORING"}
                                [] OTHER                -> {})
  BY CommandAlive, CommandIs DEF Control, Command, thread, network, server
<1>2. c.kind \in {"GET", "QUIT", "MONITOR", "SUBSCRIBE", "UNSUBSCRIBE"}
  BY <1>1 DEF AnyCommand
<1>3. ~Mon
  BY <1>1 DEF Proper, Mon
<1>4. (Mon' <=> c.kind = "MONITOR") /\ (Sub' <=> Sub \/ c.kind = "SUBSCRIBE")
  BY <1>1, <1>3 DEF Mon, Sub
<1>5. Alive' /\ Coming' = Coming /\ (Full' <=> Full)
  BY <1>1 DEF Alive, Coming, Full
<1>6. c.kind = "UNSUBSCRIBE" => KeysOf(c) \subseteq WantedIn(issued, Len(issued))
  <2>1. SUFFICES ASSUME c.kind = "UNSUBSCRIBE", NEW k \in KeysOf(c)
                 PROVE  k \in WantedIn(issued, Len(issued))
    OBVIOUS
  <2>2. \A i \in DOMAIN c.names : Wants(c.p, c.names[i])
    BY <1>1, <2>1 DEF Proper
  <2>3. k \in Pairs /\ About(c, k[1], k[2])
    BY <2>1 DEF KeysOf
  <2>4. k[1] \in BOOLEAN /\ k[2] \in Keys /\ k = <<k[1], k[2]>>
    BY <2>3, PairIs
  <2>5. Wants(k[1], k[2])
    BY <2>2, <2>3 DEF About, Range
  <2>6. QED
    BY <2>4, <2>5, WantsIs
<1>7. c.kind \in {"GET", "QUIT"} /\ Sub => WantedIn(issued, Len(issued)) # {}
  <2>1. c.kind \in {"GET", "QUIT"} /\ "SUBSCRIBED" \in flags => ~WantsNone
    BY <1>1 DEF Proper
  <2>2. QED
    BY <2>1, WantsNoneIs DEF Sub
<1>8. c.kind = "MONITOR" => pc = "idle" /\ replies = << >> /\ ~Sub
  BY <1>1 DEF Proper, Sub
<1>9. QED
  BY <1>1, <1>2, <1>3, <1>4, <1>5, <1>6, <1>7, <1>8

\* While the context is not subscribed nothing about subscriptions is on its way.
LEMMA NotSubscribed ==
    ASSUME Typed, Joint, ~Sub, NEW C, NEW L, LoggedBy(C, L)
    PROVE  /\ \A i \in 1..Len(C) : C[i].kind = "reply" /\ Follows(C[i], L[i], L[i + 1])
           /\ WantedIn(issued, Len(issued)) = {} /\ subs = {}
           /\ ~Mon => \A n \in Range(Unserved) : IsRegular(issued, n)
<1>1. /\ issued \in Seq(Commands) /\ issued \in Seq(AnyCommand) /\ Unserved \in Seq(Nat)
      /\ DOMAIN issued = 1..Len(issued)
  BY Streams
<1>2. /\ Holds = {} /\ Numbered(Unserved, issued) /\ Leaves(issued)
      /\ subs = WantedIn(issued, ServedOf(Unserved, issued))
  BY DEF Joint, Flagged, Serves
<1>3. /\ IsLog(C, L) /\ L[Len(C) + 1] = subs
      /\ Balanced(C, L[1], issued, Unserved, Owes, Holds)
  BY DEF LoggedBy
<1>4. /\ \A i \in 1..Len(C) : C[i].kind = "reply"
      /\ \A i \in 1..(Len(C) + 1) : L[i] = {}
      /\ \A n \in ServedOf(Unserved, issued)..Len(issued) : WantedIn(issued, n) = {}
      /\ \A n \in Range(Unserved) : KeysOf(issued[n]) = {}
  BY <1>1, <1>2, <1>3, Unheld
<1>5. /\ ServedOf(Unserved, issued) \in Nat /\ Len(issued) \in Nat
      /\ ServedOf(Unserved, issued) <= Len(issued)
      /\ \A n \in Range(Unserved) : n \in (ServedOf(Unserved, issued) + 1)..Len(issued)
  BY <1>1, <1>2, NumberedIs
<1>6. /\ Len(issued) \in ServedOf(Unserved, issued)..Len(issued)
      /\ ServedOf(Unserved, issued) \in ServedOf(Unserved, issued)..Len(issued)
  BY <1>5
<1>7. WantedIn(issued, Len(issued)) = {} /\ subs = {}
  BY <1>2, <1>4, <1>6
<1>8. ASSUME ~Mon, NEW n \in Range(Unserved)
      PROVE  IsRegular(issued, n)
  <2>1. n \in DOMAIN issued
    BY <1>1, <1>5
  <2>2. issued[n] \in Commands /\ issued[n] \in AnyCommand
    BY <1>1, <2>1
  <2>3. issued[n].kind \notin {"SUBSCRIBE", "UNSUBSCRIBE"}
    BY <1>4, <2>2, KeysAre
  <2>4. issued[n].kind # "MONITOR"
    BY <1>8, <2>1 DEF Joint, Monitored
  <2>5. issued[n].kind \in {"GET", "QUIT", "MONITOR", "SUBSCRIBE", "UNSUBSCRIBE"}
    BY <2>2 DEF AnyCommand
  <2>6. QED
    BY <2>1, <2>3, <2>4, <2>5 DEF IsRegular
<1>9. \A i \in 1..Len(C) : Follows(C[i], L[i], L[i + 1])
  BY <1>3 DEF IsLog
<1>10. QED
  BY <1>4, <1>7, <1>8, <1>9

\* Where the callback of a command waits.
LEMMA CommandHas ==
    ASSUME Typed, Control, Joint, NEW c \in Commands, Command(c)
    PROVE  /\ \A n : Has(replies', n) <=> Has(replies, n) \/ (n = CommandId /\ ListOf(c) = "replies")
           /\ \A n : Has(invalid', n) <=> Has(invalid, n) \/ (n = CommandId /\ ListOf(c) = "invalid")
           /\ \A n : Waits(n) => n \in DOMAIN issued
           /\ ListOf(c) = "replies" <=> c.kind = "MONITOR" \/ (c.kind \in {"GET", "QUIT"} /\ ~Sub)
           /\ ListOf(c) = "invalid" <=> c.kind \in {"GET", "QUIT"} /\ Sub
<1>1. /\ replies' = IF ListOf(c) = "replies" THEN Append(replies, CommandCallback(c)) ELSE replies
      /\ invalid' = IF ListOf(c) = "invalid" THEN Append(invalid, CommandCallback(c)) ELSE invalid
      /\ CommandCallback(c).id = CommandId /\ CommandCallback(c) \in AnyCallback
      /\ replies \in Seq(AnyCallback) /\ invalid \in Seq(AnyCallback)
  BY CommandWaits, CommandIs, Streams
<1>2. /\ ListOf(c) = "replies" <=> c.kind = "MONITOR" \/ (c.kind \in {"GET", "QUIT"} /\ ~Sub)
      /\ ListOf(c) = "invalid" <=> c.kind \in {"GET", "QUIT"} /\ Sub
  <2>1. c.kind \in {"GET", "QUIT", "MONITOR", "SUBSCRIBE", "UNSUBSCRIBE"}
    BY CommandFlags
  <2>2. QED
    BY <2>1 DEF ListOf, Sub
<1>3. \A n : Waits(n) => n \in DOMAIN issued
  BY CommandFlags DEF Joint, Ordered, IsRegular
<1>4. /\ \A n : Has(Append(replies, CommandCallback(c)), n) <=> Has(replies, n) \/ CommandCallback(c).id = n
      /\ \A n : Has(Append(invalid, CommandCallback(c)), n) <=> Has(invalid, n) \/ CommandCallback(c).id = n
  BY <1>1, HasAppend
<1>5. QED
  BY <1>1, <1>2, <1>3, <1>4

LEMMA CommandLogged ==
    ASSUME Typed, Control, Joint, NEW c \in Commands, Command(c)
    PROVE  Logged'
<1>1. /\ ~Mon /\ Alive /\ (Mon' <=> c.kind = "MONITOR")
      /\ UNCHANGED <<rbuf, inbox, conn, subs>> /\ Coming' = Coming /\ (Full' <=> Full)
      /\ c.kind \in {"GET", "QUIT"} /\ Sub => WantedIn(issued, Len(issued)) # {}
  BY CommandFlags
<1>2. /\ \A n \in 0..Len(issued) : WantedIn(issued', n) = WantedIn(issued, n)
      /\ \A n : IsRegular(issued', n) <=>
           IsRegular(issued, n) \/ (n = CommandId /\ c.kind \in {"GET", "QUIT"})
      /\ Unserved' = Unserved \o <<CommandId>>
      /\ \A n : n \in Range(Unserved') <=> n \in Range(Unserved) \/ n = CommandId
      /\ \A n \in Range(Unserved) : n \in DOMAIN issued
      /\ ServedOf(Unserved', issued') = ServedOf(Unserved, issued)
  BY IssuedIs
<1>3. /\ CommandId \in Nat /\ CommandId = Len(issued) + 1 /\ CommandId \in DOMAIN issued'
      /\ issued'[CommandId] = c /\ \A n \in DOMAIN issued : n \in DOMAIN issued' /\ issued'[n] = issued[n]
  <2>1. /\ CommandId \in Nat \ {0} /\ DOMAIN issued' = 1..CommandId
    BY CommandIs
  <2>2. CommandId \in DOMAIN issued'
    BY <2>1
  <2>3. QED
    BY <2>1, <2>2, CommandIs
<1>4. PICK lost, L :
        /\ lost \in Seq(AnyMessage) /\ (conn # "closed" => lost = << >>)
        /\ LoggedBy(Coming \o lost, L)
  BY DEF Joint, Logged
<1>5. PICK C : C = Coming \o lost
  OBVIOUS
<1>6. /\ LoggedBy(C, L) /\ IsLog(C, L) /\ L[Len(C) + 1] = subs /\ C \in Seq(AnyMessage)
      /\ Balanced(C, L[1], issued, Unserved, Owes, Holds)
      /\ Reg => Matched(C, L, Unserved, issued, replies, invalid)
  BY <1>4, <1>5 DEF LoggedBy, IsLog
<1>7. Unserved \in Seq(Nat) /\ issued \in Seq(AnyCommand) /\ Numbered(Unserved, issued)
  BY Streams DEF Joint, Serves
<1>8. Balanced(C, L[1], issued', Unserved', Owes', Holds')
  <2>1. PICK js : js = issued'
    OBVIOUS
  <2>2. PICK owes : owes = Owes'
    OBVIOUS
  <2>3. PICK holds : holds = Holds'
    OBVIOUS
  <2>4. \A k \in Pairs :
           /\ k \in holds <=> k \in Holds \/ k \in Registers(c)
           /\ owes[k] = IF k \in Registers(c) THEN Owes[k] + 1 ELSE Owes[k]
    BY <2>2, <2>3, CommandCounts
  <2>5. \A n \in Range(Unserved) : n \in DOMAIN issued /\ n \in DOMAIN js /\ js[n] = issued[n]
    BY <1>2, <1>3, <2>1
  <2>6. CommandId \in DOMAIN js /\ js[CommandId] = c
    BY <1>3, <2>1
  <2>7. Balanced(C, L[1], js, Unserved \o <<CommandId>>, owes, holds)
    <3>1. Adds(issued, js, Unserved, CommandId, c, Owes, Holds, owes, holds)
      BY <2>4, <2>5, <2>6 DEF Adds
    <3>2. QED
      BY <1>3, <1>6, <1>7, <3>1, BalancedIssue
  <2>8. QED
    BY <1>2, <2>1, <2>2, <2>3, <2>7
<1>9. ASSUME Reg'
      PROVE  Matched(C, L, Unserved', issued', replies', invalid')
  <2>1. Reg /\ c.kind # "MONITOR"
    BY <1>1, <1>9 DEF Reg
  <2>2. PICK toR \in BOOLEAN : toR <=> ListOf(c) = "replies"
    OBVIOUS
  <2>3. PICK toI \in BOOLEAN : toI <=> ListOf(c) = "invalid"
    OBVIOUS
  <2>4. /\ \A n : Has(replies', n) <=> Has(replies, n) \/ (n = CommandId /\ toR)
        /\ \A n : Has(invalid', n) <=> Has(invalid, n) \/ (n = CommandId /\ toI)
    BY <2>2, <2>3, CommandHas
  <2>5. /\ toR <=> c.kind \in {"GET", "QUIT"} /\ ~Sub
        /\ toI <=> c.kind \in {"GET", "QUIT"} /\ Sub
    BY <2>1, <2>2, <2>3, CommandHas
  <2>6. \A n : IsRegular(issued', n) <=> IsRegular(issued, n) \/ (n = CommandId /\ (toR \/ toI))
    BY <1>2, <2>5
  <2>7. toR => /\ WantedIn(issued, Len(issued)) = {}
               /\ \A i \in 1..Len(C) : C[i].kind = "reply"
               /\ \A k \in Range(Unserved) : IsRegular(issued, k)
    BY <1>1, <1>6, <2>5, NotSubscribed
  <2>8. toI => WantedIn(issued, Len(issued)) # {}
    BY <1>1, <2>5
  <2>9. Matched(C, L, Unserved, issued, replies, invalid)
    BY <1>6, <2>1
  <2>10. PICK js, V, R, I : js = issued' /\ V = Unserved' /\ R = replies' /\ I = invalid'
    OBVIOUS
  <2>11. /\ \A n \in 0..Len(issued) : WantedIn(js, n) = WantedIn(issued, n)
         /\ \A n : IsRegular(js, n) <=> IsRegular(issued, n) \/ (n = CommandId /\ (toR \/ toI))
         /\ \A n : n \in Range(V) <=> n \in Range(Unserved) \/ n = CommandId
         /\ ServedOf(V, js) = ServedOf(Unserved, issued)
         /\ \A n : Has(R, n) <=> Has(replies, n) \/ (n = CommandId /\ toR)
         /\ \A n : Has(I, n) <=> Has(invalid, n) \/ (n = CommandId /\ toI)
    BY <1>2, <2>4, <2>6, <2>10
  <2>12. Matched(C, L, V, js, R, I)
    <3>1. Enlists(issued, Unserved, replies, invalid, js, V, R, I, toR, toI)
      BY <1>3, <2>11 DEF Enlists
    <3>2. QED
      BY <1>6, <1>7, <2>7, <2>8, <2>9, <3>1, MatchedIssue
  <2>13. QED
    BY <2>10, <2>12
<1>10. LoggedBy(Coming \o lost, L)'
  BY <1>1, <1>5, <1>6, <1>8, <1>9 DEF LoggedBy
<1>11. QED
  BY <1>1, <1>4, <1>10 DEF Logged

LEMMA CommandMonitored ==
    ASSUME Typed, Control, Joint, NEW c \in Commands, Command(c)
    PROVE  Monitored'
<1>1. /\ ~Mon /\ Alive /\ (Mon' <=> c.kind = "MONITOR") /\ (Sub' <=> Sub \/ c.kind = "SUBSCRIBE")
      /\ UNCHANGED <<pc, conn, subs, monitors>> /\ Coming' = Coming
      /\ c.kind = "MONITOR" => pc = "idle" /\ replies = << >> /\ ~Sub
  BY CommandFlags
<1>2. monitors = 0 /\ \A n \in DOMAIN issued : issued[n].kind # "MONITOR"
  BY <1>1 DEF Joint, Monitored
<1>3. /\ CommandId \in Nat \ {0} /\ DOMAIN issued' = 1..CommandId /\ Len(issued') = CommandId
      /\ issued'[CommandId] = c /\ CommandId = Len(issued) + 1 /\ DOMAIN issued = 1..Len(issued)
      /\ \A n \in DOMAIN issued : n \in 1..Len(issued) /\ n \in DOMAIN issued' /\ issued'[n] = issued[n]
  BY CommandIs, Streams
<1>4. CASE c.kind = "MONITOR"
  <2>1. PICK lost, L :
          /\ lost \in Seq(AnyMessage) /\ (conn # "closed" => lost = << >>)
          /\ LoggedBy(Coming \o lost, L)
    BY DEF Joint, Logged
  <2>2. PICK C : C = Coming \o lost
    OBVIOUS
  <2>3. LoggedBy(C, L)
    BY <2>1, <2>2
  <2>4. /\ \A i \in 1..Len(C) : C[i].kind = "reply" /\ Follows(C[i], L[i], L[i + 1])
        /\ subs = {} /\ \A n \in Range(Unserved) : IsRegular(issued, n)
    BY <1>1, <1>4, <2>3, NotSubscribed
  <2>5. invalid = << >> /\ \A n : ~Waits(n)
    <3>1. invalid = << >>
      BY <1>1, <1>4 DEF Joint, Ordered
    <3>2. QED
      BY <1>1, <1>4, <3>1 DEF Waits, Has
  <2>6. \A i \in 1..Len(Coming) : i \in 1..Len(C) /\ C[i] = Coming[i]
    <3>1. Coming \in Seq(AnyMessage)
      BY Streams
    <3>2. QED
      BY <2>1, <2>2, <3>1, ConcatProperties
  <2>7. ASSUME NEW i \in 1..Len(Coming)
        PROVE  Coming[i] \in {BAD, ERR0}
    <3>1. Coming[i] \in {BAD, ERR0} \/ Coming[i].for # 0
      BY <2>4, <2>6 DEF Follows
    <3>2. CASE Reg
      <4>1. Matched(C, L, Unserved, issued, replies, invalid)
        BY <2>3, <3>2 DEF LoggedBy
      <4>2. C[i].for # 0 => Waits(C[i].for)
        BY <2>6, <4>1 DEF Matched, Waits
      <4>3. QED
        BY <2>5, <2>6, <3>1, <4>2
    <3>3. CASE ~Reg
      <4>1. Full
        BY <1>1, <3>3 DEF Reg
      <4>2. Coming = <<ERR0>> \/ Coming = << >>
        BY <4>1 DEF Full
      <4>3. Coming[i] = ERR0
        BY <4>2
      <4>4. QED
        BY <4>3
    <3>4. QED
      BY <3>2, <3>3
  <2>8. conn # "closed" => \A n : n \notin Range(Unserved)
    <3>1. SUFFICES ASSUME conn # "closed", NEW n \in Range(Unserved) PROVE FALSE
      OBVIOUS
    <3>2. Reg
      BY <1>1, <3>1 DEF Reg, Full
    <3>3. Matched(C, L, Unserved, issued, replies, invalid)
      BY <2>3, <3>2 DEF LoggedBy
    <3>4. Waits(n)
      BY <2>4, <3>1, <3>3 DEF Matched, Waits
    <3>5. QED
      BY <2>5, <3>4
  <2>9. \A n \in Range(Unserved') : n \in Range(Unserved) \/ n = CommandId
    BY IssuedIs
  <2>10. /\ invalid' = << >> /\ \A n : Has(replies', n) => n = CommandId
    <3>1. ListOf(c) = "replies" /\ ListOf(c) # "invalid"
      BY <1>4 DEF ListOf
    <3>2. invalid' = invalid
      BY <3>1, CommandWaits
    <3>3. \A n : Has(replies', n) => n = CommandId
      BY <2>5, CommandHas DEF Waits
    <3>4. QED
      BY <2>5, <3>2, <3>3
  <2>11. ~Processing'
    BY <1>1, <1>4 DEF Processing
  <2>12. Len(issued') > 0 /\ issued'[Len(issued')].kind = "MONITOR"
    BY <1>3, <1>4
  <2>13. Mon' /\ ~Sub' /\ monitors' = 0
    BY <1>1, <1>2, <1>4
  <2>14. \A i \in 1..Len(Coming') : Coming'[i] \in {BAD, ERR0, Reply("STATUS", Len(issued'))}
    BY <1>1, <2>7
  <2>15. conn' # "closed" => subs' = {} /\ \A n \in Range(Unserved') : n = Len(issued')
    BY <1>1, <1>3, <2>4, <2>8, <2>9
  <2>16. QED
    BY <1>3, <2>10, <2>11, <2>12, <2>13, <2>14, <2>15 DEF Monitored
<1>5. CASE c.kind # "MONITOR"
  <2>1. \A n \in DOMAIN issued' : n \in DOMAIN issued \/ n = CommandId
    BY <1>3
  <2>2. \A n \in DOMAIN issued' : issued'[n].kind # "MONITOR"
    BY <1>2, <1>3, <1>5, <2>1
  <2>3. QED
    BY <1>1, <1>2, <1>5, <2>2 DEF Monitored
<1>6. QED
  BY <1>4, <1>5

LEMMA CommandOrdered ==
    ASSUME Typed, Control, Joint, NEW c \in Commands, Command(c)
    PROVE  Ordered'
<1>1. /\ ~Mon /\ Alive /\ (Mon' <=> c.kind = "MONITOR") /\ (Sub' <=> Sub \/ c.kind = "SUBSCRIBE")
      /\ UNCHANGED <<pc, run, done>>
      /\ c.kind = "MONITOR" => pc = "idle" /\ ~Sub
  BY CommandFlags
<1>2. /\ \A n : Has(replies', n) <=> Has(replies, n) \/ (n = CommandId /\ ListOf(c) = "replies")
      /\ \A n : Has(invalid', n) <=> Has(invalid, n) \/ (n = CommandId /\ ListOf(c) = "invalid")
      /\ \A n : Waits(n) => n \in DOMAIN issued
      /\ ListOf(c) = "replies" <=> c.kind = "MONITOR" \/ (c.kind \in {"GET", "QUIT"} /\ ~Sub)
      /\ ListOf(c) = "invalid" <=> c.kind \in {"GET", "QUIT"} /\ Sub
  BY CommandHas
<1>3. /\ CommandId \in Nat \ {0} /\ DOMAIN issued' = 1..CommandId /\ issued'[CommandId] = c
      /\ CommandId = Len(issued) + 1 /\ DOMAIN issued = 1..Len(issued) /\ Len(issued) \in Nat
      /\ \A n \in DOMAIN issued : n \in DOMAIN issued' /\ issued'[n] = issued[n]
  BY CommandIs, Streams
<1>4. /\ \A n \in DOMAIN issued : n < CommandId
      /\ CommandId \notin DOMAIN issued /\ ~(CommandId < CommandId)
  BY <1>3
<1>5. \A n : IsRegular(issued', n) <=>
           IsRegular(issued, n) \/ (n = CommandId /\ c.kind \in {"GET", "QUIT"})
  BY IssuedIs
<1>6. /\ Sorted(replies) /\ Sorted(invalid)
      /\ \A m, n : Has(replies, m) /\ Has(invalid, n) => m < n
      /\ \A n : Waits(n) => IsRegular(issued, n)
      /\ ~Sub => invalid = << >>
      /\ \A n : Waits(n) /\ IsRegular(issued, n) => n \notin done
      /\ pc = "callback" /\ IsRegular(issued, run.id) =>
           run.id \notin done /\ \A n : Waits(n) /\ IsRegular(issued, n) => run.id < n
  BY <1>1 DEF Joint, Ordered
<1>7. /\ done \subseteq DOMAIN issued /\ (pc = "callback" => run.id \in DOMAIN issued)
  BY DEF Control, Running
<1>8. /\ replies' = IF ListOf(c) = "replies" THEN Append(replies, CommandCallback(c)) ELSE replies
      /\ invalid' = IF ListOf(c) = "invalid" THEN Append(invalid, CommandCallback(c)) ELSE invalid
      /\ CommandCallback(c).id = CommandId /\ CommandCallback(c) \in AnyCallback
      /\ replies \in Seq(AnyCallback) /\ invalid \in Seq(AnyCallback)
  BY CommandWaits, CommandIs, Streams
<1>9. /\ \A n : Has(replies, n) => n < CommandId
      /\ \A n : Has(invalid, n) => n < CommandId
  BY <1>2, <1>4 DEF Waits
<1>10. Sorted(replies') /\ Sorted(invalid')
  <2>1. /\ \A n : Has(replies, n) => n < CommandCallback(c).id
        /\ \A n : Has(invalid, n) => n < CommandCallback(c).id
    BY <1>8, <1>9
  <2>2. Sorted(Append(replies, CommandCallback(c))) /\ Sorted(Append(invalid, CommandCallback(c)))
    BY <1>6, <1>8, <2>1, SortedAppend
  <2>3. QED
    BY <1>6, <1>8, <2>2
<1>11. \A n : ~Sub => ~Has(invalid, n)
  BY <1>6 DEF Has
<1>12. ~Mon' => /\ \A m, n : Has(replies', m) /\ Has(invalid', n) => m < n
                /\ \A n : Waits(n)' => IsRegular(issued', n)
  <2>1. ASSUME ~Mon', NEW m, NEW n, Has(replies', m), Has(invalid', n)
        PROVE  m < n
    BY <1>1, <1>2, <1>6, <1>9, <1>11, <2>1
  <2>2. ASSUME ~Mon', NEW n, Waits(n)'
        PROVE  IsRegular(issued', n)
    BY <1>1, <1>2, <1>5, <1>6, <2>2 DEF Waits
  <2>3. QED
    BY <2>1, <2>2
<1>13. Alive' /\ ~Sub' => invalid' = << >>
  BY <1>1, <1>2, <1>6, <1>8
<1>14. \A n : Waits(n)' => Waits(n) \/ n = CommandId
  BY <1>2 DEF Waits
<1>15. \A n : Waits(n)' /\ IsRegular(issued', n) => n \notin done'
  BY <1>1, <1>2, <1>4, <1>5, <1>6, <1>7, <1>14
<1>16. pc' = "callback" /\ IsRegular(issued', run'.id) =>
          run'.id \notin done' /\ \A n : Waits(n)' /\ IsRegular(issued', n) => run'.id < n
  <2>1. SUFFICES ASSUME pc' = "callback", IsRegular(issued', run'.id)
                 PROVE  run'.id \notin done' /\ \A n : Waits(n)' /\ IsRegular(issued', n) => run'.id < n
    OBVIOUS
  <2>2. run'.id = run.id /\ run.id \in DOMAIN issued /\ pc = "callback"
    BY <1>1, <1>7, <2>1
  <2>3. IsRegular(issued, run.id) /\ run.id < CommandId
    BY <1>4, <1>5, <2>1, <2>2
  <2>4. \A n : Waits(n) => IsRegular(issued, n)
    BY <1>6
  <2>5. QED
    BY <1>1, <1>6, <1>14, <2>2, <2>3, <2>4
<1>17. QED
  BY <1>10, <1>12, <1>13, <1>15, <1>16 DEF Ordered

LEMMA JointCommand ==
    ASSUME Typed, Control, Joint, NEW c \in Commands, Command(c)
    PROVE  Joint'
<1>1. /\ (Sub' <=> Sub \/ c.kind = "SUBSCRIBE")
      /\ UNCHANGED <<pc, caller, run, cb, done, conn, subs>> /\ Coming' = Coming /\ (Full' <=> Full)
      /\ c.kind = "UNSUBSCRIBE" => KeysOf(c) \subseteq WantedIn(issued, Len(issued))
  BY CommandFlags
<1>2. /\ CommandId \in Nat \ {0} /\ DOMAIN issued' = 1..CommandId /\ issued'[CommandId] = c
      /\ CommandId = Len(issued) + 1 /\ DOMAIN issued = 1..Len(issued) /\ Len(issued) \in Nat
      /\ \A n \in DOMAIN issued : n \in DOMAIN issued' /\ issued'[n] = issued[n]
      /\ CommandId - 1 = Len(issued)
  BY CommandIs, Streams
<1>3. /\ \A n \in 0..Len(issued) : WantedIn(issued', n) = WantedIn(issued, n)
      /\ Numbered(Unserved', issued') /\ ServedOf(Unserved', issued') = ServedOf(Unserved, issued)
  BY IssuedIs
<1>4. Serves'
  <2>1. /\ subs = WantedIn(issued, ServedOf(Unserved, issued)) /\ Leaves(issued)
        /\ Numbered(Unserved, issued)
    BY DEF Joint, Serves
  <2>2. ServedOf(Unserved, issued) \in 0..Len(issued)
    <3>1. /\ ServedOf(Unserved, issued) \in Nat /\ ServedOf(Unserved, issued) <= Len(issued)
      BY <2>1, Streams, NumberedIs
    <3>2. QED
      BY <1>2, <3>1
  <2>3. ASSUME NEW n \in DOMAIN issued', issued'[n].kind = "UNSUBSCRIBE"
        PROVE  KeysOf(issued'[n]) \subseteq WantedIn(issued', n - 1)
    <3>1. n \in DOMAIN issued \/ n = CommandId
      BY <1>2
    <3>2. CASE n \in DOMAIN issued
      <4>1. n - 1 \in 0..Len(issued)
        BY <1>2, <3>2
      <4>2. WantedIn(issued', n - 1) = WantedIn(issued, n - 1) /\ issued'[n] = issued[n]
        BY <1>2, <1>3, <3>2, <4>1
      <4>3. QED
        BY <2>1, <2>3, <3>2, <4>2 DEF Leaves
    <3>3. CASE n = CommandId
      <4>1. Len(issued) \in 0..Len(issued)
        BY <1>2
      <4>2. WantedIn(issued', n - 1) = WantedIn(issued, Len(issued)) /\ issued'[n] = c
        BY <1>2, <1>3, <3>3, <4>1
      <4>3. QED
        BY <1>1, <2>3, <4>2
    <3>4. QED
      BY <3>1, <3>2, <3>3
  <2>4. QED
    BY <1>1, <1>3, <2>1, <2>2, <2>3 DEF Serves, Leaves
<1>5. Flagged'
  <2>1. /\ Sub <=> Holds # {}
        /\ (\E i \in 1..Len(Coming) : Coming[i] = ERR0) => Full
        /\ conn \in {"connecting", "failed"} => Coming = << >>
        /\ \A p \in BOOLEAN, k \in Keys : Entry(p, k) # {} =>
             /\ Val(p, k).id \in DOMAIN issued /\ issued[Val(p, k).id].kind = "SUBSCRIBE"
             /\ About(issued[Val(p, k).id], p, k)
    BY DEF Joint, Flagged
  <2>2. \A k \in Pairs : k \in Holds' <=> k \in Holds \/ k \in Registers(c)
    BY CommandCounts
  <2>3. Registers(c) \subseteq Pairs /\ (Registers(c) # {} <=> c.kind = "SUBSCRIBE")
    <3>1. c.kind \in {"SUBSCRIBE", "UNSUBSCRIBE"} <=> KeysOf(c) # {}
      BY KeysAre
    <3>2. QED
      BY <3>1 DEF Registers, KeysOf
  <2>4. Holds \subseteq Pairs /\ Holds' \subseteq Pairs
    BY DEF Holds
  <2>5. Sub' <=> Holds' # {}
    BY <1>1, <2>1, <2>2, <2>3, <2>4
  <2>6. ASSUME NEW p \in BOOLEAN, NEW k \in Keys, Entry(p, k)' # {}
        PROVE  /\ Val(p, k)'.id \in DOMAIN issued' /\ issued'[Val(p, k)'.id].kind = "SUBSCRIBE"
               /\ About(issued'[Val(p, k)'.id], p, k)
    <3>1. CASE c.kind = "SUBSCRIBE" /\ About(c, p, k)
      <4>1. Val(p, k)'.id = CommandId
        BY <3>1, CommandVal
      <4>2. CommandId \in DOMAIN issued'
        BY <1>2
      <4>3. QED
        BY <1>2, <3>1, <4>1, <4>2
    <3>2. CASE ~(c.kind = "SUBSCRIBE" /\ About(c, p, k))
      <4>1. Entry(p, k)' = Entry(p, k) /\ Val(p, k)' = Val(p, k)
        BY <3>2, CommandVal
      <4>2. QED
        BY <1>2, <2>1, <2>6, <4>1
    <3>3. QED
      BY <3>1, <3>2
  <2>7. QED
    BY <1>1, <2>1, <2>5, <2>6 DEF Flagged
<1>6. Answered'
  <2>1. pc = "callback" => run.id \in DOMAIN issued
    BY DEF Control, Running
  <2>2. QED
    BY <1>1, <1>2, <2>1 DEF Joint, Answered
<1>7. Counted'
  <2>1. /\ replies' = IF ListOf(c) = "replies" THEN Append(replies, CommandCallback(c)) ELSE replies
        /\ invalid' = IF ListOf(c) = "invalid" THEN Append(invalid, CommandCallback(c)) ELSE invalid
        /\ CommandCallback(c).pending_subs = 1 /\ CommandCallback(c) \in AnyCallback
        /\ replies \in Seq(AnyCallback) /\ invalid \in Seq(AnyCallback)
    BY CommandWaits, CommandIs, Streams
  <2>2. ASSUME NEW s \in Seq(AnyCallback), \A i \in DOMAIN s : s[i].pending_subs >= 0
        PROVE  \A i \in DOMAIN Append(s, CommandCallback(c)) :
                  Append(s, CommandCallback(c))[i].pending_subs >= 0
    <3>1. \A i \in DOMAIN Append(s, CommandCallback(c)) :
             \/ i \in DOMAIN s /\ Append(s, CommandCallback(c))[i] = s[i]
             \/ Append(s, CommandCallback(c))[i] = CommandCallback(c)
      BY <2>1
    <3>2. 1 >= 0
      OBVIOUS
    <3>3. QED
      BY <2>1, <2>2, <3>1, <3>2
  <2>3. QED
    BY <1>1, <2>1, <2>2 DEF Joint, Counted
<1>8. NeverAborts'
  BY <1>1 DEF Joint, NeverAborts
<1>9. Logged' /\ Monitored' /\ Ordered'
  BY CommandLogged, CommandMonitored, CommandOrdered
<1>10. QED
  BY <1>4, <1>5, <1>6, <1>7, <1>8, <1>9 DEF Joint

-----------------------------------------------------------------------------
(* Redis and the network.                                                   *)

\* The log with more at its end.
Extended(C, L, A, K, M) ==
    /\ IsLog(C \o A, M)
    /\ \A i \in 1..(Len(C) + 1) : M[i] = L[i]
    /\ \A j \in 1..(Len(A) + 1) : M[Len(C) + j] = K[j]

LEMMA ExtendedIs ==
    ASSUME NEW C, NEW L, IsLog(C, L), NEW A, NEW K, IsLog(A, K), NEW M, Extended(C, L, A, K, M)
    PROVE  /\ C \in Seq(AnyMessage) /\ A \in Seq(AnyMessage)
           /\ Len(C) \in Nat /\ Len(A) \in Nat /\ C \o A \in Seq(AnyMessage)
           /\ Len(C \o A) = Len(C) + Len(A)
           /\ \A i \in 1..Len(C) : (C \o A)[i] = C[i] /\ M[i] = L[i] /\ i \in 1..Len(C \o A)
           /\ \A i \in 1..Len(C \o A) : i \in 1..Len(C) \/ i - Len(C) \in 1..Len(A)
           /\ \A j \in 1..Len(A) : (C \o A)[Len(C) + j] = A[j] /\ M[Len(C) + j] = K[j]
                                    /\ Len(C) + j \in 1..Len(C \o A)
           /\ \A i \in 1..Len(C \o A) : i \notin 1..Len(C) => (C \o A)[i] = A[i - Len(C)]
           /\ M[1] = L[1] /\ M[Len(C \o A) + 1] = K[Len(A) + 1]
<1>1. C \in Seq(AnyMessage) /\ A \in Seq(AnyMessage)
  BY DEF IsLog
<1>2. Len(C) \in Nat /\ Len(A) \in Nat
  BY <1>1
<1>3. /\ C \o A \in Seq(AnyMessage) /\ Len(C \o A) = Len(C) + Len(A)
      /\ \A i \in 1..(Len(C) + Len(A)) : (C \o A)[i] = IF i <= Len(C) THEN C[i] ELSE A[i - Len(C)]
  BY <1>1
<1>4. \A i \in 1..Len(C) : (C \o A)[i] = C[i] /\ M[i] = L[i] /\ i \in 1..Len(C \o A)
  BY <1>2, <1>3 DEF Extended
<1>5. \A i \in 1..Len(C \o A) : i \in 1..Len(C) \/ i - Len(C) \in 1..Len(A)
  BY <1>2, <1>3
<1>6. ASSUME NEW j \in 1..Len(A)
      PROVE  (C \o A)[Len(C) + j] = A[j] /\ M[Len(C) + j] = K[j] /\ Len(C) + j \in 1..Len(C \o A)
  <2>1. j \in 1..(Len(A) + 1) /\ Len(C) + j \in 1..(Len(C) + Len(A)) /\ ~(Len(C) + j <= Len(C))
        /\ (Len(C) + j) - Len(C) = j
    BY <1>2
  <2>2. QED
    BY <1>3, <2>1 DEF Extended
<1>7. \A i \in 1..Len(C \o A) : i \notin 1..Len(C) => (C \o A)[i] = A[i - Len(C)]
  BY <1>2, <1>3
<1>8. M[1] = L[1]
  <2>1. 1 \in 1..(Len(C) + 1)
    BY <1>2
  <2>2. QED
    BY <2>1 DEF Extended
<1>9. M[Len(C \o A) + 1] = K[Len(A) + 1]
  <2>1. Len(A) + 1 \in 1..(Len(A) + 1) /\ Len(C \o A) + 1 = Len(C) + (Len(A) + 1)
    BY <1>2, <1>3
  <2>2. QED
    BY <2>1 DEF Extended
<1>10. QED
  BY <1>1, <1>2, <1>3, <1>4, <1>5, <1>6, <1>7, <1>8, <1>9

\* What comes by itself is sent, or what answers a command without a regular
\* callback: those that wait stay the same.
LEMMA MatchedSent ==
    ASSUME NEW C, NEW L, IsLog(C, L), NEW A, NEW K, IsLog(A, K), NEW M, Extended(C, L, A, K, M),
           NEW is, NEW U, NEW V, NEW R, NEW I, Matched(C, L, U, is, R, I),
           ServedOf(U, is) \in Nat, ServedOf(V, is) \in Nat, ServedOf(U, is) <= ServedOf(V, is),
           is \in Seq(AnyCommand),
           \A n : n \in Range(V) => n \in Range(U),
           \A n : n \in Range(U) /\ IsRegular(is, n) => n \in Range(V),
           \A j \in 1..Len(A) : A[j].for = 0,
           \/ \A j \in 1..Len(A) : A[j].kind = "reply"
           \/ \A n : Has(R, n) => ~(n > ServedOf(V, is))
    PROVE  Matched(C \o A, M, V, is, R, I)
<1> DEFINE D == C \o A
           S == ServedOf(U, is)
           T == ServedOf(V, is)
<1>1. /\ \A n : Has(R, n) \/ Has(I, n) <=>
           \/ n \in Range(U) /\ IsRegular(is, n)
           \/ n # 0 /\ \E i \in 1..Len(C) : C[i].for = n
      /\ \A i \in 1..Len(C) : C[i].for # 0 =>
           /\ IsRegular(is, C[i].for) /\ C[i].for <= S
           /\ L[i] = WantedIn(is, C[i].for - 1)
      /\ \A i, j \in 1..Len(C) : i < j /\ C[i].for # 0 /\ C[j].for # 0 => C[i].for < C[j].for
      /\ \A n : Has(R, n) =>
           /\ WantedIn(is, n - 1) = {}
           /\ \A i, j \in 1..Len(C) : i < j /\ C[j].for = n => C[i].kind = "reply"
           /\ n > S => \A i \in 1..Len(C) : C[i].kind = "reply"
           /\ \A k \in Range(U) : k < n => IsRegular(is, k)
      /\ \A n : Has(I, n) => WantedIn(is, n - 1) # {}
  BY DEF Matched
<1>2. /\ \A i \in 1..Len(C) : D[i] = C[i] /\ M[i] = L[i] /\ i \in 1..Len(D)
      /\ \A i \in 1..Len(D) : D[i].for # 0 => i \in 1..Len(C)
      /\ \A i \in 1..Len(D) : i \in 1..Len(C) \/ (i - Len(C) \in 1..Len(A) /\ D[i] = A[i - Len(C)])
      /\ Len(C) \in Nat /\ Len(D) \in Nat
  BY ExtendedIs
<1>3. /\ S \in Nat /\ T \in Nat /\ S <= T
      /\ DOMAIN is = 1..Len(is) /\ Len(is) \in Nat
      /\ \A n : n \in Range(V) => n \in Range(U)
      /\ \A n : n \in Range(U) /\ IsRegular(is, n) => n \in Range(V)
      /\ (\A j \in 1..Len(A) : A[j].kind = "reply") \/ (\A n : Has(R, n) => ~(n > T))
  OBVIOUS
<1> HIDE DEF D, S, T
<1>4. \A n : IsRegular(is, n) => n \in Nat /\ n # 0
  BY <1>3 DEF IsRegular
<1>5. \A n : Has(R, n) => n \in Nat /\ n # 0
  BY <1>1, <1>4
<1>6. ASSUME NEW n
      PROVE  Has(R, n) \/ Has(I, n) <=>
                \/ n \in Range(V) /\ IsRegular(is, n)
                \/ n # 0 /\ \E i \in 1..Len(D) : D[i].for = n
  BY <1>1, <1>2, <1>3
<1>7. ASSUME NEW i \in 1..Len(D), D[i].for # 0
      PROVE  /\ IsRegular(is, D[i].for) /\ D[i].for <= T
             /\ M[i] = WantedIn(is, D[i].for - 1)
  <2>1. i \in 1..Len(C) /\ D[i] = C[i] /\ M[i] = L[i] /\ C[i].for # 0
    BY <1>2, <1>7
  <2>2. IsRegular(is, C[i].for) /\ C[i].for <= S /\ C[i].for \in Nat
    BY <1>1, <1>4, <2>1
  <2>3. C[i].for <= T
    BY <1>3, <2>2
  <2>4. QED
    BY <1>1, <2>1, <2>2, <2>3
<1>8. \A i, j \in 1..Len(D) : i < j /\ D[i].for # 0 /\ D[j].for # 0 => D[i].for < D[j].for
  BY <1>1, <1>2
<1>9. ASSUME NEW n, Has(R, n)
      PROVE  /\ WantedIn(is, n - 1) = {}
             /\ \A i, j \in 1..Len(D) : i < j /\ D[j].for = n => D[i].kind = "reply"
             /\ n > T => \A i \in 1..Len(D) : D[i].kind = "reply"
             /\ \A k \in Range(V) : k < n => IsRegular(is, k)
  <2>1. n \in Nat /\ n # 0
    BY <1>5, <1>9
  <2>2. ASSUME NEW i \in 1..Len(D), NEW j \in 1..Len(D), i < j, D[j].for = n
        PROVE  D[i].kind = "reply"
    <3>1. j \in 1..Len(C) /\ D[j] = C[j]
      BY <1>2, <2>1, <2>2
    <3>2. i \in 1..Len(C) /\ D[i] = C[i]
      BY <1>2, <2>2, <3>1
    <3>3. QED
      BY <1>1, <1>9, <2>2, <3>1, <3>2
  <2>3. ASSUME n > T, NEW i \in 1..Len(D)
        PROVE  D[i].kind = "reply"
    <3>1. n > S
      BY <1>3, <2>1, <2>3
    <3>2. \A j \in 1..Len(A) : A[j].kind = "reply"
      BY <1>3, <1>9, <2>3
    <3>3. CASE i \in 1..Len(C)
      <4>1. D[i] = C[i]
        BY <1>2, <3>3
      <4>2. QED
        BY <1>1, <1>9, <3>1, <3>3, <4>1
    <3>4. CASE i - Len(C) \in 1..Len(A) /\ D[i] = A[i - Len(C)]
      BY <3>2, <3>4
    <3>5. QED
      BY <1>2, <3>3, <3>4
  <2>4. QED
    BY <1>1, <1>3, <1>9, <2>2, <2>3
<1>10. QED
  BY <1>1, <1>6, <1>7, <1>8, <1>9 DEF Matched, S, T, D

\* A regular command is answered, the first that Redis had not served.
LEMMA MatchedAnswer ==
    ASSUME NEW C, NEW L, IsLog(C, L), NEW m, NEW K, IsLog(<<m>>, K), NEW M, Extended(C, L, <<m>>, K, M),
           NEW is \in Seq(AnyCommand), NEW U \in Seq(Nat), Numbered(U, is), U # << >>,
           NEW R, NEW I, Matched(C, L, U, is, R, I),
           m.kind = "reply", m.for = Head(U), IsRegular(is, Head(U)),
           K[1] = WantedIn(is, ServedOf(U, is))
    PROVE  Matched(C \o <<m>>, M, Tail(U), is, R, I)
<1> DEFINE D == C \o <<m>>
           S == ServedOf(U, is)
           h == Head(U)
           V == Tail(U)
           N == Len(C) + 1
<1>1. /\ \A n : Has(R, n) \/ Has(I, n) <=>
           \/ n \in Range(U) /\ IsRegular(is, n)
           \/ n # 0 /\ \E i \in 1..Len(C) : C[i].for = n
      /\ \A i \in 1..Len(C) : C[i].for # 0 =>
           /\ IsRegular(is, C[i].for) /\ C[i].for <= S
           /\ L[i] = WantedIn(is, C[i].for - 1)
      /\ \A i, j \in 1..Len(C) : i < j /\ C[i].for # 0 /\ C[j].for # 0 => C[i].for < C[j].for
      /\ \A n : Has(R, n) =>
           /\ WantedIn(is, n - 1) = {}
           /\ \A i, j \in 1..Len(C) : i < j /\ C[j].for = n => C[i].kind = "reply"
           /\ n > S => \A i \in 1..Len(C) : C[i].kind = "reply"
           /\ \A k \in Range(U) : k < n => IsRegular(is, k)
      /\ \A n : Has(I, n) => WantedIn(is, n - 1) # {}
  BY DEF Matched
<1>2. /\ S \in Nat /\ h = S + 1 /\ h - 1 = S /\ ServedOf(V, is) = S + 1
      /\ \A n : n \in Range(U) <=> n \in (S + 1)..Len(is)
      /\ DOMAIN is = 1..Len(is) /\ Len(is) \in Nat /\ h \in DOMAIN is
      /\ V \in Seq(Nat) /\ Numbered(V, is)
  BY NumberedIs
<1>3. \A n : n \in Range(V) <=> n \in ((S + 1) + 1)..Len(is)
  <2>1. \A n : n \in Range(V) <=> n \in (ServedOf(V, is) + 1)..Len(is)
    BY <1>2, NumberedIs
  <2>2. QED
    BY <1>2, <2>1
<1>4. \A n : n \in Range(U) <=> n \in Range(V) \/ n = h
  BY <1>2, <1>3
<1>5. Len(C) \in Nat /\ N \in Nat /\ Len(D) = N /\ Len(<<m>>) = 1 /\ <<m>>[1] = m /\ 1 \in 1..Len(<<m>>)
  BY ExtendedIs
<1>6. /\ \A i \in 1..Len(C) : D[i] = C[i] /\ M[i] = L[i] /\ i \in 1..N
      /\ D[N] = m /\ M[N] = K[1] /\ N \in 1..N
      /\ \A i \in 1..N : i \in 1..Len(C) \/ i = N
      /\ \A i \in 1..Len(C) : i < N
      /\ \A i, j \in 1..N : i < j => i \in 1..Len(C)
  <2>1. /\ \A i \in 1..Len(C) : D[i] = C[i] /\ M[i] = L[i]
        /\ \A j \in 1..Len(<<m>>) : D[Len(C) + j] = <<m>>[j] /\ M[Len(C) + j] = K[j]
    BY ExtendedIs
  <2>2. D[N] = m /\ M[N] = K[1]
    BY <1>5, <2>1
  <2>3. QED
    BY <1>5, <2>1, <2>2
<1>7. /\ K[1] = WantedIn(is, S) /\ m.kind = "reply" /\ m.for = h /\ IsRegular(is, h)
  OBVIOUS
<1> HIDE DEF D, S, h, V, N
<1>8. \A n : IsRegular(is, n) => n \in Nat /\ n # 0
  BY <1>2 DEF IsRegular
<1>9. h \in Nat /\ h # 0 /\ h > S
  BY <1>2
<1>10. ASSUME NEW n
       PROVE  Has(R, n) \/ Has(I, n) <=>
                \/ n \in Range(V) /\ IsRegular(is, n)
                \/ n # 0 /\ \E i \in 1..N : D[i].for = n
  <2>1. (\E i \in 1..N : D[i].for = n) <=> (\E i \in 1..Len(C) : C[i].for = n) \/ n = h
    BY <1>6, <1>7
  <2>2. n \in Range(U) /\ IsRegular(is, n) <=> (n \in Range(V) \/ n = h) /\ IsRegular(is, n)
    BY <1>4
  <2>3. QED
    BY <1>1, <1>7, <1>9, <2>1, <2>2
<1>11. ASSUME NEW i \in 1..N, D[i].for # 0
       PROVE  /\ IsRegular(is, D[i].for) /\ D[i].for <= S + 1
              /\ M[i] = WantedIn(is, D[i].for - 1)
  <2>1. CASE i \in 1..Len(C)
    <3>1. D[i] = C[i] /\ M[i] = L[i] /\ C[i].for # 0
      BY <1>6, <1>11, <2>1
    <3>2. IsRegular(is, C[i].for) /\ C[i].for <= S /\ C[i].for \in Nat
      BY <1>1, <1>8, <2>1, <3>1
    <3>3. C[i].for <= S + 1
      BY <1>2, <3>2
    <3>4. QED
      BY <1>1, <2>1, <3>1, <3>2, <3>3
  <2>2. CASE i = N
    <3>1. h <= S + 1
      BY <1>2
    <3>2. QED
      BY <1>2, <1>6, <1>7, <2>2, <3>1
  <2>3. QED
    BY <1>6, <2>1, <2>2
<1>12. ASSUME NEW i \in 1..N, NEW j \in 1..N, i < j, D[i].for # 0, D[j].for # 0
       PROVE  D[i].for < D[j].for
  <2>1. i \in 1..Len(C) /\ D[i] = C[i]
    BY <1>6, <1>12
  <2>2. CASE j \in 1..Len(C)
    BY <1>1, <1>6, <1>12, <2>1, <2>2
  <2>3. CASE j = N
    <3>1. C[i].for <= S /\ C[i].for \in Nat
      BY <1>1, <1>8, <1>12, <2>1
    <3>2. C[i].for < h
      BY <1>2, <3>1
    <3>3. QED
      BY <1>6, <1>7, <2>1, <2>3, <3>2
  <2>4. QED
    BY <1>6, <2>2, <2>3
<1>13. ASSUME NEW n, Has(R, n)
       PROVE  /\ WantedIn(is, n - 1) = {}
              /\ \A i, j \in 1..N : i < j /\ D[j].for = n => D[i].kind = "reply"
              /\ n > S + 1 => \A i \in 1..N : D[i].kind = "reply"
              /\ \A k \in Range(V) : k < n => IsRegular(is, k)
  <2>1. n \in Nat
    <3>1. IsRegular(is, n)
      BY <1>1, <1>13
    <3>2. QED
      BY <1>8, <3>1
  <2>2. ASSUME NEW i \in 1..N, NEW j \in 1..N, i < j, D[j].for = n
        PROVE  D[i].kind = "reply"
    <3>1. i \in 1..Len(C) /\ D[i] = C[i]
      BY <1>6, <2>2
    <3>2. CASE j \in 1..Len(C)
      BY <1>1, <1>6, <1>13, <2>2, <3>1, <3>2
    <3>3. CASE j = N
      BY <1>1, <1>6, <1>7, <1>9, <1>13, <2>2, <3>1, <3>3
    <3>4. QED
      BY <1>6, <3>2, <3>3
  <2>3. ASSUME n > S + 1, NEW i \in 1..N
        PROVE  D[i].kind = "reply"
    <3>1. n > S
      BY <1>2, <2>1, <2>3
    <3>2. QED
      BY <1>1, <1>6, <1>7, <1>13, <3>1
  <2>4. QED
    BY <1>1, <1>4, <1>13, <2>2, <2>3
<1>14. Matched(D, M, V, is, R, I)
  BY <1>1, <1>2, <1>5, <1>10, <1>11, <1>12, <1>13 DEF Matched
<1>15. QED
  BY <1>14 DEF D, V

\* What Redis and the network leave alone.
LEMMA EnvironmentLeaves ==
    ASSUME Environment, Joint
    PROVE  /\ Holds' = Holds /\ Owes' = Owes /\ (Sub' <=> Sub) /\ (Mon' <=> Mon) /\ (Alive' <=> Alive)
           /\ (Processing' <=> Processing) /\ issued' = issued
           /\ UNCHANGED <<replies, invalid, cb, obuf, rbuf>>
           /\ \A p \in BOOLEAN, k \in Keys : Entry(p, k)' = Entry(p, k) /\ Val(p, k)' = Val(p, k)
           /\ Ordered' /\ Answered' /\ Counted' /\ NeverAborts'
<1>1. UNCHANGED <<flags, err, replies, invalid, channels, patterns, hook, obuf, rbuf, cb, it, pc,
                  caller, run, scheduled, issued, done>>
  BY EnvironmentIs DEF context, thread, history
<1>2. /\ Holds' = Holds /\ Owes' = Owes
      /\ \A p \in BOOLEAN, k \in Keys : Entry(p, k)' = Entry(p, k) /\ Val(p, k)' = Val(p, k)
  BY <1>1, SameDicts
<1>3. (Sub' <=> Sub) /\ (Mon' <=> Mon) /\ (Alive' <=> Alive) /\ (Processing' <=> Processing)
  BY <1>1 DEF Sub, Mon, Alive, Processing
<1>4. Ordered'
  BY <1>1, <1>3 DEF Joint, Ordered, Waits
<1>5. Answered' /\ Counted' /\ NeverAborts'
  BY <1>1 DEF Joint, Answered, Counted, NeverAborts
<1>6. QED
  BY <1>1, <1>2, <1>3, <1>4, <1>5

\* Redis sends A, whose log is K.
Sends(A, K) ==
    /\ Environment /\ conn = "open"
    /\ IsLog(A, K) /\ K[1] = subs /\ \A j \in 1..Len(A) : A[j] # ERR0

\* The rest of the counts is the same when what is not served any more is sent.
LEMMA BalancedSent ==
    ASSUME NEW C \in Seq(AnyMessage), NEW A \in Seq(AnyMessage), NEW first, NEW is,
           NEW U \in Seq(Nat), NEW V \in Seq(Nat), NEW owes, NEW holds,
           Balanced(C, first, is, U, owes, holds),
           \A k \in Pairs : SubCount(is, V, k) + AckCount(A, k) = SubCount(is, U, k)
    PROVE  Balanced(C \o A, first, is, V, owes, holds)
<1>1. ASSUME NEW k \in Pairs
      PROVE  owes[k] = SubCount(is, V, k) + AckCount(C \o A, k) /\ (k \in holds <=> owes[k] > 0 \/ k \in first)
  <2>1. AckCount(C \o A, k) = AckCount(C, k) + AckCount(A, k)
    BY AmongConcat DEF AckCount
  <2>2. /\ SubCount(is, V, k) \in Nat /\ SubCount(is, U, k) \in Nat
        /\ AckCount(C, k) \in Nat /\ AckCount(A, k) \in Nat
    BY CountsAre
  <2>3. owes[k] = SubCount(is, U, k) + AckCount(C, k) /\ (k \in holds <=> owes[k] > 0 \/ k \in first)
    BY DEF Balanced
  <2>4. SubCount(is, V, k) + AckCount(A, k) = SubCount(is, U, k)
    OBVIOUS
  <2>5. QED
    BY <2>1, <2>2, <2>3, <2>4
<1>2. QED
  BY <1>1 DEF Balanced

\* Those that wait are matched after what is sent.
Matches(A, K, V) ==
    \A C, L, M : LoggedBy(C, L) /\ Extended(C, L, A, K, M)
                 /\ Matched(C, L, Unserved, issued, replies, invalid)
                 => Matched(C \o A, M, V, issued, replies, invalid)

LEMMA SentAfter ==
    \A r, s, t \in Seq(AnyMessage) : (r \o s) \o t = r \o (s \o t)
  BY ConcatAssociative

LEMMA SendsLogged ==
    ASSUME Typed, Typed', Joint, NEW A, NEW K, Sends(A, K), inbox' = inbox \o A, K[Len(A) + 1] = subs',
           NEW V, V = Unserved',
           \A k \in Pairs : SubCount(issued, V, k) + AckCount(A, k) = SubCount(issued, Unserved, k),
           Reg => Matches(A, K, V)
    PROVE  Logged'
<1>1. /\ Environment /\ conn = "open" /\ IsLog(A, K) /\ K[1] = subs
      /\ Holds' = Holds /\ Owes' = Owes /\ issued' = issued /\ rbuf' = rbuf
      /\ (Mon' <=> Mon) /\ (Alive' <=> Alive) /\ UNCHANGED <<replies, invalid>>
  BY EnvironmentLeaves DEF Sends
<1>2. PICK lost, L :
        /\ lost \in Seq(AnyMessage) /\ (conn # "closed" => lost = << >>)
        /\ LoggedBy(Coming \o lost, L)
  BY DEF Joint, Logged
<1>3. /\ Coming \in Seq(AnyMessage) /\ rbuf \in Seq(AnyMessage) /\ inbox \in Seq(AnyMessage)
      /\ A \in Seq(AnyMessage) /\ Unserved \in Seq(Nat)
  BY <1>1, Streams DEF IsLog
<1>4. LoggedBy(Coming, L) /\ IsLog(Coming, L) /\ L[Len(Coming) + 1] = subs
      /\ Balanced(Coming, L[1], issued, Unserved, Owes, Holds)
      /\ (Reg => Matched(Coming, L, Unserved, issued, replies, invalid))
  <2>1. Coming \o lost = Coming
    BY <1>1, <1>2, <1>3
  <2>2. LoggedBy(Coming, L)
    BY <1>2, <2>1
  <2>3. QED
    BY <2>2 DEF LoggedBy
<1>5. PICK M : Extended(Coming, L, A, K, M)
  <2>1. \E M : /\ IsLog(Coming \o A, M)
               /\ \A i \in 1..(Len(Coming) + 1) : M[i] = L[i]
               /\ \A j \in 1..(Len(A) + 1) : M[Len(Coming) + j] = K[j]
    BY <1>1, <1>4, LogAppend, SMTT(30)
  <2>2. QED
    BY <2>1 DEF Extended
<1>6. Coming' = Coming \o A
  <2>1. (rbuf \o inbox) \o A = rbuf \o (inbox \o A)
    BY <1>3, SentAfter
  <2>2. QED
    BY <1>1, <2>1 DEF Coming
<1>7. PICK D : D = Coming \o A
  OBVIOUS
<1>8. /\ IsLog(D, M) /\ M[1] = L[1] /\ M[Len(D) + 1] = subs' /\ D \in Seq(AnyMessage)
  <2>1. /\ Coming \o A \in Seq(AnyMessage)
        /\ M[1] = L[1] /\ M[Len(Coming \o A) + 1] = K[Len(A) + 1]
    BY <1>1, <1>4, <1>5, ExtendedIs
  <2>2. QED
    BY <1>5, <1>7, <2>1 DEF Extended
<1>9. V \in Seq(Nat)
  <2>1. Unserved' \in Seq(Nat)
    <3>1. wire' \in Seq(1..Len(issued')) /\ obuf' \in Seq(1..Len(issued')) /\ Len(issued') \in Nat
      BY DEF Typed, TypedStreams
    <3>2. 1..Len(issued') \subseteq Nat
      BY <3>1
    <3>3. wire' \in Seq(Nat) /\ obuf' \in Seq(Nat)
      BY <3>1, <3>2, SeqWiden
    <3>4. QED
      BY <3>3, ConcatProperties DEF Unserved
  <2>2. QED
    BY <2>1
<1>10. Balanced(D, M[1], issued, V, Owes, Holds)
  BY <1>3, <1>4, <1>7, <1>8, <1>9, BalancedSent
<1>11. Reg' => Reg
  <2>1. ~Full
    BY <1>1 DEF Full
  <2>2. QED
    BY <1>1, <2>1 DEF Reg
<1>12. Reg' => Matched(D, M, V, issued, replies, invalid)
  BY <1>4, <1>5, <1>7, <1>11 DEF Matches
<1>13. LoggedBy(D, M)'
  BY <1>1, <1>8, <1>10, <1>12 DEF LoggedBy
<1>14. Logged'
  <2>1. PICK none : none = << >>
    OBVIOUS
  <2>2. none \in Seq(AnyMessage) /\ D \o none = D
    BY <1>8, <2>1
  <2>3. (Coming \o none)' = D
    BY <1>6, <1>7, <2>2
  <2>4. LoggedBy(Coming \o none, M)'
    BY <1>13, <2>3
  <2>5. QED
    BY <2>1, <2>2, <2>4 DEF Logged
<1>15. QED
  BY <1>14

LEMMA SendsFlagged ==
    ASSUME Typed, Joint, NEW A, NEW K, Sends(A, K), inbox' = inbox \o A, conn' \in {"open", "closed"}
    PROVE  /\ Flagged' /\ Coming' = Coming \o A
           /\ \A i \in 1..Len(Coming') : (i \in 1..Len(Coming) /\ Coming'[i] = Coming[i])
                                          \/ (\E j \in 1..Len(A) : Coming'[i] = A[j])
<1>1. /\ Environment /\ conn = "open" /\ (\A j \in 1..Len(A) : A[j] # ERR0) /\ A \in Seq(AnyMessage)
      /\ Holds' = Holds /\ issued' = issued /\ rbuf' = rbuf /\ (Sub' <=> Sub)
      /\ \A p \in BOOLEAN, k \in Keys : Entry(p, k)' = Entry(p, k) /\ Val(p, k)' = Val(p, k)
  BY EnvironmentLeaves DEF Sends, IsLog
<1>2. /\ Coming \in Seq(AnyMessage) /\ rbuf \in Seq(AnyMessage) /\ inbox \in Seq(AnyMessage)
      /\ A \in Seq(AnyMessage)
  BY Streams DEF Sends, IsLog
<1>3. Coming' = Coming \o A
  <2>1. (rbuf \o inbox) \o A = rbuf \o (inbox \o A)
    BY <1>2, SentAfter
  <2>2. QED
    BY <1>1, <2>1 DEF Coming
<1>4. \A i \in 1..Len(Coming') : (i \in 1..Len(Coming) /\ Coming'[i] = Coming[i])
                                  \/ (\E j \in 1..Len(A) : Coming'[i] = A[j])
  <2>1. /\ Len(Coming \o A) = Len(Coming) + Len(A) /\ Len(Coming) \in Nat /\ Len(A) \in Nat
        /\ \A i \in 1..(Len(Coming) + Len(A)) :
             (Coming \o A)[i] = IF i <= Len(Coming) THEN Coming[i] ELSE A[i - Len(Coming)]
    BY <1>1, <1>2
  <2>2. ASSUME NEW i \in 1..(Len(Coming) + Len(A))
        PROVE  (i \in 1..Len(Coming) /\ (Coming \o A)[i] = Coming[i]) \/ (\E j \in 1..Len(A) : (Coming \o A)[i] = A[j])
    <3>1. CASE i <= Len(Coming)
      BY <2>1, <3>1
    <3>2. CASE ~(i <= Len(Coming))
      <4>1. i - Len(Coming) \in 1..Len(A)
        BY <2>1, <3>2
      <4>2. QED
        BY <2>1, <3>2, <4>1
    <3>3. QED
      BY <3>1, <3>2
  <2>3. QED
    BY <1>3, <2>1, <2>2
<1>5. \A i \in 1..Len(Coming) : Coming[i] # ERR0
  BY <1>1 DEF Joint, Flagged, Full
<1>6. \A i \in 1..Len(Coming') : Coming'[i] # ERR0
  BY <1>1, <1>4, <1>5
<1>7. Flagged'
  BY <1>1, <1>6 DEF Joint, Flagged
<1>8. QED
  BY <1>3, <1>4, <1>7

\* No regular callback waits for a command behind what is subscribed to.
LEMMA NoneBehind ==
    ASSUME NEW C, NEW L, NEW is \in Seq(Commands), is \in Seq(AnyCommand), NEW U \in Seq(Nat), Numbered(U, is),
           NEW R, NEW I, Matched(C, L, U, is, R, I), WantedIn(is, ServedOf(U, is)) # {}
    PROVE  \A n : Has(R, n) => ~(n > ServedOf(U, is))
<1> DEFINE S == ServedOf(U, is)
<1>1. /\ \A n : Has(R, n) \/ Has(I, n) <=>
           \/ n \in Range(U) /\ IsRegular(is, n)
           \/ n # 0 /\ \E i \in 1..Len(C) : C[i].for = n
      /\ \A i \in 1..Len(C) : C[i].for # 0 => IsRegular(is, C[i].for)
      /\ \A n : Has(R, n) =>
           /\ WantedIn(is, n - 1) = {}
           /\ \A k \in Range(U) : k < n => IsRegular(is, k)
  BY DEF Matched
<1>2. /\ S \in Nat /\ DOMAIN is = 1..Len(is) /\ Len(is) \in Nat
      /\ \A n : n \in Range(U) <=> n \in (S + 1)..Len(is)
  BY NumberedIs
<1>3. WantedIn(is, S) # {}
  OBVIOUS
<1> HIDE DEF S
<1>4. SUFFICES ASSUME NEW n, Has(R, n), n > S
               PROVE  FALSE
  BY DEF S
<1>5. IsRegular(is, n)
  BY <1>1, <1>4
<1>6. n \in 1..Len(is)
  BY <1>2, <1>5 DEF IsRegular
<1>7. n - 1 \in Nat /\ S <= n - 1 /\ n - 1 <= Len(is)
  BY <1>2, <1>4, <1>6
<1>8. ASSUME NEW k \in (S + 1)..(n - 1)
      PROVE  KeysOf(is[k]) = {}
  <2>1. k \in (S + 1)..Len(is) /\ k < n
    BY <1>2, <1>6, <1>7
  <2>2. IsRegular(is, k)
    BY <1>1, <1>2, <1>4, <2>1
  <2>3. is[k] \in Commands /\ is[k].kind \notin {"SUBSCRIBE", "UNSUBSCRIBE"}
    BY <2>2 DEF IsRegular
  <2>4. QED
    BY <2>3, KeysAre
<1>9. WantedIn(is, n - 1) = WantedIn(is, S)
  BY <1>2, <1>7, <1>8, WantedSame
<1>10. QED
  BY <1>1, <1>3, <1>4, <1>9

\* A message by itself.
LEMMA SendsOne ==
    ASSUME Typed, Typed', Control, Joint, Environment, conn = "open",
           NEW m \in AnyMessage, m # ERR0, m.kind # "subscribe", Follows(m, subs, subs),
           inbox' = inbox \o <<m>>, UNCHANGED <<conn, wire, subs, monitors>>,
           Mon => m \in {BAD, Reply("STATUS", Len(issued))},
           ~Mon => m.for = 0 /\ (m.kind = "reply" \/ subs # {})
    PROVE  Joint'
<1>1. subs \in SUBSET Pairs /\ issued \in Seq(Commands) /\ issued \in Seq(AnyCommand)
      /\ Unserved \in Seq(Nat)
  BY Streams
<1>2. PICK A : A = <<m>>
  OBVIOUS
<1>3. PICK K : K = <<subs, subs>>
  OBVIOUS
<1>4. /\ IsLog(A, K) /\ Len(A) = 1 /\ A[1] = m /\ K[1] = subs /\ K[2] = subs /\ A \in Seq(AnyMessage)
  BY <1>1, <1>2, <1>3, LogOne
<1>5. Sends(A, K) /\ inbox' = inbox \o A /\ K[Len(A) + 1] = subs' /\ (\A j \in 1..Len(A) : A[j] = m)
  BY <1>2, <1>4 DEF Sends
<1>6. /\ Holds' = Holds /\ Owes' = Owes /\ (Sub' <=> Sub) /\ (Mon' <=> Mon)
      /\ (Processing' <=> Processing) /\ issued' = issued
      /\ UNCHANGED <<replies, invalid, cb, obuf, rbuf>>
      /\ Ordered' /\ Answered' /\ Counted' /\ NeverAborts'
  BY EnvironmentLeaves
<1>7. Unserved' = Unserved
  BY <1>6 DEF Unserved
<1>8. /\ Numbered(Unserved, issued) /\ subs = WantedIn(issued, ServedOf(Unserved, issued)) /\ Leaves(issued)
  BY DEF Joint, Serves
<1>9. Serves'
  BY <1>6, <1>7, <1>8 DEF Serves
<1>10. ASSUME NEW k \in Pairs
       PROVE  SubCount(issued, Unserved, k) + AckCount(A, k) = SubCount(issued, Unserved, k)
  <2>1. m \notin AcksOf(k)
    BY DEF AcksOf
  <2>2. AckCount(A, k) = 0 /\ SubCount(issued, Unserved, k) \in Nat
    BY <1>1, <1>4, <1>5, <2>1, CountsAre
  <2>3. QED
    BY <2>2
<1>11. Reg => Matches(A, K, Unserved)
  <2>1. SUFFICES ASSUME Reg, NEW C, NEW L, NEW M, LoggedBy(C, L), Extended(C, L, A, K, M),
                        Matched(C, L, Unserved, issued, replies, invalid)
                 PROVE  Matched(C \o A, M, Unserved, issued, replies, invalid)
    BY DEF Matches
  <2>2. IsLog(C, L)
    BY <2>1 DEF LoggedBy
  <2>3. ServedOf(Unserved, issued) \in Nat /\ ServedOf(Unserved, issued) <= ServedOf(Unserved, issued)
    BY <1>1, <1>8, NumberedIs
  <2>4. ~Mon
    BY <2>1 DEF Reg
  <2>5. \A j \in 1..Len(A) : A[j].for = 0
    BY <1>5, <2>4
  <2>6. CASE m.kind = "reply"
    <3>1. \A j \in 1..Len(A) : A[j].kind = "reply"
      BY <1>5, <2>6
    <3>2. QED
      BY <1>1, <1>4, <2>1, <2>2, <2>3, <2>5, <3>1, MatchedSent
  <2>7. CASE subs # {}
    <3>1. \A n : Has(replies, n) => ~(n > ServedOf(Unserved, issued))
      BY <1>1, <1>8, <2>1, <2>7, NoneBehind
    <3>2. QED
      BY <1>1, <1>4, <2>1, <2>2, <2>3, <2>5, <3>1, MatchedSent
  <2>8. QED
    BY <2>4, <2>6, <2>7
<1>12. Logged'
  BY <1>4, <1>5, <1>7, <1>10, <1>11, SendsLogged
<1>13. /\ Flagged'
       /\ \A i \in 1..Len(Coming') : (i \in 1..Len(Coming) /\ Coming'[i] = Coming[i]) \/ Coming'[i] = m
  <2>1. conn' \in {"open", "closed"}
    OBVIOUS
  <2>2. QED
    BY <1>5, <2>1, SendsFlagged
<1>14. Monitored'
  <2>1. CASE Mon
    BY <1>6, <1>7, <1>13, <2>1 DEF Joint, Monitored
  <2>2. CASE ~Mon
    BY <1>6, <2>2 DEF Joint, Monitored
  <2>3. QED
    BY <2>1, <2>2
<1>15. QED
  BY <1>6, <1>9, <1>12, <1>13, <1>14 DEF Joint

LEMMA JointPublish ==
    ASSUME Typed, Typed', Control, Joint, Publish
    PROVE  Joint'
<1>1. Environment /\ conn = "open" /\ UNCHANGED <<conn, wire, subs, monitors>>
  BY DEF Environment, Publish, server
<1>2. inbox \in Seq(AnyMessage) /\ subs \in SUBSET Pairs
  BY Streams
<1>3. CASE \E s \in subs : inbox' = Append(inbox, Message("ARRAY", 0, "message", s[1], s[2], 0))
  <2>1. PICK s \in subs : inbox' = Append(inbox, Message("ARRAY", 0, "message", s[1], s[2], 0))
    BY <1>3
  <2>2. PICK m : m = Message("ARRAY", 0, "message", s[1], s[2], 0)
    OBVIOUS
  <2>3. s[1] \in BOOLEAN /\ s[2] \in Keys /\ s = <<s[1], s[2]>>
    BY <1>2, PairIs
  <2>4. m \in AnyMessage /\ m.kind = "message" /\ m.for = 0 /\ Key(m) = s
    BY <2>2, <2>3 DEF Message, AnyMessage, Key
  <2>5. m # ERR0
    BY <2>4 DEF ERR0, Reply, Message
  <2>6. Follows(m, subs, subs)
    BY <2>4 DEF Follows
  <2>7. ~Mon
    BY <1>1, <2>1 DEF Joint, Monitored
  <2>8. inbox' = inbox \o <<m>>
    BY <1>2, <2>1, <2>2, <2>4
  <2>9. subs # {} /\ m.kind # "subscribe"
    BY <2>1, <2>4
  <2>10. QED
    BY <1>1, <2>4, <2>5, <2>6, <2>7, <2>8, <2>9, SendsOne
<1>4. CASE monitors # 0 /\ inbox' = Append(inbox, Reply("STATUS", monitors))
  <2>1. Mon /\ monitors = Len(issued) /\ monitors \in Nat
    BY <1>4 DEF Joint, Monitored, Typed, TypedStreams
  <2>2. PICK m : m = Reply("STATUS", monitors)
    OBVIOUS
  <2>3. m \in AnyMessage /\ m.kind = "reply" /\ m.for = monitors /\ m.type = "STATUS"
    BY <2>1, <2>2, ReplyIs
  <2>4. m # ERR0
    BY <2>3 DEF ERR0, Reply, Message
  <2>5. Follows(m, subs, subs)
    BY <1>4, <2>3 DEF Follows
  <2>6. inbox' = inbox \o <<m>>
    BY <1>2, <1>4, <2>2, <2>3
  <2>7. m \in {BAD, Reply("STATUS", Len(issued))} /\ m.kind # "subscribe"
    BY <2>1, <2>2, <2>3
  <2>8. QED
    BY <1>1, <2>1, <2>3, <2>4, <2>5, <2>6, <2>7, SendsOne
<1>5. QED
  BY <1>3, <1>4 DEF Publish

\* What the connection had not delivered when it is closed is lost.
LEMMA JointUpset ==
    ASSUME Typed, Typed', Control, Joint, Upset
    PROVE  Joint'
<1>1. Environment /\ conn = "open" /\ UNCHANGED <<wire, subs, monitors>>
  BY DEF Environment, Upset, server
<1>2. /\ inbox \in Seq(AnyMessage) /\ rbuf \in Seq(AnyMessage) /\ Coming \in Seq(AnyMessage)
  BY Streams
<1>3. CASE inbox' = Append(inbox, Reply("BAD", 0)) /\ UNCHANGED conn
  <2>1. PICK m : m = BAD
    OBVIOUS
  <2>2. m \in AnyMessage /\ m.kind = "reply" /\ m.for = 0 /\ m.type = "BAD"
    BY <2>1, ReplyIs DEF BAD
  <2>3. m # ERR0
    BY <2>2 DEF ERR0, Reply, Message
  <2>4. Follows(m, subs, subs)
    BY <2>1, <2>2 DEF Follows
  <2>5. inbox' = inbox \o <<m>>
    BY <1>2, <1>3, <2>1, <2>2 DEF BAD
  <2>6. m \in {BAD, Reply("STATUS", Len(issued))} /\ m.kind # "subscribe"
    BY <2>1, <2>2
  <2>7. QED
    BY <1>1, <1>3, <2>2, <2>3, <2>4, <2>5, <2>6, SendsOne
<1>4. CASE conn' = "closed" /\ inbox' \in {inbox, << >>}
  <2>1. /\ Holds' = Holds /\ Owes' = Owes /\ (Sub' <=> Sub) /\ (Mon' <=> Mon) /\ (Alive' <=> Alive)
        /\ (Processing' <=> Processing) /\ issued' = issued
        /\ UNCHANGED <<replies, invalid, cb, obuf, rbuf>>
        /\ \A p \in BOOLEAN, k \in Keys : Entry(p, k)' = Entry(p, k) /\ Val(p, k)' = Val(p, k)
        /\ Ordered' /\ Answered' /\ Counted' /\ NeverAborts'
    BY <1>1, EnvironmentLeaves
  <2>2. Unserved' = Unserved
    BY <1>1, <2>1 DEF Unserved
  <2>3. PICK more \in Seq(AnyMessage) : Coming' \o more = Coming
    <3>1. CASE inbox' = inbox
      <4>1. Coming' = Coming /\ << >> \in Seq(AnyMessage) /\ Coming \o << >> = Coming
        BY <1>2, <2>1, <3>1 DEF Coming
      <4>2. QED
        BY <4>1
    <3>2. CASE inbox' = << >>
      <4>1. Coming' = rbuf \o << >> /\ rbuf \o << >> = rbuf
        BY <1>2, <2>1, <3>2 DEF Coming
      <4>2. QED
        BY <1>2, <4>1 DEF Coming
    <3>3. QED
      BY <1>4, <3>1, <3>2
  <2>4. \A i \in 1..Len(Coming') : Coming'[i] = Coming[i] /\ i \in 1..Len(Coming)
    <3>1. Coming' \in Seq(AnyMessage)
      <4>1. inbox' \in Seq(AnyMessage) /\ rbuf' \in Seq(AnyMessage)
        BY DEF Typed, TypedStreams
      <4>2. QED
        BY <4>1, ConcatProperties DEF Coming
    <3>2. QED
      BY <2>3, <3>1, ConcatProperties
  <2>5. Logged'
    <3>1. PICK lost, L :
            /\ lost \in Seq(AnyMessage) /\ (conn # "closed" => lost = << >>)
            /\ LoggedBy(Coming \o lost, L)
      BY DEF Joint, Logged
    <3>2. Coming \o lost = Coming
      BY <1>1, <1>2, <3>1
    <3>3. LoggedBy(Coming, L)
      BY <3>1, <3>2
    <3>4. Reg' => Reg
      BY <1>1, <2>1 DEF Reg, Full
    <3>5. LoggedBy(Coming \o more, L)'
      BY <1>1, <2>1, <2>2, <2>3, <3>3, <3>4 DEF LoggedBy
    <3>6. QED
      BY <1>4, <3>5 DEF Logged
  <2>6. Serves'
    BY <1>1, <2>1, <2>2 DEF Joint, Serves
  <2>7. Flagged'
    <3>1. \A i \in 1..Len(Coming) : Coming[i] # ERR0
      BY <1>1 DEF Joint, Flagged, Full
    <3>2. \A i \in 1..Len(Coming') : Coming'[i] # ERR0
      BY <2>4, <3>1
    <3>3. conn' \notin {"connecting", "failed"}
      BY <1>4
    <3>4. QED
      BY <2>1, <3>2, <3>3 DEF Joint, Flagged
  <2>8. Monitored'
    <3>1. CASE Mon
      BY <1>1, <1>4, <2>1, <2>2, <2>4, <3>1 DEF Joint, Monitored
    <3>2. CASE ~Mon
      BY <1>1, <2>1, <3>2 DEF Joint, Monitored
    <3>3. QED
      BY <3>1, <3>2
  <2>9. QED
    BY <2>1, <2>5, <2>6, <2>7, <2>8 DEF Joint
<1>5. QED
  BY <1>3, <1>4 DEF Upset

LEMMA JointAccept ==
    ASSUME Typed, Typed', Control, Joint, Accept
    PROVE  Joint'
<1>1. Environment /\ conn = "connecting" /\ UNCHANGED <<wire, subs, monitors>> /\ conn' \in {"open", "failed", "closed"}
  BY DEF Environment, Accept, server
<1>2. /\ inbox \in Seq(AnyMessage) /\ rbuf \in Seq(AnyMessage) /\ Coming \in Seq(AnyMessage)
  BY Streams
<1>3. Coming = << >> /\ rbuf = << >> /\ inbox = << >>
  <2>1. Coming = << >>
    BY <1>1 DEF Joint, Flagged
  <2>2. QED
    BY <1>2, <2>1 DEF Coming
<1>4. /\ Holds' = Holds /\ Owes' = Owes /\ (Sub' <=> Sub) /\ (Mon' <=> Mon) /\ (Alive' <=> Alive)
      /\ (Processing' <=> Processing) /\ issued' = issued
      /\ UNCHANGED <<replies, invalid, cb, obuf, rbuf>>
      /\ \A p \in BOOLEAN, k \in Keys : Entry(p, k)' = Entry(p, k) /\ Val(p, k)' = Val(p, k)
      /\ Ordered' /\ Answered' /\ Counted' /\ NeverAborts'
  BY <1>1, EnvironmentLeaves
<1>5. Unserved' = Unserved
  BY <1>1, <1>4 DEF Unserved
<1>6. PICK A, K :
        /\ A \in Seq(AnyMessage) /\ Coming' = A /\ IsLog(A, K) /\ K[1] = subs /\ K[Len(A) + 1] = subs
        /\ A = << >> \/ (A = <<ERR0>> /\ conn' = "closed")
        /\ \A k \in Pairs : AckCount(A, k) = 0
        /\ conn' = "closed" => A = <<ERR0>>
  <2>1. subs \in SUBSET Pairs
    BY Streams
  <2>2. CASE conn' \in {"open", "failed"} /\ UNCHANGED inbox
    <3>1. PICK A : A = << >>
      OBVIOUS
    <3>2. PICK K : K = <<subs>>
      OBVIOUS
    <3>3. A \in Seq(AnyMessage) /\ Len(A) = 0 /\ K[1] = subs /\ K[Len(A) + 1] = subs
      BY <3>1, <3>2
    <3>4. IsLog(A, K)
      BY <2>1, <3>1, <3>2, LogEmpty
    <3>5. \A k \in Pairs : AckCount(A, k) = 0
      BY <3>1, AmongEmpty DEF AckCount
    <3>6. Coming' = A
      BY <1>3, <1>4, <2>2, <3>1 DEF Coming
    <3>7. QED
      BY <2>2, <3>1, <3>3, <3>4, <3>5, <3>6
  <2>3. CASE conn' = "closed" /\ inbox' = <<Reply("ERROR", 0)>>
    <3>1. PICK m : m = ERR0
      OBVIOUS
    <3>2. m \in AnyMessage /\ m.kind = "reply"
      BY <3>1, ReplyIs DEF ERR0
    <3>3. Follows(m, subs, subs)
      BY <3>1, <3>2 DEF Follows
    <3>4. PICK A : A = <<m>>
      OBVIOUS
    <3>5. PICK K : K = <<subs, subs>>
      OBVIOUS
    <3>6. /\ IsLog(A, K) /\ Len(A) = 1 /\ A[1] = m /\ K[1] = subs /\ K[2] = subs
      BY <2>1, <3>2, <3>3, <3>4, <3>5, LogOne
    <3>7. A \in Seq(AnyMessage) /\ K[Len(A) + 1] = subs
      BY <3>6 DEF IsLog
    <3>8. \A k \in Pairs : AckCount(A, k) = 0
      <4>1. \A k \in Pairs : m \notin AcksOf(k)
        BY <3>2 DEF AcksOf
      <4>2. \A k \in Pairs : Among(AcksOf(k), <<m>>) = 0
        BY <4>1, AmongOne
      <4>3. QED
        BY <3>4, <4>2 DEF AckCount
    <3>9. Coming' = A
      <4>1. inbox' = A
        BY <2>3, <3>1, <3>4 DEF ERR0
      <4>2. QED
        BY <1>3, <1>4, <3>7, <4>1 DEF Coming
    <3>10. QED
      BY <2>3, <3>1, <3>4, <3>6, <3>7, <3>8, <3>9
  <2>4. QED
    BY <2>2, <2>3 DEF Accept
<1>7. Logged'
  <2>1. PICK lost, L :
          /\ lost \in Seq(AnyMessage) /\ (conn # "closed" => lost = << >>)
          /\ LoggedBy(Coming \o lost, L)
    BY DEF Joint, Logged
  <2>2. PICK none : none = << >>
    OBVIOUS
  <2>3. Coming \o lost = none /\ A \o none = A /\ none \in Seq(AnyMessage) /\ Len(none) = 0
    BY <1>1, <1>3, <1>6, <2>1, <2>2
  <2>4. LoggedBy(none, L)
    BY <2>1, <2>3
  <2>5. /\ L[1] = subs
        /\ Balanced(none, L[1], issued, Unserved, Owes, Holds)
        /\ Reg => Matched(none, L, Unserved, issued, replies, invalid)
    BY <2>3, <2>4 DEF LoggedBy
  <2>6. Balanced(A, K[1], issued, Unserved, Owes, Holds)
    <3>1. \A k \in Pairs : AckCount(none, k) = 0
      BY <2>2, AmongEmpty DEF AckCount
    <3>2. QED
      BY <1>6, <2>5, <3>1 DEF Balanced
  <2>7. Reg' => Matched(A, K, Unserved, issued, replies, invalid)
    <3>1. SUFFICES ASSUME Reg'
                   PROVE  Matched(A, K, Unserved, issued, replies, invalid)
      OBVIOUS
    <3>2. A = << >> /\ Len(A) = 0
      BY <1>6, <3>1 DEF Reg, Full
    <3>3. Reg
      BY <1>1, <1>4, <3>1 DEF Reg, Full
    <3>4. 1..Len(A) = {} /\ 1..Len(none) = {}
      BY <2>3, <3>2
    <3>5. QED
      BY <2>5, <3>3, <3>4 DEF Matched
  <2>8. LoggedBy(A, K)'
    BY <1>1, <1>4, <1>5, <1>6, <2>6, <2>7 DEF LoggedBy
  <2>9. (Coming \o none)' = A
    BY <1>6, <2>3
  <2>10. LoggedBy(Coming \o none, K)'
    BY <2>8, <2>9
  <2>11. QED
    BY <2>2, <2>3, <2>10 DEF Logged
<1>8. Serves'
  BY <1>1, <1>4, <1>5 DEF Joint, Serves
<1>9. Flagged'
  <2>1. (\E i \in 1..Len(Coming') : Coming'[i] = ERR0) => Full'
    BY <1>6 DEF Full
  <2>2. conn' \in {"connecting", "failed"} => Coming' = << >>
    BY <1>6
  <2>3. QED
    BY <1>4, <2>1, <2>2 DEF Joint, Flagged
<1>10. Monitored'
  <2>1. \A i \in 1..Len(Coming') : Coming'[i] = ERR0
    BY <1>6
  <2>2. CASE Mon
    BY <1>1, <1>4, <1>5, <2>1, <2>2 DEF Joint, Monitored
  <2>3. CASE ~Mon
    BY <1>1, <1>4, <2>3 DEF Joint, Monitored
  <2>4. QED
    BY <2>2, <2>3
<1>11. QED
  BY <1>4, <1>7, <1>8, <1>9, <1>10 DEF Joint

\* The command that Redis serves, and those that are left.
LEMMA ServedIs ==
    ASSUME Typed, Joint, Serve
    PROVE  /\ Environment /\ conn = "open" /\ issued' = issued
           /\ Unserved # << >> /\ Head(Unserved) = Head(wire) /\ Unserved' = Tail(Unserved)
           /\ Tail(Unserved) \in Seq(Nat) /\ Numbered(Tail(Unserved), issued)
           /\ Head(wire) \in DOMAIN issued /\ Head(wire) \in Nat \ {0}
           /\ Head(wire) - 1 = ServedOf(Unserved, issued)
           /\ ServedOf(Unserved, issued) \in Nat
           /\ ServedOf(Tail(Unserved), issued) = Head(wire)
           /\ \A n : n \in Range(Unserved) <=> n \in Range(Tail(Unserved)) \/ n = Head(wire)
           /\ \A k \in Pairs : SubCount(issued, Unserved, k) =
                SubCount(issued, Tail(Unserved), k) + (IF Head(wire) \in SubscribesIn(issued, k) THEN 1 ELSE 0)
           /\ Mon => Head(wire) = Len(issued)
<1>1. /\ Environment /\ conn = "open" /\ wire # << >> /\ wire' = Tail(wire) /\ UNCHANGED <<obuf, issued>>
  BY DEF Environment, Serve, context, history
<1>2. /\ wire \in Seq(Nat) /\ obuf \in Seq(Nat) /\ Unserved \in Seq(Nat) /\ issued \in Seq(AnyCommand)
      /\ DOMAIN issued = 1..Len(issued) /\ Len(issued) \in Nat
  BY Streams
<1>3. Unserved # << >> /\ Head(Unserved) = Head(wire) /\ Unserved' = Tail(Unserved)
  <2>1. wire \o obuf # << >> /\ Head(wire \o obuf) = Head(wire) /\ Tail(wire \o obuf) = Tail(wire) \o obuf
    BY <1>1, <1>2, HeadConcat
  <2>2. QED
    BY <1>1, <2>1 DEF Unserved
<1>4. Numbered(Unserved, issued)
  BY DEF Joint, Serves
<1>5. /\ Head(Unserved) = ServedOf(Unserved, issued) + 1 /\ Head(Unserved) \in DOMAIN issued
      /\ Tail(Unserved) \in Seq(Nat) /\ Numbered(Tail(Unserved), issued)
      /\ ServedOf(Tail(Unserved), issued) = ServedOf(Unserved, issued) + 1
      /\ Head(Unserved) - 1 = ServedOf(Unserved, issued)
      /\ ServedOf(Unserved, issued) \in Nat
  BY <1>2, <1>3, <1>4, NumberedIs
<1>6. Head(wire) \in Nat \ {0}
  <2>1. Head(wire) \in 1..Len(issued)
    BY <1>2, <1>3, <1>5
  <2>2. QED
    BY <1>2, <2>1
<1>7. Unserved = <<Head(wire)>> \o Tail(Unserved) /\ <<Head(wire)>> \in Seq(Nat)
  <2>1. Unserved = <<Head(Unserved)>> \o Tail(Unserved)
    BY <1>2, <1>3, HeadTailIs
  <2>2. QED
    BY <1>3, <1>6, <2>1
<1>8. \A n : n \in Range(Unserved) <=> n \in Range(Tail(Unserved)) \/ n = Head(wire)
  <2>1. \A n : n \in Range(Unserved) <=> n \in (ServedOf(Unserved, issued) + 1)..Len(issued)
    BY <1>2, <1>4, NumberedIs
  <2>2. \A n : n \in Range(Tail(Unserved)) <=> n \in (ServedOf(Tail(Unserved), issued) + 1)..Len(issued)
    BY <1>2, <1>5, NumberedIs
  <2>3. PICK S \in Nat : S = ServedOf(Unserved, issued)
    BY <1>5
  <2>4. /\ Head(wire) = S + 1 /\ S + 1 \in 1..Len(issued)
        /\ \A n : n \in Range(Unserved) <=> n \in (S + 1)..Len(issued)
        /\ \A n : n \in Range(Tail(Unserved)) <=> n \in ((S + 1) + 1)..Len(issued)
    BY <1>2, <1>3, <1>5, <2>1, <2>2, <2>3
  <2>5. QED
    BY <1>2, <2>4
<1>9. ASSUME NEW k \in Pairs
      PROVE  SubCount(issued, Unserved, k) =
                SubCount(issued, Tail(Unserved), k) + (IF Head(wire) \in SubscribesIn(issued, k) THEN 1 ELSE 0)
  <2>1. Among(SubscribesIn(issued, k), <<Head(wire)>> \o Tail(Unserved)) =
          Among(SubscribesIn(issued, k), <<Head(wire)>>) + Among(SubscribesIn(issued, k), Tail(Unserved))
    BY <1>5, <1>7, AmongConcat
  <2>2. Among(SubscribesIn(issued, k), <<Head(wire)>>) = IF Head(wire) \in SubscribesIn(issued, k) THEN 1 ELSE 0
    BY AmongOne
  <2>3. SubCount(issued, Tail(Unserved), k) \in Nat
    BY <1>5, AmongType DEF SubCount
  <2>4. SubCount(issued, Unserved, k) = Among(SubscribesIn(issued, k), <<Head(wire)>>) + SubCount(issued, Tail(Unserved), k)
    BY <1>7, <2>1 DEF SubCount
  <2>5. QED
    BY <2>2, <2>3, <2>4
<1>10. Mon => Head(wire) = Len(issued)
  BY <1>1, <1>8 DEF Joint, Monitored
<1>11. QED
  BY <1>1, <1>3, <1>5, <1>6, <1>8, <1>9, <1>10

\* Redis sends a message for each key of a command.
LEMMA JointAcknowledge ==
    ASSUME Typed, Typed', Control, Joint, Serve,
           issued[Head(wire)].kind \in {"SUBSCRIBE", "UNSUBSCRIBE"}
    PROVE  Joint'
<1> DEFINE id == Head(wire)
           c == issued[id]
<1>1. /\ Environment /\ conn = "open" /\ issued' = issued
      /\ Unserved # << >> /\ Unserved' = Tail(Unserved)
      /\ Tail(Unserved) \in Seq(Nat) /\ Numbered(Tail(Unserved), issued)
      /\ id \in DOMAIN issued /\ id \in Nat \ {0} /\ id - 1 = ServedOf(Unserved, issued)
      /\ ServedOf(Unserved, issued) \in Nat /\ ServedOf(Tail(Unserved), issued) = id
      /\ \A n : n \in Range(Unserved) <=> n \in Range(Tail(Unserved)) \/ n = id
      /\ \A k \in Pairs : SubCount(issued, Unserved, k) =
            SubCount(issued, Tail(Unserved), k) + (IF id \in SubscribesIn(issued, k) THEN 1 ELSE 0)
      /\ Mon => id = Len(issued)
  BY ServedIs
<1>2. /\ issued \in Seq(Commands) /\ issued \in Seq(AnyCommand) /\ subs \in SUBSET Pairs /\ IsFiniteSet(subs)
      /\ Unserved \in Seq(Nat) /\ c \in Commands /\ c.kind \in {"SUBSCRIBE", "UNSUBSCRIBE"}
  <2>1. issued \in Seq(Commands) /\ issued \in Seq(AnyCommand) /\ subs \in SUBSET Pairs /\ IsFiniteSet(subs)
        /\ Unserved \in Seq(Nat)
    BY Streams
  <2>2. QED
    BY <1>1, <2>1
<1>3. /\ subs' = SubscribedTo(c, Len(c.names), subs) /\ inbox' = inbox \o Acknowledged(c, subs)
      /\ UNCHANGED <<monitors, conn>>
  BY <1>2 DEF Serve
<1>4. subs = WantedIn(issued, id - 1) /\ Leaves(issued)
  BY <1>1 DEF Joint, Serves
<1> HIDE DEF id, c
<1>5. c.kind = "UNSUBSCRIBE" => KeysOf(c) \subseteq subs
  BY <1>1, <1>4 DEF Leaves, c
<1>6. PICK A : A = Acknowledged(c, subs)
  OBVIOUS
<1>7. /\ \E K : IsLog(A, K) /\ K[1] = subs /\ K[Len(A) + 1] = subs'
      /\ subs' = IF c.kind = "SUBSCRIBE" THEN subs \cup KeysOf(c) ELSE subs \ KeysOf(c)
      /\ A \in Seq(AnyMessage)
      /\ \A i \in 1..Len(A) : A[i].for = 0 /\ A[i].kind \in {"subscribe", "unsubscribe"}
      /\ \A k \in Pairs : Among(AcksOf(k), A) = IF c.kind = "SUBSCRIBE" /\ k \in KeysOf(c) THEN 1 ELSE 0
  <2>1. LET B == Acknowledged(c, subs) IN
        /\ \E K : /\ IsLog(B, K) /\ K[1] = subs
                  /\ K[Len(B) + 1] = SubscribedTo(c, Len(c.names), subs)
        /\ SubscribedTo(c, Len(c.names), subs) =
             IF c.kind = "SUBSCRIBE" THEN subs \cup KeysOf(c) ELSE subs \ KeysOf(c)
        /\ B \in Seq(AnyMessage) /\ Len(B) >= 1
        /\ \A i \in 1..Len(B) : B[i].for = 0 /\ B[i].kind \in {"subscribe", "unsubscribe"}
        /\ \A k \in Pairs : Among(AcksOf(k), B) =
             IF c.kind = "SUBSCRIBE" /\ k \in KeysOf(c) THEN 1 ELSE 0
    BY <1>2, <1>5, AcknowledgedLog
  <2>2. QED
    BY <1>3, <1>6, <2>1
<1>8. PICK K : IsLog(A, K) /\ K[1] = subs /\ K[Len(A) + 1] = subs'
  BY <1>7
<1>9. Sends(A, K) /\ inbox' = inbox \o A
  <2>1. \A j \in 1..Len(A) : A[j] # ERR0
    BY <1>7 DEF ERR0, Reply, Message
  <2>2. QED
    BY <1>1, <1>3, <1>6, <1>8, <2>1 DEF Sends
<1>10. /\ Holds' = Holds /\ Owes' = Owes /\ (Sub' <=> Sub) /\ (Mon' <=> Mon)
       /\ Ordered' /\ Answered' /\ Counted' /\ NeverAborts'
  BY <1>1, EnvironmentLeaves
<1>11. ~Mon
  <2>1. Mon => c.kind = "MONITOR"
    BY <1>1 DEF Joint, Monitored, c
  <2>2. QED
    BY <1>2, <2>1
<1>12. Serves'
  <2>1. WantedIn(issued, id) = IF c.kind = "SUBSCRIBE" THEN WantedIn(issued, id - 1) \cup KeysOf(c)
                                ELSE WantedIn(issued, id - 1) \ KeysOf(c)
    BY <1>1, <1>2, WantedStep DEF c
  <2>2. subs' = WantedIn(issued, id)
    BY <1>4, <1>7, <2>1
  <2>3. QED
    BY <1>1, <1>4, <2>2 DEF Serves
<1>13. ASSUME NEW k \in Pairs
       PROVE  SubCount(issued, Tail(Unserved), k) + AckCount(A, k) = SubCount(issued, Unserved, k)
  <2>1. id \in SubscribesIn(issued, k) <=> c.kind = "SUBSCRIBE" /\ k \in KeysOf(c)
    BY <1>1 DEF SubscribesIn, KeysOf, c
  <2>2. AckCount(A, k) = IF c.kind = "SUBSCRIBE" /\ k \in KeysOf(c) THEN 1 ELSE 0
    BY <1>7 DEF AckCount
  <2>3. QED
    BY <1>1, <2>1, <2>2
<1>14. ~IsRegular(issued, id)
  BY <1>2 DEF IsRegular, c
<1>15. Reg => Matches(A, K, Tail(Unserved))
  <2>1. SUFFICES ASSUME Reg, NEW C, NEW L, NEW M, LoggedBy(C, L), Extended(C, L, A, K, M),
                        Matched(C, L, Unserved, issued, replies, invalid)
                 PROVE  Matched(C \o A, M, Tail(Unserved), issued, replies, invalid)
    BY DEF Matches
  <2>2. IsLog(C, L)
    BY <2>1 DEF LoggedBy
  <2>3. /\ ServedOf(Tail(Unserved), issued) \in Nat
        /\ ServedOf(Unserved, issued) <= ServedOf(Tail(Unserved), issued)
    BY <1>1
  <2>4. \A n : Has(replies, n) => ~(n > ServedOf(Tail(Unserved), issued))
    <3>1. SUFFICES ASSUME NEW n, Has(replies, n), n > id
                   PROVE  FALSE
      BY <1>1
    <3>2. \A k \in Range(Unserved) : k < n => IsRegular(issued, k)
      BY <2>1, <3>1 DEF Matched
    <3>3. id \in Range(Unserved)
      BY <1>1
    <3>4. n \in Nat
      <4>1. n > ServedOf(Unserved, issued) \/ n \in Nat
        <5>1. Waits(n)
          BY <3>1 DEF Waits
        <5>2. IsRegular(issued, n)
          BY <2>1, <5>1 DEF Reg, Joint, Ordered
        <5>3. DOMAIN issued = 1..Len(issued) /\ Len(issued) \in Nat
          BY Streams
        <5>4. QED
          BY <5>2, <5>3 DEF IsRegular
      <4>2. IsRegular(issued, n)
        BY <2>1, <3>1 DEF Reg, Joint, Ordered, Waits
      <4>3. QED
        BY <4>2, Streams DEF IsRegular
    <3>5. id < n
      BY <1>1, <3>1, <3>4
    <3>6. QED
      BY <1>14, <3>2, <3>3, <3>5
  <2>5. /\ \A n : n \in Range(Tail(Unserved)) => n \in Range(Unserved)
        /\ \A n : n \in Range(Unserved) /\ IsRegular(issued, n) => n \in Range(Tail(Unserved))
    BY <1>1, <1>14
  <2>6. \A j \in 1..Len(A) : A[j].for = 0
    BY <1>7
  <2>7. QED
    BY <1>1, <1>2, <1>8, <2>1, <2>2, <2>3, <2>4, <2>5, <2>6, MatchedSent
<1>16. Logged'
  <2>1. PICK V : V = Tail(Unserved)
    OBVIOUS
  <2>2. V = Unserved'
    BY <1>1, <2>1
  <2>3. \A k \in Pairs : SubCount(issued, V, k) + AckCount(A, k) = SubCount(issued, Unserved, k)
    BY <1>13, <2>1
  <2>4. Reg => Matches(A, K, V)
    BY <1>15, <2>1
  <2>5. QED
    BY <1>8, <1>9, <2>2, <2>3, <2>4, SendsLogged
<1>17. Flagged'
  <2>1. conn' \in {"open", "closed"}
    BY <1>1, <1>3
  <2>2. QED
    BY <1>9, <2>1, SendsFlagged
<1>18. Monitored'
  BY <1>1, <1>3, <1>10, <1>11 DEF Joint, Monitored
<1>19. QED
  BY <1>10, <1>12, <1>16, <1>17, <1>18 DEF Joint

\* Redis answers a command.
LEMMA JointAnswer ==
    ASSUME Typed, Typed', Control, Joint, Serve,
           issued[Head(wire)].kind \notin {"SUBSCRIBE", "UNSUBSCRIBE"}
    PROVE  Joint'
<1> DEFINE id == Head(wire)
           c == issued[id]
<1>1. /\ Environment /\ conn = "open" /\ issued' = issued
      /\ Unserved # << >> /\ Head(Unserved) = id /\ Unserved' = Tail(Unserved)
      /\ Tail(Unserved) \in Seq(Nat) /\ Numbered(Tail(Unserved), issued)
      /\ id \in DOMAIN issued /\ id \in Nat \ {0} /\ id - 1 = ServedOf(Unserved, issued)
      /\ ServedOf(Tail(Unserved), issued) = id
      /\ \A n : n \in Range(Unserved) <=> n \in Range(Tail(Unserved)) \/ n = id
      /\ \A k \in Pairs : SubCount(issued, Unserved, k) =
            SubCount(issued, Tail(Unserved), k) + (IF id \in SubscribesIn(issued, k) THEN 1 ELSE 0)
      /\ Mon => id = Len(issued)
  BY ServedIs
<1>2. /\ issued \in Seq(Commands) /\ issued \in Seq(AnyCommand) /\ subs \in SUBSET Pairs
      /\ Unserved \in Seq(Nat) /\ inbox \in Seq(AnyMessage) /\ c \in Commands /\ c \in AnyCommand
      /\ c.kind \notin {"SUBSCRIBE", "UNSUBSCRIBE"}
  <2>1. issued \in Seq(Commands) /\ issued \in Seq(AnyCommand) /\ subs \in SUBSET Pairs
        /\ Unserved \in Seq(Nat) /\ inbox \in Seq(AnyMessage)
    BY Streams
  <2>2. QED
    BY <1>1, <2>1
<1>3. PICK type \in {"STATUS", "ERROR"} :
        /\ c.kind # "GET" => type = "STATUS"
        /\ inbox' = Append(inbox, Reply(type, id))
  BY <1>2 DEF Serve
<1>4. /\ monitors' = (IF c.kind = "MONITOR" THEN id ELSE monitors)
      /\ conn' = (IF c.kind = "QUIT" THEN "closed" ELSE conn) /\ subs' = subs
  BY <1>2 DEF Serve
<1>5. subs = WantedIn(issued, id - 1) /\ Leaves(issued) /\ Numbered(Unserved, issued)
  BY <1>1 DEF Joint, Serves
<1>6. c.kind \in {"GET", "QUIT", "MONITOR"}
  BY <1>2 DEF AnyCommand
<1>7. ~Mon => c.kind # "MONITOR"
  BY <1>1 DEF Joint, Monitored
<1>8. Mon => c.kind = "MONITOR"
  BY <1>1 DEF Joint, Monitored
<1> HIDE DEF id, c
<1>9. PICK m : m = Reply(type, id)
  OBVIOUS
<1>10. m \in AnyMessage /\ m.kind = "reply" /\ m.for = id /\ m.type = type
  BY <1>1, <1>9, ReplyIs
<1>11. m # ERR0
  BY <1>1, <1>10 DEF ERR0, Reply, Message
<1>12. Follows(m, subs, subs)
  BY <1>1, <1>10 DEF Follows
<1>13. PICK A : A = <<m>>
  OBVIOUS
<1>14. PICK K : K = <<subs, subs>>
  OBVIOUS
<1>15. /\ IsLog(A, K) /\ Len(A) = 1 /\ A[1] = m /\ K[1] = subs /\ K[2] = subs /\ A \in Seq(AnyMessage)
  BY <1>2, <1>10, <1>12, <1>13, <1>14, LogOne
<1>16. /\ Sends(A, K) /\ inbox' = inbox \o A /\ K[Len(A) + 1] = subs' /\ (\A j \in 1..Len(A) : A[j] = m)
  <2>1. \A j \in 1..Len(A) : A[j] = m
    BY <1>15
  <2>2. Sends(A, K)
    BY <1>1, <1>11, <1>15, <2>1 DEF Sends
  <2>3. inbox' = Append(inbox, m)
    BY <1>3, <1>9
  <2>4. inbox' = inbox \o <<m>>
    BY <1>2, <1>10, <2>3
  <2>5. K[Len(A) + 1] = subs'
    BY <1>4, <1>15
  <2>6. QED
    BY <1>13, <2>1, <2>2, <2>4, <2>5
<1>17. /\ Holds' = Holds /\ Owes' = Owes /\ (Sub' <=> Sub) /\ (Mon' <=> Mon)
       /\ (Processing' <=> Processing) /\ UNCHANGED <<replies, invalid, cb>>
       /\ Ordered' /\ Answered' /\ Counted' /\ NeverAborts'
  BY <1>1, EnvironmentLeaves
<1>18. KeysOf(c) = {}
  BY <1>2, KeysAre
<1>19. Serves'
  <2>1. WantedIn(issued, id) = WantedIn(issued, id - 1) \ KeysOf(c)
    BY <1>1, <1>2, WantedStep DEF c
  <2>2. subs' = WantedIn(issued, id)
    BY <1>4, <1>5, <1>18, <2>1
  <2>3. QED
    BY <1>1, <1>5, <2>2 DEF Serves
<1>20. ASSUME NEW k \in Pairs
       PROVE  SubCount(issued, Tail(Unserved), k) + AckCount(A, k) = SubCount(issued, Unserved, k)
  <2>1. m \notin AcksOf(k)
    BY <1>10 DEF AcksOf
  <2>2. AckCount(A, k) = 0 /\ SubCount(issued, Tail(Unserved), k) \in Nat
    BY <1>1, <1>2, <1>15, <1>16, <2>1, CountsAre
  <2>3. id \notin SubscribesIn(issued, k)
    BY <1>2 DEF SubscribesIn, c
  <2>4. QED
    BY <1>1, <2>2, <2>3
<1>21. Reg => Matches(A, K, Tail(Unserved))
  <2>1. SUFFICES ASSUME Reg, NEW C, NEW L, NEW M, LoggedBy(C, L), Extended(C, L, A, K, M),
                        Matched(C, L, Unserved, issued, replies, invalid)
                 PROVE  Matched(C \o A, M, Tail(Unserved), issued, replies, invalid)
    BY DEF Matches
  <2>2. IsLog(C, L)
    BY <2>1 DEF LoggedBy
  <2>3. IsRegular(issued, Head(Unserved))
    BY <1>1, <1>6, <1>7, <2>1 DEF IsRegular, Reg, c
  <2>4. K[1] = WantedIn(issued, ServedOf(Unserved, issued))
    BY <1>1, <1>5, <1>15
  <2>5. m.for = Head(Unserved)
    BY <1>1, <1>10
  <2>6. QED
    BY <1>1, <1>2, <1>5, <1>10, <1>13, <1>15, <2>1, <2>2, <2>3, <2>4, <2>5, MatchedAnswer
<1>22. Logged'
  <2>1. PICK V : V = Tail(Unserved)
    OBVIOUS
  <2>2. V = Unserved'
    BY <1>1, <2>1
  <2>3. \A k \in Pairs : SubCount(issued, V, k) + AckCount(A, k) = SubCount(issued, Unserved, k)
    BY <1>20, <2>1
  <2>4. Reg => Matches(A, K, V)
    BY <1>21, <2>1
  <2>5. QED
    BY <1>15, <1>16, <2>2, <2>3, <2>4, SendsLogged
<1>23. /\ Flagged'
       /\ \A i \in 1..Len(Coming') : (i \in 1..Len(Coming) /\ Coming'[i] = Coming[i]) \/ Coming'[i] = m
  <2>1. conn' \in {"open", "closed"}
    BY <1>1, <1>4
  <2>2. QED
    BY <1>16, <2>1, SendsFlagged
<1>24. Monitored'
  <2>1. CASE Mon
    <3>1. m = Reply("STATUS", Len(issued)) /\ monitors' = Len(issued)
      BY <1>1, <1>3, <1>4, <1>8, <1>9, <2>1
    <3>2. \A n : n \in Range(Unserved') => n \in Range(Unserved)
      BY <1>1
    <3>3. QED
      BY <1>1, <1>4, <1>17, <1>23, <2>1, <3>1, <3>2 DEF Joint, Monitored
  <2>2. CASE ~Mon
    BY <1>1, <1>4, <1>7, <1>17, <2>2 DEF Joint, Monitored
  <2>3. QED
    BY <2>1, <2>2
<1>25. QED
  BY <1>17, <1>19, <1>22, <1>23, <1>24 DEF Joint

LEMMA JointServe ==
    ASSUME Typed, Typed', Control, Joint, Serve
    PROVE  Joint'
  BY JointAcknowledge, JointAnswer

\* A step that changes nothing.
LEMMA JointSame ==
    ASSUME Joint, UNCHANGED vars
    PROVE  Joint'
<1>1. /\ UNCHANGED <<channels, patterns, replies, invalid, flags, obuf, rbuf, wire, inbox, conn,
                     subs, monitors, issued, done, cb, pc, caller, run>>
  BY DEF vars, context, thread, network, server, history
<1>2. (Sub' <=> Sub) /\ (Mon' <=> Mon) /\ (Alive' <=> Alive) /\ (Reg' <=> Reg) /\ (Processing' <=> Processing)
      /\ Unserved' = Unserved /\ Coming' = Coming
  BY <1>1 DEF Sub, Mon, Alive, Reg, Full, Processing, Unserved, Coming
<1>3. Quietly
  BY <1>1, <1>2 DEF Quietly
<1>4. Logged' /\ Serves' /\ Flagged'
  BY <1>1, <1>2, <1>3, QuietStep
<1>5. Monitored'
  BY <1>1, <1>2 DEF Joint, Monitored
<1>6. Ordered'
  BY <1>1, <1>2 DEF Joint, Ordered, Waits
<1>7. Answered' /\ Counted' /\ NeverAborts'
  BY <1>1 DEF Joint, Answered, Counted, NeverAborts
<1>8. QED
  BY <1>4, <1>5, <1>6, <1>7 DEF Joint

LEMMA JointStep ==
    ASSUME Typed, Typed', Control, Joint, [Next]_vars
    PROVE  Joint'
<1>1. CASE ProcessReply
  BY <1>1, JointProcessReply
<1>2. CASE ProcessEnd
  BY <1>2, JointEnd
<1>3. CASE CallbackReturns
  BY <1>3, JointReturns
<1>4. CASE FreeNext
  BY <1>4, JointFreeNext
<1>5. CASE FreeContext
  BY <1>5, JointFreed
<1>6. CASE ConnectFails \/ SetCallbacks \/ Free \/ Disconnect
  BY <1>6, JointCalls
<1>7. CASE HandleRead
  BY <1>7, JointRead
<1>8. CASE HandleWrite
  BY <1>8, JointWrite
<1>9. CASE \E c \in Commands : Command(c)
  BY <1>9, JointCommand
<1>10. CASE Serve
  BY <1>10, JointServe
<1>11. CASE Publish
  BY <1>11, JointPublish
<1>12. CASE Accept
  BY <1>12, JointAccept
<1>13. CASE Upset
  BY <1>13, JointUpset
<1>14. CASE Over \/ UNCHANGED vars
  BY <1>14, JointSame DEF Over
<1>15. QED
  BY <1>1, <1>2, <1>3, <1>4, <1>5, <1>6, <1>7, <1>8, <1>9, <1>10, <1>11, <1>12, <1>13, <1>14
  DEF Next, Library

LEMMA JointAlways == Spec => [](Typed /\ Control /\ Joint)
<1>1. Init => Typed /\ Control /\ Joint
  BY TypedInit, ControlInit, JointInit
<1>2. (Typed /\ Control /\ Joint) /\ [Next]_vars => (Typed /\ Control /\ Joint)'
  BY TypedStep, ControlStep, JointStep
<1>3. QED
  BY <1>1, <1>2, PTL DEF Spec

\* The replies match: a callback gets the reply to its command, or a message
\* of a channel or pattern it was registered for, or none, or the error of a
\* Redis that is full; one of a regular command runs once, and after those of
\* the regular commands before it, whatever the order in which the loop, the
\* user and Redis act (async.c:426-504).
THEOREM AsyncRepliesMatch == Spec => []RepliesMatch
<1>1. Typed /\ Control /\ Joint => RepliesMatch
  <2>1. SUFFICES ASSUME Typed, Control, Joint, pc = "callback"
                 PROVE  /\ \/ run.reply = NULL
                           \/ run.reply = Reply("ERROR", 0)
                           \/ run.reply.for = run.id
                           \/ /\ issued[run.id].kind = "SUBSCRIBE"
                              /\ run.reply.p = issued[run.id].p
                              /\ run.reply.name \in Range(issued[run.id].names)
                        /\ Regular(run.id) =>
                             /\ run.id \notin done
                             /\ \A id \in 1..(run.id - 1) : Regular(id) /\ issued[id].fn => id \in done
    BY DEF RepliesMatch
  <2>2. \/ run.reply = NULL
        \/ run.reply = Reply("ERROR", 0)
        \/ run.reply.for = run.id
        \/ /\ issued[run.id].kind = "SUBSCRIBE"
           /\ run.reply.p = issued[run.id].p
           /\ run.reply.name \in Range(issued[run.id].names)
    BY <2>1 DEF Joint, Answered, ERR0
  <2>3. run.id \in DOMAIN issued /\ DOMAIN issued = 1..Len(issued) /\ Len(issued) \in Nat
    BY <2>1, Streams DEF Control, Running
  <2>4. ASSUME Regular(run.id)
        PROVE  /\ run.id \notin done
               /\ \A id \in 1..(run.id - 1) : Regular(id) /\ issued[id].fn => id \in done
    <3>1. IsRegular(issued, run.id)
      BY <2>3, <2>4 DEF Regular, IsRegular
    <3>2. run.id \notin done /\ \A n : Waits(n) /\ IsRegular(issued, n) => run.id < n
      BY <2>1, <3>1 DEF Joint, Ordered
    <3>3. ASSUME NEW id \in 1..(run.id - 1), Regular(id), issued[id].fn
          PROVE  id \in done
      <4>1. id \in DOMAIN issued /\ ~(run.id < id) /\ id # run.id
        BY <2>3, <3>3
      <4>2. IsRegular(issued, id)
        BY <3>3, <4>1 DEF Regular, IsRegular
      <4>3. ~Waits(id)
        BY <3>2, <4>1, <4>2
      <4>4. Has(replies, id) \/ Has(invalid, id) \/ Told_(id)
        BY <2>1, <3>3, <4>1 DEF Control, Kept
      <4>5. QED
        BY <4>1, <4>3, <4>4 DEF Waits, Told_
    <3>4. QED
      BY <3>2, <3>3
  <2>5. QED
    BY <2>2, <2>4
<1>2. QED
  BY <1>1, JointAlways, PTL

\* No assert fails: a reply that comes when no regular callback waits finds a
\* context that is subscribed or monitoring, and a clean disconnect leaves no
\* callback (async.c:341, 478).
THEOREM AsyncNeverAborts == Spec => []NeverAborts
<1>1. Joint => NeverAborts
  BY DEF Joint
<1>2. QED
  BY <1>1, JointAlways, PTL

-----------------------------------------------------------------------------
(* The bounds of the types.                                                 *)

Bounded == (run.id = 0 \/ run.id \in DOMAIN issued) /\ it <= Len(Subscribed)

\* A callback runs, or the last one is the same.
LEMMA RunChanges ==
    ASSUME Typed, [Next]_vars
    PROVE  run' = run \/ pc' = "callback"
<1>1. CASE ProcessReply
  BY <1>1, ProcessReplyRuns DEF RunCallback
<1>2. CASE FreeNext
  BY <1>2 DEF FreeNext, RunCallback
<1>3. CASE ProcessEnd \/ CallbackReturns \/ FreeContext \/ ConnectFails \/ HandleRead \/ HandleWrite
           \/ SetCallbacks \/ Free \/ Disconnect
  BY <1>3 DEF ProcessEnd, CallbackReturns, FreeContext, ConnectFails, HandleRead, HandleWrite,
     SetCallbacks, Free, Disconnect, thread
<1>4. CASE \E c \in Commands : Command(c)
  BY <1>4 DEF Command, thread
<1>5. CASE Serve \/ Publish \/ Accept \/ Upset \/ Over \/ UNCHANGED vars
  BY <1>5 DEF Serve, Publish, Accept, Upset, Over, vars, thread
<1>6. QED
  BY <1>1, <1>2, <1>3, <1>4, <1>5 DEF Next, Library

\* The end has come no further than the dicts reach, which stay as they are.
LEMMA ItChanges ==
    ASSUME Typed, Control, [Next]_vars
    PROVE  \/ it' = 0
           \/ it' = it /\ UNCHANGED <<channels, patterns>>
           \/ it < Len(Subscribed) /\ it' = it + 1 /\ UNCHANGED <<channels, patterns>>
<1>1. CASE ProcessReply
  BY <1>1 DEF ProcessReply, Control, Running, Alive
<1>2. CASE FreeNext
  BY <1>2 DEF FreeNext
<1>3. CASE ProcessEnd \/ CallbackReturns \/ FreeContext \/ ConnectFails \/ HandleRead \/ HandleWrite
           \/ SetCallbacks \/ Free \/ Disconnect
  BY <1>3 DEF ProcessEnd, CallbackReturns, FreeContext, ConnectFails, HandleRead, HandleWrite,
     SetCallbacks, Free, Disconnect, thread
<1>4. ASSUME NEW c \in Commands, Command(c)
      PROVE  it' = 0
  BY <1>4, CommandAlive DEF Control, Command, thread
<1>5. CASE Serve \/ Publish \/ Accept \/ Upset \/ Over \/ UNCHANGED vars
  BY <1>5 DEF Serve, Publish, Accept, Upset, Over, vars, thread, context
<1>6. QED
  BY <1>1, <1>2, <1>3, <1>4, <1>5 DEF Next, Library

\* The commands stay.
LEMMA IssuedGrows ==
    ASSUME Typed, [Next]_vars
    PROVE  \A n \in DOMAIN issued : n \in DOMAIN issued'
<1>1. CASE \E c \in Commands : Command(c)
  BY <1>1, CommandIs
<1>2. CASE ~(\E c \in Commands : Command(c))
  <2>1. issued' = issued
    BY <1>2 DEF Next, Library, ProcessReply, FreeNext, ProcessEnd, CallbackReturns, FreeContext,
       ConnectFails, HandleRead, HandleWrite, SetCallbacks, Free, Disconnect, Serve, Publish,
       Accept, Upset, Over, vars, history
  <2>2. QED
    BY <2>1
<1>3. QED
  BY <1>1, <1>2

LEMMA SubscribedLength ==
    ASSUME NEW c, NEW p, IsDict(c, AnyCallback), IsDict(p, AnyCallback)
    PROVE  Len(Entries(c) \o Entries(p)) \in Nat
<1>1. Entries(c) \in Seq(DictEntries(AnyCallback)) /\ Entries(p) \in Seq(DictEntries(AnyCallback))
  BY EntriesFound
<1>2. QED
  BY <1>1, ConcatProperties

LEMMA BoundedInit == Init => Bounded
<1> SUFFICES ASSUME Init PROVE Bounded
  OBVIOUS
<1>1. it = 0 /\ run.id = 0
  BY DEF Init
<1>2. Len(Entries(channels) \o Entries(patterns)) \in Nat
  BY TypedInit, SubscribedLength DEF Typed, TypedDicts
<1>3. QED
  BY <1>1, <1>2 DEF Bounded, Subscribed

LEMMA BoundedStep ==
    ASSUME Typed, Typed', Control, Control', Bounded, [Next]_vars
    PROVE  Bounded'
<1>1. run'.id = 0 \/ run'.id \in DOMAIN issued'
  BY RunChanges, IssuedGrows DEF Control, Running, Bounded
<1>2. /\ Len(Entries(channels) \o Entries(patterns)) \in Nat
      /\ Len(Entries(channels') \o Entries(patterns')) \in Nat
      /\ it \in Nat
  BY SubscribedLength DEF Typed, TypedDicts
<1>3. it <= Len(Entries(channels) \o Entries(patterns))
  BY DEF Bounded, Subscribed
<1>4. it' <= Len(Entries(channels') \o Entries(patterns'))
  BY <1>2, <1>3, ItChanges DEF Subscribed
<1>5. QED
  BY <1>1, <1>4 DEF Bounded, Subscribed

\* A callback that is known and counted is of the type.
LEMMA CallbackTyped ==
    ASSUME Typed, NEW c \in AnyCallback, Known(issued, c), c.pending_subs >= 0
    PROVE  c \in Callbacks
<1>1. /\ Len(issued) \in Nat /\ Len(issued) <= MaxCommands /\ MaxCommands \in Nat
      /\ DOMAIN issued = 1..Len(issued)
  BY Streams, MaxCommandsIs DEF Typed, TypedStreams
<1>2. c.id \in 0..MaxCommands
  BY <1>1 DEF Known
<1>3. c.pending_subs \in 0..MaxCommands
  BY <1>1 DEF Known, AnyCallback
<1>4. QED
  BY <1>2, <1>3 DEF AnyCallback, Callbacks, Ids

LEMMA SeqNarrow ==
    ASSUME NEW E, NEW S, NEW s \in Seq(E), \A i \in DOMAIN s : s[i] \in S
    PROVE  s \in Seq(S)
  OBVIOUS

\* The entries count what is to come, which is no less than nothing.
LEMMA DictTyped ==
    ASSUME Typed, Control, Joint, NEW p \in BOOLEAN
    PROVE  IsDict(DictOf(p), Callbacks)
<1>1. PICK lost, L :
        /\ lost \in Seq(AnyMessage) /\ (conn # "closed" => lost = << >>)
        /\ LoggedBy(Coming \o lost, L)
  BY DEF Joint, Logged
<1>2. PICK C : C = Coming \o lost
  OBVIOUS
<1>3. C \in Seq(AnyMessage) /\ Unserved \in Seq(Nat)
  BY <1>1, <1>2, Streams, ConcatProperties
<1>4. Balanced(C, L[1], issued, Unserved, Owes, Holds)
  BY <1>1, <1>2 DEF LoggedBy
<1>5. ASSUME NEW k \in Keys, Entry(p, k) # {}
      PROVE  Val(p, k) \in Callbacks
  <2>1. Val(p, k) \in AnyCallback /\ Known(issued, Val(p, k))
    BY <1>5, EntryIs DEF Control, AllKnown
  <2>2. PICK x : x = <<p, k>>
    OBVIOUS
  <2>3. x \in Pairs /\ x[1] = p /\ x[2] = k
    BY <2>2 DEF Pairs
  <2>4. Owes[x] = Val(p, k).pending_subs
    BY <1>5, <2>3 DEF Owes
  <2>5. Owes[x] = SubCount(issued, Unserved, x) + AckCount(C, x)
    BY <1>4, <2>3 DEF Balanced
  <2>6. SubCount(issued, Unserved, x) \in Nat /\ AckCount(C, x) \in Nat
    BY <1>3, CountsAre
  <2>7. Val(p, k).pending_subs >= 0
    BY <2>4, <2>5, <2>6
  <2>8. QED
    BY <2>1, <2>7, CallbackTyped
<1>6. IsDict(DictOf(p), AnyCallback)
  BY DEF Typed, TypedDicts, DictOf
<1>7. \A k \in Keys : dictFind(DictOf(p), k) # {} => dictGetEntryVal(dictFind(DictOf(p), k)) \in Callbacks
  BY <1>5 DEF Entry, Val
<1>8. QED
  BY <1>6, <1>7, IsDictNarrow

LEMMA TypesHold ==
    ASSUME Typed, Control, Joint, Bounded
    PROVE  TypeOK
<1>1. /\ Len(issued) \in Nat /\ Len(issued) <= MaxCommands /\ MaxCommands \in Nat
      /\ DOMAIN issued = 1..Len(issued)
  BY Streams, MaxCommandsIs DEF Typed, TypedStreams
<1>2. \A n \in 1..Len(issued) : n \in Ids
  BY <1>1 DEF Ids
<1>3. {replies, invalid} \subseteq Seq(Callbacks)
  <2>1. ASSUME NEW s \in Seq(AnyCallback), \A i \in DOMAIN s : Known(issued, s[i]),
               \A i \in DOMAIN s : s[i].pending_subs >= 0
        PROVE  s \in Seq(Callbacks)
    <3>1. \A i \in DOMAIN s : s[i] \in AnyCallback
      OBVIOUS
    <3>2. \A i \in DOMAIN s : s[i] \in Callbacks
      BY <2>1, <3>1, CallbackTyped
    <3>3. QED
      BY <3>2, SeqNarrow
  <2>2. replies \in Seq(AnyCallback) /\ invalid \in Seq(AnyCallback)
    BY Streams
  <2>3. QED
    BY <2>1, <2>2 DEF Control, AllKnown, Joint, Counted
<1>4. cb \in Callbacks
  BY CallbackTyped, Streams DEF Control, AllKnown, Joint, Counted
<1>5. IsDict(channels, Callbacks) /\ IsDict(patterns, Callbacks)
  BY DictTyped DEF DictOf
<1>6. {obuf, wire} \subseteq Seq(Ids)
  <2>1. 1..Len(issued) \subseteq Ids
    BY <1>2
  <2>2. QED
    BY <2>1, SeqWiden DEF Typed, TypedStreams
<1>7. run.id \in Ids /\ done \subseteq Ids
  BY <1>1, <1>2 DEF Bounded, Control, Running, Ids
<1>8. it \in 0..Len(Subscribed)
  BY SubscribedEntries DEF Bounded, Typed, TypedDicts
<1>9. QED
  BY <1>3, <1>4, <1>5, <1>6, <1>7, <1>8 DEF TypeOK, Typed, TypedContext, TypedThread, TypedStreams

\* Type correctness; the dicts stay as IsDict says (dict.c).
THEOREM AsyncTypeOK == Spec => []TypeOK
<1>1. Init => Bounded
  BY BoundedInit
<1>2. Typed /\ Typed' /\ Control /\ Control' /\ Bounded /\ [Next]_vars => Bounded'
  BY BoundedStep
<1>3. Typed /\ Control /\ Joint /\ Bounded => TypeOK
  BY TypesHold
<1>4. QED
  BY <1>1, <1>2, <1>3, JointAlways, PTL DEF Spec

-----------------------------------------------------------------------------
(* Subscriptions.                                                           *)

\* A log without messages about subscriptions ends as it starts.
LEMMA LogStill ==
    ASSUME NEW C, NEW L, IsLog(C, L), \A i \in 1..Len(C) : C[i].kind \notin {"subscribe", "unsubscribe"}
    PROVE  L[Len(C) + 1] = L[1]
<1>1. C \in Seq(AnyMessage) /\ Len(C) \in Nat /\ \A i \in 1..Len(C) : Follows(C[i], L[i], L[i + 1])
  BY DEF IsLog
<1>2. ASSUME NEW i \in 1..Len(C)
      PROVE  L[i + 1] = L[i]
  <2>1. C[i] \in AnyMessage /\ C[i].kind \notin {"subscribe", "unsubscribe"}
    BY <1>1
  <2>2. C[i].kind \in {"message", "reply"}
    BY <2>1 DEF AnyMessage
  <2>3. QED
    BY <1>1, <2>2 DEF Follows
<1> DEFINE S == {n \in Nat : n <= Len(C) => L[n + 1] = L[1]}
<1>3. 0 \in S
  <2>1. 0 + 1 = 1
    OBVIOUS
  <2>2. QED
    BY <2>1
<1>4. ASSUME NEW n \in Nat, n \in S
      PROVE  n + 1 \in S
  <2>1. n + 1 <= Len(C) => n + 1 \in 1..Len(C) /\ n <= Len(C)
    BY <1>1
  <2>2. n + 1 <= Len(C) => L[(n + 1) + 1] = L[1]
    BY <1>2, <1>4, <2>1
  <2>3. QED
    BY <2>2
<1> HIDE DEF S
<1>5. \A n \in Nat : n \in S
  BY <1>3, <1>4, SetInduction
<1>6. QED
  BY <1>1, <1>5 DEF S

\* The streams from either end.
LEMMA AmongSwap ==
    ASSUME NEW S, NEW E, NEW s \in Seq(E), NEW t \in Seq(E)
    PROVE  Among(S, s \o t) = Among(S, t \o s)
<1>1. Among(S, s \o t) = Among(S, s) + Among(S, t) /\ Among(S, t \o s) = Among(S, t) + Among(S, s)
  BY AmongConcat
<1>2. Among(S, s) \in Nat /\ Among(S, t) \in Nat
  BY AmongType
<1>3. QED
  BY <1>1, <1>2

LEMMA RangeSwap ==
    ASSUME NEW E, NEW s \in Seq(E), NEW t \in Seq(E), NEW P,
           \A j \in DOMAIN (t \o s) : (t \o s)[j] \in P
    PROVE  \A i \in DOMAIN (s \o t) : (s \o t)[i] \in P
<1> SUFFICES ASSUME NEW i \in DOMAIN (s \o t)
             PROVE  (s \o t)[i] \in P
  OBVIOUS
<1>1. /\ Len(s) \in Nat /\ Len(t) \in Nat /\ i \in 1..(Len(s) + Len(t))
      /\ DOMAIN (t \o s) = 1..(Len(t) + Len(s))
      /\ \A j \in 1..(Len(t) + Len(s)) : (t \o s)[j] = IF j <= Len(t) THEN t[j] ELSE s[j - Len(t)]
      /\ (s \o t)[i] = IF i <= Len(s) THEN s[i] ELSE t[i - Len(s)]
  OBVIOUS
<1>2. CASE i <= Len(s)
  <2>1. Len(t) + i \in 1..(Len(t) + Len(s)) /\ ~(Len(t) + i <= Len(t)) /\ (Len(t) + i) - Len(t) = i
    BY <1>1, <1>2
  <2>2. (t \o s)[Len(t) + i] = s[i]
    BY <1>1, <2>1
  <2>3. QED
    BY <1>1, <1>2, <2>1, <2>2
<1>3. CASE ~(i <= Len(s))
  <2>1. i - Len(s) \in 1..(Len(t) + Len(s)) /\ i - Len(s) <= Len(t)
    BY <1>1, <1>3
  <2>2. QED
    BY <1>1, <1>3, <2>1
<1>4. QED
  BY <1>2, <1>3

\* What is to come for a key, by either way of counting.
LEMMA PendingIs ==
    ASSUME Typed, NEW p \in BOOLEAN, NEW name \in Keys, NEW x, x = <<p, name>>
    PROVE  Pending(p, name) = SubCount(issued, Unserved, x) + AckCount(Coming, x)
<1>1. /\ wire \in Seq(Nat) /\ obuf \in Seq(Nat)
      /\ rbuf \in Seq(AnyMessage) /\ inbox \in Seq(AnyMessage)
  BY Streams
<1>2. x[1] = p /\ x[2] = name
  OBVIOUS
<1>3. Subscribes(p, name) = SubscribesIn(issued, x)
  BY <1>2 DEF Subscribes, SubscribesIn
<1>4. Among(Subscribes(p, name), obuf \o wire) = SubCount(issued, Unserved, x)
  BY <1>1, <1>3, AmongSwap DEF SubCount, Unserved
<1>5. Among({m \in Range(inbox \o rbuf) : m.kind = "subscribe" /\ m.p = p /\ m.name = name}, inbox \o rbuf)
        = AckCount(Coming, x)
  <2>1. PICK s : s = inbox \o rbuf
    OBVIOUS
  <2>2. s \in Seq(AnyMessage)
    BY <1>1, <2>1
  <2>3. \A i \in DOMAIN s : s[i] \in Range(s) /\ s[i] \in AnyMessage
    BY <2>2 DEF Range
  <2>4. \A i \in DOMAIN s : s[i] \in {m \in Range(s) : m.kind = "subscribe" /\ m.p = p /\ m.name = name}
                            <=> s[i] \in AcksOf(x)
    BY <1>2, <2>3 DEF AcksOf
  <2>5. Among({m \in Range(s) : m.kind = "subscribe" /\ m.p = p /\ m.name = name}, s) = Among(AcksOf(x), s)
    BY <2>4, AmongSame
  <2>6. Among(AcksOf(x), s) = AckCount(Coming, x)
    BY <1>1, <2>1, AmongSwap DEF AckCount, Coming
  <2>7. QED
    BY <2>1, <2>5, <2>6
<1>6. QED
  BY <1>4, <1>5 DEF Pending

\* While nothing about subscriptions is on its way nothing is to come.
LEMMA QuietCounts ==
    ASSUME Typed, Quiet
    PROVE  /\ \A i \in 1..Len(Coming) : Coming[i].kind \notin {"subscribe", "unsubscribe"}
           /\ \A x : SubCount(issued, Unserved, x) = 0 /\ AckCount(Coming, x) = 0
<1>1. /\ wire \in Seq(Nat) /\ obuf \in Seq(Nat) /\ Unserved \in Seq(Nat)
      /\ rbuf \in Seq(AnyMessage) /\ inbox \in Seq(AnyMessage) /\ Coming \in Seq(AnyMessage)
  BY Streams
<1>2. /\ \A i \in DOMAIN (obuf \o wire) : issued[(obuf \o wire)[i]].kind \notin {"SUBSCRIBE", "UNSUBSCRIBE"}
      /\ \A i \in DOMAIN (inbox \o rbuf) : (inbox \o rbuf)[i].kind \notin {"subscribe", "unsubscribe"}
  BY DEF Quiet
<1>3. DOMAIN Coming = 1..Len(Coming) /\ DOMAIN Unserved = 1..Len(Unserved)
  BY <1>1
<1>4. \A i \in DOMAIN Coming : Coming[i].kind \notin {"subscribe", "unsubscribe"}
  <2>1. PICK P : P = {m \in AnyMessage : m.kind \notin {"subscribe", "unsubscribe"}}
    OBVIOUS
  <2>2. inbox \o rbuf \in Seq(AnyMessage)
    BY <1>1, ConcatProperties
  <2>3. \A j \in DOMAIN (inbox \o rbuf) : (inbox \o rbuf)[j] \in P
    BY <1>2, <2>1, <2>2
  <2>4. \A i \in DOMAIN (rbuf \o inbox) : (rbuf \o inbox)[i] \in P
    BY <1>1, <2>3, RangeSwap
  <2>5. QED
    BY <2>1, <2>4 DEF Coming
<1>5. \A i \in DOMAIN Unserved : issued[Unserved[i]].kind \notin {"SUBSCRIBE", "UNSUBSCRIBE"}
  <2>1. PICK P : P = {n \in Nat : issued[n].kind \notin {"SUBSCRIBE", "UNSUBSCRIBE"}}
    OBVIOUS
  <2>2. obuf \o wire \in Seq(Nat)
    BY <1>1, ConcatProperties
  <2>3. \A j \in DOMAIN (obuf \o wire) : (obuf \o wire)[j] \in P
    BY <1>2, <2>1, <2>2
  <2>4. \A i \in DOMAIN (wire \o obuf) : (wire \o obuf)[i] \in P
    BY <1>1, <2>3, RangeSwap
  <2>5. QED
    BY <2>1, <2>4 DEF Unserved
<1>6. ASSUME NEW x
      PROVE  SubCount(issued, Unserved, x) = 0 /\ AckCount(Coming, x) = 0
  <2>1. \A i \in DOMAIN Unserved : Unserved[i] \notin SubscribesIn(issued, x)
    BY <1>5 DEF SubscribesIn
  <2>2. \A i \in DOMAIN Coming : Coming[i] \notin AcksOf(x)
    BY <1>4 DEF AcksOf
  <2>3. QED
    BY <1>1, <2>1, <2>2, AmongType DEF SubCount, AckCount
<1>7. QED
  BY <1>3, <1>4, <1>6

\* Each entry counts the replies to a SUBSCRIBE that are to come; when none
\* is, the context and Redis agree on what is subscribed to, however
\* subscribing, unsubscribing and their replies overlap (async.c:391-417,
\* 626-648).
THEOREM AsyncSubscriptionsAgree == Spec => []SubscriptionsAgree
<1>1. Typed /\ Control /\ Joint => SubscriptionsAgree
  <2>1. SUFFICES ASSUME Typed, Joint, conn = "open"
                 PROVE  /\ \A p \in BOOLEAN, name \in Keys :
                             LET entry == dictFind(DictOf(p), name) IN
                             /\ Pending(p, name) = 
                                    IF entry = {} THEN 0 ELSE dictGetEntryVal(entry).pending_subs
                             /\ Quiet => (entry # {} <=> <<p, name>> \in subs)
                        /\ Quiet => ("SUBSCRIBED" \in flags <=> subs # {})
    BY DEF SubscriptionsAgree
  <2>2. PICK L : LoggedBy(Coming, L)
    <3>1. PICK lost, L :
            /\ lost \in Seq(AnyMessage) /\ (conn # "closed" => lost = << >>)
            /\ LoggedBy(Coming \o lost, L)
      BY <2>1 DEF Joint, Logged
    <3>2. Coming \in Seq(AnyMessage)
      BY <2>1, Streams
    <3>3. Coming \o lost = Coming
      BY <2>1, <3>1, <3>2
    <3>4. LoggedBy(Coming, L)
      BY <3>1, <3>3
    <3>5. QED
      BY <3>4
  <2>3. /\ IsLog(Coming, L) /\ L[Len(Coming) + 1] = subs
        /\ Balanced(Coming, L[1], issued, Unserved, Owes, Holds)
    BY <2>2 DEF LoggedBy
  <2>4. ASSUME NEW p \in BOOLEAN, NEW name \in Keys
        PROVE  /\ Pending(p, name) = IF Entry(p, name) = {} THEN 0 ELSE Val(p, name).pending_subs
               /\ Quiet => (Entry(p, name) # {} <=> <<p, name>> \in subs)
    <3>1. PICK x : x = <<p, name>>
      OBVIOUS
    <3>2. x \in Pairs /\ x[1] = p /\ x[2] = name
      BY <3>1 DEF Pairs
    <3>3. Owes[x] = IF Entry(p, name) = {} THEN 0 ELSE Val(p, name).pending_subs
      BY <3>2 DEF Owes
    <3>4. x \in Holds <=> Entry(p, name) # {}
      BY <3>2 DEF Holds
    <3>5. /\ Owes[x] = SubCount(issued, Unserved, x) + AckCount(Coming, x)
          /\ x \in Holds <=> Owes[x] > 0 \/ x \in L[1]
      BY <2>3, <3>2 DEF Balanced
    <3>6. Pending(p, name) = SubCount(issued, Unserved, x) + AckCount(Coming, x)
      BY <2>1, <3>1, PendingIs
    <3>7. ASSUME Quiet
          PROVE  Entry(p, name) # {} <=> <<p, name>> \in subs
      <4>1. SubCount(issued, Unserved, x) = 0 /\ AckCount(Coming, x) = 0
        BY <2>1, <3>7, QuietCounts
      <4>2. ~(Owes[x] > 0)
        BY <3>5, <4>1
      <4>3. L[1] = subs
        BY <2>1, <2>3, <3>7, QuietCounts, LogStill
      <4>4. QED
        BY <3>1, <3>4, <3>5, <4>2, <4>3
    <3>8. QED
      BY <3>3, <3>5, <3>6, <3>7
  <2>5. Quiet => (Sub <=> subs # {})
    <3>1. SUFFICES ASSUME Quiet PROVE Sub <=> subs # {}
      OBVIOUS
    <3>2. Sub <=> Holds # {}
      BY <2>1 DEF Joint, Flagged
    <3>3. ASSUME NEW x \in Pairs
          PROVE  x \in Holds <=> x \in subs
      <4>1. x[1] \in BOOLEAN /\ x[2] \in Keys /\ x = <<x[1], x[2]>>
        BY PairIs
      <4>2. Entry(x[1], x[2]) # {} <=> x \in subs
        BY <2>4, <3>1, <4>1
      <4>3. QED
        BY <4>2 DEF Holds
    <3>4. subs \subseteq Pairs /\ Holds \subseteq Pairs
      BY <2>1, Streams DEF Holds
    <3>5. QED
      BY <3>2, <3>3, <3>4
  <2>6. QED
    BY <2>4, <2>5 DEF Entry, Val, Sub
<1>2. QED
  BY <1>1, JointAlways, PTL
=============================================================================
