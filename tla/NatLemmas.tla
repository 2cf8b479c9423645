------------------------------ MODULE NatLemmas ------------------------------
(***************************************************************************)
(* Facts about numbers and sequences that several of the proofs rest on.   *)
(* Induction and recursion are stated without operators among their        *)
(* parameters: a set takes the place of a predicate, a function on pairs   *)
(* that of a step. They make provable what a function computes that is     *)
(* defined from its value at the number before.                            *)
(***************************************************************************)
EXTENDS Selection, SequenceTheorems, WellFoundedInduction, TLAPS

-----------------------------------------------------------------------------
(* Division and multiples.                                                 *)

LEMMA Quotient ==
  ASSUME NEW d \in Nat, d > 0, NEW a \in Nat
  PROVE  a \div d \in Nat /\ (a \div d) * d <= a /\ a < (a \div d) * d + d
         /\ a % d = a - (a \div d) * d
  OBVIOUS

LEMMA MonoTimes ==
  ASSUME NEW d \in Nat, NEW p \in Nat, NEW q \in Nat, p < q
  PROVE  p * d + d <= q * d
  <1>1. PICK r \in Nat : q = p + 1 + r
    <2>1. q - p - 1 \in Nat /\ q = p + 1 + (q - p - 1)
      OBVIOUS
    <2>2. QED
      BY <2>1
  <1>2. q * d = p * d + d + r * d /\ r * d \in Nat /\ p * d \in Nat
    BY <1>1
  <1>3. QED
    BY <1>2

LEMMA MonoLeq ==
  ASSUME NEW d \in Nat, NEW p \in Nat, NEW q \in Nat, p <= q
  PROVE  p * d <= q * d /\ p * d \in Nat /\ q * d \in Nat
  <1> DEFINE a == p * d
             b == q * d
  <1>1. a \in Nat /\ b \in Nat
    OBVIOUS
  <1>2. CASE p = q
    BY <1>1, <1>2
  <1>3. CASE p < q
    <2>1. a + d <= b
      BY <1>3, MonoTimes
    <2> HIDE DEF a, b
    <2>2. a <= b
      BY <1>1, <2>1
    <2>3. QED
      BY <1>1, <2>2 DEF a, b
  <1>4. QED
    BY <1>2, <1>3

-----------------------------------------------------------------------------
(* Induction and recursion.                                                *)

LEMMA LeastNat ==
  ASSUME NEW T, T \subseteq Nat, T # {}
  PROVE  \E m \in T : \A k \in T : m <= k
  <1>1. PICK m \in T : \A k \in T : ~(<<k, m>> \in OpToRel(<, Nat))
    BY NatLessThanWellFounded, WFMin
  <1>2. ASSUME NEW k \in T PROVE m <= k
    <2>1. k \in Nat /\ m \in Nat
      OBVIOUS
    <2>2. ~(k < m)
      BY <1>1, <2>1 DEF OpToRel
    <2>3. QED
      BY ONLY <2>1, <2>2
  <1>3. QED
    BY <1>2

(* Induction: S is the set of the numbers that have the property.          *)
LEMMA InductionNat ==
  ASSUME NEW S, 0 \in S, \A n \in Nat : n \in S => n + 1 \in S
  PROVE  Nat \subseteq S
  <1> DEFINE T == Nat \ S
  <1>1. SUFFICES ASSUME T # {} PROVE FALSE
    OBVIOUS
  <1>2. PICK m \in T : \A k \in T : m <= k
    BY <1>1, LeastNat
  <1>3. m \in Nat /\ m # 0 /\ m \notin S
    OBVIOUS
  <1>4. m - 1 \in Nat /\ m - 1 + 1 = m /\ ~(m <= m - 1)
    BY <1>3
  <1>5. m - 1 \in S
    BY <1>2, <1>4
  <1>6. QED
    BY <1>3, <1>4, <1>5

-----------------------------------------------------------------------------
(* F[<<k, v>>] is the value at k + 1 if v is the one at k. All are in S.   *)
Steps(F, K, S) == \A k \in K, v \in S : F[<<k, v>>] \in S

RecursiveUpTo(g, n, S, a, F) ==
  /\ g \in [0 .. n -> S] /\ g[0] = a
  /\ \A k \in 0 .. (n - 1) : g[k + 1] = F[<<k, g[k]>>]

Recursive(g, S, a, F) ==
  g \in [Nat -> S] /\ g[0] = a /\ \A n \in Nat : g[n + 1] = F[<<n, g[n]>>]

LEMMA RecursionUpTo ==
  ASSUME NEW S, NEW a \in S, NEW F, Steps(F, Nat, S)
  PROVE  \A n \in Nat : \E g : RecursiveUpTo(g, n, S, a, F)
  <1> DEFINE T == {n \in Nat : \E g : RecursiveUpTo(g, n, S, a, F)}
  <1>1. 0 \in T
    <2> DEFINE g == [k \in 0 .. 0 |-> a]
    <2>1. RecursiveUpTo(g, 0, S, a, F)
      BY DEF RecursiveUpTo
    <2>2. QED
      BY <2>1
  <1>2. ASSUME NEW n \in Nat, n \in T PROVE n + 1 \in T
    <2>1. PICK g : RecursiveUpTo(g, n, S, a, F)
      BY <1>2
    <2> DEFINE h == [k \in 0 .. (n + 1) |-> IF k = n + 1 THEN F[<<n, g[n]>>] ELSE g[k]]
    <2>2. g \in [0 .. n -> S] /\ n \in 0 .. n /\ 0 \in 0 .. n
      BY <2>1 DEF RecursiveUpTo
    <2>3. F[<<n, g[n]>>] \in S
      BY <2>2 DEF Steps
    <2>4. h \in [0 .. (n + 1) -> S]
      BY <2>2, <2>3
    <2>5. h[0] = a
      BY <2>1, <2>2 DEF RecursiveUpTo
    <2>6. ASSUME NEW k \in 0 .. n PROVE h[k + 1] = F[<<k, h[k]>>]
      <3>1. CASE k = n
        <4>1. k + 1 \in 0 .. (n + 1) /\ k \in 0 .. (n + 1) /\ k # n + 1 /\ k + 1 = n + 1
          BY <3>1
        <4>2. h[k + 1] = F[<<n, g[n]>>] /\ h[k] = g[k]
          BY <4>1
        <4>3. QED
          BY <3>1, <4>2
      <3>2. CASE k # n
        <4>1. /\ k \in 0 .. (n - 1) /\ k + 1 # n + 1 /\ k # n + 1
              /\ k + 1 \in 0 .. (n + 1) /\ k \in 0 .. (n + 1)
          BY <3>2
        <4>2. h[k + 1] = g[k + 1] /\ h[k] = g[k]
          BY <4>1
        <4>3. QED
          BY <2>1, <4>1, <4>2 DEF RecursiveUpTo
      <3>3. QED
        BY <3>1, <3>2
    <2>7. n + 1 - 1 = n
      OBVIOUS
    <2> HIDE DEF h
    <2>8. RecursiveUpTo(h, n + 1, S, a, F)
      BY <2>4, <2>5, <2>6, <2>7 DEF RecursiveUpTo
    <2>9. QED
      BY <2>8
  <1> HIDE DEF T
  <1>3. Nat \subseteq T
    BY <1>1, <1>2, InductionNat
  <1>4. QED
    BY <1>3 DEF T

LEMMA RecursionUnique ==
  ASSUME NEW S, NEW a, NEW F, NEW m \in Nat, NEW n \in Nat, NEW g, NEW h,
         RecursiveUpTo(g, m, S, a, F), RecursiveUpTo(h, n, S, a, F), m <= n
  PROVE  g[m] = h[m]
  <1> DEFINE T == {k \in Nat : k <= m => g[k] = h[k]}
  <1>1. 0 \in T
    BY DEF RecursiveUpTo
  <1>2. ASSUME NEW k \in Nat, k \in T PROVE k + 1 \in T
    <2> SUFFICES ASSUME k + 1 <= m PROVE g[k + 1] = h[k + 1]
      OBVIOUS
    <2>1. k \in 0 .. (m - 1) /\ k \in 0 .. (n - 1) /\ k <= m /\ k <= n
      OBVIOUS
    <2>2. g[k] = h[k]
      BY <1>2, <2>1
    <2>3. QED
      BY <2>1, <2>2 DEF RecursiveUpTo
  <1> HIDE DEF T
  <1>3. Nat \subseteq T
    BY <1>1, <1>2, InductionNat
  <1>4. QED
    BY <1>3 DEF T

(* There is a function that starts with a and goes on with F.              *)
THEOREM RecursionExists ==
  ASSUME NEW S, NEW a \in S, NEW F, Steps(F, Nat, S)
  PROVE  \E g : Recursive(g, S, a, F)
  <1> DEFINE G(n) == CHOOSE h : RecursiveUpTo(h, n, S, a, F)
             g == [n \in Nat |-> G(n)[n]]
  <1>1. ASSUME NEW n \in Nat PROVE RecursiveUpTo(G(n), n, S, a, F)
    BY RecursionUpTo
  <1> HIDE DEF G
  <1>2. ASSUME NEW n \in Nat PROVE g[n] = G(n)[n]
    OBVIOUS
  <1>3. ASSUME NEW n \in Nat PROVE G(n)[n] \in S
    BY <1>1 DEF RecursiveUpTo
  <1>4. g \in [Nat -> S]
    BY <1>3
  <1> HIDE DEF g
  <1>5. g[0] = a
    BY <1>1, <1>2 DEF RecursiveUpTo
  <1>6. ASSUME NEW n \in Nat PROVE g[n + 1] = F[<<n, g[n]>>]
    <2>1. RecursiveUpTo(G(n), n, S, a, F) /\ RecursiveUpTo(G(n + 1), n + 1, S, a, F)
      BY <1>1
    <2>2. n + 1 \in Nat /\ n <= n + 1 /\ n \in 0 .. (n + 1 - 1)
      OBVIOUS
    <2>3. G(n)[n] = G(n + 1)[n]
      BY <2>1, <2>2, RecursionUnique
    <2>4. G(n + 1)[n + 1] = F[<<n, G(n + 1)[n]>>]
      BY <2>1, <2>2 DEF RecursiveUpTo
    <2>5. QED
      BY <1>2, <2>2, <2>3, <2>4
  <1>7. QED
    BY <1>4, <1>5, <1>6 DEF Recursive

(* The same for a function on 0 .. n that looks at its argument and at its *)
(* value before, as the recursive definitions of this project do.          *)
Bounded(g, n, S, a, F) ==
  /\ g \in [0 .. n -> S]
  /\ g = [k \in 0 .. n |-> IF k = 0 THEN a ELSE F[<<k, g[k - 1]>>]]

THEOREM BoundedRecursion ==
  ASSUME NEW S, NEW a \in S, NEW n \in Nat, NEW F, Steps(F, 1 .. n, S)
  PROVE  \E g : Bounded(g, n, S, a, F)
  <1> DEFINE E == [p \in Nat \X S |-> IF p[1] + 1 <= n THEN F[<<p[1] + 1, p[2]>>] ELSE a]
  <1>1. ASSUME NEW k \in Nat, NEW v \in S
        PROVE  E[<<k, v>>] = (IF k + 1 <= n THEN F[<<k + 1, v>>] ELSE a) /\ E[<<k, v>>] \in S
    <2>1. <<k, v>> \in Nat \X S /\ (k + 1 <= n => k + 1 \in 1 .. n)
      OBVIOUS
    <2>2. E[<<k, v>>] = IF k + 1 <= n THEN F[<<k + 1, v>>] ELSE a
      BY <2>1
    <2>3. QED
      BY <2>1, <2>2 DEF Steps
  <1>2. Steps(E, Nat, S)
    BY <1>1 DEF Steps
  <1> HIDE DEF E
  <1>3. PICK g : Recursive(g, S, a, E)
    BY <1>2, RecursionExists
  <1>4. g \in [Nat -> S] /\ g[0] = a /\ \A k \in Nat : g[k + 1] = E[<<k, g[k]>>]
    BY <1>3 DEF Recursive
  <1> DEFINE h == [k \in 0 .. n |-> g[k]]
  <1>5. h \in [0 .. n -> S] /\ h[0] = a
    BY <1>4
  <1>6. ASSUME NEW k \in 0 .. n, k # 0 PROVE h[k] = F[<<k, h[k - 1]>>]
    <2>1. k - 1 \in Nat /\ k - 1 + 1 = k /\ k - 1 \in 0 .. n
      BY <1>6
    <2>2. g[k] = E[<<k - 1, g[k - 1]>>] /\ g[k - 1] \in S
      BY <1>4, <2>1
    <2>3. E[<<k - 1, g[k - 1]>>] = F[<<k, g[k - 1]>>]
      BY <1>1, <2>1, <2>2
    <2>4. QED
      BY <2>1, <2>2, <2>3
  <1>7. \A k \in 0 .. n : h[k] = IF k = 0 THEN a ELSE F[<<k, h[k - 1]>>]
    BY <1>5, <1>6
  <1> HIDE DEF h
  <1>8. Bounded(h, n, S, a, F)
    BY <1>5, <1>7 DEF Bounded
  <1>9. QED
    BY <1>8

(* And for one on all of Nat.                                              *)
Unbounded(g, S, a, F) ==
  /\ g \in [Nat -> S]
  /\ g = [k \in Nat |-> IF k = 0 THEN a ELSE F[<<k, g[k - 1]>>]]

THEOREM UnboundedRecursion ==
  ASSUME NEW S, NEW a \in S, NEW F, Steps(F, Nat \ {0}, S)
  PROVE  \E g : Unbounded(g, S, a, F)
  <1> DEFINE E == [p \in Nat \X S |-> F[<<p[1] + 1, p[2]>>]]
  <1>1. ASSUME NEW k \in Nat, NEW v \in S
        PROVE  E[<<k, v>>] = F[<<k + 1, v>>] /\ E[<<k, v>>] \in S
    <2>1. <<k, v>> \in Nat \X S /\ k + 1 \in Nat \ {0}
      OBVIOUS
    <2>2. E[<<k, v>>] = F[<<k + 1, v>>]
      BY <2>1
    <2>3. QED
      BY <2>1, <2>2 DEF Steps
  <1>2. Steps(E, Nat, S)
    BY <1>1 DEF Steps
  <1> HIDE DEF E
  <1>3. PICK g : Recursive(g, S, a, E)
    BY <1>2, RecursionExists
  <1>4. g \in [Nat -> S] /\ g[0] = a /\ \A k \in Nat : g[k + 1] = E[<<k, g[k]>>]
    BY <1>3 DEF Recursive
  <1>5. ASSUME NEW k \in Nat, k # 0 PROVE g[k] = F[<<k, g[k - 1]>>]
    <2>1. k - 1 \in Nat /\ k - 1 + 1 = k
      BY <1>5
    <2>2. g[k] = E[<<k - 1, g[k - 1]>>] /\ g[k - 1] \in S
      BY <1>4, <2>1
    <2>3. QED
      BY <1>1, <2>1, <2>2
  <1>6. \A k \in Nat : g[k] = IF k = 0 THEN a ELSE F[<<k, g[k - 1]>>]
    BY <1>4, <1>5
  <1>7. g = [k \in Nat |-> g[k]]
    BY <1>4
  <1>8. Unbounded(g, S, a, F)
    BY <1>4, <1>6, <1>7 DEF Unbounded
  <1>9. QED
    BY <1>8

-----------------------------------------------------------------------------
(* Selection: what is kept is of the kind that is to be kept.              *)

LEMMA UpToSteps ==
  ASSUME NEW S, NEW s \in Seq(S), NEW K
  PROVE  LET T == {s[k] : k \in K \cap (1 .. Len(s))}
         IN  /\ UpTo(s, K) \in [0 .. Len(s) -> Seq(T)]
             /\ UpTo(s, K)[0] = <<>>
             /\ \A n \in 1 .. Len(s) :
                  UpTo(s, K)[n] = IF n \in K THEN Append(UpTo(s, K)[n - 1], s[n])
                                             ELSE UpTo(s, K)[n - 1]
  <1> DEFINE T == {s[k] : k \in K \cap (1 .. Len(s))}
             F == [p \in (1 .. Len(s)) \X Seq(T) |->
                     IF p[1] \in K THEN Append(p[2], s[p[1]]) ELSE p[2]]
             Eq(g) == g = [n \in 0 .. Len(s) |->
                        IF n = 0 THEN <<>> ELSE IF n \in K THEN Append(g[n - 1], s[n]) ELSE g[n - 1]]
             f == UpTo(s, K)
  <1>1. Len(s) \in Nat
    OBVIOUS
  <1>2. ASSUME NEW k \in 1 .. Len(s), NEW v \in Seq(T)
        PROVE  /\ F[<<k, v>>] = IF k \in K THEN Append(v, s[k]) ELSE v
               /\ F[<<k, v>>] \in Seq(T)
    <2>1. F[<<k, v>>] = IF k \in K THEN Append(v, s[k]) ELSE v
      OBVIOUS
    <2>2. CASE k \in K
      <3>1. s[k] \in T
        BY <2>2
      <3> HIDE DEF T, F
      <3>2. Append(v, s[k]) \in Seq(T)
        BY <3>1, AppendProperties
      <3>3. QED
        BY <2>1, <2>2, <3>2
    <2>3. CASE k \notin K
      BY <2>1, <2>3
    <2>4. QED
      BY <2>1, <2>2, <2>3
  <1> HIDE DEF T, F
  <1>3. Steps(F, 1 .. Len(s), Seq(T)) /\ <<>> \in Seq(T)
    BY <1>2 DEF Steps
  <1>4. PICK g : Bounded(g, Len(s), Seq(T), <<>>, F)
    BY <1>1, <1>3, BoundedRecursion
  <1>5. /\ g \in [0 .. Len(s) -> Seq(T)]
        /\ g = [n \in 0 .. Len(s) |-> IF n = 0 THEN <<>> ELSE F[<<n, g[n - 1]>>]]
    BY <1>4 DEF Bounded
  <1>6. ASSUME NEW n \in 0 .. Len(s), n # 0
        PROVE  F[<<n, g[n - 1]>>] = IF n \in K THEN Append(g[n - 1], s[n]) ELSE g[n - 1]
    <2>1. n \in 1 .. Len(s) /\ n - 1 \in 0 .. Len(s)
      BY <1>1, <1>6
    <2>2. g[n - 1] \in Seq(T)
      BY <1>5, <2>1
    <2>3. QED
      BY <1>2, <2>1, <2>2
  <1>7. Eq(g)
    BY <1>5, <1>6
  <1>8. f = CHOOSE h : Eq(h)
    BY DEF UpTo
  <1> HIDE DEF Eq
  <1>9. Eq(f)
    BY <1>7, <1>8
  <1> USE DEF Eq
  <1>10. f[0] = <<>> /\ DOMAIN f = 0 .. Len(s)
    BY <1>1, <1>9
  <1>11. ASSUME NEW n \in 1 .. Len(s)
         PROVE  f[n] = IF n \in K THEN Append(f[n - 1], s[n]) ELSE f[n - 1]
    <2>1. n \in 0 .. Len(s) /\ n # 0
      BY <1>1
    <2>2. QED
      BY <1>9, <2>1
  <1>12. f \in [0 .. Len(s) -> Seq(T)]
    <2> DEFINE N == {n \in Nat : n <= Len(s) => f[n] \in Seq(T)}
    <2>1. 0 \in N
      BY <1>3, <1>10
    <2>2. ASSUME NEW n \in Nat, n \in N PROVE n + 1 \in N
      <3> SUFFICES ASSUME n + 1 <= Len(s) PROVE f[n + 1] \in Seq(T)
        OBVIOUS
      <3>1. n + 1 \in 1 .. Len(s) /\ n + 1 - 1 = n /\ n <= Len(s)
        BY <1>1
      <3>2. f[n] \in Seq(T)
        BY <2>2, <3>1
      <3>3. f[n + 1] = IF n + 1 \in K THEN Append(f[n], s[n + 1]) ELSE f[n]
        BY <1>11, <3>1
      <3>4. F[<<n + 1, f[n]>>] = f[n + 1] /\ F[<<n + 1, f[n]>>] \in Seq(T)
        BY <1>2, <3>1, <3>2, <3>3
      <3>5. QED
        BY <3>4
    <2> HIDE DEF N
    <2>3. Nat \subseteq N
      BY <2>1, <2>2, InductionNat
    <2>4. \A n \in 0 .. Len(s) : f[n] \in Seq(T)
      BY <1>1, <2>3 DEF N
    <2>5. f = [n \in 0 .. Len(s) |-> f[n]]
      BY <1>9
    <2>6. QED
      BY <2>4, <2>5
  <1>13. QED
    BY <1>10, <1>11, <1>12 DEF T

(* Each element that is kept has the place of one to keep.                 *)
THEOREM SelectedFrom ==
  ASSUME NEW S, NEW s \in Seq(S), NEW K, NEW i \in DOMAIN Selected(s, K)
  PROVE  \E k \in K \cap (1 .. Len(s)) : Selected(s, K)[i] = s[k]
  <1> DEFINE T == {s[k] : k \in K \cap (1 .. Len(s))}
  <1>1. UpTo(s, K) \in [0 .. Len(s) -> Seq(T)] /\ Len(s) \in 0 .. Len(s)
    BY UpToSteps
  <1>2. Selected(s, K) \in Seq(T)
    BY <1>1 DEF Selected
  <1>3. Selected(s, K)[i] \in T
    BY <1>2
  <1>4. QED
    BY <1>3

LEMMA UpToInSeq ==
  ASSUME NEW S, NEW s \in Seq(S), NEW K
  PROVE  /\ UpTo(s, K) \in [0 .. Len(s) -> Seq(S)]
         /\ Selected(s, K) \in Seq(S)
  <1> DEFINE T == {s[k] : k \in K \cap (1 .. Len(s))}
  <1>1. UpTo(s, K) \in [0 .. Len(s) -> Seq(T)] /\ Len(s) \in 0 .. Len(s)
    BY UpToSteps
  <1>2. T \subseteq S
    OBVIOUS
  <1> HIDE DEF T
  <1>3. ASSUME NEW n \in 0 .. Len(s) PROVE UpTo(s, K)[n] \in Seq(S)
    <2>1. UpTo(s, K)[n] \in Seq(T)
      BY <1>1
    <2>2. QED
      BY <1>2, <2>1, SeqMonotonic
  <1>4. QED
    BY <1>1, <1>3 DEF Selected

(* And each element to keep is kept.                                       *)
THEOREM SelectedAll ==
  ASSUME NEW S, NEW s \in Seq(S), NEW K, NEW k \in K, k \in 1 .. Len(s)
  PROVE  \E i \in DOMAIN Selected(s, K) : Selected(s, K)[i] = s[k]
  <1> DEFINE f == UpTo(s, K)
             Has(t) == \E i \in DOMAIN t : t[i] = s[k]
             N == {n \in Nat : n <= Len(s) /\ k <= n => Has(f[n])}
  <1>1. /\ f \in [0 .. Len(s) -> Seq(S)] /\ f[0] = <<>> /\ Len(s) \in Nat
        /\ \A n \in 1 .. Len(s) : f[n] = IF n \in K THEN Append(f[n - 1], s[n]) ELSE f[n - 1]
    BY UpToSteps, UpToInSeq
  <1>2. Selected(s, K) = f[Len(s)]
    BY DEF Selected
  <1> HIDE DEF f
  <1>3. 0 \in N
    OBVIOUS
  <1>4. ASSUME NEW n \in Nat, n \in N PROVE n + 1 \in N
    <2> SUFFICES ASSUME n + 1 <= Len(s), k <= n + 1 PROVE Has(f[n + 1])
      OBVIOUS
    <2>1. n + 1 \in 1 .. Len(s) /\ n + 1 - 1 = n /\ n \in 0 .. Len(s) /\ n <= Len(s)
      BY <1>1
    <2>2. f[n] \in Seq(S) /\ s[n + 1] \in S
      BY <1>1, <2>1
    <2>3. f[n + 1] = IF n + 1 \in K THEN Append(f[n], s[n + 1]) ELSE f[n]
      BY <1>1, <2>1
    <2>4. CASE k = n + 1
      <3>1. f[n + 1] = Append(f[n], s[k])
        BY <2>3, <2>4
      <3>2. Len(f[n]) + 1 \in DOMAIN Append(f[n], s[k]) /\ Append(f[n], s[k])[Len(f[n]) + 1] = s[k]
        BY <2>2, AppendProperties
      <3>3. QED
        BY <3>1, <3>2
    <2>5. CASE k # n + 1
      <3>1. Has(f[n])
        BY <1>4, <2>1, <2>5
      <3>2. PICK i \in DOMAIN f[n] : f[n][i] = s[k]
        BY <3>1
      <3>3. i \in DOMAIN Append(f[n], s[n + 1]) /\ Append(f[n], s[n + 1])[i] = s[k]
        BY <2>2, <3>2, AppendProperties
      <3>4. QED
        BY <2>3, <3>1, <3>3
    <2>6. QED
      BY <2>4, <2>5
  <1> HIDE DEF N
  <1>5. Nat \subseteq N
    BY <1>3, <1>4, InductionNat
  <1>6. Len(s) \in N /\ Len(s) <= Len(s) /\ k <= Len(s)
    BY <1>1, <1>5
  <1>7. Has(f[Len(s)])
    BY <1>6 DEF N
  <1>8. QED
    BY <1>2, <1>7

LEMMA AppendConcat ==
  ASSUME NEW S, NEW a \in Seq(S), NEW b \in Seq(S), NEW x \in S,
         NEW ab, ab = a \o b, NEW bx, bx = Append(b, x)
  PROVE  Append(ab, x) = a \o bx
  <1>1. /\ ab \in Seq(S) /\ Len(ab) = Len(a) + Len(b)
        /\ \A i \in 1 .. Len(a) + Len(b) : ab[i] = IF i <= Len(a) THEN a[i] ELSE b[i - Len(a)]
    BY ConcatProperties
  <1>2. /\ bx \in Seq(S) /\ Len(bx) = Len(b) + 1
        /\ \A i \in 1 .. Len(b) : bx[i] = b[i]
        /\ bx[Len(b) + 1] = x
    BY AppendProperties
  <1>3. Len(a) \in Nat /\ Len(b) \in Nat
    OBVIOUS
  <1> DEFINE l == Append(ab, x)
             r == a \o bx
  <1>4. /\ l \in Seq(S) /\ Len(l) = Len(ab) + 1
        /\ \A i \in 1 .. Len(ab) : l[i] = ab[i]
        /\ l[Len(ab) + 1] = x
    <2>1. ab \in Seq(S)
      BY <1>1
    <2>2. QED
      BY ONLY <2>1, x \in S, AppendProperties
  <1>5. /\ r \in Seq(S) /\ Len(r) = Len(a) + Len(bx)
        /\ \A i \in 1 .. Len(a) + Len(bx) : r[i] = IF i <= Len(a) THEN a[i] ELSE bx[i - Len(a)]
    BY <1>2, ConcatProperties
  <1> HIDE DEF l, r
  <1>6. Len(l) = Len(r)
    BY <1>1, <1>2, <1>3, <1>4, <1>5
  <1>7. ASSUME NEW i \in 1 .. Len(l) PROVE l[i] = r[i]
    <2>1. CASE i <= Len(a)
      <3>1. i \in 1 .. Len(a) + Len(b) /\ i \in 1 .. Len(a) + Len(bx) /\ i \in 1 .. Len(ab)
        BY <1>1, <1>2, <1>3, <2>1
      <3>2. QED
        BY <1>1, <1>4, <1>5, <2>1, <3>1
    <2>2. CASE ~(i <= Len(a)) /\ i <= Len(a) + Len(b)
      <3>1. /\ i \in 1 .. Len(a) + Len(b) /\ i \in 1 .. Len(a) + Len(bx) /\ i \in 1 .. Len(ab)
            /\ i - Len(a) \in 1 .. Len(b)
        BY <1>1, <1>2, <1>3, <2>2
      <3>2. QED
        BY <1>1, <1>2, <1>4, <1>5, <2>2, <3>1
    <2>3. CASE i = Len(a) + Len(b) + 1
      <3>1. /\ i = Len(ab) + 1 /\ i \in 1 .. Len(a) + Len(bx) /\ ~(i <= Len(a))
            /\ i - Len(a) = Len(b) + 1
        BY <1>1, <1>2, <1>3, <2>3
      <3>2. QED
        BY <1>2, <1>4, <1>5, <3>1
    <2>4. QED
      BY <1>1, <1>3, <1>4, <2>1, <2>2, <2>3
  <1>8. l = r
    BY <1>4, <1>5, <1>6, <1>7, SeqEqual
  <1>9. QED
    BY <1>8 DEF l, r

(* M has the places of K, and those of L behind the n of the first part.   *)
Beside(M, K, L, n, m) ==
  /\ \A k \in 1 .. n : k \in M <=> k \in K
  /\ \A k \in 1 .. m : n + k \in M <=> k \in L

LEMMA SelectedConcat ==
  ASSUME NEW S, NEW s \in Seq(S), NEW t \in Seq(S), NEW K, NEW L, NEW M,
         Beside(M, K, L, Len(s), Len(t))
  PROVE  Selected(s \o t, M) = Selected(s, K) \o Selected(t, L)
  <1> DEFINE st == s \o t
             f == UpTo(s, K)
             g == UpTo(t, L)
             h == UpTo(st, M)
             N == {n \in Nat : n <= Len(s) => h[n] = f[n]}
             O == {n \in Nat : n <= Len(t) => h[Len(s) + n] = f[Len(s)] \o g[n]}
  <1>1. /\ Len(s) \in Nat /\ Len(t) \in Nat /\ st \in Seq(S) /\ Len(st) = Len(s) + Len(t)
        /\ \A i \in 1 .. Len(s) : st[i] = s[i]
        /\ \A i \in 1 .. Len(t) : st[Len(s) + i] = t[i]
    <2>1. \A i \in 1 .. Len(s) + Len(t) : st[i] = IF i <= Len(s) THEN s[i] ELSE t[i - Len(s)]
      BY ConcatProperties
    <2>2. Len(s) \in Nat /\ Len(t) \in Nat
      OBVIOUS
    <2> HIDE DEF st
    <2>3. ASSUME NEW i \in 1 .. Len(t) PROVE st[Len(s) + i] = t[i]
      <3>1. Len(s) + i \in 1 .. Len(s) + Len(t) /\ ~(Len(s) + i <= Len(s)) /\ Len(s) + i - Len(s) = i
        BY <2>2
      <3>2. QED
        BY <2>1, <3>1
    <2>4. ASSUME NEW i \in 1 .. Len(s) PROVE st[i] = s[i]
      BY <2>1, <2>2
    <2>5. st \in Seq(S) /\ Len(st) = Len(s) + Len(t)
      BY ConcatProperties DEF st
    <2>6. QED
      BY <2>2, <2>3, <2>4, <2>5
  <1>2. /\ f[0] = <<>>
        /\ \A n \in 1 .. Len(s) : f[n] = IF n \in K THEN Append(f[n - 1], s[n]) ELSE f[n - 1]
    BY UpToSteps
  <1>3. /\ g[0] = <<>>
        /\ \A n \in 1 .. Len(t) : g[n] = IF n \in L THEN Append(g[n - 1], t[n]) ELSE g[n - 1]
    BY UpToSteps
  <1>4. /\ h[0] = <<>>
        /\ \A n \in 1 .. Len(st) : h[n] = IF n \in M THEN Append(h[n - 1], st[n]) ELSE h[n - 1]
    <2>1. st \in Seq(S)
      BY <1>1
    <2> HIDE DEF st
    <2>2. QED
      BY <2>1, UpToSteps
  <1>5. f \in [0 .. Len(s) -> Seq(S)] /\ g \in [0 .. Len(t) -> Seq(S)]
    BY UpToInSeq
  <1> HIDE DEF st, f, g, h
  <1>6. 0 \in N
    BY <1>2, <1>4
  <1>7. ASSUME NEW n \in Nat, n \in N PROVE n + 1 \in N
    <2> SUFFICES ASSUME n + 1 <= Len(s) PROVE h[n + 1] = f[n + 1]
      OBVIOUS
    <2>1. n + 1 \in 1 .. Len(s) /\ n + 1 \in 1 .. Len(st) /\ n + 1 - 1 = n /\ n <= Len(s)
      BY <1>1
    <2>2. h[n] = f[n]
      BY <1>7, <2>1
    <2>3. st[n + 1] = s[n + 1] /\ (n + 1 \in M <=> n + 1 \in K)
      BY <1>1, <2>1 DEF Beside
    <2>4. h[n + 1] = IF n + 1 \in M THEN Append(h[n], st[n + 1]) ELSE h[n]
      BY <1>4, <2>1
    <2>5. f[n + 1] = IF n + 1 \in K THEN Append(f[n], s[n + 1]) ELSE f[n]
      BY <1>2, <2>1
    <2>6. QED
      BY <2>2, <2>3, <2>4, <2>5
  <1>8. h[Len(s)] = f[Len(s)]
    <2> HIDE DEF N
    <2>1. Nat \subseteq N
      BY <1>6, <1>7, InductionNat
    <2>2. QED
      BY <1>1, <2>1 DEF N
  <1>9. f[Len(s)] \in Seq(S)
    <2>1. Len(s) \in 0 .. Len(s)
      BY <1>1
    <2>2. QED
      BY <1>5, <2>1
  <1>10. 0 \in O
    <2>1. f[Len(s)] \o <<>> = f[Len(s)] /\ Len(s) + 0 = Len(s)
      BY <1>1, <1>9, ConcatEmptySeq
    <2>2. QED
      BY <1>3, <1>8, <2>1
  <1>11. ASSUME NEW n \in Nat, n + 1 <= Len(t), n \in O
         PROVE  h[Len(s) + (n + 1)] = f[Len(s)] \o g[n + 1]
    <2> DEFINE a == f[Len(s)]
               b == g[n]
               x == t[n + 1]
               p == Len(s) + (n + 1)
    <2>1. /\ n + 1 \in 1 .. Len(t) /\ p \in 1 .. Len(st) /\ n \in 0 .. Len(t)
          /\ p - 1 = Len(s) + n /\ n + 1 - 1 = n /\ n <= Len(t)
      BY <1>1, <1>11
    <2>2. h[p - 1] = a \o b
      BY <1>11, <2>1
    <2>3. st[p] = x /\ (p \in M <=> n + 1 \in L)
      BY <1>1, <2>1 DEF Beside
    <2>4. h[p] = IF p \in M THEN Append(h[p - 1], st[p]) ELSE h[p - 1]
      BY <1>4, <2>1
    <2>5. g[n + 1] = IF n + 1 \in L THEN Append(b, x) ELSE b
      BY <1>3, <2>1
    <2>6. a \in Seq(S) /\ b \in Seq(S) /\ x \in S
      BY <1>5, <1>9, <2>1
    <2> HIDE DEF a, b, x
    <2> DEFINE ab == a \o b
               bx == Append(b, x)
    <2>7. Append(ab, x) = a \o bx
      <3>1. ab = a \o b /\ bx = Append(b, x)
        OBVIOUS
      <3> HIDE DEF ab, bx
      <3>2. QED
        BY <2>6, <3>1, AppendConcat
    <2> HIDE DEF p
    <2>8. h[p] = a \o g[n + 1]
      <3>1. h[p - 1] = ab /\ g[n + 1] = IF n + 1 \in L THEN bx ELSE b
        BY <2>2, <2>5
      <3> HIDE DEF ab, bx
      <3>2. CASE p \in M
        BY <2>3, <2>4, <2>7, <3>1, <3>2
      <3>3. CASE p \notin M
        BY <2>3, <2>4, <3>1, <3>3 DEF ab
      <3>4. QED
        BY <3>2, <3>3
    <2>9. QED
      BY <2>8 DEF a, p
  <1>12. h[Len(st)] = f[Len(s)] \o g[Len(t)]
    <2>1. ASSUME NEW n \in Nat, n \in O PROVE n + 1 \in O
      <3>1. n + 1 <= Len(t) => h[Len(s) + (n + 1)] = f[Len(s)] \o g[n + 1]
        BY <1>11, <2>1
      <3>2. n + 1 \in Nat
        OBVIOUS
      <3>3. QED
        BY <3>1, <3>2
    <2> HIDE DEF O
    <2>2. Nat \subseteq O
      BY <1>10, <2>1, InductionNat
    <2>3. Len(t) \in O
      BY <1>1, <2>2
    <2>4. Len(t) <= Len(t) => h[Len(s) + Len(t)] = f[Len(s)] \o g[Len(t)]
      BY <2>3 DEF O
    <2>5. Len(st) = Len(s) + Len(t) /\ Len(t) <= Len(t)
      BY <1>1
    <2>6. QED
      BY ONLY <2>4, <2>5
  <1>13. QED
    BY <1>12 DEF Selected, st, f, g, h

LEMMA SelectedEmpty ==
  ASSUME NEW S, NEW s \in Seq(S), NEW K
  PROVE  Len(s) = 0 => Selected(s, K) = <<>>
  <1> DEFINE f == UpTo(s, K)
  <1>1. /\ f[0] = <<>>
        /\ \A n \in 1 .. Len(s) : f[n] = IF n \in K THEN Append(f[n - 1], s[n]) ELSE f[n - 1]
    BY UpToSteps
  <1> HIDE DEF f
  <1>2. Len(s) = 0 => f[Len(s)] = <<>>
    BY <1>1
  <1>3. QED
    BY <1>2 DEF Selected, f

LEMMA SelectedSame ==
  ASSUME NEW S, NEW s \in Seq(S), NEW K, NEW M, \A k \in 1 .. Len(s) : k \in M <=> k \in K
  PROVE  Selected(s, M) = Selected(s, K)
  <1> DEFINE f == UpTo(s, K)
             g == UpTo(s, M)
             N == {n \in Nat : n <= Len(s) => g[n] = f[n]}
  <1>1. /\ f[0] = <<>>
        /\ \A n \in 1 .. Len(s) : f[n] = IF n \in K THEN Append(f[n - 1], s[n]) ELSE f[n - 1]
    BY UpToSteps
  <1>2. /\ g[0] = <<>>
        /\ \A n \in 1 .. Len(s) : g[n] = IF n \in M THEN Append(g[n - 1], s[n]) ELSE g[n - 1]
    BY UpToSteps
  <1> HIDE DEF f, g
  <1>3. 0 \in N
    BY <1>1, <1>2
  <1>4. ASSUME NEW n \in Nat, n \in N PROVE n + 1 \in N
    <2> SUFFICES ASSUME n + 1 <= Len(s) PROVE g[n + 1] = f[n + 1]
      OBVIOUS
    <2>1. n + 1 \in 1 .. Len(s) /\ n + 1 - 1 = n /\ n <= Len(s)
      OBVIOUS
    <2>2. g[n] = f[n]
      BY <1>4, <2>1
    <2>3. f[n + 1] = IF n + 1 \in K THEN Append(f[n], s[n + 1]) ELSE f[n]
      BY <1>1, <2>1
    <2>4. g[n + 1] = IF n + 1 \in M THEN Append(g[n], s[n + 1]) ELSE g[n]
      BY <1>2, <2>1
    <2>5. n + 1 \in M <=> n + 1 \in K
      BY <2>1
    <2>6. QED
      BY <2>2, <2>3, <2>4, <2>5
  <1>5. Len(s) \in Nat
    OBVIOUS
  <1> HIDE DEF N
  <1>6. Nat \subseteq N
    BY <1>3, <1>4, InductionNat
  <1>7. Len(s) \in N
    BY <1>5, <1>6
  <1>8. g[Len(s)] = f[Len(s)]
    BY <1>5, <1>7 DEF N
  <1>9. QED
    BY <1>8 DEF Selected, f, g

=============================================================================
