--------------------------- MODULE BignumTheorems ---------------------------
(***************************************************************************)
(* Facts about the operators of Bignum, for every word size.  Pow and the  *)
(* value of a bignum are recursive functions, so the first lemmas show     *)
(* that functions with these recurrences exist; the others are what the    *)
(* proofs about the routines cite: about digits and their sums, about a    *)
(* product taken column by column, and about quotients, remainders and     *)
(* powers of two.                                                          *)
(***************************************************************************)
EXTENDS Bignum, WellFoundedInduction, TLAPS

LEMMA SetInduction ==
  ASSUME NEW T, 0 \in T, \A n \in Nat : n \in T => n + 1 \in T
  PROVE  Nat \subseteq T
<1> DEFINE M == Nat \ T
<1>1. SUFFICES ASSUME M # {} PROVE FALSE
  OBVIOUS
<1>2. PICK n \in M : \A k \in M : ~ (<<k, n>> \in OpToRel(<, Nat))
  <2>1. M \subseteq Nat OBVIOUS
  <2> HIDE DEF M
  <2> QED BY <1>1, <2>1, WFMin, NatLessThanWellFounded, Zenon
<1>3. n \in Nat /\ n # 0 /\ n \notin T
  OBVIOUS
<1>4. n - 1 \in Nat /\ n - 1 \notin T
  BY <1>3
<1>5. <<n - 1, n>> \in OpToRel(<, Nat)
  BY <1>3, <1>4 DEF OpToRel
<1> QED BY <1>2, <1>4, <1>5

IsRecursion(f, S, e, s) ==
  f \in [Nat -> S] /\ f[0] = e /\ \A n \in Nat : f[n + 1] = s[n][f[n]]

LEMMA RecursionExists ==
  \A S : \A e \in S : \A s \in [Nat -> [S -> S]] : \E f : IsRecursion(f, S, e, s)
<1> SUFFICES ASSUME NEW S, NEW e \in S, NEW s \in [Nat -> [S -> S]]
             PROVE  \E f : IsRecursion(f, S, e, s)
  OBVIOUS
<1> DEFINE Rec(f, n) == f[0] = e /\ \A j \in 0..(n - 1) : f[j + 1] = s[j][f[j]]
           T == {n \in Nat : \E f \in [0..n -> S] : Rec(f, n)}
<1>1. 0 \in T
  <2> DEFINE f == [j \in 0..0 |-> e]
  <2>1. f \in [0..0 -> S] /\ Rec(f, 0)
    OBVIOUS
  <2> QED BY <2>1
<1>2. ASSUME NEW n \in Nat, n \in T PROVE n + 1 \in T
  <2>1. PICK f \in [0..n -> S] : Rec(f, n)
    BY <1>2
  <2> DEFINE g == [j \in 0..(n + 1) |-> IF j = n + 1 THEN s[n][f[n]] ELSE f[j]]
  <2>2. g \in [0..(n + 1) -> S]
    OBVIOUS
  <2>3. Rec(g, n + 1)
    <3>1. g[0] = e BY <2>1
    <3>2. ASSUME NEW j \in 0..n PROVE g[j + 1] = s[j][g[j]]
      <4>1. CASE j = n
        <5>1. g[n + 1] = s[n][f[n]] OBVIOUS
        <5>2. g[n] = f[n] OBVIOUS
        <5> QED BY <4>1, <5>1, <5>2
      <4>2. CASE j # n BY <4>2, <2>1
      <4> QED BY <4>1, <4>2
    <3> HIDE DEF g
    <3>3. (n + 1) - 1 = n OBVIOUS
    <3> QED BY <3>1, <3>2, <3>3
  <2> HIDE DEF g
  <2>4. n + 1 \in Nat OBVIOUS
  <2> QED BY <2>2, <2>3, <2>4, Zenon
<1>3. Nat \subseteq T
  <2> HIDE DEF T
  <2> QED BY <1>1, <1>2, SetInduction
<1> DEFINE F(n) == CHOOSE f \in [0..n -> S] : Rec(f, n)
<1>4. \A n \in Nat : F(n) \in [0..n -> S] /\ Rec(F(n), n)
  BY <1>3
<1>5. \A n \in Nat, j \in Nat : j <= n => F(n)[j] = F(j)[j]
  <2> DEFINE U == {j \in Nat : \A n \in Nat : j <= n => F(n)[j] = F(j)[j]}
  <2> HIDE DEF F
  <2>1. 0 \in U
    BY <1>4
  <2>2. ASSUME NEW j \in Nat, j \in U PROVE j + 1 \in U
    <3>1. SUFFICES ASSUME NEW n \in Nat, j + 1 <= n PROVE F(n)[j + 1] = F(j + 1)[j + 1]
      OBVIOUS
    <3>2. F(n)[j] = F(j)[j] /\ F(j + 1)[j] = F(j)[j]
      BY <2>2, <3>1
    <3>3. F(n)[j + 1] = s[j][F(n)[j]]
      BY <1>4, <3>1
    <3>4. F(j + 1)[j + 1] = s[j][F(j + 1)[j]]
      BY <1>4
    <3> QED BY <3>2, <3>3, <3>4
  <2>3. Nat \subseteq U
    <3> HIDE DEF U
    <3> QED BY <2>1, <2>2, SetInduction
  <2> QED BY <2>3
<1> DEFINE G == [n \in Nat |-> F(n)[n]]
<1> HIDE DEF F
<1>6. G \in [Nat -> S]
  BY <1>4
<1>7. G[0] = e
  BY <1>4
<1>8. ASSUME NEW n \in Nat PROVE G[n + 1] = s[n][G[n]]
  <2>1. F(n + 1)[n + 1] = s[n][F(n + 1)[n]]
    BY <1>4
  <2>2. F(n + 1)[n] = F(n)[n]
    BY <1>5
  <2> QED BY <2>1, <2>2
<1> QED BY <1>6, <1>7, <1>8 DEF IsRecursion

LEMMA PowUnfold == Pow = [k \in Nat |-> IF k = 0 THEN 1 ELSE B * Pow[k - 1]]
<1> DEFINE P(f) == f = [k \in Nat |-> IF k = 0 THEN 1 ELSE B * f[k - 1]]
<1>1. \E f : P(f)
  <2> DEFINE s == [k \in Nat |-> [v \in Nat |-> B * v]]
  <2>1. s \in [Nat -> [Nat -> Nat]]
    BY BaseAssumption
  <2>2. 1 \in Nat
    OBVIOUS
  <2>3. PICK f : IsRecursion(f, Nat, 1, s)
    <3> HIDE DEF s
    <3> QED BY <2>1, <2>2, RecursionExists, Zenon
  <2>4. ASSUME NEW k \in Nat, k # 0 PROVE f[k] = B * f[k - 1]
    <3>1. k - 1 \in Nat /\ (k - 1) + 1 = k
      BY <2>4
    <3>2. f[k] = s[k - 1][f[k - 1]] /\ f[k - 1] \in Nat
      BY <2>3, <3>1 DEF IsRecursion
    <3> QED BY <3>1, <3>2
  <2>5. f = [k \in Nat |-> f[k]] /\ f[0] = 1
    BY <2>3 DEF IsRecursion
  <2>6. f = [k \in Nat |-> IF k = 0 THEN 1 ELSE B * f[k - 1]]
    BY <2>4, <2>5
  <2> QED BY <2>6
<1>2. Pow = CHOOSE f : P(f) BY DEF Pow
<1> QED BY <1>1, <1>2

LEMMA PowStep == Pow[0] = 1 /\ \A k \in Nat : Pow[k + 1] = B * Pow[k]
<1>1. Pow[0] = 1 BY PowUnfold
<1>2. ASSUME NEW k \in Nat PROVE Pow[k + 1] = B * Pow[k]
  <2>1. k + 1 \in Nat /\ k + 1 # 0 /\ (k + 1) - 1 = k OBVIOUS
  <2> QED BY PowUnfold, <2>1
<1> QED BY <1>1, <1>2

LEMMA PowType == \A k \in Nat : Pow[k] \in Nat \ {0}
<1> DEFINE T == {k \in Nat : Pow[k] \in Nat \ {0}}
<1>1. 0 \in T BY PowStep
<1>2. ASSUME NEW k \in Nat, k \in T PROVE k + 1 \in T
  BY PowStep, <1>2, BaseAssumption
<1>3. Nat \subseteq T
  <2> HIDE DEF T
  <2> QED BY <1>1, <1>2, SetInduction
<1> QED BY <1>3

LEMMA SumExists ==
  ASSUME NEW h
  PROVE \E f : f = [j \in Nat |-> IF j = 0 THEN 0 ELSE f[j - 1] + h[j - 1]]
<1> DEFINE Rec(f, n) == f = [j \in 0..n |-> IF j = 0 THEN 0 ELSE f[j - 1] + h[j - 1]]
           T == {n \in Nat : \E f : Rec(f, n)}
<1>1. 0 \in T
  <2> DEFINE f == [j \in 0..0 |-> 0]
  <2>1. Rec(f, 0) OBVIOUS
  <2> QED BY <2>1
<1>2. ASSUME NEW n \in Nat, n \in T PROVE n + 1 \in T
  <2>1. PICK f : Rec(f, n)
    BY <1>2
  <2> DEFINE g == [j \in 0..(n + 1) |-> IF j = n + 1 THEN f[n] + h[n] ELSE f[j]]
  <2>2. ASSUME NEW j \in 0..(n + 1)
        PROVE  g[j] = IF j = 0 THEN 0 ELSE g[j - 1] + h[j - 1]
    <3>1. CASE j = n + 1
      BY <3>1
    <3>2. CASE j = 0
      <4>1. f[0] = 0 BY <2>1
      <4> QED BY <3>2, <4>1
    <3>3. CASE j \in 1..n
      <4>1. f[j] = f[j - 1] + h[j - 1] BY <2>1, <3>3
      <4> QED BY <3>3, <4>1
    <3> QED BY <3>1, <3>2, <3>3
  <2>3. Rec(g, n + 1)
    BY <2>2
  <2>4. n + 1 \in Nat OBVIOUS
  <2> HIDE DEF g
  <2> QED BY <2>3, <2>4, Zenon
<1>3. Nat \subseteq T
  <2> HIDE DEF T
  <2> QED BY <1>1, <1>2, SetInduction
<1> DEFINE F(n) == CHOOSE f : Rec(f, n)
<1>4. \A n \in Nat : Rec(F(n), n)
  BY <1>3
<1> HIDE DEF F
<1>5. \A n \in Nat : F(n)[0] = 0 /\ \A j \in 0..(n - 1) : F(n)[j + 1] = F(n)[j] + h[j]
  BY <1>4
<1>6. \A n \in Nat, j \in Nat : j <= n => F(n)[j] = F(j)[j]
  <2> DEFINE U == {j \in Nat : \A n \in Nat : j <= n => F(n)[j] = F(j)[j]}
  <2>1. 0 \in U
    BY <1>5
  <2>2. ASSUME NEW j \in Nat, j \in U PROVE j + 1 \in U
    <3>1. SUFFICES ASSUME NEW n \in Nat, j + 1 <= n
                   PROVE  F(n)[j + 1] = F(j + 1)[j + 1]
      OBVIOUS
    <3>2. F(n)[j] = F(j)[j] /\ F(j + 1)[j] = F(j)[j]
      BY <2>2, <3>1
    <3>3. F(n)[j + 1] = F(n)[j] + h[j]
      BY <1>5, <3>1
    <3>4. F(j + 1)[j + 1] = F(j + 1)[j] + h[j]
      BY <1>5
    <3> QED BY <3>2, <3>3, <3>4
  <2>3. Nat \subseteq U
    <3> HIDE DEF U
    <3> QED BY <2>1, <2>2, SetInduction
  <2> QED BY <2>3
<1> DEFINE G == [n \in Nat |-> F(n)[n]]
<1>7. ASSUME NEW n \in Nat PROVE G[n] = IF n = 0 THEN 0 ELSE G[n - 1] + h[n - 1]
  <2>1. CASE n = 0
    BY <2>1, <1>5
  <2>2. CASE n # 0
    <3>1. n - 1 \in Nat /\ n - 1 \in 0..(n - 1) /\ n - 1 <= n /\ (n - 1) + 1 = n
      BY <2>2
    <3>2. F(n)[n] = F(n)[n - 1] + h[n - 1]
      BY <1>5, <3>1
    <3>3. F(n)[n - 1] = F(n - 1)[n - 1]
      BY <1>6, <3>1
    <3> QED BY <2>2, <3>1, <3>2, <3>3
  <2> QED BY <2>1, <2>2
<1>8. G = [j \in Nat |-> IF j = 0 THEN 0 ELSE G[j - 1] + h[j - 1]]
  BY <1>7
<1> QED BY <1>8, Zenon

LEMMA ValueUnfold ==
  ASSUME NEW mem, NEW a
  PROVE  /\ BignumFromMemory(mem, a, 0) = 0
         /\ \A k \in Nat : BignumFromMemory(mem, a, k + 1)
                           = BignumFromMemory(mem, a, k) + Pow[k] * mem[a + k]
<1> DEFINE h == [j \in Nat |-> Pow[j] * mem[a + j]]
           V(f) == f = [j \in Nat |-> IF j = 0 THEN 0 ELSE f[j - 1] + Pow[j - 1] * mem[a + j - 1]]
           val == CHOOSE f : V(f)
<1>1. \E f : V(f)
  <2>1. PICK f : f = [j \in Nat |-> IF j = 0 THEN 0 ELSE f[j - 1] + h[j - 1]]
    <3> HIDE DEF h
    <3> QED BY SumExists
  <2>2. ASSUME NEW j \in Nat, j # 0 PROVE h[j - 1] = Pow[j - 1] * mem[a + j - 1]
    BY <2>2
  <2>3. V(f)
    BY <2>1, <2>2
  <2> QED BY <2>3
<1>2. V(val)
  BY <1>1
<1>3. \A k \in Nat : BignumFromMemory(mem, a, k) = val[k]
  BY DEF BignumFromMemory
<1> HIDE DEF val
<1>4. val[0] = 0
  BY <1>2
<1>5. ASSUME NEW k \in Nat PROVE val[k + 1] = val[k] + Pow[k] * mem[a + k]
  <2>1. k + 1 \in Nat /\ k + 1 # 0 /\ (k + 1) - 1 = k OBVIOUS
  <2> QED BY <1>2, <2>1
<1> QED BY <1>3, <1>4, <1>5

LEMMA WordDivMod ==
  ASSUME NEW v \in Int
  PROVE  /\ v \div B \in Int /\ v % B \in Word
         /\ v = B * (v \div B) + (v % B)
  BY BaseAssumption DEF Word

LEMMA DivModUnique ==
  ASSUME NEW N \in Nat \ {0}, NEW q \in Int, NEW r \in 0..(N - 1)
  PROVE  (N * q + r) % N = r /\ (N * q + r) \div N = q
OBVIOUS

LEMMA ValueStep ==
  \A mem, a : \A k \in Nat : BignumFromMemory(mem, a, k + 1)
                             = BignumFromMemory(mem, a, k) + Pow[k] * mem[a + k]
<1> TAKE mem, a
<1> QED BY ValueUnfold

LEMMA ValueType ==
  ASSUME NEW mem \in Memory, NEW a \in Int, NEW k \in Nat, Block(a, k) \subseteq Addr
  PROVE  BignumFromMemory(mem, a, k) \in 0..(Pow[k] - 1)
<1> DEFINE T == {j \in Nat : j <= k => BignumFromMemory(mem, a, j) \in 0..(Pow[j] - 1)}
<1>1. 0 \in T
  BY ValueUnfold, PowStep
<1>2. ASSUME NEW j \in Nat, j \in T PROVE j + 1 \in T
  <2>1. SUFFICES ASSUME j + 1 <= k
                 PROVE  BignumFromMemory(mem, a, j + 1) \in 0..(Pow[j + 1] - 1)
    OBVIOUS
  <2>2. a + j \in Addr
    BY <2>1 DEF Block
  <2> DEFINE v == BignumFromMemory(mem, a, j)
             d == mem[a + j]
             P == Pow[j]
  <2>3. v \in 0..(P - 1) /\ d \in 0..(B - 1) /\ P \in Nat
    BY <1>2, <2>1, <2>2, PowType DEF Memory, Word
  <2>4. BignumFromMemory(mem, a, j + 1) = v + P * d /\ Pow[j + 1] = B * P
    <3>1. \A i \in Nat : BignumFromMemory(mem, a, i + 1)
                         = BignumFromMemory(mem, a, i) + Pow[i] * mem[a + i]
      BY ValueStep
    <3>2. BignumFromMemory(mem, a, j + 1) = v + P * d
      BY <3>1
    <3>3. Pow[j + 1] = B * P
      BY PowStep
    <3> QED BY <3>2, <3>3
  <2>5. v + P * d \in 0..(B * P - 1)
    <3> HIDE DEF v, d, P
    <3>1. P * d <= P * (B - 1) /\ P * d \in Nat
      BY <2>3, BaseAssumption
    <3>2. P * (B - 1) = B * P - P
      BY <2>3, BaseAssumption
    <3> QED BY <2>3, <3>1, <3>2, BaseAssumption
  <2> QED BY <2>4, <2>5
<1>3. Nat \subseteq T
  <2> HIDE DEF T
  <2> QED BY <1>1, <1>2, SetInduction
<1> QED BY <1>3

LEMMA ValueCongruence ==
  ASSUME NEW mem1, NEW mem2, NEW a1, NEW a2, NEW k \in Nat,
         \A j \in 0..(k - 1) : mem1[a1 + j] = mem2[a2 + j]
  PROVE  BignumFromMemory(mem1, a1, k) = BignumFromMemory(mem2, a2, k)
<1> DEFINE T == {j \in Nat : j <= k =>
                   BignumFromMemory(mem1, a1, j) = BignumFromMemory(mem2, a2, j)}
<1>1. 0 \in T
  BY ValueUnfold
<1>2. ASSUME NEW j \in Nat, j \in T PROVE j + 1 \in T
  <2>1. SUFFICES ASSUME j + 1 <= k
                 PROVE  BignumFromMemory(mem1, a1, j + 1) = BignumFromMemory(mem2, a2, j + 1)
    OBVIOUS
  <2>2. BignumFromMemory(mem1, a1, j) = BignumFromMemory(mem2, a2, j)
    BY <1>2, <2>1
  <2>3. mem1[a1 + j] = mem2[a2 + j]
    BY <2>1
  <2>4. /\ BignumFromMemory(mem1, a1, j + 1) = BignumFromMemory(mem1, a1, j) + Pow[j] * mem1[a1 + j]
        /\ BignumFromMemory(mem2, a2, j + 1) = BignumFromMemory(mem2, a2, j) + Pow[j] * mem2[a2 + j]
    BY ValueStep
  <2> QED BY <2>2, <2>3, <2>4
<1>3. Nat \subseteq T
  <2> HIDE DEF T
  <2> QED BY <1>1, <1>2, SetInduction
<1> QED BY <1>3

LEMMA ValuePrefix ==
  ASSUME NEW mem \in Memory, NEW a \in Int, NEW k \in Nat, NEW l \in Nat, l <= k,
         Block(a, k) \subseteq Addr
  PROVE  \E q \in Nat : BignumFromMemory(mem, a, k)
                        = Pow[l] * q + BignumFromMemory(mem, a, l)
<1> DEFINE V(j) == BignumFromMemory(mem, a, j)
           T == {j \in Nat : j + l <= k =>
                   \E q, s \in Nat : V(j + l) = Pow[l] * q + V(l)
                                     /\ Pow[j + l] = Pow[l] * s}
<1>1. 0 \in T
  <2>1. V(0 + l) = Pow[l] * 0 + V(l) /\ Pow[0 + l] = Pow[l] * 1
    BY PowType, ValueType DEF Block
  <2> QED BY <2>1
<1>2. ASSUME NEW j \in Nat, j \in T PROVE j + 1 \in T
  <2>1. SUFFICES ASSUME (j + 1) + l <= k
                 PROVE  \E q, s \in Nat : V((j + 1) + l) = Pow[l] * q + V(l)
                                          /\ Pow[(j + 1) + l] = Pow[l] * s
    OBVIOUS
  <2>2. PICK q, s \in Nat : V(j + l) = Pow[l] * q + V(l) /\ Pow[j + l] = Pow[l] * s
    BY <1>2, <2>1
  <2> DEFINE d == mem[a + (j + l)]
  <2>3. d \in Nat
    BY <2>1 DEF Block, Memory, Word
  <2>4. (j + 1) + l = (j + l) + 1 /\ j + l \in Nat
    OBVIOUS
  <2>5. V((j + 1) + l) = V(j + l) + Pow[j + l] * d
    <3>1. \A i \in Nat : BignumFromMemory(mem, a, i + 1)
                         = BignumFromMemory(mem, a, i) + Pow[i] * mem[a + i]
      BY ValueStep
    <3>2. BignumFromMemory(mem, a, (j + l) + 1)
          = BignumFromMemory(mem, a, j + l) + Pow[j + l] * mem[a + (j + l)]
      BY <2>4, <3>1
    <3> QED BY <2>4, <3>2
  <2>6. Pow[(j + 1) + l] = B * Pow[j + l]
    BY <2>4, PowStep
  <2>7. V(l) \in Nat /\ Pow[l] \in Nat
    BY ValueType, PowType DEF Block
  <2> HIDE DEF V, d
  <2>8. V((j + 1) + l) = Pow[l] * (q + s * d) + V(l)
    BY <2>2, <2>3, <2>5, <2>7
  <2>9. Pow[(j + 1) + l] = Pow[l] * (B * s)
    BY <2>2, <2>6, <2>7, BaseAssumption
  <2>10. q + s * d \in Nat /\ B * s \in Nat
    BY <2>3, BaseAssumption
  <2> QED BY <2>8, <2>9, <2>10
<1>3. Nat \subseteq T
  <2> HIDE DEF T
  <2> QED BY <1>1, <1>2, SetInduction
<1>4. k - l \in T /\ (k - l) + l = k
  BY <1>3
<1> QED BY <1>4

LEMMA PowMonotonic ==
  ASSUME NEW k \in Nat, NEW l \in Nat, k <= l
  PROVE  Pow[k] <= Pow[l]
<1> DEFINE T == {j \in Nat : Pow[k] <= Pow[k + j]}
<1>1. 0 \in T
  BY PowType
<1>2. ASSUME NEW j \in Nat, j \in T PROVE j + 1 \in T
  <2>1. k + (j + 1) = (k + j) + 1 /\ k + j \in Nat
    OBVIOUS
  <2>2. Pow[k + (j + 1)] = B * Pow[k + j]
    BY <2>1, PowStep
  <2>3. Pow[k + j] \in Nat /\ Pow[k] \in Nat /\ Pow[k] <= Pow[k + j]
    BY <1>2, <2>1, PowType
  <2>4. Pow[k + j] <= B * Pow[k + j] /\ B * Pow[k + j] \in Nat
    BY <2>3, BaseAssumption
  <2> QED BY <2>2, <2>3, <2>4
<1>3. Nat \subseteq T
  <2> HIDE DEF T
  <2> QED BY <1>1, <1>2, SetInduction
<1>4. l - k \in T /\ k + (l - k) = l
  BY <1>3
<1> QED BY <1>4

LEMMA LowDigitsPrefix ==
  ASSUME NEW mem \in Memory, NEW a \in Int, NEW k \in Nat, NEW l \in Nat,
         Block(a, k) \subseteq Addr
  PROVE  LowDigits(BignumFromMemory(mem, a, k), l)
         = BignumFromMemory(mem, a, Lesser(k, l))
<1> DEFINE V(j) == BignumFromMemory(mem, a, j)
<1>1. CASE l <= k
  <2>1. PICK q \in Nat : V(k) = Pow[l] * q + V(l)
    BY <1>1, ValuePrefix
  <2>2. V(l) \in 0..(Pow[l] - 1)
    BY <1>1, ValueType DEF Block
  <2> HIDE DEF V
  <2>3. V(k) % Pow[l] = V(l)
    BY <2>1, <2>2, PowType, DivModUnique
  <2>4. Lesser(k, l) = l
    BY <1>1 DEF Lesser
  <2> QED BY <2>3, <2>4 DEF LowDigits, V
<1>2. CASE k < l
  <2>1. V(k) \in 0..(Pow[k] - 1)
    BY ValueType
  <2>2. Pow[k] <= Pow[l]
    BY <1>2, PowMonotonic
  <2>3. V(k) % Pow[l] = V(k)
    BY <2>1, <2>2, PowType, DivModUnique
  <2> QED BY <1>2, <2>3 DEF LowDigits, Lesser
<1> QED BY <1>1, <1>2

LEMMA SigmaUnfold ==
  ASSUME NEW h
  PROVE  Sigma(h, 0) = 0 /\ \A t \in Nat : Sigma(h, t + 1) = Sigma(h, t) + h[t]
<1> DEFINE S(f) == f = [j \in Nat |-> IF j = 0 THEN 0 ELSE f[j - 1] + h[j - 1]]
           sum == CHOOSE f : S(f)
<1>1. S(sum)
  BY SumExists
<1>2. \A t \in Nat : Sigma(h, t) = sum[t]
  BY DEF Sigma
<1> HIDE DEF sum
<1>3. sum[0] = 0
  BY <1>1
<1>4. ASSUME NEW t \in Nat PROVE sum[t + 1] = sum[t] + h[t]
  <2>1. t + 1 \in Nat /\ t + 1 # 0 /\ (t + 1) - 1 = t OBVIOUS
  <2> QED BY <1>1, <2>1
<1> QED BY <1>2, <1>3, <1>4

LEMMA PowSum ==
  ASSUME NEW k \in Nat, NEW l \in Nat
  PROVE  Pow[k] * Pow[l] = Pow[k + l]
<1> DEFINE T == {j \in Nat : Pow[k] * Pow[j] = Pow[k + j]}
<1>1. 0 \in T
  BY PowStep, PowType
<1>2. ASSUME NEW j \in Nat, j \in T PROVE j + 1 \in T
  <2>1. Pow[k] * Pow[j] = Pow[k + j]
    BY <1>2
  <2>2. Pow[j + 1] = B * Pow[j] /\ Pow[(k + j) + 1] = B * Pow[k + j]
    BY PowStep
  <2>3. Pow[k] \in Nat /\ Pow[j] \in Nat
    BY PowType
  <2>4. Pow[k] * (B * Pow[j]) = B * (Pow[k] * Pow[j])
    BY <2>3, BaseAssumption
  <2>5. (k + j) + 1 = k + (j + 1)
    OBVIOUS
  <2> QED BY <2>1, <2>2, <2>4, <2>5
<1>3. Nat \subseteq T
  <2> HIDE DEF T
  <2> QED BY <1>1, <1>2, SetInduction
<1> QED BY <1>3

\* Writing the word after the first i words of a bignum appends a digit.
LEMMA AppendWord ==
  ASSUME NEW mem \in Memory, NEW z \in Int, NEW i \in Nat, NEW w \in Word,
         z + i \in Addr
  PROVE  /\ [mem EXCEPT ![z + i] = w] \in Memory
         /\ BignumFromMemory([mem EXCEPT ![z + i] = w], z, i + 1)
            = BignumFromMemory(mem, z, i) + Pow[i] * w
<1> DEFINE new == [mem EXCEPT ![z + i] = w]
<1>1. new \in Memory /\ new[z + i] = w
  BY DEF Memory
<1>2. BignumFromMemory(new, z, i) = BignumFromMemory(mem, z, i)
  <2>1. \A j \in 0..(i - 1) : z + j # z + i
    OBVIOUS
  <2>2. \A j \in 0..(i - 1) : new[z + j] = mem[z + j]
    BY <2>1 DEF Memory
  <2> HIDE DEF new
  <2> QED BY <2>2, ValueCongruence
<1>3. BignumFromMemory(new, z, i + 1) = BignumFromMemory(new, z, i) + Pow[i] * new[z + i]
  BY ValueUnfold
<1> QED BY <1>1, <1>2, <1>3

\* A write inside a longer prefix keeps the frame of that prefix.
LEMMA FrameGrows ==
  ASSUME NEW old, NEW mem \in Memory, NEW z \in Int, NEW i \in Nat, NEW w,
         MayChange(old, mem, Block(z, i))
  PROVE  MayChange(old, [mem EXCEPT ![z + i] = w], Block(z, i + 1))
BY DEF MayChange, Block, Memory

\* A number of any size at digit i, as the digit it leaves and its carry.
LEMMA DigitSplit ==
  ASSUME NEW v \in Int, NEW i \in Nat
  PROVE  Pow[i] * (v % B) + (v \div B) * Pow[i + 1] = Pow[i] * v
<1> DEFINE q == v \div B
           r == v % B
           P == Pow[i]
<1>1. q \in Int /\ r \in Nat /\ v = B * q + r /\ B \in Nat
  BY WordDivMod, BaseAssumption DEF Word
<1>2. P \in Nat /\ Pow[i + 1] = B * P
  BY PowStep, PowType
<1> HIDE DEF q, r, P
<1>3. P * r + q * (B * P) = P * (B * q + r)
  BY <1>1, <1>2
<1> QED BY <1>1, <1>2, <1>3 DEF q, r, P

LEMMA CarryBit ==
  ASSUME NEW a \in Word, NEW d \in Word, NEW c \in {0, 1}
  PROVE  a + d + c \in Nat /\ (a + d + c) \div B \in {0, 1} /\ (a + d + c) % B \in Word
<1> DEFINE v == a + d + c
<1>1. v \in Nat /\ v <= 2 * B - 1
  BY BaseAssumption DEF Word
<1> HIDE DEF v
<1>2. v \div B \in Int /\ v % B \in Word /\ v = B * (v \div B) + (v % B)
  BY <1>1, WordDivMod
<1>3. v \div B < 2 /\ v \div B >= 0
  BY <1>1, <1>2, BaseAssumption DEF Word
<1> QED BY <1>1, <1>2, <1>3 DEF v

LEMMA BorrowBit ==
  ASSUME NEW a \in Word, NEW d \in Word, NEW c \in {0, 1}
  PROVE  /\ a - d - c \in Int /\ (a - d - c) % B \in Word
         /\ a >= d + c => (a - d - c) \div B = 0
         /\ a < d + c => (a - d - c) \div B = -1
<1> DEFINE v == a - d - c
<1>1. v \in Int /\ v < B /\ v >= -B /\ (a >= d + c <=> v >= 0)
  BY BaseAssumption DEF Word
<1> HIDE DEF v
<1>2. v \div B \in Int /\ v % B \in Word /\ v = B * (v \div B) + (v % B)
  BY <1>1, WordDivMod
<1>3. v >= 0 => v \div B = 0
  BY <1>1, BaseAssumption
<1>4. v < 0 => v \div B = -1
  BY <1>1, BaseAssumption
<1>5. (a >= d + c => v \div B = 0) /\ (a < d + c => v \div B = -1)
  BY <1>1, <1>3, <1>4 DEF Word
<1> QED BY <1>1, <1>2, <1>5 DEF v

\* What one step of a carry chain does: digit i of the bignum at z receives v
\* modulo B, the rest of v is carried on, and value plus carry grow by v at the
\* weight of digit i; nothing beyond the first i + 1 words has changed.
ChainStep(old, mem, new, z, i, v) ==
  /\ new \in Memory
  /\ MayChange(old, new, Block(z, i + 1))
  /\ BignumFromMemory(mem, z, i) \in Nat
  /\ BignumFromMemory(new, z, i + 1) \in Nat
  /\ Pow[i] \in Nat
  /\ Pow[i] * v \in Int
  /\ (v \div B) * Pow[i + 1] \in Int
  /\ BignumFromMemory(new, z, i + 1) + (v \div B) * Pow[i + 1]
     = BignumFromMemory(mem, z, i) + Pow[i] * v

LEMMA ChainStepHolds ==
  ASSUME NEW old, NEW mem \in Memory, NEW z \in Int, NEW i \in Nat, NEW v \in Int,
         NEW new, new = [mem EXCEPT ![z + i] = v % B],
         Block(z, i + 1) \subseteq Addr, MayChange(old, mem, Block(z, i))
  PROVE  ChainStep(old, mem, new, z, i, v)
<1> DEFINE P == Pow[i]
           R == Pow[i + 1]
           Z == BignumFromMemory(mem, z, i)
           Y == BignumFromMemory(new, z, i + 1)
           q == v \div B
           r == v % B
<1>1. z + i \in Addr /\ Block(z, i) \subseteq Addr
  BY DEF Block
<1>2. q \in Int /\ r \in Word /\ r \in Nat
  BY WordDivMod DEF Word
<1>3. new \in Memory /\ Y = Z + P * r
  BY <1>1, <1>2, AppendWord
<1>4. MayChange(old, new, Block(z, i + 1))
  BY FrameGrows
<1>5. P \in Nat /\ R \in Nat
  BY PowType
<1>6. Z \in Nat
  BY <1>1, ValueType, PowType
<1>7. P * r + q * R = P * v
  BY DigitSplit
<1> HIDE DEF P, R, Z, Y, q, r
<1>8. P * r \in Nat /\ q * R \in Int /\ P * v \in Int
  BY <1>2, <1>5
<1>9. Y \in Nat /\ Y + q * R = Z + P * v
  BY <1>3, <1>6, <1>7, <1>8
<1> QED BY <1>3, <1>4, <1>5, <1>6, <1>8, <1>9 DEF P, R, Z, Y, q, r, ChainStep

\* The value of the first k words of a source of m words, as k grows.
LEMMA PrefixStep ==
  ASSUME NEW mem \in Memory, NEW a \in Int, NEW m \in Nat, NEW k \in Nat,
         InMemory(a, m)
  PROVE  /\ Prefix(mem, a, m, k + 1) = Prefix(mem, a, m, k) + Pow[k] * Digit(mem, a, m, k)
         /\ Prefix(mem, a, m, k) \in Nat
         /\ Digit(mem, a, m, k) \in Word
<1>1. \A j \in Nat : Block(a, Lesser(j, m)) \subseteq Addr /\ Lesser(j, m) \in Nat
  BY DEF Lesser, Block, InMemory
<1>2. Prefix(mem, a, m, k) \in Nat
  BY <1>1, ValueType, PowType DEF Prefix
<1>3. CASE k < m
  <2>1. Lesser(k + 1, m) = k + 1 /\ Lesser(k, m) = k /\ a + k \in Addr
    BY <1>3 DEF Lesser, Block, InMemory
  <2>2. BignumFromMemory(mem, a, k + 1) = BignumFromMemory(mem, a, k) + Pow[k] * mem[a + k]
    BY ValueUnfold
  <2>3. mem[a + k] \in Word /\ Digit(mem, a, m, k) = mem[a + k]
    BY <1>3, <2>1 DEF Memory, Digit
  <2> QED BY <1>2, <2>1, <2>2, <2>3 DEF Prefix
<1>4. CASE ~(k < m)
  <2>1. Lesser(k + 1, m) = m /\ Lesser(k, m) = m
    BY <1>4 DEF Lesser
  <2>2. Digit(mem, a, m, k) = 0 /\ 0 \in Word /\ Pow[k] * 0 = 0
    BY <1>4, BaseAssumption, PowType DEF Digit, Word
  <2> QED BY <1>2, <2>1, <2>2 DEF Prefix
<1> QED BY <1>3, <1>4

\* A digit of a source that is disjoint from the destination, or starts where it
\* does, is intact while no word of the destination at or after it is written.
LEMMA DigitIntact ==
  ASSUME NEW old \in Memory, NEW mem, NEW z \in Int, NEW p \in Nat, NEW i \in Nat,
         i <= p, MayChange(old, mem, Block(z, i)),
         NEW x \in Int, NEW m \in Nat, InMemory(x, m),
         SameOrDisjoint(x, m, z, p),
         NEW j \in Nat, i <= j
  PROVE  Digit(mem, x, m, j) = Digit(old, x, m, j)
<1> SUFFICES ASSUME j < m PROVE mem[x + j] = old[x + j]
  BY DEF Digit
<1>1. x + j \in Addr /\ x + j \in Block(x, m)
  BY DEF Block, InMemory
<1>2. x + j \notin Block(z, i)
  <2>1. CASE x = z
    BY <2>1 DEF Block
  <2>2. CASE Nonoverlapping(x, m, z, p)
    BY <1>1, <2>2 DEF Nonoverlapping, Block
  <2> QED BY <2>1, <2>2 DEF SameOrDisjoint
<1> QED BY <1>1, <1>2 DEF MayChange, Memory

\* Any number of leading digits of a bignum is the bignum modulo a power of B.
LEMMA PrefixSplit ==
  ASSUME NEW mem \in Memory, NEW a \in Int, NEW m \in Nat, NEW k \in Nat, InMemory(a, m)
  PROVE  /\ Prefix(mem, a, m, k) \in 0..(Pow[k] - 1)
         /\ BignumFromMemory(mem, a, m) \in Nat
         /\ LowDigits(BignumFromMemory(mem, a, m), k) = Prefix(mem, a, m, k)
         /\ \E q \in Nat : BignumFromMemory(mem, a, m) = Pow[k] * q + Prefix(mem, a, m, k)
<1>1. Block(a, m) \subseteq Addr
  BY DEF InMemory
<1>2. BignumFromMemory(mem, a, m) \in Nat
  BY <1>1, ValueType, PowType
<1>3. CASE k <= m
  <2>1. Lesser(k, m) = k /\ Lesser(m, k) = k /\ Block(a, k) \subseteq Addr
    BY <1>1, <1>3 DEF Lesser, Block
  <2> QED BY <1>1, <1>2, <1>3, <2>1, ValueType, ValuePrefix, LowDigitsPrefix DEF Prefix
<1>4. CASE m < k
  <2>1. Lesser(k, m) = m /\ Lesser(m, k) = m
    BY <1>4 DEF Lesser
  <2>2. BignumFromMemory(mem, a, m) \in 0..(Pow[m] - 1) /\ Pow[m] <= Pow[k]
        /\ Pow[m] \in Nat /\ Pow[k] \in Nat
    BY <1>1, <1>4, ValueType, PowMonotonic, PowType
  <2>3. BignumFromMemory(mem, a, m) = Pow[k] * 0 + Prefix(mem, a, m, k)
    BY <1>2, <2>1, <2>2 DEF Prefix
  <2>4. LowDigits(BignumFromMemory(mem, a, m), k) = Prefix(mem, a, m, k)
    BY <1>1, <2>1, LowDigitsPrefix DEF Prefix
  <2> QED BY <1>2, <2>1, <2>2, <2>3, <2>4 DEF Prefix
<1> QED BY <1>3, <1>4

\* Quotient and remainder
LEMMA QuotientOf ==
  ASSUME NEW y \in Nat, NEW span \in Nat \ {0}
  PROVE  /\ y \div span \in Nat /\ y % span \in 0..(span - 1) /\ y % span \in Nat
         /\ y = span * (y \div span) + (y % span)
OBVIOUS

\* A loop of k steps over the states S is a function.
Recursive(f, k, S, e, s) ==
    f = [j \in 0..k |-> IF j = 0 THEN e ELSE s[j - 1][f[j - 1]]] /\ f \in [0..k -> S]

LEMMA LoopExists ==
  \A k \in Nat : \A S : \A e \in S : \A s \in [0..(k - 1) -> [S -> S]] : \E f : Recursive(f, k, S, e, s)
<1> SUFFICES ASSUME NEW k \in Nat, NEW S, NEW e \in S, NEW s \in [0..(k - 1) -> [S -> S]]
             PROVE  \E f : Recursive(f, k, S, e, s)
  OBVIOUS
<1> DEFINE id == [v \in S |-> v]
           t == [j \in Nat |-> IF j \in 0..(k - 1) THEN s[j] ELSE id]
<1>1. t \in [Nat -> [S -> S]]
  OBVIOUS
<1>2. PICK g : IsRecursion(g, S, e, t)
  <2> HIDE DEF t
  <2> QED BY <1>1, RecursionExists, Zenon
<1> DEFINE f == [j \in 0..k |-> g[j]]
<1>3. g \in [Nat -> S] /\ g[0] = e /\ \A j \in Nat : g[j + 1] = t[j][g[j]]
  BY <1>2 DEF IsRecursion
<1>4. f \in [0..k -> S]
  BY <1>3
<1>5. ASSUME NEW j \in 0..k PROVE f[j] = IF j = 0 THEN e ELSE s[j - 1][f[j - 1]]
  <2>1. CASE j = 0
    BY <2>1, <1>3
  <2>2. CASE j # 0
    <3>1. j - 1 \in Nat /\ (j - 1) + 1 = j /\ j - 1 \in 0..k /\ j - 1 \in 0..(k - 1)
      BY <2>2
    <3>2. g[j] = t[j - 1][g[j - 1]]
      BY <1>3, <3>1
    <3>3. t[j - 1] = s[j - 1]
      BY <3>1
    <3> QED BY <2>2, <3>1, <3>2, <3>3
  <2> QED BY <2>1, <2>2
<1>6. f = [j \in 0..k |-> IF j = 0 THEN e ELSE s[j - 1][f[j - 1]]]
  BY <1>5
<1> QED BY <1>4, <1>6 DEF Recursive

\* What holds before a loop, and after each step if it held before it
LEMMA StepInduction ==
  ASSUME NEW k \in Nat, NEW T, 0 \in T, \A j \in 0..(k - 1) : j \in T => j + 1 \in T
  PROVE  0..k \subseteq T
<1> DEFINE U == { j \in Nat : j <= k => j \in T }
<1>1. 0 \in U
  OBVIOUS
<1>2. ASSUME NEW j \in Nat, j \in U PROVE j + 1 \in U
  <2>1. CASE j + 1 <= k
    BY <1>2, <2>1
  <2>2. CASE j + 1 > k
    BY <2>2
  <2> QED BY <2>1, <2>2
<1>3. Nat \subseteq U
  <2> HIDE DEF U
  <2> QED BY <1>1, <1>2, SetInduction
<1> QED BY <1>3

(***************************************************************************)
(* Products by columns                                                     *)
(***************************************************************************)
\* One more term of a sum of natural numbers
LEMMA SigmaSteps ==
  ASSUME NEW f \in [Nat -> Nat]
  PROVE  Sigma(f, 0) = 0 /\ \A n \in Nat : Sigma(f, n + 1) = Sigma(f, n) + f[n] /\ Sigma(f, n) \in Nat
<1> DEFINE T == { j \in Nat : Sigma(f, j) \in Nat }
<1>1. 0 \in T
  BY SigmaUnfold
<1>2. ASSUME NEW j \in Nat, j \in T PROVE j + 1 \in T
  <2>1. Sigma(f, j + 1) = Sigma(f, j) + f[j] /\ f[j] \in Nat
    BY SigmaUnfold
  <2> QED BY <1>2, <2>1
<1>3. Nat \subseteq T
  <2> HIDE DEF T
  <2> QED BY <1>1, <1>2, SetInduction
<1> QED BY <1>3, SigmaUnfold

\* Further terms, none of them above c: the sum grows by no more than c each.
LEMMA SigmaGrows ==
  ASSUME NEW f \in [Nat -> Nat], NEW a \in Nat, NEW b \in Nat, a <= b,
         NEW c \in Nat, \A q \in a..(b - 1) : f[q] <= c
  PROVE  Sigma(f, a) <= Sigma(f, b) /\ Sigma(f, b) <= Sigma(f, a) + (b - a) * c
<1> DEFINE T == { j \in 0..(b - a) : Sigma(f, a) <= Sigma(f, a + j) /\ Sigma(f, a + j) <= Sigma(f, a) + j * c }
<1>1. b - a \in Nat /\ a + (b - a) = b
  OBVIOUS
<1>2. 0 \in T
  <2>1. Sigma(f, a) \in Nat /\ a + 0 = a /\ 0 * c = 0 /\ 0 \in 0..(b - a)
    BY <1>1, SigmaSteps
  <2> QED BY <2>1
<1>3. ASSUME NEW j \in 0..(b - a - 1), j \in T PROVE j + 1 \in T
  <2>1. a + j \in Nat /\ a + (j + 1) = (a + j) + 1 /\ j + 1 \in 0..(b - a) /\ a + j \in a..(b - 1)
    OBVIOUS
  <2>2. Sigma(f, (a + j) + 1) = Sigma(f, a + j) + f[a + j] /\ Sigma(f, a + j) \in Nat /\ Sigma(f, a) \in Nat
    BY <2>1, SigmaSteps
  <2>3. f[a + j] <= c /\ f[a + j] \in Nat
    BY <2>1
  <2>4. (j + 1) * c = j * c + c /\ j * c \in Nat
    OBVIOUS
  <2>5. Sigma(f, a) <= Sigma(f, a + j) /\ Sigma(f, a + j) <= Sigma(f, a) + j * c
    BY <1>3
  <2> QED BY <2>1, <2>2, <2>3, <2>4, <2>5
<1>4. 0..(b - a) \subseteq T
  <2> HIDE DEF T
  <2> QED BY <1>1, <1>2, <1>3, StepInduction
<1>5. b - a \in T
  BY <1>1, <1>4
<1> QED BY <1>1, <1>5

LEMMA SigmaMonotone ==
  ASSUME NEW f \in [Nat -> Nat], NEW a \in Nat, NEW b \in Nat, a <= b
  PROVE  Sigma(f, a) <= Sigma(f, b)
<1> DEFINE T == { j \in 0..(b - a) : Sigma(f, a) <= Sigma(f, a + j) }
<1>1. b - a \in Nat /\ a + (b - a) = b
  OBVIOUS
<1>2. 0 \in T
  <2>1. Sigma(f, a) \in Nat /\ a + 0 = a /\ 0 \in 0..(b - a)
    BY <1>1, SigmaSteps
  <2> QED BY <2>1
<1>3. ASSUME NEW j \in 0..(b - a - 1), j \in T PROVE j + 1 \in T
  <2>1. a + j \in Nat /\ a + (j + 1) = (a + j) + 1 /\ j + 1 \in 0..(b - a)
    OBVIOUS
  <2>2. Sigma(f, (a + j) + 1) = Sigma(f, a + j) + f[a + j] /\ Sigma(f, a + j) \in Nat /\ Sigma(f, a) \in Nat
    BY <2>1, SigmaSteps
  <2>3. f[a + j] \in Nat /\ Sigma(f, a) <= Sigma(f, a + j)
    BY <1>3, <2>1
  <2> QED BY <2>1, <2>2, <2>3
<1>4. b - a \in T
  <2>1. 0..(b - a) \subseteq T
    <3> HIDE DEF T
    <3> QED BY <1>1, <1>2, <1>3, StepInduction
  <2> QED BY <1>1, <2>1
<1> QED BY <1>1, <1>4

\* Terms that are zero do not count.
LEMMA SigmaSame ==
  ASSUME NEW f \in [Nat -> Nat], NEW a \in Nat, NEW b \in Nat, a <= b,
         \A q \in a..(b - 1) : f[q] = 0
  PROVE  Sigma(f, b) = Sigma(f, a)
<1>1. \A q \in a..(b - 1) : f[q] <= 0
  OBVIOUS
<1>2. Sigma(f, a) <= Sigma(f, b) /\ Sigma(f, b) <= Sigma(f, a) + (b - a) * 0
  BY <1>1, SigmaGrows
<1>3. Sigma(f, a) \in Nat /\ Sigma(f, b) \in Nat /\ (b - a) * 0 = 0
  BY SigmaSteps
<1> QED BY <1>2, <1>3

\* The word of v with index i
DigitOf(v, s) == (v \div Pow[s]) % B

\* One more word of a number
LEMMA DigitSteps ==
  ASSUME NEW v \in Nat
  PROVE  /\ v % Pow[0] = 0
         /\ \A h \in Nat : /\ DigitOf(v, h) \in 0..(B - 1) /\ DigitOf(v, h) \in Nat /\ v % Pow[h] \in Nat
                           /\ v % Pow[h + 1] = (v % Pow[h]) + Pow[h] * DigitOf(v, h)
<1>1. v % Pow[0] = 0
  BY PowStep, PowType
<1>2. ASSUME NEW h \in Nat
      PROVE  /\ DigitOf(v, h) \in 0..(B - 1) /\ DigitOf(v, h) \in Nat /\ v % Pow[h] \in Nat
             /\ v % Pow[h + 1] = (v % Pow[h]) + Pow[h] * DigitOf(v, h)
  <2> DEFINE P == Pow[h]
             q == v \div P
             r == v % P
             d == q % B
             e == q \div B
  <2>1. P \in Nat \ {0} /\ Pow[h + 1] = B * P
    BY PowStep, PowType
  <2> HIDE DEF P
  <2>2. q \in Nat /\ r \in 0..(P - 1) /\ v = P * q + r
    BY <2>1, QuotientOf
  <2> HIDE DEF q, r
  <2>3. e \in Nat /\ d \in 0..(B - 1) /\ q = B * e + d /\ B \in Nat \ {0}
    BY <2>2, QuotientOf, BaseAssumption
  <2> HIDE DEF d, e
  <2> DEFINE R == B * P
             t == P * d + r
  <2>4. R \in Nat \ {0} /\ t \in 0..(R - 1)
    <3>1. P * d <= P * (B - 1) /\ P * d \in Nat /\ P * (B - 1) = R - P /\ R \in Nat \ {0}
      BY <2>1, <2>3
    <3> QED BY <2>1, <2>2, <3>1
  <2>5. v = R * e + t
    <3>1. P * (B * e + d) = (B * P) * e + P * d /\ (B * P) * e \in Nat /\ P * d \in Nat
      BY <2>1, <2>3
    <3> QED BY <2>2, <2>3, <3>1
  <2> HIDE DEF R, t
  <2>6. (R * e + t) % R = t
    BY <2>3, <2>4, DivModUnique
  <2>7. v % R = t
    BY <2>5, <2>6
  <2>8. DigitOf(v, h) = d
    BY DEF DigitOf, d, q, P
  <2>9. v % Pow[h] = r
    BY DEF r, P
  <2>10. v % Pow[h + 1] = r + P * d
    <3>1. r + P * d = P * d + r
      BY <2>1, <2>2, <2>3
    <3> QED BY <2>1, <2>7, <3>1 DEF R, t
  <2>11. d \in Nat
    BY <2>3
  <2> QED BY <2>2, <2>3, <2>8, <2>9, <2>10, <2>11 DEF P
<1> QED BY <1>1, <1>2

\* The products of column c, and the part of the product of two numbers that the
\* columns below c make up: a word of x times what has been reached of y
Products(x, y, c) == [s \in Nat |-> IF s <= c THEN DigitOf(x, s) * DigitOf(y, c - s) ELSE 0]
Parts(x, y, c) == [s \in Nat |-> IF s <= c THEN (Pow[s] * DigitOf(x, s)) * (y % Pow[c - s]) ELSE 0]
Below(x, y, c) == Sigma(Parts(x, y, c), c)

\* The products of a column are numbers.
LEMMA ProductTypes ==
  ASSUME NEW x \in Nat, NEW y \in Nat, NEW c \in Nat
  PROVE  Products(x, y, c) \in [Nat -> Nat] /\ Parts(x, y, c) \in [Nat -> Nat]
<1>1. ASSUME NEW s \in Nat, s <= c
      PROVE  DigitOf(x, s) * DigitOf(y, c - s) \in Nat /\ (Pow[s] * DigitOf(x, s)) * (y % Pow[c - s]) \in Nat
  <2> DEFINE d == DigitOf(x, s)
             e == DigitOf(y, c - s)
             P == Pow[s]
             r == y % Pow[c - s]
  <2>1. c - s \in Nat
    BY <1>1
  <2>2. d \in Nat /\ e \in Nat /\ r \in Nat /\ P \in Nat
    <3>1. d \in Nat
      BY DigitSteps
    <3>2. e \in Nat /\ r \in Nat
      BY <2>1, DigitSteps
    <3>3. P \in Nat
      BY PowStep, PowType
    <3> QED BY <3>1, <3>2, <3>3
  <2> HIDE DEF d, e, P, r
  <2>3. d * e \in Nat /\ (P * d) * r \in Nat
    BY <2>2
  <2> QED BY <2>3 DEF d, e, P, r
<1> QED BY <1>1 DEF Products, Parts

\* A column adds its products, with its weight.
LEMMA ColumnAdds ==
  ASSUME NEW x \in Nat, NEW y \in Nat, NEW c \in Nat
  PROVE  Below(x, y, c + 1) = Below(x, y, c) + Pow[c] * Sigma(Products(x, y, c), c + 1)
<1> DEFINE f == Products(x, y, c)
           g == Parts(x, y, c)
           h == Parts(x, y, c + 1)
           Q == Pow[c]
           T == { j \in 0..(c + 1) : Sigma(h, j) = Sigma(g, j) + Q * Sigma(f, j) }
<1>1. f \in [Nat -> Nat] /\ g \in [Nat -> Nat] /\ h \in [Nat -> Nat] /\ Q \in Nat \ {0}
  <2>1. f \in [Nat -> Nat] /\ g \in [Nat -> Nat]
    BY ProductTypes
  <2>2. c + 1 \in Nat
    OBVIOUS
  <2>3. h \in [Nat -> Nat]
    BY <2>2, ProductTypes
  <2>4. Q \in Nat \ {0}
    BY PowStep, PowType
  <2> QED BY <2>1, <2>3, <2>4
<1>2. ASSUME NEW s \in 0..c PROVE h[s] = g[s] + Q * f[s]
  <2> DEFINE P == Pow[s]
             S == Pow[c - s]
             d == DigitOf(x, s)
             e == DigitOf(y, c - s)
             r == y % S
  <2>1. s \in Nat /\ c - s \in Nat /\ (c - s) + 1 = (c + 1) - s /\ s <= c /\ s <= c + 1
    OBVIOUS
  <2>2. y % Pow[(c - s) + 1] = r + S * e /\ r \in Nat /\ e \in Nat /\ d \in Nat
    <3>1. d \in Nat
      BY <2>1, DigitSteps
    <3> DEFINE m == c - s
    <3>2. m \in Nat
      BY <2>1
    <3> HIDE DEF m
    <3>3. y % Pow[m + 1] = (y % Pow[m]) + Pow[m] * DigitOf(y, m) /\ DigitOf(y, m) \in Nat /\ y % Pow[m] \in Nat
      BY <3>2, DigitSteps
    <3> QED BY <3>1, <3>3 DEF m
  <2>3. P \in Nat /\ S \in Nat /\ Q = P * S
    <3>1. Pow[s + (c - s)] = Pow[s] * Pow[c - s]
      BY <2>1, PowSum
    <3> QED BY <2>1, <3>1, PowStep, PowType
  <2>4. h[s] = (P * d) * (y % Pow[(c - s) + 1]) /\ g[s] = (P * d) * r /\ f[s] = d * e
    BY <2>1 DEF Products, Parts
  <2> HIDE DEF P, S, d, e, r, f, g, h, Q
  <2>5. (P * d) * (r + S * e) = (P * d) * r + (P * S) * (d * e)
    BY <2>2, <2>3
  <2> QED BY <2>2, <2>3, <2>4, <2>5
<1>3. g[c] = 0
  <2>1. g[c] = (Pow[c] * DigitOf(x, c)) * (y % Pow[0]) /\ y % Pow[0] = 0
    BY DigitSteps DEF Parts
  <2>2. Pow[c] \in Nat /\ DigitOf(x, c) \in Nat
    <3>1. DigitOf(x, c) \in Nat
      BY DigitSteps
    <3> QED BY <3>1, PowStep, PowType
  <2>3. (Pow[c] * DigitOf(x, c)) * 0 = 0
    BY <2>2
  <2> QED BY <2>1, <2>3
<1> HIDE DEF f, g, h, Q
<1>4. 0 \in T
  <2>1. Sigma(h, 0) = 0 /\ Sigma(g, 0) = 0 /\ Sigma(f, 0) = 0 /\ Q * 0 = 0
    <3>1. Sigma(h, 0) = 0
      BY <1>1, SigmaSteps
    <3>2. Sigma(g, 0) = 0
      BY <1>1, SigmaSteps
    <3>3. Sigma(f, 0) = 0
      BY <1>1, SigmaSteps
    <3> QED BY <1>1, <3>1, <3>2, <3>3
  <2> QED BY <2>1
<1>5. ASSUME NEW j \in 0..((c + 1) - 1), j \in T PROVE j + 1 \in T
  <2> DEFINE a == Sigma(f, j)
             b == Sigma(g, j)
  <2>1. j \in 0..c /\ j + 1 \in 0..(c + 1) /\ j \in Nat
    OBVIOUS
  <2>2. /\ Sigma(h, j + 1) = Sigma(h, j) + h[j] /\ Sigma(g, j + 1) = b + g[j]
        /\ Sigma(f, j + 1) = a + f[j] /\ a \in Nat /\ b \in Nat
    BY <1>1, <2>1, SigmaSteps
  <2>3. h[j] = g[j] + Q * f[j] /\ f[j] \in Nat /\ g[j] \in Nat
    BY <1>1, <1>2, <2>1
  <2>4. Sigma(h, j) = b + Q * a
    BY <1>5
  <2> HIDE DEF a, b
  <2>5. Q * (a + f[j]) = Q * a + Q * f[j] /\ Q * a \in Nat /\ Q * f[j] \in Nat
    BY <1>1, <2>2, <2>3
  <2>6. Sigma(h, j + 1) = Sigma(g, j + 1) + Q * Sigma(f, j + 1)
    BY <2>2, <2>3, <2>4, <2>5
  <2> QED BY <2>1, <2>6
<1>6. c + 1 \in T
  <2>1. 0..(c + 1) \subseteq T
    <3> HIDE DEF T
    <3> QED BY <1>4, <1>5, StepInduction
  <2> QED BY <2>1
<1>7. Sigma(g, c + 1) = Sigma(g, c)
  <2>1. Sigma(g, c + 1) = Sigma(g, c) + g[c] /\ Sigma(g, c) \in Nat
    BY <1>1, SigmaSteps
  <2> QED BY <1>3, <2>1
<1> QED BY <1>6, <1>7 DEF Below, f, g, h, Q

\* What is missing of the product has the weight of the next column.
Remains(x, y, c) == \E K \in Nat : x * y = Below(x, y, c) + Pow[c] * K

LEMMA ProductRest ==
  ASSUME NEW x \in Nat, NEW y \in Nat, NEW c \in Nat
  PROVE  Below(x, y, c) \in Nat /\ Remains(x, y, c)
<1> DEFINE g == Parts(x, y, c)
           Q == Pow[c]
           T == { h \in 0..c : \E K \in Nat : (x % Pow[h]) * y = Sigma(g, h) + Q * K }
<1>1. g \in [Nat -> Nat] /\ Q \in Nat \ {0}
  BY ProductTypes, PowStep, PowType
<1>2. 0 \in T
  <2>1. x % Pow[0] = 0 /\ 0 * y = 0
    BY DigitSteps
  <2>2. Sigma(g, 0) = 0 /\ Q * 0 = 0
    <3> HIDE DEF g
    <3> QED BY <1>1, SigmaSteps
  <2>3. (x % Pow[0]) * y = Sigma(g, 0) + Q * 0
    BY <2>1, <2>2
  <2> HIDE DEF g, Q
  <2> QED BY <2>3
<1>3. ASSUME NEW h \in 0..(c - 1), h \in T PROVE h + 1 \in T
  <2> DEFINE P == Pow[h]
             S == Pow[c - h]
             d == DigitOf(x, h)
             e == y \div S
             r == y % S
             v == x % P
             t == Sigma(g, h)
  <2>1. h \in Nat /\ c - h \in Nat /\ h + 1 \in 0..c /\ h <= c /\ h + (c - h) = c
    OBVIOUS
  <2>2. v \in Nat /\ d \in Nat /\ x % Pow[h + 1] = v + P * d
    BY <2>1, DigitSteps
  <2>3. P \in Nat \ {0} /\ S \in Nat \ {0}
    BY <2>1, PowStep, PowType
  <2>4. Q = P * S
    <3>1. Pow[h + (c - h)] = Pow[h] * Pow[c - h]
      BY <2>1, PowSum
    <3> QED BY <2>1, <3>1
  <2>5. e \in Nat /\ r \in Nat /\ y = S * e + r
    <3> HIDE DEF S
    <3> QED BY <2>3, QuotientOf
  <2>6. g[h] = (P * d) * r
    BY <2>1 DEF Parts
  <2>7. PICK K \in Nat : v * y = t + Q * K
    BY <1>3
  <2>8. Sigma(g, h + 1) = t + g[h] /\ t \in Nat
    <3> HIDE DEF g
    <3> QED BY <1>1, <2>1, SigmaSteps
  <2> HIDE DEF P, S, d, e, r, v, t, g, Q
  <2> DEFINE L == K + d * e
  <2>9. L \in Nat
    BY <2>2, <2>5
  <2>10. (v + P * d) * y = (t + (P * d) * r) + Q * L
    <3>1. (v + P * d) * y = v * y + (P * d) * y
      BY <2>2, <2>3
    <3>2. (P * d) * (S * e + r) = (P * d) * r + (P * S) * (d * e)
      BY <2>2, <2>3, <2>5
    <3>3. (P * d) * y = (P * d) * r + Q * (d * e)
      BY <2>4, <2>5, <3>2
    <3>4. Q * L = Q * K + Q * (d * e) /\ Q * K \in Nat /\ Q * (d * e) \in Nat
      BY <1>1, <2>2, <2>5
    <3>5. (P * d) * r \in Nat
      BY <2>2, <2>3, <2>5
    <3> HIDE DEF L
    <3> QED BY <2>7, <2>8, <3>1, <3>3, <3>4, <3>5
  <2> HIDE DEF L
  <2>11. (x % Pow[h + 1]) * y = Sigma(g, h + 1) + Q * L
    BY <2>2, <2>6, <2>8, <2>10
  <2> QED BY <2>1, <2>9, <2>11
<1>4. c \in T
  <2>1. 0..c \subseteq T
    <3> HIDE DEF T
    <3> QED BY <1>2, <1>3, StepInduction
  <2> QED BY <2>1
<1>5. Sigma(g, c) \in Nat
  <2> HIDE DEF g
  <2> QED BY <1>1, SigmaSteps
<1>6. PICK K \in Nat : (x % Q) * y = Sigma(g, c) + Q * K
  BY <1>4
<1> DEFINE q == x \div Q
           r == x % Q
           t == Sigma(g, c)
<1>7. q \in Nat /\ r \in Nat /\ x = Q * q + r
  <2> HIDE DEF Q
  <2> QED BY <1>1, QuotientOf
<1> HIDE DEF g
<1>8. t \in Nat /\ r * y = t + Q * K
  BY <1>5, <1>6
<1> HIDE DEF q, r, t, Q
<1> DEFINE L == K + q * y
<1>9. L \in Nat /\ x * y = t + Q * L
  <2>1. (Q * q + r) * y = Q * (q * y) + r * y
    BY <1>1, <1>7
  <2>2. Q * (K + q * y) = Q * K + Q * (q * y) /\ Q * K \in Nat /\ Q * (q * y) \in Nat
    BY <1>1, <1>7
  <2> QED BY <1>7, <1>8, <2>1, <2>2
<1> HIDE DEF L
<1> QED BY <1>8, <1>9 DEF Remains, Below, g, t, Q

\* A number has no digits above its length.
LEMMA NoDigitAbove ==
  ASSUME NEW k \in Nat, NEW x \in 0..(Pow[k] - 1), NEW n \in Nat, k <= n
  PROVE  DigitOf(x, n) = 0
<1> DEFINE P == Pow[n]
<1>1. Pow[k] <= P /\ P \in Nat \ {0} /\ Pow[k] \in Nat
  BY PowMonotonic, PowType
<1>2. x \in 0..(P - 1)
  BY <1>1
<1> HIDE DEF P
<1>3. x \div P = 0
  BY <1>1, <1>2
<1> QED BY <1>3, BaseAssumption DEF DigitOf, P

\* No column is reached by more terms than x has words.
LEMMA ColumnBound ==
  ASSUME NEW m \in Nat, NEW x \in 0..(Pow[m] - 1), NEW y \in Nat, NEW c \in Nat
  PROVE  Sigma(Products(x, y, c), c + 1) \in 0..(m * ((B - 1) * (B - 1)))
<1> DEFINE f == Products(x, y, c)
           w == (B - 1) * (B - 1)
           e == IF c + 1 <= m THEN c + 1 ELSE m
<1>1. x \in Nat /\ m \in Nat /\ e \in Nat /\ e <= c + 1 /\ e <= m /\ c + 1 \in Nat
  BY PowType
<1>2. f \in [Nat -> Nat]
  BY <1>1, ProductTypes
<1>3. \A s \in 0..(e - 1) : f[s] <= w
  <2> SUFFICES ASSUME NEW s \in 0..(e - 1) PROVE f[s] <= w
    OBVIOUS
  <2> DEFINE d == DigitOf(x, s)
             h == DigitOf(y, c - s)
  <2>1. s \in Nat /\ s <= c /\ c - s \in Nat
    BY <1>1
  <2>2. f[s] = d * h
    BY <2>1 DEF Products
  <2>3. d \in 0..(B - 1)
    BY <1>1, <2>1, DigitSteps
  <2>4. h \in 0..(B - 1)
    BY <2>1, DigitSteps
  <2> HIDE DEF d, h
  <2>5. d * h <= (B - 1) * (B - 1)
    <3>1. d * h <= (B - 1) * h /\ (B - 1) * h <= (B - 1) * (B - 1) /\ d * h \in Nat /\ (B - 1) * h \in Nat
      BY <2>3, <2>4, BaseAssumption
    <3> QED BY <3>1, BaseAssumption
  <2> QED BY <2>2, <2>5
<1>4. \A s \in e..((c + 1) - 1) : f[s] = 0
  <2> SUFFICES ASSUME NEW s \in e..((c + 1) - 1) PROVE f[s] = 0
    OBVIOUS
  <2>1. s \in Nat /\ s <= c /\ c - s \in Nat /\ ~(s < m)
    BY <1>1
  <2>2. DigitOf(x, s) = 0
    BY <1>1, <2>1, NoDigitAbove
  <2>3. DigitOf(y, c - s) \in Nat
    BY <2>1, DigitSteps
  <2>4. f[s] = DigitOf(x, s) * DigitOf(y, c - s)
    BY <2>1 DEF Products
  <2> QED BY <2>2, <2>3, <2>4
<1>5. w \in Nat
  BY BaseAssumption
<1> HIDE DEF f, w
<1>6. Sigma(f, c + 1) = Sigma(f, e)
  <2> HIDE DEF e
  <2> QED BY <1>1, <1>2, <1>4, SigmaSame
<1>7. Sigma(f, e) <= Sigma(f, 0) + (e - 0) * w
  <2> HIDE DEF e
  <2> QED BY <1>1, <1>2, <1>3, <1>5, SigmaGrows
<1>8. Sigma(f, 0) = 0 /\ Sigma(f, e) \in Nat
  <2> HIDE DEF e
  <2> QED BY <1>1, <1>2, SigmaSteps
<1> HIDE DEF e
<1>9. e * w <= m * w /\ e * w \in Nat /\ m * w \in Nat
  <2>1. (m - e) * w \in Nat /\ (m - e) * w = m * w - e * w
    BY <1>1, <1>5
  <2>2. e * w \in Nat /\ m * w \in Nat
    BY <1>1, <1>5
  <2> QED BY <2>1, <2>2
<1>10. Sigma(f, c + 1) \in 0..(m * w)
  <2>1. (e - 0) * w = e * w
    BY <1>1
  <2> QED BY <1>6, <1>7, <1>8, <1>9, <2>1
<1> QED BY <1>10 DEF f, w

\* Terms that are the same from either end
LEMMA SigmaMirrored ==
  ASSUME NEW f \in [Nat -> Nat], NEW j \in Nat, \A q \in 0..j : f[q] = f[j - q]
  PROVE  \A h \in 0..(j + 1) : Sigma(f, j + 1) = Sigma(f, j + 1 - h) + Sigma(f, h)
<1> DEFINE k == j + 1
           T == { h \in 0..k : Sigma(f, k) = Sigma(f, k - h) + Sigma(f, h) }
<1>1. k \in Nat
  OBVIOUS
<1>2. 0 \in T
  <2>1. Sigma(f, 0) = 0 /\ Sigma(f, k) \in Nat /\ k - 0 = k /\ 0 \in 0..k
    BY <1>1, SigmaSteps
  <2> QED BY <2>1
<1>3. ASSUME NEW h \in 0..(k - 1), h \in T PROVE h + 1 \in T
  <2> DEFINE a == k - (h + 1)
  <2>1. a \in Nat /\ a + 1 = k - h /\ a = j - h /\ h \in 0..j /\ h \in Nat /\ h + 1 \in 0..k
    OBVIOUS
  <2>2. f[a] = f[h]
    BY <2>1
  <2>3. f[a] \in Nat
    BY <2>1
  <2> HIDE DEF a
  <2>4. Sigma(f, a + 1) = Sigma(f, a) + f[a] /\ Sigma(f, a) \in Nat
    BY <2>1, SigmaSteps
  <2>5. Sigma(f, h + 1) = Sigma(f, h) + f[h] /\ Sigma(f, h) \in Nat
    BY <2>1, SigmaSteps
  <2>6. Sigma(f, k) = Sigma(f, a + 1) + Sigma(f, h)
    BY <1>3, <2>1
  <2>7. Sigma(f, k) = Sigma(f, a) + Sigma(f, h + 1)
    BY <2>2, <2>3, <2>4, <2>5, <2>6
  <2> QED BY <2>1, <2>7 DEF a
<1>4. 0..k \subseteq T
  <2> HIDE DEF T, k
  <2> QED BY <1>1, <1>2, <1>3, StepInduction
<1> QED BY <1>4

\* A column of a square: what occurs twice, and the square in the middle
LEMMA SquareColumn ==
  ASSUME NEW x \in Nat, NEW j \in Nat
  PROVE  LET h == (j + 1) \div 2
             f == Products(x, x, j)
         IN  /\ h \in 0..(j + 1)
             /\ j % 2 = 0 => j = 2 * h /\ Sigma(f, j + 1) = 2 * Sigma(f, h) + DigitOf(x, h) * DigitOf(x, h)
             /\ j % 2 # 0 => Sigma(f, j + 1) = 2 * Sigma(f, h)
<1> DEFINE h == (j + 1) \div 2
           f == Products(x, x, j)
<1>1. h \in 0..(j + 1) /\ (j % 2 = 0 => j = 2 * h) /\ (j % 2 # 0 => j + 1 = 2 * h)
  OBVIOUS
<1>2. f \in [Nat -> Nat]
  BY ProductTypes
<1>3. \A q \in 0..j : f[q] = DigitOf(x, q) * DigitOf(x, j - q)
  BY DEF Products
<1> HIDE DEF f, h
<1>4. \A q \in 0..j : f[q] = f[j - q]
  <2> SUFFICES ASSUME NEW q \in 0..j PROVE f[q] = f[j - q]
    OBVIOUS
  <2>1. q \in Nat /\ j - q \in 0..j /\ j - q \in Nat /\ j - (j - q) = q
    OBVIOUS
  <2>2. DigitOf(x, q) \in Nat /\ DigitOf(x, j - q) \in Nat
    BY <2>1, DigitSteps
  <2>3. DigitOf(x, q) * DigitOf(x, j - q) = DigitOf(x, j - q) * DigitOf(x, q)
    BY <2>2
  <2>4. f[q] = DigitOf(x, q) * DigitOf(x, j - q)
    BY <1>3
  <2>5. f[j - q] = DigitOf(x, j - q) * DigitOf(x, j - (j - q))
    BY <1>3, <2>1
  <2> QED BY <2>1, <2>3, <2>4, <2>5
<1>5. Sigma(f, j + 1) = Sigma(f, j + 1 - h) + Sigma(f, h)
  BY <1>1, <1>2, <1>4, SigmaMirrored
<1>6. h \in Nat
  BY <1>1
<1>7. Sigma(f, h) \in Nat /\ Sigma(f, h + 1) = Sigma(f, h) + f[h]
  BY <1>2, <1>6, SigmaSteps
<1>8. ASSUME j % 2 = 0 PROVE Sigma(f, j + 1) = 2 * Sigma(f, h) + DigitOf(x, h) * DigitOf(x, h)
  <2>1. j + 1 - h = h + 1 /\ h \in 0..j /\ j - h = h
    BY <1>1, <1>6, <1>8
  <2>2. f[h] = DigitOf(x, h) * DigitOf(x, h)
    BY <1>3, <2>1
  <2>3. f[h] \in Nat
    BY <1>2, <1>6
  <2> QED BY <1>5, <1>7, <2>1, <2>2, <2>3
<1>9. ASSUME j % 2 # 0 PROVE Sigma(f, j + 1) = 2 * Sigma(f, h)
  <2>1. j + 1 - h = h
    BY <1>1, <1>6, <1>9
  <2> QED BY <1>5, <1>7, <2>1
<1> QED BY <1>1, <1>8, <1>9 DEF f, h

(***************************************************************************)
(* Quotients and remainders                                                *)
(***************************************************************************)
\* Dividing by a product is dividing twice.
LEMMA DividedTwice ==
  ASSUME NEW x \in Nat, NEW P \in Nat \ {0}, NEW Q \in Nat \ {0}
  PROVE  x \div (P * Q) = (x \div P) \div Q /\ x \div P \in Nat
<1> DEFINE y == x \div P
           r == x % P
<1>1. y \in Nat /\ r \in 0..(P - 1) /\ x = P * y + r
  OBVIOUS
<1> HIDE DEF y, r
<1> DEFINE z == y \div Q
           s == y % Q
<1>2. z \in Nat /\ s \in 0..(Q - 1) /\ y = Q * z + s
  BY <1>1
<1> HIDE DEF z, s
<1> DEFINE span == P * Q
           t == P * s + r
<1>3. span \in Nat \ {0}
  OBVIOUS
<1>4. t \in 0..(span - 1)
  <2>1. P * s <= P * (Q - 1) /\ P * s \in Nat
    BY <1>2
  <2>2. P * (Q - 1) = P * Q - P /\ P * Q \in Nat
    OBVIOUS
  <2> QED BY <1>1, <2>1, <2>2
<1>5. x = span * z + t
  <2>1. P * (Q * z + s) = (P * Q) * z + P * s
    BY <1>2
  <2>2. P * y = (P * Q) * z + P * s
    BY <1>2, <2>1
  <2>3. (P * Q) * z \in Int /\ P * s \in Int
    BY <1>2
  <2> QED BY <1>1, <2>2, <2>3
<1> HIDE DEF span, t
<1>6. (span * z + t) \div span = z
  BY <1>2, <1>3, <1>4, DivModUnique
<1>7. x \div span = z
  BY <1>5, <1>6
<1> QED BY <1>1, <1>7 DEF span, z, y

\* Multiples of the modulus do not count.
LEMMA SameRemainder ==
  ASSUME NEW a \in Int, NEW wide \in Nat \ {0}, NEW t \in Int
  PROVE  (a + wide * t) % wide = a % wide
<1> DEFINE q == a \div wide
           r == a % wide
<1>1. q \in Int /\ r \in 0..(wide - 1) /\ a = wide * q + r
  OBVIOUS
<1> HIDE DEF q, r
<1> DEFINE e == q + t
<1>2. a + wide * t = wide * e + r /\ e \in Int
  BY <1>1
<1> HIDE DEF e
<1>3. (wide * e + r) % wide = r
  BY <1>1, <1>2, DivModUnique
<1> QED BY <1>2, <1>3 DEF r

\* Two powers that make up the range of a word
Factors(u, v) == u \in Nat \ {0} /\ v \in Nat \ {0} /\ u * v = B

\* What is left of a word when u is shifted out, and what comes in from the word
\* above, as far as the field goes
LEMMA FieldOf ==
  ASSUME NEW y \in Nat, NEW u, NEW v, Factors(u, v), NEW span, NEW c, Factors(span, c)
  PROVE  (y \div u) % span
         = (((y % B) \div u) + (IF u = 1 THEN 0 ELSE (((y \div B) % B) * v) % B)) % span
<1>0. u \in Nat \ {0} /\ v \in Nat \ {0} /\ u * v = B /\ span \in Nat \ {0} /\ c \in Nat \ {0} /\ span * c = B
  BY DEF Factors
<1> DEFINE d == y % B
           z == y \div B
<1>1. d \in 0..(B - 1) /\ z \in Nat /\ y = B * z + d /\ B \in Nat \ {0} /\ d \in Nat
  <2>1. B \in Nat \ {0}
    BY BaseAssumption
  <2> QED BY <1>0, <2>1, QuotientOf
<1> HIDE DEF d, z
<1> DEFINE a == d \div u
           b == d % u
<1>2. a \in Nat /\ b \in 0..(u - 1) /\ d = u * a + b
  BY <1>0, <1>1, QuotientOf
<1> HIDE DEF a, b
<1>3. y \div u = a + v * z
  <2> DEFINE e == a + v * z
  <2>1. e \in Int
    BY <1>0, <1>1, <1>2
  <2>2. y = u * e + b
    <3>1. u * (a + v * z) = u * a + (u * v) * z
      BY <1>0, <1>1, <1>2
    <3>2. (u * v) * z = B * z
      BY <1>0
    <3>3. u * a \in Int /\ B * z \in Int
      BY <1>0, <1>1, <1>2
    <3> QED BY <1>0, <1>1, <1>2, <3>1, <3>2, <3>3
  <2> HIDE DEF e
  <2>3. (u * e + b) \div u = e
    BY <1>0, <1>2, <2>1, DivModUnique
  <2> QED BY <1>0, <2>2, <2>3 DEF e
<1>4. CASE u = 1
  <2>1. v = B
    BY <1>0, <1>4
  <2> DEFINE t == c * z
  <2>2. v * z = span * t /\ t \in Int
    BY <1>0, <1>1, <2>1
  <2> HIDE DEF t
  <2>3. (a + span * t) % span = a % span
    <3>1. a \in Int /\ span \in Nat \ {0} /\ t \in Int
      BY <1>0, <1>2, <2>2
    <3> QED BY <3>1, SameRemainder
  <2>4. a + 0 = a
    BY <1>0, <1>2
  <2> QED BY <1>3, <1>4, <2>2, <2>3, <2>4 DEF a, d
<1>5. CASE u # 1
  <2> DEFINE w == z % B
             h == z \div B
  <2>1. w \in 0..(B - 1) /\ h \in Nat /\ z = B * h + w /\ w \in Nat
    BY <1>0, <1>1
  <2> HIDE DEF w, h
  <2> DEFINE p == w * v
  <2>2. p \in Nat
    BY <1>0, <2>1
  <2> HIDE DEF p
  <2> DEFINE q == p \div B
             r == p % B
  <2>3. q \in Nat /\ r \in 0..(B - 1) /\ p = B * q + r
    BY <1>0, <1>1, <2>2, QuotientOf
  <2> HIDE DEF q, r
  <2> DEFINE t == c * (q + v * h)
  <2>4. t \in Int /\ v * z = r + span * t
    <3> DEFINE g == q + v * h
    <3>1. g \in Int
      BY <1>0, <2>1, <2>3
    <3>2. v * z = B * (v * h) + p
      <4>1. v * (B * h + w) = B * (v * h) + w * v
        BY <1>0, <1>1, <2>1
      <4> QED BY <1>0, <2>1, <4>1 DEF p
    <3>3. B * (v * h) + B * q = B * g
      BY <1>0, <1>1, <2>1, <2>3
    <3> HIDE DEF g
    <3>4. B * g = span * (c * g) /\ c * g \in Int /\ span * (c * g) \in Int
      BY <1>0, <3>1
    <3>5. B * (v * h) \in Int /\ B * q \in Int
      BY <1>0, <1>1, <2>1, <2>3
    <3>6. v * z = r + span * (c * g)
      BY <1>0, <2>3, <3>2, <3>3, <3>4, <3>5
    <3> QED BY <3>4, <3>6 DEF g
  <2> HIDE DEF t
  <2> DEFINE f == a + r
  <2>5. f \in Int /\ a + v * z = f + span * t
    <3> DEFINE g == span * t
    <3>1. g \in Int
      BY <1>0, <2>4
    <3> HIDE DEF g
    <3>2. v * z = r + g
      BY <1>0, <2>4 DEF g
    <3>3. a + v * z = (a + r) + g
      BY <1>0, <1>2, <2>3, <3>1, <3>2
    <3> QED BY <1>0, <1>2, <2>3, <3>3 DEF g
  <2> HIDE DEF f
  <2>6. (f + span * t) % span = f % span
    BY <1>0, <2>4, <2>5, SameRemainder
  <2> QED BY <1>3, <1>5, <2>5, <2>6 DEF f, a, d, r, p, w, z
<1> QED BY <1>4, <1>5

ShiftedBy(P, q, Q, V, W, r, X3, d, x) ==
    /\ P \in Nat \ {0} /\ q \in Nat \ {0} /\ P * q = B /\ Q \in Nat /\ V \in Nat
    /\ W \in Int /\ r \in 0..(P - 1) /\ X3 \in Nat /\ d \in Nat /\ x \in Nat
    /\ P * V + r = W + Q * (d % P) /\ x = W + Q * (B * X3 + d)

\* The quotient and the remainder of x: V and r are what the loop leaves of its
\* low words, d is the word above them, X3 all that is higher.
LEMMA ShiftOfNumber ==
  ASSUME NEW P, NEW q, NEW Q, NEW V, NEW W, NEW r, NEW X3, NEW d, NEW x,
         ShiftedBy(P, q, Q, V, W, r, X3, d, x)
  PROVE  \E H \in Nat : x \div P = V + Q * H /\ x % P = r /\ (X3 = 0 /\ d = 0 => H = 0)
<1>0. /\ P \in Nat \ {0} /\ q \in Nat \ {0} /\ P * q = B /\ Q \in Nat /\ V \in Nat
      /\ W \in Int /\ r \in 0..(P - 1) /\ X3 \in Nat /\ d \in Nat /\ x \in Nat
      /\ P * V + r = W + Q * (d % P) /\ x = W + Q * (B * X3 + d)
  BY DEF ShiftedBy
<1> USE <1>0
<1> DEFINE a == d \div P
           b == d % P
           H == q * X3 + a
<1>1. d = P * a + b /\ a \in Int /\ b \in 0..(P - 1)
  OBVIOUS
<1>2. a \in Nat
  <2> HIDE DEF a, b
  <2>1. ASSUME a < 0 PROVE FALSE
    <3>1. P * a <= -P
      BY <1>1, <2>1
    <3> QED BY <1>1, <3>1
  <2> QED BY <1>1, <2>1
<1>3. X3 = 0 /\ d = 0 => H = 0
  <2> SUFFICES ASSUME X3 = 0, d = 0 PROVE H = 0
    OBVIOUS
  <2>1. 0 \div P = 0 /\ q * 0 = 0
    OBVIOUS
  <2>2. a = 0
    BY <2>1
  <2> HIDE DEF a
  <2> QED BY <2>1, <2>2
<1> HIDE DEF a
<1>4. H \in Nat
  BY <1>2
<1>5. x = P * (V + Q * H) + r
  <2>1. P * (V + Q * H) = P * V + Q * (P * H)
    <3> HIDE DEF H
    <3> QED BY <1>4
  <2>2. P * H = B * X3 + P * a
    <3>1. P * (q * X3 + a) = (P * q) * X3 + P * a
      BY <1>2
    <3> QED BY <3>1
  <2> HIDE DEF H, b
  <2>3. Q * (B * X3 + d) = Q * (B * X3 + P * a) + Q * b
    <3> DEFINE e == B * X3
               g == P * a
    <3>1. e \in Int /\ g \in Int
      BY <1>2, BaseAssumption
    <3>2. d = g + b
      BY <1>1
    <3> HIDE DEF e, g
    <3>3. Q * (e + (g + b)) = Q * (e + g) + Q * b
      BY <1>1, <3>1
    <3> QED BY <3>2, <3>3 DEF e, g
  <2>4. Q * (P * H) = Q * (B * X3 + P * a)
    BY <2>2
  <2>5. Q * (P * H) \in Int /\ P * V \in Int /\ Q * b \in Int
    BY <1>1, <1>4
  <2>6. P * V + r = W + Q * b
    BY DEF b
  <2> DEFINE A == Q * (P * H)
             E == P * V
             F == Q * b
             K == Q * (B * X3 + d)
  <2>7. K = A + F
    BY <2>3, <2>4
  <2>8. x = W + K /\ E + r = W + F /\ P * (V + Q * H) = E + A /\ A \in Int /\ E \in Int /\ F \in Int
    BY <2>1, <2>5, <2>6
  <2> HIDE DEF A, E, F, K
  <2>e. W = (E + r) - F /\ W \in Int /\ r \in Int
    BY <2>8
  <2>9. x = (E + A) + r
    <3> HIDE <1>0
    <3> QED BY <2>7, <2>8, <2>e
  <2> QED BY <2>8, <2>9
<1>6. V + Q * H \in Int
  BY <1>4
<1> DEFINE t == V + Q * H
<1> HIDE DEF H
<1>7. (P * t + r) % P = r /\ (P * t + r) \div P = t
  <2> HIDE DEF t
  <2>1. t \in Int
    BY <1>6 DEF t
  <2> QED BY <2>1, DivModUnique
<1>8. x \div P = V + Q * H /\ x % P = r
  BY <1>5, <1>7
<1> QED BY <1>3, <1>4, <1>8 DEF H

\* What is carried from one sum of two words
LEMMA CarryOf ==
  ASSUME NEW t \in 0..(2 * B - 1)
  PROVE  t = B * (t \div B) + (t % B) /\ t % B \in Word /\ t \div B \in { 0, 1 }
<1> DEFINE d == t % B
           e == t \div B
<1>1. t = B * e + d /\ d \in 0..(B - 1) /\ e \in Int
  BY BaseAssumption
<1> HIDE DEF d, e
<1>2. ASSUME e >= 2 PROVE FALSE
  <2>1. B * e >= 2 * B
    BY <1>1, <1>2, BaseAssumption
  <2> QED BY <1>1, <2>1, BaseAssumption
<1>3. ASSUME e < 0 PROVE FALSE
  <2>1. B * e <= -B
    BY <1>1, <1>3, BaseAssumption
  <2> QED BY <1>1, <2>1, BaseAssumption
<1>4. t = B * e + d /\ d \in Word /\ e \in { 0, 1 }
  BY <1>1, <1>2, <1>3 DEF Word
<1> QED BY <1>4 DEF d, e

\* What a word-sized sum and product leave, and what they carry
LEMMA WordOfNumber ==
  ASSUME NEW t \in Nat
  PROVE  t = (t % B) + B * (t \div B) /\ t % B \in Word /\ t \div B \in Nat
<1> DEFINE d == t % B
           e == t \div B
<1>1. t = B * e + d /\ d \in 0..(B - 1) /\ e \in Int
  BY BaseAssumption
<1> HIDE DEF d, e
<1>2. ASSUME e < 0 PROVE FALSE
  <2>1. B * e <= -B
    BY <1>1, <1>2, BaseAssumption
  <2> QED BY <1>1, <1>2, <2>1, BaseAssumption
<1>3. B * e \in Int
  BY <1>1, BaseAssumption
<1> QED BY <1>1, <1>2, <1>3 DEF d, e, Word

LEMMA WordAndCarry ==
  ASSUME NEW t \in Nat, NEW a \in Nat
  PROVE  LET u == (t % B) + (a % B)
         IN  /\ u % B \in Word /\ (a \div B) + (t \div B) \in Nat /\ u \div B \in Nat
             /\ a + t = (u % B) + B * (((a \div B) + (t \div B)) + (u \div B))
<1> DEFINE u == (t % B) + (a % B)
<1>1. t = (t % B) + B * (t \div B) /\ t % B \in Word /\ t \div B \in Nat
  BY WordOfNumber
<1>2. a = (a % B) + B * (a \div B) /\ a % B \in Word /\ a \div B \in Nat
  BY WordOfNumber
<1>3. u \in Nat
  BY <1>1, <1>2 DEF Word
<1> DEFINE tq == t \div B
           aq == a \div B
           uq == u \div B
           d == u % B
<1> HIDE DEF u
<1>4. u = d + B * uq /\ d \in Word /\ uq \in Nat
  BY <1>3, WordOfNumber
<1>5. tq \in Nat /\ aq \in Nat /\ a + t = u + B * aq + B * tq
  <2> DEFINE tr == t % B
             ar == a % B
             tb == B * tq
             ab == B * aq
  <2>1. t = tr + tb /\ a = ar + ab /\ u = tr + ar /\ tr \in Int /\ ar \in Int /\ tq \in Nat /\ aq \in Nat
    BY <1>1, <1>2 DEF Word, u
  <2>2. tb \in Int /\ ab \in Int
    <3> HIDE DEF tq, aq
    <3> QED BY <2>1, BaseAssumption
  <2> HIDE DEF tr, ar, tb, ab
  <2>3. a + t = u + ab + tb
    BY <2>1, <2>2
  <2> QED BY <2>1, <2>3 DEF tb, ab
<1> HIDE DEF tq, aq, uq, d
<1>6. a + t = d + B * ((aq + tq) + uq)
  <2>1. B * ((aq + tq) + uq) = B * aq + B * tq + B * uq
    BY <1>4, <1>5, BaseAssumption
  <2>2. B * aq \in Int /\ B * tq \in Int /\ B * uq \in Int
    BY <1>4, <1>5, BaseAssumption
  <2> QED BY <1>4, <1>5, <2>1, <2>2 DEF Word
<1>7. aq + tq \in Nat
  BY <1>5
<1> QED BY <1>4, <1>6, <1>7 DEF d, aq, tq, uq, u

\* The same remainder and the same quotient
LEMMA SameDigits ==
  ASSUME NEW P \in Nat \ {0}, NEW v \in 0..(P - 1), NEW u \in 0..(P - 1), NEW d \in Nat, NEW e \in Nat
  PROVE  v + P * d = u + P * e <=> v = u /\ d = e
<1>1. P * d \in Int /\ P * e \in Int
  OBVIOUS
<1>2. CASE d >= e + 1
  <2>1. P * d >= P * (e + 1)
    BY <1>2
  <2>2. P * (e + 1) = P * e + P
    OBVIOUS
  <2> QED BY <1>1, <1>2, <2>1, <2>2
<1>3. CASE d = e
  BY <1>1, <1>3
<1>4. CASE e >= d + 1
  <2>1. P * e >= P * (d + 1)
    BY <1>4
  <2>2. P * (d + 1) = P * d + P
    OBVIOUS
  <2> QED BY <1>1, <1>4, <2>1, <2>2
<1> QED BY <1>2, <1>3, <1>4

\* What is left is the number modulo the range of z, and what is returned is what
\* is above if nothing is cut off.
CutOff(P, r, h, z, v, w, k) ==
    /\ P \in Nat \ {0} /\ r \in 0..(P - 1) /\ h \in Nat /\ z \in 0..(P - 1)
    /\ v \in Nat /\ w \in Nat /\ k \in Nat /\ r + P * h = z + w /\ v = w + P * k

LEMMA ProductAndRest ==
  ASSUME NEW P, NEW r, NEW h, NEW z, NEW v, NEW w, NEW k, CutOff(P, r, h, z, v, w, k)
  PROVE  r = (z + v) % P /\ (v < P => r + P * (h % B) = z + v)
<1>0. /\ P \in Nat \ {0} /\ r \in 0..(P - 1) /\ h \in Nat /\ z \in 0..(P - 1)
      /\ v \in Nat /\ w \in Nat /\ k \in Nat /\ r + P * h = z + w /\ v = w + P * k
  BY DEF CutOff
<1> USE <1>0
<1>1. z + v = P * (h + k) + r
  <2>1. P * (h + k) = P * h + P * k /\ P * h \in Int /\ P * k \in Int
    OBVIOUS
  <2> QED BY <2>1
<1>2. (P * (h + k) + r) % P = r
  <2> DEFINE t == h + k
  <2>1. t \in Int
    OBVIOUS
  <2>2. P \in Nat \ {0} /\ r \in 0..(P - 1)
    OBVIOUS
  <2> HIDE <1>0
  <2> HIDE DEF t
  <2>3. (P * t + r) % P = r
    BY <2>1, <2>2, DivModUnique
  <2> QED BY <2>3 DEF t
<1>3. ASSUME v < P PROVE r + P * (h % B) = z + v
  <2>1. k = 0
    <3>1. SUFFICES ASSUME k >= 1 PROVE FALSE
      OBVIOUS
    <3>2. P * k >= P /\ P * k \in Nat
      BY <3>1
    <3> QED BY <1>3, <3>2
  <2>2. w = v
    BY <2>1
  <2>3. h < B
    <3>1. SUFFICES ASSUME h >= 2 PROVE FALSE
      BY BaseAssumption
    <3>2. P * h >= P * 2 /\ P * h \in Nat
      BY <3>1
    <3> QED BY <1>3, <2>2, <3>2
  <2>4. h % B = h
    BY <2>3, BaseAssumption
  <2> QED BY <2>2, <2>4
<1> QED BY <1>1, <1>2, <1>3

(***************************************************************************)
(* Powers of two                                                           *)
(***************************************************************************)
\* What the lemmas below start from
Doubles == \A n \in Nat : 2^n \in Nat \ {0} /\ 2^(n + 1) = 2 * 2^n

\* Powers of two are multiplied by adding their exponents.
LEMMA PowersAdd ==
  ASSUME Doubles
  PROVE  \A n \in Nat, t \in Nat : 2^n \in Nat \ {0} /\ 2^(n + t) = 2^n * 2^t
<1> SUFFICES ASSUME NEW n \in Nat, NEW t \in Nat PROVE 2^n \in Nat \ {0} /\ 2^(n + t) = 2^n * 2^t
  OBVIOUS
<1> DEFINE P == 2^n
           T == { j \in 0..t : 2^(n + j) = P * 2^j }
<1>1. P \in Nat \ {0}
  BY DEF Doubles
<1>2. 0 \in T
  <2>1. 2^0 = 1 /\ n + 0 = n
    OBVIOUS
  <2>2. 2^(n + 0) = P
    BY <2>1
  <2> HIDE DEF P
  <2>3. P * 2^0 = P
    BY <1>1, <2>1
  <2> QED BY <2>2, <2>3
<1>3. ASSUME NEW j \in 0..(t - 1), j \in T PROVE j + 1 \in T
  <2> DEFINE u == 2^j
             v == 2^(n + j)
  <2>1. j \in Nat /\ n + j \in Nat /\ (n + j) + 1 = n + (j + 1) /\ j + 1 \in 0..t
    OBVIOUS
  <2>2. 2^(j + 1) = 2 * u /\ u \in Nat
    BY <2>1 DEF Doubles
  <2>3. 2^((n + j) + 1) = 2 * v /\ v \in Nat
    BY <2>1 DEF Doubles
  <2>4. v = P * u
    BY <1>3
  <2>5. 2^(n + (j + 1)) = 2 * v
    BY <2>1, <2>3
  <2> HIDE DEF u, v, P
  <2>6. 2 * (P * u) = P * (2 * u)
    BY <1>1, <2>2
  <2>7. 2^(n + (j + 1)) = P * 2^(j + 1)
    BY <2>2, <2>4, <2>5, <2>6
  <2> QED BY <2>1, <2>7
<1>4. 0..t \subseteq T
  <2> HIDE DEF T
  <2> QED BY <1>1, <1>2, <1>3, StepInduction
<1> QED BY <1>1, <1>4

\* Powers of two grow with the exponent.
LEMMA PowersGrow ==
  ASSUME Doubles
  PROVE  \A n \in Nat : \A j \in 0..n : 2^j <= 2^n
<1> SUFFICES ASSUME NEW n \in Nat, NEW j \in 0..n PROVE 2^j <= 2^n
  OBVIOUS
<1> DEFINE u == 2^j
           v == 2^(n - j)
<1>1. j \in Nat /\ n - j \in Nat /\ j + (n - j) = n
  OBVIOUS
<1>2. u \in Nat \ {0} /\ v \in Nat \ {0} /\ 2^(j + (n - j)) = u * v
  BY <1>1, PowersAdd
<1>3. 2^n = u * v
  BY <1>1, <1>2
<1> HIDE DEF u, v
<1>4. u * v >= u * 1
  BY <1>2
<1> QED BY <1>2, <1>3, <1>4 DEF u

\* A number that is not zero has a highest bit.
LEMMA HighestBit ==
  ASSUME Doubles, NEW k \in Nat, NEW v \in Nat \ {0}, v < 2^k
  PROVE  \E t \in 0..(k - 1) : 2^t <= v /\ v < 2^(t + 1)
<1> DEFINE Has(j) == v < 2^j => \E t \in 0..(j - 1) : 2^t <= v /\ v < 2^(t + 1)
           T == { j \in 0..k : Has(j) }
<1>1. \A n \in Nat : 2^n \in Nat
  BY DEF Doubles
<1>2. 0 \in T
  <2>1. 2^0 = 1
    OBVIOUS
  <2>2. ~ v < 2^0
    BY <2>1
  <2>3. Has(0)
    BY <2>2
  <2> HIDE DEF Has
  <2> QED BY <2>3
<1>3. ASSUME NEW j \in 0..(k - 1), j \in T PROVE j + 1 \in T
  <2>1. j + 1 \in 0..k /\ j \in 0..((j + 1) - 1) /\ \A t \in 0..(j - 1) : t \in 0..((j + 1) - 1)
    OBVIOUS
  <2>2. 2^j \in Nat
    BY <1>1
  <2>3. ASSUME v < 2^(j + 1) PROVE \E t \in 0..((j + 1) - 1) : 2^t <= v /\ v < 2^(t + 1)
    <3>1. CASE v < 2^j
      BY <1>3, <2>1, <3>1
    <3>2. CASE ~ v < 2^j
      <4>1. 2^j <= v
        BY <2>2, <3>2
      <4> QED BY <2>1, <2>3, <4>1
    <3> QED BY <3>1, <3>2
  <2> QED BY <2>1, <2>3
<1>4. 0..k \subseteq T
  <2> HIDE DEF T
  <2> QED BY <1>1, <1>2, <1>3, StepInduction
<1> QED BY <1>4

\* A number that is not zero has a lowest bit.
LEMMA LowestBit ==
  ASSUME Doubles, NEW k \in Nat, NEW v \in Nat \ {0}, v < 2^k
  PROVE  \E t \in 0..(k - 1), h \in Nat : v = 2^t * (2 * h + 1)
<1> DEFINE Has(j) == \/ \E t \in 0..(j - 1), h \in Nat : v = 2^t * (2 * h + 1)
                     \/ \E h \in Nat : v = 2^j * h
           T == { j \in 0..k : Has(j) }
<1>1. \A n \in Nat : 2^n \in Nat \ {0} /\ 2^(n + 1) = 2 * 2^n
  BY DEF Doubles
<1>2. 0 \in T
  <2>1. 2^0 = 1 /\ v = 1 * v
    OBVIOUS
  <2>2. v = 2^0 * v
    BY <2>1
  <2>3. Has(0)
    BY <2>2
  <2> HIDE DEF Has
  <2> QED BY <2>3
<1>3. ASSUME NEW j \in 0..(k - 1), j \in T PROVE j + 1 \in T
  <2>1. j + 1 \in 0..k /\ j \in Nat /\ j \in 0..((j + 1) - 1) /\ \A t \in 0..(j - 1) : t \in 0..((j + 1) - 1)
    OBVIOUS
  <2>2. Has(j)
    BY <1>3
  <2>3. CASE \E t \in 0..(j - 1), h \in Nat : v = 2^t * (2 * h + 1)
    <3>1. \E t \in 0..((j + 1) - 1), h \in Nat : v = 2^t * (2 * h + 1)
      BY <2>1, <2>3
    <3>2. Has(j + 1)
      BY <3>1
    <3> HIDE DEF Has
    <3> QED BY <2>1, <3>2
  <2>4. CASE \E h \in Nat : v = 2^j * h
    <3>1. PICK h \in Nat : v = 2^j * h
      BY <2>4
    <3> DEFINE P == 2^j
               q == h \div 2
    <3>2. P \in Nat \ {0} /\ 2^(j + 1) = 2 * P /\ v = P * h
      BY <1>1, <2>1, <3>1
    <3>3. q \in Nat /\ (h = 2 * q \/ h = 2 * q + 1)
      OBVIOUS
    <3> HIDE DEF q
    <3>4. CASE h = 2 * q + 1
      <4>1. v = 2^j * (2 * q + 1)
        BY <3>1, <3>4
      <4>2. Has(j + 1)
        BY <2>1, <3>3, <4>1
      <4> HIDE DEF Has
      <4> QED BY <2>1, <4>2
    <3>5. CASE h = 2 * q
      <4> HIDE DEF P
      <4>1. P * (2 * q) = (2 * P) * q
        BY <3>2, <3>3
      <4>2. v = 2^(j + 1) * q
        BY <3>2, <3>5, <4>1
      <4>3. Has(j + 1)
        BY <3>3, <4>2
      <4> HIDE DEF Has
      <4> QED BY <2>1, <4>3
    <3> QED BY <3>3, <3>4, <3>5
  <2> QED BY <2>2, <2>3, <2>4
<1>4. k \in T
  <2>1. 0..k \subseteq T
    <3> HIDE DEF T
    <3> QED BY <1>1, <1>2, <1>3, StepInduction
  <2>2. k \in 0..k
    OBVIOUS
  <2> HIDE DEF T
  <2> QED BY <2>1, <2>2
<1>5. ASSUME NEW h \in Nat, v = 2^k * h PROVE FALSE
  <2> DEFINE P == 2^k
  <2>1. P \in Nat \ {0} /\ v < P /\ v = P * h
    BY <1>1, <1>5
  <2> HIDE DEF P
  <2>2. h # 0
    BY <2>1
  <2>3. P * h >= P * 1
    BY <2>1, <2>2
  <2> QED BY <2>1, <2>3
<1> QED BY <1>4, <1>5

\* Bit t is the lowest bit of v, and h are the bits above it.
LowBit(v, t, h) == t \in Nat /\ h \in Nat /\ v = 2^t * (2 * h + 1)

\* The remainders of such a number modulo the powers of two
LEMMA RemaindersOf ==
  ASSUME Doubles, NEW t, NEW h, NEW v, LowBit(v, t, h)
  PROVE  /\ v \in Nat \ {0}
         /\ \A j \in 0..t : v % 2^j = 0
         /\ \A j \in Nat : j > t => v % 2^j # 0
<1>1. \A n \in Nat : 2^n \in Nat \ {0} /\ 2^(n + 1) = 2 * 2^n
  BY DEF Doubles
<1> DEFINE o == 2 * h + 1
<1>2. v = 2^t * o /\ o \in Nat \ {0} /\ t \in Nat /\ h \in Nat
  BY DEF LowBit
<1> HIDE DEF o
<1>3. v \in Nat \ {0}
  <2> DEFINE P == 2^t
  <2>1. P \in Nat \ {0} /\ v = P * o
    BY <1>1, <1>2
  <2> HIDE DEF P
  <2>2. P * o \in Nat /\ P * o >= P * 1
    BY <1>2, <2>1
  <2> QED BY <2>1, <2>2
<1>4. ASSUME NEW j \in 0..t PROVE v % 2^j = 0
  <2> DEFINE P == 2^j
             Q == 2^(t - j)
  <2>1. j \in Nat /\ t - j \in Nat /\ j + (t - j) = t
    BY <1>2
  <2>2. P \in Nat \ {0} /\ Q \in Nat \ {0} /\ 2^(j + (t - j)) = P * Q
    BY <2>1, PowersAdd
  <2>3. v = (P * Q) * o
    BY <1>2, <2>1, <2>2
  <2> HIDE DEF P, Q
  <2> DEFINE e == Q * o
  <2>4. (P * Q) * o = P * (Q * o) /\ e \in Int
    BY <1>2, <2>2
  <2>5. v = P * e + 0
    <3> DEFINE g == P * (Q * o)
    <3>1. g \in Int /\ v = g
      BY <1>2, <2>2, <2>3, <2>4
    <3> HIDE DEF g
    <3>2. v = g + 0
      BY <3>1
    <3> QED BY <3>2 DEF g
  <2> HIDE DEF e
  <2>6. (P * e + 0) % P = 0
    BY <2>2, <2>4
  <2> QED BY <2>5, <2>6 DEF P
<1>5. ASSUME NEW j \in Nat, j > t PROVE v % 2^j # 0
  <2> DEFINE P == 2^t
             Q == 2^(j - (t + 1))
             R == 2^j
  <2>1. t + 1 \in Nat /\ j - (t + 1) \in Nat /\ (t + 1) + (j - (t + 1)) = j
    BY <1>2, <1>5
  <2>2. P \in Nat \ {0} /\ Q \in Nat \ {0} /\ R \in Nat \ {0} /\ 2^(t + 1) = 2 * P
    BY <1>1, <1>2, <2>1
  <2>3. 2^((t + 1) + (j - (t + 1))) = 2^(t + 1) * Q
    BY <2>1, PowersAdd
  <2>4. R = (2 * P) * Q /\ v = P * (2 * h + 1)
    BY <1>2, <2>1, <2>2, <2>3 DEF o
  <2> HIDE DEF P, Q, R
  <2>5. SUFFICES ASSUME v % R = 0 PROVE FALSE
    BY DEF R
  <2> DEFINE d == v \div R
  <2>6. v = R * d /\ d \in Int
    BY <1>3, <2>2, <2>5
  <2> HIDE DEF d
  <2> DEFINE e == Q * d
  <2>7. ((2 * P) * Q) * d = P * (2 * (Q * d))
    BY <2>2, <2>6
  <2>8. e \in Int /\ P * (2 * h + 1) = P * (2 * e)
    <3>1. e \in Int
      BY <2>2, <2>6
    <3>2. v = ((2 * P) * Q) * d
      BY <2>4, <2>6
    <3> QED BY <2>4, <2>7, <3>1, <3>2
  <2> HIDE DEF e
  <2>9. 2 * h + 1 = 2 * e
    <3> DEFINE a == 2 * h + 1
               b == 2 * e
    <3>1. a \in Int /\ b \in Int /\ P * a = P * b
      BY <1>2, <2>8
    <3> HIDE DEF a, b
    <3>2. a = b
      BY <2>2, <3>1
    <3> QED BY <3>2 DEF a, b
  <2> QED BY <1>2, <2>8, <2>9
<1> QED BY <1>3, <1>4, <1>5
=============================================================================
