------------------------- MODULE BignumModexpProofs -------------------------
(***************************************************************************)
(* That bignum_modexp returns the power, for every word size, every number *)
(* of words, every odd modulus and every operand, whichever numbers its    *)
(* subroutines return within their contracts.  From BignumTheorems come    *)
(* only induction over the natural numbers and that recursions exist;      *)
(* nothing here depends on the word B of that module.                      *)
(***************************************************************************)
EXTENDS BignumModexp, BignumTheorems

-----------------------------------------------------------------------------
(* Powers of two                                                           *)

LEMMA TwoUnfold == Two = [n \in Nat |-> IF n = 0 THEN 1 ELSE 2 * Two[n - 1]]
<1> DEFINE P(f) == f = [n \in Nat |-> IF n = 0 THEN 1 ELSE 2 * f[n - 1]]
<1>1. \E f : P(f)
  <2> DEFINE s == [n \in Nat |-> [v \in Nat |-> 2 * v]]
  <2>1. s \in [Nat -> [Nat -> Nat]]
    OBVIOUS
  <2>2. PICK f : IsRecursion(f, Nat, 1, s)
    <3> HIDE DEF s
    <3> QED BY <2>1, RecursionExists, 1 \in Nat, Zenon
  <2>3. ASSUME NEW n \in Nat, n # 0 PROVE f[n] = 2 * f[n - 1]
    <3>1. n - 1 \in Nat /\ (n - 1) + 1 = n
      BY <2>3
    <3>2. f[n] = s[n - 1][f[n - 1]] /\ f[n - 1] \in Nat
      BY <2>2, <3>1 DEF IsRecursion
    <3> QED BY <3>1, <3>2
  <2>4. f = [n \in Nat |-> f[n]] /\ f[0] = 1
    BY <2>2 DEF IsRecursion
  <2>5. f = [n \in Nat |-> IF n = 0 THEN 1 ELSE 2 * f[n - 1]]
    BY <2>3, <2>4
  <2> QED BY <2>5
<1>2. Two = CHOOSE f : P(f) BY DEF Two
<1> QED BY <1>1, <1>2

LEMMA TwoStep == Two[0] = 1 /\ \A n \in Nat : Two[n + 1] = 2 * Two[n]
<1>1. Two[0] = 1 BY TwoUnfold
<1>2. ASSUME NEW n \in Nat PROVE Two[n + 1] = 2 * Two[n]
  <2>1. n + 1 \in Nat /\ n + 1 # 0 /\ (n + 1) - 1 = n OBVIOUS
  <2> QED BY TwoUnfold, <2>1
<1> QED BY <1>1, <1>2

LEMMA TwoType == \A n \in Nat : Two[n] \in Nat \ {0}
<1> DEFINE T == {n \in Nat : Two[n] \in Nat \ {0}}
<1>1. 0 \in T BY TwoStep
<1>2. ASSUME NEW n \in Nat, n \in T PROVE n + 1 \in T
  BY TwoStep, <1>2
<1>3. Nat \subseteq T
  <2> HIDE DEF T
  <2> QED BY <1>1, <1>2, SetInduction
<1> QED BY <1>3

LEMMA TwoSum == \A s \in Nat, t \in Nat : Two[s + t] = Two[s] * Two[t]
<1> SUFFICES ASSUME NEW s \in Nat PROVE \A t \in Nat : Two[s + t] = Two[s] * Two[t]
  OBVIOUS
<1> DEFINE T == {t \in Nat : Two[s + t] = Two[s] * Two[t]}
<1>1. 0 \in T BY TwoStep, TwoType
<1>2. ASSUME NEW t \in Nat, t \in T PROVE t + 1 \in T
  <2>1. s + (t + 1) = (s + t) + 1 /\ s + t \in Nat
    OBVIOUS
  <2>2. Two[s + (t + 1)] = 2 * Two[s + t] /\ Two[t + 1] = 2 * Two[t]
    BY <2>1, TwoStep
  <2>3. Two[s] \in Nat /\ Two[t] \in Nat
    BY TwoType
  <2> QED BY <1>2, <2>2, <2>3
<1>3. Nat \subseteq T
  <2> HIDE DEF T
  <2> QED BY <1>1, <1>2, SetInduction
<1> QED BY <1>3

-----------------------------------------------------------------------------
(* Residues                                                                *)

\* A multiple of m
Multiple(v, m) == \E q \in Int : v = q * m

LEMMA DivisionFacts ==
  ASSUME NEW v \in Int, NEW m \in Nat \ {0}
  PROVE  v = m * (v \div m) + (v % m) /\ v \div m \in Int /\ v % m \in 0..(m - 1)
OBVIOUS

LEMMA QuotientUnique ==
  ASSUME NEW m \in Nat \ {0}, NEW q \in Int, NEW r \in 0..(m - 1)
  PROVE  (m * q + r) % m = r /\ (m * q + r) \div m = q
OBVIOUS

LEMMA SameMultiple ==
  ASSUME NEW u \in Int, NEW v \in Int, NEW m \in Nat \ {0}
  PROVE  Same(u, v, m) <=> Multiple(u - v, m)
<1> DEFINE d == u - v
<1>1. d \in Int OBVIOUS
<1> HIDE DEF d
<1>2. ASSUME d % m = 0 PROVE Multiple(d, m)
  <2>1. d = m * (d \div m) + 0 /\ d \div m \in Int
    BY <1>1, <1>2, DivisionFacts
  <2>2. d = (d \div m) * m
    BY <2>1
  <2> QED BY <2>1, <2>2 DEF Multiple
<1>3. ASSUME Multiple(d, m) PROVE d % m = 0
  <2>1. PICK q \in Int : d = q * m
    BY <1>3 DEF Multiple
  <2>2. d = m * q + 0
    BY <2>1
  <2>3. 0 \in 0..(m - 1)
    OBVIOUS
  <2>4. (m * q + 0) % m = 0
    BY <2>3, QuotientUnique
  <2> QED BY <2>2, <2>4
<1> QED BY <1>2, <1>3 DEF d, Same

LEMMA SameSymmetric ==
  ASSUME NEW u \in Int, NEW v \in Int, NEW m \in Nat \ {0}, Same(u, v, m)
  PROVE  Same(v, u, m)
<1>1. PICK q \in Int : u - v = q * m
  BY SameMultiple DEF Multiple
<1>2. v - u = (-q) * m /\ -q \in Int
  BY <1>1
<1> QED BY <1>2, SameMultiple DEF Multiple

LEMMA SameTransitive ==
  ASSUME NEW u \in Int, NEW v \in Int, NEW w \in Int, NEW m \in Nat \ {0},
         Same(u, v, m), Same(v, w, m)
  PROVE  Same(u, w, m)
<1>1. PICK q \in Int : u - v = q * m
  BY SameMultiple DEF Multiple
<1>2. PICK r \in Int : v - w = r * m
  BY SameMultiple DEF Multiple
<1>3. u - w = (q + r) * m /\ q + r \in Int
  BY <1>1, <1>2
<1> QED BY <1>3, SameMultiple DEF Multiple

LEMMA SameProduct ==
  ASSUME NEW u \in Int, NEW v \in Int, NEW s \in Int, NEW t \in Int, NEW m \in Nat \ {0},
         Same(u, v, m), Same(s, t, m)
  PROVE  Same(u * s, v * t, m)
<1>1. PICK q \in Int : u - v = q * m
  BY SameMultiple DEF Multiple
<1>2. PICK r \in Int : s - t = r * m
  BY SameMultiple DEF Multiple
<1>3. u = v + q * m /\ s = t + r * m
  BY <1>1, <1>2
<1>4. u * s = v * t + (v * r + q * t + q * (m * r)) * m
  <2>1. u * s = (v + q * m) * (t + r * m)
    BY <1>3
  <2>2. (v + q * m) * (t + r * m) = v * t + v * (r * m) + (q * m) * t + (q * m) * (r * m)
    OBVIOUS
  <2>3. v * (r * m) = (v * r) * m /\ (q * m) * t = (q * t) * m /\ (q * m) * (r * m) = (q * (m * r)) * m
    OBVIOUS
  <2>4. (v * r + q * t + q * (m * r)) * m = (v * r) * m + (q * t) * m + (q * (m * r)) * m
    OBVIOUS
  <2> QED BY <2>1, <2>2, <2>3, <2>4
<1> DEFINE n == v * r + q * t + q * (m * r)
<1>5. n \in Int
  OBVIOUS
<1>6. u * s - v * t = n * m
  BY <1>4
<1>7. u * s \in Int /\ v * t \in Int
  OBVIOUS
<1> HIDE DEF n
<1> QED BY <1>5, <1>6, <1>7, SameMultiple DEF Multiple

LEMMA SameResidue ==
  ASSUME NEW v \in Int, NEW m \in Nat \ {0}
  PROVE  Same(v % m, v, m) /\ Same(v, v, m)
<1>1. (v % m) - v = (-(v \div m)) * m /\ -(v \div m) \in Int /\ v % m \in Int
  BY DivisionFacts
<1>2. Same(v % m, v, m)
  BY <1>1, SameMultiple DEF Multiple
<1>3. v - v = 0 * m /\ 0 \in Int
  OBVIOUS
<1>4. Same(v, v, m)
  BY <1>3, SameMultiple DEF Multiple
<1> QED BY <1>2, <1>4

LEMMA SameReduced ==
  ASSUME NEW m \in Nat \ {0}, NEW u \in 0..(m - 1), NEW v \in 0..(m - 1), Same(u, v, m)
  PROVE  u = v
<1>1. PICK q \in Int : u - v = q * m
  BY SameMultiple DEF Multiple
<1>2. CASE q >= 1
  BY <1>1, <1>2
<1>3. CASE q <= -1
  BY <1>1, <1>3
<1>4. CASE q = 0
  BY <1>1, <1>4
<1> QED BY <1>2, <1>3, <1>4

\* An odd modulus has no factor in common with a power of two.
LEMMA CancelTwo ==
  ASSUME NEW m \in Nat, m % 2 = 1, NEW n \in Nat, NEW v \in Int, Multiple(v * Two[n], m)
  PROVE  Multiple(v, m)
<1> DEFINE T == {k \in Nat : \A u \in Int : Multiple(u * Two[k], m) => Multiple(u, m)}
<1>1. 0 \in T
  BY TwoStep
<1>2. ASSUME NEW k \in Nat, k \in T PROVE k + 1 \in T
  <2>1. SUFFICES ASSUME NEW u \in Int, Multiple(u * Two[k + 1], m)
                 PROVE  Multiple(u, m)
    OBVIOUS
  <2>2. Two[k] \in Nat /\ Two[k + 1] = 2 * Two[k]
    BY TwoType, TwoStep
  <2>3. u * Two[k + 1] = (2 * u) * Two[k] /\ 2 * u \in Int
    BY <2>2
  <2>4. Multiple(2 * u, m)
    BY <2>1, <2>3, <1>2
  <2>5. PICK q \in Int : 2 * u = q * m
    BY <2>4 DEF Multiple
  <2>6. PICK s \in Nat : m = 2 * s + 1
    <3>1. m = 2 * (m \div 2) + 1 /\ m \div 2 \in Nat
      OBVIOUS
    <3> QED BY <3>1
  <2>7. q = 2 * (u - q * s)
    BY <2>5, <2>6
  <2>8. u = (u - q * s) * m /\ u - q * s \in Int
    <3> DEFINE r == u - q * s
    <3>1. r \in Int /\ q = 2 * r
      BY <2>7
    <3> HIDE DEF r
    <3>2. 2 * u = 2 * (r * m)
      BY <2>5, <3>1
    <3>3. u = r * m
      BY <3>1, <3>2
    <3> QED BY <3>1, <3>3 DEF r
  <2> QED BY <2>8 DEF Multiple
<1>3. Nat \subseteq T
  <2> HIDE DEF T
  <2> QED BY <1>1, <1>2, SetInduction
<1> QED BY <1>3

LEMMA SameCancel ==
  ASSUME NEW m \in Nat, m % 2 = 1, NEW n \in Nat, NEW u \in Int, NEW v \in Int,
         Same(u * Two[n], v * Two[n], m)
  PROVE  Same(u, v, m)
<1>1. Two[n] \in Nat /\ m # 0
  BY TwoType
<1> DEFINE s == u * Two[n]
           t == v * Two[n]
<1>2. Multiple(s - t, m)
  <2>1. s \in Int /\ t \in Int /\ Same(s, t, m)
    BY <1>1
  <2> HIDE DEF s, t
  <2> QED BY <1>1, <2>1, SameMultiple
<1>3. u * Two[n] - v * Two[n] = (u - v) * Two[n]
  BY <1>1
<1>4. Multiple(u - v, m)
  BY <1>2, <1>3, CancelTwo
<1> QED BY <1>1, <1>4, SameMultiple

-----------------------------------------------------------------------------
(* The power                                                               *)

LEMMA PowerRecursion ==
  ASSUME NEW b \in Nat, NEW m \in Nat \ {0}
  PROVE  /\ ModPower(b, 0, m) = 1 % m
         /\ \A e \in Nat : ModPower(b, e + 1, m) = (b * ModPower(b, e, m)) % m
<1> DEFINE P(f) == f = [n \in Nat |-> IF n = 0 THEN 1 % m ELSE (b * f[n - 1]) % m]
           pow == CHOOSE f : P(f)
<1>1. \E f : P(f)
  <2> DEFINE s == [n \in Nat |-> [v \in Nat |-> (b * v) % m]]
  <2>1. s \in [Nat -> [Nat -> Nat]] /\ 1 % m \in Nat
    OBVIOUS
  <2>2. PICK f : IsRecursion(f, Nat, 1 % m, s)
    <3> DEFINE e == 1 % m
    <3>1. e \in Nat BY <2>1
    <3> HIDE DEF s, e
    <3>2. \E f : IsRecursion(f, Nat, e, s) BY <2>1, <3>1, RecursionExists, Zenon
    <3> QED BY <3>2 DEF e
  <2>3. ASSUME NEW n \in Nat, n # 0 PROVE f[n] = (b * f[n - 1]) % m
    <3>1. n - 1 \in Nat /\ (n - 1) + 1 = n
      BY <2>3
    <3>2. f[n] = s[n - 1][f[n - 1]] /\ f[n - 1] \in Nat
      BY <2>2, <3>1 DEF IsRecursion
    <3> QED BY <3>1, <3>2
  <2>4. f = [n \in Nat |-> f[n]] /\ f[0] = 1 % m
    BY <2>2 DEF IsRecursion
  <2>5. f = [n \in Nat |-> IF n = 0 THEN 1 % m ELSE (b * f[n - 1]) % m]
    BY <2>3, <2>4
  <2> QED BY <2>5
<1>2. P(pow)
  BY <1>1
<1>3. \A e \in Nat : ModPower(b, e, m) = pow[e]
  BY DEF ModPower
<1> HIDE DEF pow
<1>4. pow[0] = 1 % m
  BY <1>2
<1>5. ASSUME NEW e \in Nat PROVE pow[e + 1] = (b * pow[e]) % m
  <2>1. e + 1 \in Nat /\ e + 1 # 0 /\ (e + 1) - 1 = e OBVIOUS
  <2> QED BY <1>2, <2>1
<1> QED BY <1>3, <1>4, <1>5

LEMMA PowerType ==
  ASSUME NEW b \in Nat, NEW m \in Nat \ {0}
  PROVE  \A e \in Nat : ModPower(b, e, m) \in 0..(m - 1)
<1> DEFINE T == {e \in Nat : ModPower(b, e, m) \in 0..(m - 1)}
<1>1. 0 \in T
  <2>1. 1 % m \in 0..(m - 1)
    BY DivisionFacts
  <2> QED BY <2>1, PowerRecursion
<1>2. ASSUME NEW e \in Nat, e \in T PROVE e + 1 \in T
  <2> DEFINE v == b * ModPower(b, e, m)
  <2>1. v \in Int
    BY <1>2
  <2>2. v % m \in 0..(m - 1)
    <3> HIDE DEF v
    <3> QED BY <2>1, DivisionFacts
  <2> QED BY <2>2, PowerRecursion
<1>3. Nat \subseteq T
  <2> HIDE DEF T
  <2> QED BY <1>1, <1>2, SetInduction
<1> QED BY <1>3

\* The next power, and the power of a sum, up to the modulus
LEMMA PowerStep ==
  ASSUME NEW b \in Nat, NEW m \in Nat \ {0}, NEW e \in Nat
  PROVE  Same(ModPower(b, e + 1, m), b * ModPower(b, e, m), m)
<1> DEFINE v == b * ModPower(b, e, m)
<1>1. v \in Int
  BY PowerType
<1>2. ModPower(b, e + 1, m) = v % m
  BY PowerRecursion
<1>3. Same(v % m, v, m)
  <2> HIDE DEF v
  <2> QED BY <1>1, SameResidue
<1> QED BY <1>2, <1>3

LEMMA PowerSum ==
  ASSUME NEW b \in Nat, NEW m \in Nat \ {0}, NEW d \in Nat, NEW e \in Nat
  PROVE  Same(ModPower(b, d + e, m), ModPower(b, d, m) * ModPower(b, e, m), m)
<1> DEFINE P(k) == ModPower(b, k, m)
           T == {k \in Nat : Same(P(k + e), P(k) * P(e), m)}
<1>0. \A k \in Nat : P(k) \in Nat
  BY PowerType
<1>1. 0 \in T
  <2>1. 0 + e = e /\ P(0) = 1 % m
    BY PowerRecursion
  <2>2. Same(1 % m, 1, m) /\ Same(P(e), P(e), m) /\ 1 % m \in Int
    BY <1>0, SameResidue
  <2> HIDE DEF P
  <2>3. Same((1 % m) * P(e), 1 * P(e), m)
    BY <2>2, <1>0, SameProduct
  <2>4. Same(1 * P(e), (1 % m) * P(e), m)
    BY <2>2, <2>3, <1>0, SameSymmetric
  <2>5. 1 * P(e) = P(e)
    BY <1>0
  <2>6. Same(P(0 + e), P(0) * P(e), m)
    BY <2>1, <2>4, <2>5
  <2>7. 0 \in {k \in Nat : Same(P(k + e), P(k) * P(e), m)}
    BY <2>6
  <2> QED BY <2>7
<1>2. ASSUME NEW k \in Nat, k \in T PROVE k + 1 \in T
  <2>1. (k + 1) + e = (k + e) + 1 /\ k + e \in Nat
    OBVIOUS
  <2>2. Same(P((k + 1) + e), b * P(k + e), m)
    BY <2>1, PowerStep
  <2>3. Same(P(k + 1), b * P(k), m)
    BY PowerStep
  <2> HIDE DEF P
  <2>4. P(k) \in Nat /\ P(e) \in Nat /\ P(k + e) \in Nat /\ P(k + 1) \in Nat /\ P((k + 1) + e) \in Nat
    BY <1>0, <2>1
  <2>5. Same(b * P(k + e), b * (P(k) * P(e)), m)
    <3>1. Same(b, b, m) /\ P(k) * P(e) \in Int
      BY <2>4, SameResidue
    <3> QED BY <1>2, <2>4, <3>1, SameProduct
  <2>6. Same(P(k + 1) * P(e), (b * P(k)) * P(e), m)
    <3>1. Same(P(e), P(e), m) /\ b * P(k) \in Int
      BY <2>4, SameResidue
    <3> QED BY <2>3, <2>4, <3>1, SameProduct
  <2> DEFINE u == b * P(k + e)
             v == b * (P(k) * P(e))
             w == P(k + 1) * P(e)
  <2>7. v = (b * P(k)) * P(e) /\ u \in Int /\ v \in Int /\ w \in Int
    BY <2>4
  <2>8. Same(u, v, m) /\ Same(w, v, m) /\ Same(P((k + 1) + e), u, m)
    BY <2>2, <2>5, <2>6, <2>7
  <2> HIDE DEF u, v, w
  <2>9. Same(P((k + 1) + e), v, m) /\ Same(v, w, m)
    BY <2>4, <2>7, <2>8, SameTransitive, SameSymmetric
  <2>10. Same(P((k + 1) + e), w, m)
    BY <2>4, <2>7, <2>9, SameTransitive
  <2> QED BY <2>10 DEF w
<1>3. Nat \subseteq T
  <2> HIDE DEF T
  <2> QED BY <1>1, <1>2, SetInduction
<1> QED BY <1>3

-----------------------------------------------------------------------------
(* Bits                                                                    *)

LEMMA QuotientOfQuotient ==
  ASSUME NEW v \in Nat, NEW s \in Nat \ {0}, NEW t \in Nat \ {0}
  PROVE  (v \div s) \div t = v \div (s * t)
<1> DEFINE q == v \div s
           u == q \div t
<1>1. v = s * q + (v % s) /\ q \in Nat /\ v % s \in 0..(s - 1)
  <2>1. q \in Nat
    OBVIOUS
  <2> QED BY <2>1, DivisionFacts
<1>2. q = t * u + (q % t) /\ u \in Int /\ q % t \in 0..(t - 1)
  <2>1. q \in Nat BY <1>1
  <2> HIDE DEF q
  <2> QED BY <2>1, DivisionFacts
<1> DEFINE n == q % t
           w == v % s
<1> HIDE DEF q, u, n, w
<1>3. v = s * (t * u + n) + w /\ u \in Int /\ n \in 0..(t - 1) /\ w \in 0..(s - 1)
  BY <1>1, <1>2 DEF n, w
<1>4. s * (t * u + n) + w = (s * t) * u + (s * n + w)
  BY <1>3
<1>5. s * n + w \in 0..(s * t - 1) /\ s * t \in Nat \ {0}
  <2>1. n + 1 <= t /\ n \in Nat /\ w \in Nat /\ w < s
    BY <1>3
  <2>2. s * (n + 1) <= s * t
    BY <2>1
  <2>3. s * (n + 1) = s * n + s
    BY <2>1
  <2>4. s * n \in Nat /\ s * t \in Nat \ {0}
    BY <2>1
  <2> QED BY <2>1, <2>2, <2>3, <2>4
<1> DEFINE d == s * t
           e == s * n + w
<1>6. v = d * u + e /\ u \in Int /\ e \in 0..(d - 1) /\ d \in Nat \ {0}
  BY <1>3, <1>4, <1>5
<1> HIDE DEF d, e
<1>7. v \div d = u
  BY <1>6, QuotientUnique
<1> QED BY <1>7 DEF d, u, q

\* A digit of u is found in u reduced by any even multiple of its weight.
LEMMA DigitOfResidue ==
  ASSUME NEW u \in Nat, NEW s \in Nat \ {0}, NEW t \in Nat \ {0}
  PROVE  ((u % (s * (2 * t))) \div s) % 2 = (u \div s) % 2
<1> DEFINE d == s * (2 * t)
           q == u \div d
           w == u % d
           n == w \div s
           c == w % s
<1>1. d \in Nat \ {0}
  OBVIOUS
<1>2. u = d * q + w /\ q \in Int /\ w \in 0..(d - 1)
  <2> HIDE DEF d
  <2> QED BY <1>1, DivisionFacts
<1>3. w = s * n + c /\ n \in Int /\ c \in 0..(s - 1)
  <2>1. w \in Int BY <1>2, <1>1
  <2> HIDE DEF w
  <2> QED BY <2>1, DivisionFacts
<1> HIDE DEF q, w, n, c
<1>4. u = s * ((2 * t) * q + n) + c
  <2>1. u = (s * (2 * t)) * q + (s * n + c)
    BY <1>2, <1>3
  <2>2. (s * (2 * t)) * q = s * ((2 * t) * q)
    BY <1>2
  <2>3. s * ((2 * t) * q + n) = s * ((2 * t) * q) + s * n
    BY <1>2, <1>3
  <2> QED BY <1>2, <1>3, <2>1, <2>2, <2>3
<1> DEFINE g == (2 * t) * q + n
<1>5. g \in Int
  BY <1>2, <1>3
<1>6. u \div s = g
  <2> HIDE DEF g
  <2> QED BY <1>3, <1>4, <1>5, QuotientUnique DEF g
<1>7. g % 2 = n % 2
  <2> DEFINE h == t * q
             j == n \div 2
  <2>1. h \in Int /\ g = 2 * h + n
    BY <1>2, <1>3
  <2>2. n = 2 * j + (n % 2) /\ j \in Int /\ n % 2 \in 0..1
    BY <1>3
  <2> HIDE DEF g, h, j
  <2> QED BY <2>1, <2>2, <1>3
<1> QED BY <1>6, <1>7 DEF n, w

LEMMA QuotientType ==
  ASSUME NEW v \in Nat, NEW n \in Nat
  PROVE  v \div Two[n] \in Nat
<1>1. Two[n] \in Nat \ {0}
  BY TwoType
<1> QED BY <1>1

\* The bit fetched from its word is the bit of the number.
LEMMA BitFetched ==
  ASSUME NEW v \in Nat, NEW j \in Nat
  PROVE  Bit(v, j) = (v \div Two[j]) % 2
<1> DEFINE h == j \div WordBits
           l == j % WordBits
<1>1. WordBits \in Nat \ {0}
  BY ProblemAssumption
<1>2. h \in Nat /\ l \in 0..(WordBits - 1) /\ j = WordBits * h + l
  <2>1. h \in Nat
    BY <1>1
  <2>2. l \in 0..(WordBits - 1) /\ j = WordBits * h + l
    BY <1>1, DivisionFacts
  <2> QED BY <2>1, <2>2
<1> DEFINE f == WordBits * h
<1>3. f \in Nat /\ j = f + l
  BY <1>1, <1>2
<1> DEFINE u == v \div Two[f]
<1>4. u \in Nat
  BY <1>3, QuotientType
<1> DEFINE b == (WordBits - l) - 1
<1>5. b \in Nat /\ WordBits = l + (b + 1) /\ l \in Nat
  BY <1>1, <1>2
<1>6. Two[WordBits] = Two[l] * (2 * Two[b])
  <2>1. Two[l + (b + 1)] = Two[l] * Two[b + 1]
    <3> HIDE DEF l, b
    <3> QED BY <1>5, TwoSum
  <2>2. Two[b + 1] = 2 * Two[b]
    BY <1>5, TwoStep
  <2> QED BY <2>1, <2>2, <1>5
<1>7. Bit(v, j) = ((u % Two[WordBits]) \div Two[l]) % 2
  <2>1. WordBits * 1 = WordBits
    BY <1>1
  <2> QED BY <2>1 DEF Bit, R
<1>8. ((u % (Two[l] * (2 * Two[b]))) \div Two[l]) % 2 = (u \div Two[l]) % 2
  <2>1. Two[l] \in Nat \ {0} /\ Two[b] \in Nat \ {0}
    BY <1>5, TwoType
  <2> HIDE DEF u, l, b
  <2> QED BY <1>4, <2>1, DigitOfResidue
<1>9. u \div Two[l] = v \div Two[j]
  <2>1. Two[l] \in Nat \ {0} /\ Two[f] \in Nat \ {0} /\ Two[f + l] = Two[f] * Two[l]
    BY <1>3, <1>5, TwoType, TwoSum
  <2>2. Two[j] = Two[f] * Two[l]
    BY <2>1, <1>3
  <2> HIDE DEF l, f
  <2>3. (v \div Two[f]) \div Two[l] = v \div (Two[f] * Two[l])
    BY <2>1, QuotientOfQuotient
  <2> QED BY <2>2, <2>3
<1> QED BY <1>6, <1>7, <1>8, <1>9

\* Consuming one more bit of the exponent
LEMMA NextBit ==
  ASSUME NEW v \in Nat, NEW n \in Nat
  PROVE  v \div Two[n] = 2 * (v \div Two[n + 1]) + ((v \div Two[n]) % 2)
<1> DEFINE q == v \div Two[n]
<1>1. q \in Nat
  BY QuotientType
<1>2. q \div 2 = v \div Two[n + 1]
  <2>1. Two[n] \in Nat \ {0} /\ Two[n + 1] = Two[n] * 2
    BY TwoType, TwoStep
  <2> QED BY <2>1, QuotientOfQuotient
<1>3. q = 2 * (q \div 2) + (q % 2)
  <2> HIDE DEF q
  <2> QED BY <1>1
<1> QED BY <1>2, <1>3

LEMMA NoBits ==
  ASSUME NEW n \in Nat, NEW v \in 0..(Two[n] - 1)
  PROVE  v \div Two[n] = 0 /\ v \div Two[0] = v
<1>1. Two[n] \in Nat \ {0} /\ Two[0] = 1
  BY TwoType, TwoStep
<1>2. v = Two[n] * 0 + v
  BY <1>1
<1> QED BY <1>1, <1>2, QuotientUnique

-----------------------------------------------------------------------------
(* Numbers in Montgomery form, when s stands for the weight R              *)

\* The number v is u in Montgomery form, up to the modulus m.
InForm(v, u, n, m) == Same(v, Two[n] * u, m)

LEMMA FormProduct ==
  ASSUME NEW m \in Nat, m % 2 = 1, NEW n \in Nat,
         NEW x \in Nat, NEW y \in Nat, NEW z \in Nat, NEW u \in Nat, NEW v \in Nat, NEW w \in Nat,
         InForm(x, u, n, m), InForm(y, v, n, m), Same(z * Two[n], x * y, m), Same(w, u * v, m)
  PROVE  InForm(z, w, n, m)
<1> DEFINE s == Two[n]
<1>1. s \in Nat /\ m \in Nat \ {0}
  BY TwoType
<1>2. Same(x, s * u, m) /\ Same(y, s * v, m) /\ Same(z * s, x * y, m)
  BY DEF InForm
<1> HIDE DEF s
<1>3. Same(x * y, (s * u) * (s * v), m)
  BY <1>1, <1>2, SameProduct
<1> DEFINE t == s * s
           p == u * v
<1>4. t \in Int /\ p \in Int /\ Same(w, p, m)
  BY <1>1
<1>5. Same(t * w, t * p, m)
  <2> HIDE DEF t, p
  <2>1. Same(t, t, m)
    BY <1>1, <1>4, SameResidue
  <2> QED BY <1>1, <1>4, <2>1, SameProduct
<1> DEFINE c1 == z * s
           c2 == x * y
           c3 == (s * u) * (s * v)
           c4 == (s * s) * w
<1>6. c3 = (s * s) * (u * v) /\ c4 = (s * w) * s
  BY <1>1
<1>7. c1 \in Int /\ c2 \in Int /\ c3 \in Int /\ c4 \in Int
  BY <1>1
<1>8. Same(c1, c2, m) /\ Same(c2, c3, m) /\ Same(c4, c3, m)
  BY <1>2, <1>3, <1>5, <1>6
<1> HIDE DEF c1, c2, c3, c4
<1>9. Same(c1, c3, m) /\ Same(c3, c4, m)
  BY <1>1, <1>7, <1>8, SameTransitive, SameSymmetric
<1>10. Same(c1, c4, m)
  BY <1>1, <1>7, <1>9, SameTransitive
<1>11. Same(z * Two[n], (s * w) * Two[n], m)
  BY <1>6, <1>10 DEF c1, s
<1>12. s * w \in Int
  BY <1>1
<1>13. Same(z, s * w, m)
  <2> DEFINE c == s * w
  <2>1. c \in Int /\ Same(z * Two[n], c * Two[n], m)
    BY <1>11, <1>12
  <2> HIDE DEF c
  <2> QED BY <2>1, SameCancel DEF c
<1> QED BY <1>13 DEF InForm, s

\* Multiplying by the square of the weight puts a number into Montgomery form.
LEMMA FormEntered ==
  ASSUME NEW m \in Nat, m % 2 = 1, NEW n \in Nat, NEW x \in Nat, NEW z \in Nat, NEW u \in Nat,
         Same(z, Two[n] * Two[n], m), Same(x * Two[n], z * u, m)
  PROVE  InForm(x, u, n, m)
<1> DEFINE s == Two[n]
<1>1. s \in Nat /\ m \in Nat \ {0}
  BY TwoType
<1>2. Same(u, u, m)
  <2>1. u \in Int OBVIOUS
  <2> QED BY <1>1, <2>1, SameResidue
<1>3. Same(z * u, (s * s) * u, m)
  <2>1. Same(z, s * s, m) /\ s * s \in Int
    BY <1>1
  <2> HIDE DEF s
  <2> QED BY <1>1, <1>2, <2>1, SameProduct
<1> DEFINE c1 == x * s
           c2 == z * u
           c3 == (s * s) * u
<1>4. Same(c1, c2, m) /\ Same(c2, c3, m) /\ c1 \in Int /\ c2 \in Int /\ c3 \in Int
  BY <1>1, <1>3
<1>5. c3 = (s * u) * s /\ s * u \in Int
  BY <1>1
<1>6. Same(c1, c3, m)
  <2> HIDE DEF c1, c2, c3
  <2> QED BY <1>1, <1>4, SameTransitive
<1>7. Same(x * Two[n], (s * u) * Two[n], m)
  BY <1>5, <1>6
<1>8. Same(x, s * u, m)
  <2>1. s * u \in Int
    BY <1>5
  <2> DEFINE w == s * u
  <2>2. w \in Int /\ Same(x * Two[n], w * Two[n], m)
    BY <1>7, <2>1
  <2> HIDE DEF w
  <2> QED BY <2>2, SameCancel DEF w
<1> QED BY <1>8 DEF InForm

\* Leaving Montgomery form
LEMMA FormLeft ==
  ASSUME NEW m \in Nat, m % 2 = 1, NEW n \in Nat, NEW x \in Nat, NEW y \in Nat, NEW u \in Nat,
         InForm(x, u, n, m), Same(y * Two[n], x, m)
  PROVE  Same(y, u, m)
<1> DEFINE s == Two[n]
           c1 == y * s
           c3 == s * u
<1>1. s \in Nat /\ m \in Nat \ {0}
  BY TwoType
<1>2. c1 \in Int /\ c3 \in Int /\ c3 = u * s /\ Same(c1, x, m) /\ Same(x, c3, m)
  BY <1>1 DEF InForm
<1>3. Same(c1, c3, m)
  <2> HIDE DEF c1, c3
  <2> QED BY <1>1, <1>2, SameTransitive
<1>4. Same(y * Two[n], u * Two[n], m)
  BY <1>2, <1>3
<1>5. y \in Int /\ u \in Int
  OBVIOUS
<1> QED BY <1>4, <1>5, SameCancel

-----------------------------------------------------------------------------
(* The inductive invariant                                                 *)

\* The bits of the exponent, and the buffer b as the base to the power e in
\* Montgomery form
Bits == WordBits * call.k
HoldsPower(b, e) == InForm(mem[b], ModPower(call.a, e, call.m), Bits, call.m)

\* The call is the one that Init chose.
CallInv ==
  /\ call.k \in Nat /\ call.res \in Arguments
  /\ call.a \in Number(call.k) /\ call.p \in Number(call.k) /\ call.m \in Number(call.k)
  /\ call.k > 0 => call.m % 2 = 1
  /\ pc \notin {"entry", "end"} => call.k > 0

\* Buffers hold numbers, and the operands are left alone until the result is copied.
MemInv ==
  /\ mem \in [Buffers -> Number(call.k)]
  /\ pc # "end" => mem["a"] = call.a /\ mem["p"] = call.p /\ mem["m"] = call.m

\* The bits still to be consumed
CountInv ==
  /\ i \in 0..Bits
  /\ pc = "loop" => i > 0
  /\ pc \in {"multiply", "select"} => i < Bits
  /\ pc = "reduce" => i = 0

\* Where the powers are: what the scratch numbers mean from step to step.
FormInv ==
  /\ pc \in {"tomont", "one"} => Same(mem["z"], Two[Bits] * Two[Bits], call.m)
  /\ pc \in {"one", "loop", "multiply", "select"} =>
       InForm(mem["x"], call.a, Bits, call.m)
  /\ pc \in {"loop", "reduce"} => HoldsPower("z", call.p \div Two[i])
  /\ pc \in {"multiply", "select"} => HoldsPower("y", 2 * (call.p \div Two[i + 1]))
  /\ pc = "select" => HoldsPower("z", 2 * (call.p \div Two[i + 1]) + 1)
  /\ pc = "copyout" => mem["z"] = ModPower(call.a, call.p, call.m)
  /\ Result

IInv == CallInv /\ MemInv /\ CountInv /\ FormInv

LEMMA RIsTwo == \A k \in Nat : R(k) = Two[WordBits * k] /\ R(k) \in Nat \ {0}
<1> SUFFICES ASSUME NEW k \in Nat PROVE Two[WordBits * k] \in Nat \ {0}
  BY DEF R
<1>1. WordBits * k \in Nat
  BY ProblemAssumption
<1> QED BY <1>1, TwoType

\* What the invariant says of the types, once for all steps
LEMMA Typed ==
  ASSUME CallInv, MemInv
  PROVE  /\ Bits \in Nat /\ R(call.k) = Two[Bits] /\ Two[Bits] \in Nat \ {0}
         /\ Number(call.k) \subseteq Nat
         /\ call.a \in Nat /\ call.p \in 0..(Two[Bits] - 1) /\ call.p \in Nat /\ call.m \in Nat
         /\ \A b \in Buffers : mem[b] \in Nat
         /\ call.k > 0 => call.m % 2 = 1 /\ call.m \in Nat \ {0}
<1>1. Bits \in Nat
  BY ProblemAssumption DEF Bits, CallInv
<1>2. R(call.k) = Two[Bits] /\ Two[Bits] \in Nat \ {0}
  BY RIsTwo DEF Bits, CallInv
<1>3. Number(call.k) = 0..(Two[Bits] - 1)
  BY <1>2 DEF Number
<1>4. Number(call.k) \subseteq Nat
  BY <1>2, <1>3
<1>5. call.a \in Nat /\ call.p \in 0..(Two[Bits] - 1) /\ call.p \in Nat /\ call.m \in Nat
  BY <1>3, <1>4 DEF CallInv
<1>6. \A b \in Buffers : mem[b] \in Nat
  BY <1>4 DEF MemInv
<1>7. call.k > 0 => call.m % 2 = 1 /\ call.m \in Nat \ {0}
  BY <1>5 DEF CallInv
<1> QED BY <1>1, <1>2, <1>4, <1>5, <1>6, <1>7

LEMMA InitInv == Init => IInv
<1> SUFFICES ASSUME Init PROVE IInv
  OBVIOUS
<1>1. PICK q \in Problems :
        call \in [k : {q[1]}, a : Number(q[1]), p : Number(q[1]), m : {q[2]}, res : Arguments]
  BY DEF Init
<1>2. q[1] \in Nat /\ q[2] \in Number(q[1]) /\ (q[1] > 0 => q[2] % 2 = 1)
  BY ProblemAssumption
<1>3. CallInv
  BY <1>1, <1>2 DEF Init, CallInv
<1>4. MemInv
  <2>1. PICK junk \in {0, R(call.k) - 1} :
          mem = [b \in Buffers |-> IF b \in {"a", "p", "m"} THEN call[b] ELSE junk]
    BY DEF Init
  <2>2. junk \in Number(call.k)
    <3>1. R(call.k) \in Nat \ {0}
      BY <1>3, RIsTwo DEF CallInv
    <3> QED BY <2>1, <3>1 DEF Number
  <2>3. call["a"] = call.a /\ call["p"] = call.p /\ call["m"] = call.m
    OBVIOUS
  <2>4. \A b \in {"a", "p", "m"} : call[b] \in Number(call.k)
    BY <1>3, <2>3 DEF CallInv
  <2>5. {"a", "p", "m"} \subseteq Buffers
    BY DEF Buffers, Arguments
  <2> QED BY <2>1, <2>2, <2>3, <2>4, <2>5 DEF MemInv
<1>5. CountInv
  <2>1. Bits \in Nat
    BY <1>3, <1>4, Typed
  <2> QED BY <2>1 DEF CountInv, Init
<1>6. FormInv
  BY DEF FormInv, Init, Result
<1> QED BY <1>3, <1>4, <1>5, <1>6 DEF IInv

\* A scratch buffer written with a number of k words
LEMMA WriteScratch ==
  ASSUME MemInv, NEW b \in Scratch, NEW v \in Number(call.k),
         mem' = [mem EXCEPT ![b] = v], call' = call, pc # "end"
  PROVE  /\ MemInv' /\ mem'[b] = v
         /\ \A c \in Buffers \ {b} : mem'[c] = mem[c]
<1>1. b \in Buffers /\ {"a", "p", "m"} \subseteq Buffers \ {b}
  BY DEF Buffers, Scratch, Arguments
<1>2. mem' \in [Buffers -> Number(call.k)] /\ mem'[b] = v /\ \A c \in Buffers \ {b} : mem'[c] = mem[c]
  BY <1>1 DEF MemInv
<1> QED BY <1>1, <1>2 DEF MemInv

LEMMA EntryStep == IInv /\ Entry => IInv'
<1> SUFFICES ASSUME IInv, Entry PROVE IInv'
  OBVIOUS
<1> USE DEF IInv, Entry
<1>1. CallInv' /\ MemInv' /\ CountInv'
  BY DEF CallInv, MemInv, CountInv, Bits
<1>2. FormInv'
  BY DEF FormInv, Result, CallInv
<1> QED BY <1>1, <1>2

LEMMA MontifierStep == IInv /\ Montifier => IInv'
<1> SUFFICES ASSUME IInv, Montifier PROVE IInv'
  OBVIOUS
<1>1. CallInv /\ MemInv /\ CountInv /\ pc = "amontifier" /\ pc' = "tomont" /\ i' = i /\ call' = call
  BY DEF IInv, Montifier
<1>2. PICK v \in Amontifier("z", "m", "y"), t \in Number(call.k) :
        mem' = [mem EXCEPT !["z"] = v, !["y"] = t]
  BY DEF Montifier
<1>3. v \in Number(call.k) /\ Same(v, R(call.k) * R(call.k), call.m)
  BY <1>1 DEF Amontifier, MemInv
<1>4. CallInv' /\ CountInv'
  BY <1>1 DEF CallInv, CountInv, Bits
<1>5. MemInv' /\ mem'["z"] = v
  BY <1>1, <1>2, <1>3 DEF MemInv, Buffers, Scratch, Arguments
<1>6. FormInv'
  <2>1. R(call.k) = Two[Bits]
    BY <1>1, Typed
  <2> QED BY <1>1, <1>3, <1>5, <2>1 DEF FormInv, Result, Bits
<1> QED BY <1>4, <1>5, <1>6 DEF IInv

LEMMA ToMontStep == IInv /\ ToMont => IInv'
<1> SUFFICES ASSUME IInv, ToMont PROVE IInv'
  OBVIOUS
<1>1. CallInv /\ MemInv /\ CountInv /\ pc = "tomont" /\ pc' = "one" /\ i' = i /\ call' = call
  BY DEF IInv, ToMont
<1>2. PICK v \in Amontmul("x", "z", "a", "m") : mem' = [mem EXCEPT !["x"] = v]
  BY DEF ToMont
<1>3. v \in Number(call.k) /\ Same(v * R(call.k), mem["z"] * call.a, call.m)
  BY <1>1, <1>2 DEF Amontmul, MemInv
<1>4. CallInv' /\ CountInv'
  BY <1>1 DEF CallInv, CountInv, Bits
<1>5. MemInv' /\ mem'["x"] = v /\ mem'["z"] = mem["z"]
  BY <1>1, <1>2, <1>3, WriteScratch DEF Scratch, Buffers
<1>6. Same(mem["z"], Two[Bits] * Two[Bits], call.m)
  BY <1>1 DEF IInv, FormInv
<1>7. InForm(v, call.a, Bits, call.m)
  <2>1. call.k > 0
    BY <1>1 DEF CallInv
  <2>2. v \in Nat /\ mem["z"] \in Nat /\ call.a \in Nat /\ call.m \in Nat /\ call.m % 2 = 1
    BY <1>1, <1>3, <2>1, Typed DEF Buffers, Scratch
  <2>3. Bits \in Nat /\ R(call.k) = Two[Bits]
    BY <1>1, Typed
  <2> QED BY <1>3, <1>6, <2>2, <2>3, FormEntered
<1>8. FormInv'
  BY <1>1, <1>5, <1>6, <1>7 DEF FormInv, Result, Bits
<1> QED BY <1>4, <1>5, <1>8 DEF IInv

LEMMA OneStep == IInv /\ One => IInv'
<1> SUFFICES ASSUME IInv, One PROVE IInv'
  OBVIOUS
<1>1. CallInv /\ MemInv /\ CountInv /\ pc = "one" /\ pc' = "loop" /\ i' = Bits /\ call' = call
  BY DEF IInv, One, Bits
<1>2. PICK v \in Demont("z", "z", "m") : mem' = [mem EXCEPT !["z"] = v]
  BY DEF One
<1>3. v \in Number(call.k) /\ Same(v * R(call.k), mem["z"], call.m)
  BY <1>1, <1>2 DEF Demont, MemInv
<1>4. MemInv' /\ mem'["z"] = v /\ mem'["x"] = mem["x"]
  BY <1>1, <1>2, <1>3, WriteScratch DEF Scratch, Buffers
<1>5. call.k > 0 /\ Bits \in Nat /\ Bits > 0
  <2>1. call.k \in Nat /\ call.k > 0
    BY <1>1 DEF CallInv
  <2> QED BY <2>1, ProblemAssumption DEF Bits
<1>6. CallInv' /\ CountInv'
  <2>1. Bits' = Bits
    BY <1>1 DEF Bits
  <2>2. CountInv'
    BY <1>1, <1>5, <2>1 DEF CountInv
  <2> QED BY <1>1, <2>2 DEF CallInv
<1>7. v \in Nat /\ mem["z"] \in Nat /\ call.a \in Nat /\ call.m \in Nat \ {0} /\ call.m % 2 = 1
  BY <1>1, <1>3, <1>5, Typed DEF Buffers, Scratch
<1>8. R(call.k) = Two[Bits] /\ Two[Bits] \in Nat \ {0}
  BY <1>1, Typed
<1>9. InForm(v, ModPower(call.a, 0, call.m), Bits, call.m)
  <2> DEFINE s == Two[Bits]
             c1 == v * s
             c3 == s * s
  <2>1. Same(mem["z"], c3, call.m)
    BY <1>1 DEF IInv, FormInv
  <2>2. Same(c1, mem["z"], call.m) /\ c1 \in Int /\ c3 \in Int
    BY <1>3, <1>7, <1>8
  <2>3. Same(c1, c3, call.m)
    <3> HIDE DEF c1, c3
    <3> QED BY <1>7, <2>1, <2>2, SameTransitive
  <2>4. Same(v, s, call.m)
    <3>1. Same(v * Two[Bits], s * Two[Bits], call.m)
      BY <2>3
    <3>2. s \in Int /\ v \in Int /\ call.m \in Nat
      BY <1>7, <1>8
    <3> HIDE DEF s
    <3> QED BY <1>5, <1>7, <3>1, <3>2, SameCancel
  <2>5. Same(s * (1 % call.m), s * 1, call.m)
    <3>1. Same(1 % call.m, 1, call.m) /\ 1 % call.m \in Int
      <4>1. 1 \in Int /\ 1 % call.m \in Int
        BY <1>7
      <4>2. Same(1 % call.m, 1, call.m)
        BY <1>7, <4>1, SameResidue
      <4> QED BY <4>1, <4>2
    <3>2. Same(s, s, call.m) /\ s \in Int
      BY <1>7, <1>8, SameResidue
    <3> HIDE DEF s
    <3> QED BY <1>7, <3>1, <3>2, SameProduct
  <2>6. s * 1 = s /\ s \in Int /\ s * (1 % call.m) \in Int
    BY <1>7, <1>8
  <2> DEFINE c2 == s * (1 % call.m)
  <2>7. Same(v, c2, call.m)
    <3>1. Same(c2, s, call.m) /\ c2 \in Int /\ s \in Int
      BY <2>5, <2>6
    <3> HIDE DEF c2, s
    <3>2. Same(s, c2, call.m)
      BY <1>7, <3>1, SameSymmetric
    <3> QED BY <1>7, <2>4, <3>1, <3>2, SameTransitive
  <2>8. ModPower(call.a, 0, call.m) = 1 % call.m
    BY <1>7, PowerRecursion
  <2> QED BY <2>7, <2>8 DEF InForm
<1>10. call.p \div Two[Bits] = 0
  BY <1>1, Typed, NoBits
<1>11. FormInv'
  <2>1. InForm(mem["x"], call.a, Bits, call.m)
    BY <1>1 DEF IInv, FormInv
  <2> QED BY <1>1, <1>4, <1>9, <1>10, <2>1 DEF FormInv, Result, HoldsPower, Bits
<1> QED BY <1>4, <1>6, <1>11 DEF IInv

LEMMA SquareStep == IInv /\ Square => IInv'
<1> SUFFICES ASSUME IInv, Square PROVE IInv'
  OBVIOUS
<1>1. CallInv /\ MemInv /\ CountInv /\ pc = "loop" /\ pc' = "multiply" /\ i' = i - 1 /\ call' = call
  BY DEF IInv, Square
<1>2. PICK v \in Amontmul("y", "z", "z", "m") : mem' = [mem EXCEPT !["y"] = v]
  BY DEF Square
<1>3. v \in Number(call.k) /\ Same(v * R(call.k), mem["z"] * mem["z"], call.m)
  BY <1>1, <1>2 DEF Amontmul, MemInv
<1>4. MemInv' /\ mem'["y"] = v /\ mem'["x"] = mem["x"]
  BY <1>1, <1>2, <1>3, WriteScratch DEF Scratch, Buffers
<1>5. Bits \in Nat /\ i \in 0..Bits /\ i > 0 /\ i' \in Nat /\ i' + 1 = i /\ i' < Bits /\ i' \in 0..Bits
  BY <1>1, Typed DEF CountInv
<1>6. CallInv' /\ CountInv'
  <2>1. Bits' = Bits
    BY <1>1 DEF Bits
  <2>2. CountInv'
    BY <1>1, <1>5, <2>1 DEF CountInv
  <2> QED BY <1>1, <2>2 DEF CallInv
<1>7. v \in Nat /\ mem["z"] \in Nat /\ call.a \in Nat /\ call.p \in Nat
      /\ call.m \in Nat \ {0} /\ call.m % 2 = 1
  BY <1>1, <1>3, Typed DEF Buffers, Scratch, CallInv
<1> DEFINE e == call.p \div Two[i]
           P(n) == ModPower(call.a, n, call.m)
<1>8. e \in Nat /\ HoldsPower("z", e)
  <2>1. i \in Nat
    BY <1>5
  <2>2. e \in Nat
    BY <1>7, <2>1, QuotientType
  <2> QED BY <1>1, <2>2 DEF IInv, FormInv
<1>9. P(e) \in Nat /\ P(2 * e) \in Nat /\ Same(P(2 * e), P(e) * P(e), call.m)
  <2> HIDE DEF e
  <2>1. e \in Nat /\ 2 * e \in Nat /\ e + e = 2 * e
    BY <1>8
  <2>2. P(e) \in 0..(call.m - 1) /\ P(2 * e) \in 0..(call.m - 1)
    BY <1>7, <2>1, PowerType
  <2>3. Same(P(e + e), P(e) * P(e), call.m)
    BY <1>7, <2>1, PowerSum
  <2> HIDE DEF P
  <2> QED BY <2>1, <2>2, <2>3
<1>10. InForm(v, P(2 * e), Bits, call.m)
  <2>1. R(call.k) = Two[Bits]
    BY <1>1, Typed
  <2>2. InForm(mem["z"], P(e), Bits, call.m)
    BY <1>8 DEF HoldsPower
  <2>3. Same(v * Two[Bits], mem["z"] * mem["z"], call.m)
    BY <1>3, <2>1
  <2> DEFINE w == P(2 * e)
             u == P(e)
  <2>4. InForm(mem["z"], u, Bits, call.m) /\ Same(w, u * u, call.m) /\ u \in Nat /\ w \in Nat
    BY <1>9, <2>2
  <2>5. call.m \in Nat
    BY <1>7
  <2> HIDE DEF u, w, e, P
  <2>6. InForm(v, w, Bits, call.m)
    BY <1>5, <1>7, <2>3, <2>4, <2>5, FormProduct
  <2> QED BY <2>6 DEF w
<1>11. FormInv'
  <2>1. InForm(mem["x"], call.a, Bits, call.m)
    BY <1>1 DEF IInv, FormInv
  <2> QED BY <1>1, <1>4, <1>5, <1>10, <2>1 DEF FormInv, Result, HoldsPower, Bits
<1> QED BY <1>4, <1>6, <1>11 DEF IInv

LEMMA MultiplyStep == IInv /\ Multiply => IInv'
<1> SUFFICES ASSUME IInv, Multiply PROVE IInv'
  OBVIOUS
<1>1. /\ CallInv /\ MemInv /\ CountInv
      /\ pc = "multiply" /\ pc' = "select" /\ i' = i /\ call' = call
  BY DEF IInv, Multiply
<1>2. PICK v \in Amontmul("z", "x", "y", "m") : mem' = [mem EXCEPT !["z"] = v]
  BY DEF Multiply
<1>3. v \in Number(call.k) /\ Same(v * R(call.k), mem["x"] * mem["y"], call.m)
  BY <1>1, <1>2 DEF Amontmul, MemInv
<1>4. MemInv' /\ mem'["z"] = v /\ mem'["x"] = mem["x"] /\ mem'["y"] = mem["y"]
  BY <1>1, <1>2, <1>3, WriteScratch DEF Scratch, Buffers
<1>5. CallInv' /\ CountInv'
  BY <1>1 DEF CallInv, CountInv, Bits
<1>6. v \in Nat /\ mem["x"] \in Nat /\ mem["y"] \in Nat /\ call.a \in Nat /\ call.p \in Nat
      /\ call.m \in Nat \ {0} /\ call.m % 2 = 1 /\ i \in Nat /\ Bits \in Nat
  BY <1>1, <1>3, Typed DEF Buffers, Scratch, CallInv, CountInv
<1> DEFINE e == 2 * (call.p \div Two[i + 1])
           P(n) == ModPower(call.a, n, call.m)
<1>7. e \in Nat /\ HoldsPower("y", e) /\ InForm(mem["x"], call.a, Bits, call.m)
  <2>1. i + 1 \in Nat
    BY <1>6
  <2>2. call.p \div Two[i + 1] \in Nat
    BY <1>6, <2>1, QuotientType
  <2> QED BY <1>1, <2>2 DEF IInv, FormInv
<1>8. P(e) \in Nat /\ P(e + 1) \in Nat /\ Same(P(e + 1), call.a * P(e), call.m)
  <2> HIDE DEF e
  <2>1. e \in Nat /\ e + 1 \in Nat
    BY <1>7
  <2>2. P(e) \in 0..(call.m - 1) /\ P(e + 1) \in 0..(call.m - 1)
    BY <1>6, <2>1, PowerType
  <2>3. Same(P(e + 1), call.a * P(e), call.m)
    BY <1>6, <2>1, PowerStep
  <2> HIDE DEF P
  <2> QED BY <2>2, <2>3
<1>9. InForm(v, P(e + 1), Bits, call.m)
  <2>1. R(call.k) = Two[Bits]
    BY <1>1, Typed
  <2>2. InForm(mem["y"], P(e), Bits, call.m)
    BY <1>7 DEF HoldsPower
  <2>3. Same(v * Two[Bits], mem["x"] * mem["y"], call.m)
    BY <1>3, <2>1
  <2> DEFINE w == P(e + 1)
             u == P(e)
  <2>4. InForm(mem["y"], u, Bits, call.m) /\ Same(w, call.a * u, call.m) /\ u \in Nat /\ w \in Nat
    BY <1>8, <2>2
  <2>5. call.m \in Nat
    BY <1>6
  <2> HIDE DEF u, w, e, P
  <2>6. InForm(v, w, Bits, call.m)
    BY <1>6, <1>7, <2>3, <2>4, <2>5, FormProduct
  <2> QED BY <2>6 DEF w
<1>10. FormInv'
  BY <1>1, <1>4, <1>7, <1>9 DEF FormInv, Result, HoldsPower, Bits
<1> QED BY <1>4, <1>5, <1>10 DEF IInv

LEMMA SelectStep == IInv /\ Select => IInv'
<1> SUFFICES ASSUME IInv, Select PROVE IInv'
  OBVIOUS
<1> DEFINE v == Mux(Bit(mem["p"], i), "z", "y")
           q == call.p \div Two[i + 1]
<1>1. /\ CallInv /\ MemInv /\ CountInv
      /\ pc = "select" /\ pc' = (IF i # 0 THEN "loop" ELSE "reduce") /\ i' = i /\ call' = call
      /\ mem' = [mem EXCEPT !["z"] = v]
  BY DEF IInv, Select
<1>2. call.p \in Nat /\ i \in Nat /\ q \in Nat
  <2>1. call.p \in Nat /\ i \in Nat /\ i + 1 \in Nat
    BY <1>1, Typed DEF CountInv
  <2> QED BY <2>1, QuotientType
<1>3. v = IF Bit(call.p, i) # 0 THEN mem["z"] ELSE mem["y"]
  BY <1>1 DEF Mux, MemInv
<1>4. v \in Number(call.k)
  BY <1>1, <1>3 DEF MemInv, Buffers, Scratch
<1>5. CallInv' /\ CountInv'
  BY <1>1 DEF CallInv, CountInv, Bits
<1>6. MemInv' /\ mem'["z"] = v /\ mem'["x"] = mem["x"]
  <2> HIDE DEF v
  <2> QED BY <1>1, <1>4, WriteScratch DEF Scratch, Buffers
<1>7. HoldsPower("y", 2 * q) /\ HoldsPower("z", 2 * q + 1) /\ InForm(mem["x"], call.a, Bits, call.m)
  BY <1>1 DEF IInv, FormInv
<1>8. InForm(v, ModPower(call.a, call.p \div Two[i], call.m), Bits, call.m)
  <2> DEFINE b == Bit(call.p, i)
             d == call.p \div Two[i]
  <2>1. d = 2 * q + b /\ b \in {0, 1}
    <3>1. b = d % 2 /\ d \in Nat
      BY <1>2, BitFetched, QuotientType
    <3>2. d = 2 * q + (d % 2)
      BY <1>2, NextBit
    <3> HIDE DEF b, d
    <3> QED BY <3>1, <3>2
  <2>2. CASE b = 0
    <3>1. d = 2 * q
      <4> HIDE DEF b, d, q
      <4> QED BY <1>2, <2>1, <2>2
    <3>2. v = mem["y"]
      BY <1>3, <2>2
    <3> QED BY <1>7, <3>1, <3>2 DEF HoldsPower
  <2>3. CASE b = 1
    <3>1. d = 2 * q + 1
      BY <2>1, <2>3
    <3>2. v = mem["z"]
      BY <1>3, <2>3
    <3> QED BY <1>7, <3>1, <3>2 DEF HoldsPower
  <2> QED BY <2>1, <2>2, <2>3
<1>9. FormInv'
  BY <1>1, <1>6, <1>7, <1>8 DEF FormInv, Result, HoldsPower, Bits
<1> QED BY <1>5, <1>6, <1>9 DEF IInv

LEMMA ReduceStep == IInv /\ Reduce => IInv'
<1> SUFFICES ASSUME IInv, Reduce PROVE IInv'
  OBVIOUS
<1>1. /\ CallInv /\ MemInv /\ CountInv
      /\ pc = "reduce" /\ pc' = "copyout" /\ i' = i /\ call' = call
  BY DEF IInv, Reduce
<1>2. PICK v \in Demont("z", "z", "m") : mem' = [mem EXCEPT !["z"] = v]
  BY DEF Reduce
<1>3. v \in Number(call.k) /\ Same(v * R(call.k), mem["z"], call.m) /\ v < call.m
  BY <1>1, <1>2 DEF Demont, MemInv
<1>4. MemInv' /\ mem'["z"] = v
  BY <1>1, <1>2, <1>3, WriteScratch DEF Scratch, Buffers
<1>5. CallInv' /\ CountInv'
  BY <1>1 DEF CallInv, CountInv, Bits
<1>6. v \in Nat /\ mem["z"] \in Nat /\ call.a \in Nat /\ call.p \in Nat
      /\ call.m \in Nat \ {0} /\ call.m % 2 = 1 /\ i = 0 /\ Bits \in Nat
  BY <1>1, <1>3, Typed DEF Buffers, Scratch, CallInv, CountInv
<1> DEFINE u == ModPower(call.a, call.p, call.m)
<1>7. u \in 0..(call.m - 1)
  BY <1>6, PowerType
<1>8. InForm(mem["z"], u, Bits, call.m)
  <2>1. call.p \div Two[0] = call.p
    BY <1>1, Typed, NoBits
  <2> QED BY <1>1, <1>6, <2>1 DEF IInv, FormInv, HoldsPower
<1>9. Same(v, u, call.m)
  <2>1. R(call.k) = Two[Bits]
    BY <1>1, Typed
  <2>2. Same(v * Two[Bits], mem["z"], call.m) /\ u \in Nat
    BY <1>3, <1>7, <2>1
  <2> HIDE DEF u
  <2> QED BY <1>6, <1>8, <2>2, FormLeft
<1>10. v = u
  <2>1. v \in 0..(call.m - 1)
    BY <1>3, <1>6
  <2> HIDE DEF u
  <2> QED BY <1>6, <1>7, <1>9, <2>1, SameReduced
<1>11. FormInv'
  BY <1>1, <1>4, <1>10 DEF FormInv, Result
<1> QED BY <1>4, <1>5, <1>11 DEF IInv

LEMMA CopyOutStep == IInv /\ CopyOut => IInv'
<1> SUFFICES ASSUME IInv, CopyOut PROVE IInv'
  OBVIOUS
<1>1. /\ CallInv /\ MemInv /\ CountInv
      /\ pc = "copyout" /\ pc' = "end" /\ i' = i /\ call' = call
      /\ mem' = [mem EXCEPT ![call.res] = mem["z"]]
  BY DEF IInv, CopyOut, Mux
<1>2. CallInv' /\ CountInv'
  BY <1>1 DEF CallInv, CountInv, Bits
<1>3. call.res \in Buffers /\ "z" \in Buffers
  BY <1>1 DEF CallInv, Buffers, Scratch
<1>4. MemInv' /\ mem'[call.res] = mem["z"]
  BY <1>1, <1>3 DEF MemInv
<1>5. mem["z"] = ModPower(call.a, call.p, call.m)
  BY <1>1 DEF IInv, FormInv
<1>6. FormInv'
  BY <1>1, <1>4, <1>5 DEF FormInv, Result
<1> QED BY <1>2, <1>4, <1>6 DEF IInv

LEMMA StutterStep == IInv /\ UNCHANGED vars => IInv'
BY DEF IInv, CallInv, MemInv, CountInv, FormInv, HoldsPower, Result, Bits, vars

LEMMA StepInv == IInv /\ [Next]_vars => IInv'
<1> SUFFICES ASSUME IInv, [Next]_vars PROVE IInv'
  OBVIOUS
<1>1. CASE Entry \/ Montifier \/ ToMont \/ One
  BY <1>1, EntryStep, MontifierStep, ToMontStep, OneStep
<1>2. CASE Square \/ Multiply \/ Select
  BY <1>2, SquareStep, MultiplyStep, SelectStep
<1>3. CASE Reduce \/ CopyOut
  BY <1>3, ReduceStep, CopyOutStep
<1>4. CASE Done \/ UNCHANGED vars
  BY <1>4, StutterStep DEF Done
<1> QED BY <1>1, <1>2, <1>3, <1>4 DEF Next

LEMMA Invariance == Spec => []IInv
<1>1. Init => IInv BY InitInv
<1>2. IInv /\ [Next]_vars => IInv' BY StepInv
<1> QED BY <1>1, <1>2, PTL DEF Spec

-----------------------------------------------------------------------------
\* Every buffer keeps a number of k words and the bit counter stays within the
\* exponent, whatever the subroutines return.
THEOREM TypeCorrect == Spec => []TypeOK
<1>1. IInv => TypeOK
  BY DEF IInv, MemInv, CountInv, TypeOK, Bits
<1> QED BY <1>1, Invariance, PTL

\* The loop invariant of the square-and-multiply loop: after each round z is, up
\* to the modulus and in Montgomery form, the base to the bits consumed so far.
THEOREM PowerSoFarHolds == Spec => []PowerSoFar
<1>1. IInv => PowerSoFar
  <2> SUFFICES ASSUME IInv, pc \in {"loop", "reduce"}
               PROVE  Same(mem["z"], R(call.k) * ModPower(call.a, call.p \div Two[i], call.m), call.m)
    BY DEF PowerSoFar
  <2>1. R(call.k) = Two[Bits]
    BY Typed DEF IInv
  <2> QED BY <2>1 DEF IInv, FormInv, HoldsPower, InForm
<1> QED BY <1>1, Invariance, PTL

\* BIGNUM_MODEXP_SUBROUTINE_CORRECT: the number returned is the power itself, for
\* any word size and number of words, any odd modulus and any placing of the
\* result on an operand.
THEOREM ResultHolds == Spec => []Result
<1>1. IInv => Result
  BY DEF IInv, FormInv
<1> QED BY <1>1, Invariance, PTL
=============================================================================
