-------------------------- MODULE BignumMulProofs ---------------------------
(***************************************************************************)
(* Proofs about BignumMul for every word size, memory and argument sizes.  *)
(* The first lemmas are about the product alone: summed by columns or by   *)
(* rows it is the same number, it is the product modulo the weight of the  *)
(* first column left out, and the terms that the routine skips are zero.   *)
(***************************************************************************)
EXTENDS BignumMul, BignumTheorems

CallOK(cl) ==
  /\ cl.mem \in Memory
  /\ cl.p \in Size /\ cl.m \in Size /\ cl.n \in Size
  /\ cl.z \in Addr /\ cl.x \in Addr /\ cl.y \in Addr
  /\ InMemory(cl.z, cl.p)
  /\ InMemory(cl.x, cl.m)
  /\ InMemory(cl.y, cl.n)
  /\ Nonoverlapping(cl.x, cl.m, cl.z, cl.p)
  /\ Nonoverlapping(cl.y, cl.n, cl.z, cl.p)

LEMMA CallTypes ==
  ASSUME NEW cl, CallOK(cl)
  PROVE  /\ cl.p \in Nat /\ cl.m \in Nat /\ cl.n \in Nat
         /\ cl.p <= MaxSize /\ cl.m <= MaxSize /\ cl.n <= MaxSize
         /\ cl.z \in Nat /\ cl.x \in Nat /\ cl.y \in Nat
BY SizeAssumption DEF CallOK, Size, Addr

LEMMA Operands ==
  ASSUME NEW cl, CallOK(cl), NEW j \in Nat
  PROVE  /\ XDigit(cl, j) \in Word /\ YDigit(cl, j) \in Word
         /\ YPrefix(cl, j) \in Nat
         /\ YPrefix(cl, j + 1) = YPrefix(cl, j) + Pow[j] * YDigit(cl, j)
<1>1. /\ cl.mem \in Memory /\ cl.x \in Int /\ cl.y \in Int /\ cl.m \in Nat /\ cl.n \in Nat
      /\ InMemory(cl.x, cl.m) /\ InMemory(cl.y, cl.n)
  BY CallTypes DEF CallOK
<1>2. XDigit(cl, j) \in Word
  BY <1>1, PrefixStep DEF XDigit
<1> QED BY <1>1, <1>2, PrefixStep DEF YDigit, YPrefix

LEMMA YPrefixZero ==
  ASSUME NEW cl, CallOK(cl)
  PROVE  YPrefix(cl, 0) = 0
BY CallTypes, ValueUnfold DEF YPrefix, Prefix, Lesser

LEMMA TermsUnfold ==
  ASSUME NEW cl, NEW col
  PROVE  /\ Terms(cl, col, 0) = 0
         /\ \A t \in Nat : Terms(cl, col, t + 1)
                           = Terms(cl, col, t) + XDigit(cl, t) * YDigit(cl, col - t)
<1> DEFINE f == [j \in Nat |-> XDigit(cl, j) * YDigit(cl, col - j)]
<1>1. \A t : Terms(cl, col, t) = Sigma(f, t)
  BY DEF Terms
<1>2. \A t \in Nat : f[t] = XDigit(cl, t) * YDigit(cl, col - t)
  OBVIOUS
<1> HIDE DEF f
<1> QED BY <1>1, <1>2, SigmaUnfold

LEMMA RowsUnfold ==
  ASSUME NEW cl, NEW col
  PROVE  /\ Rows(cl, col, 0) = 0
         /\ \A r \in Nat : Rows(cl, col, r + 1)
                           = Rows(cl, col, r) + Pow[r] * XDigit(cl, r) * YPrefix(cl, col - r)
<1> DEFINE f == [j \in Nat |-> Pow[j] * XDigit(cl, j) * YPrefix(cl, col - j)]
<1>1. \A r : Rows(cl, col, r) = Sigma(f, r)
  BY DEF Rows
<1>2. \A r \in Nat : f[r] = Pow[r] * XDigit(cl, r) * YPrefix(cl, col - r)
  OBVIOUS
<1> HIDE DEF f
<1> QED BY <1>1, <1>2, SigmaUnfold

LEMMA TermsType ==
  ASSUME NEW cl, CallOK(cl), NEW col \in Nat
  PROVE  \A t \in Nat : t <= col + 1 => Terms(cl, col, t) \in Nat
<1> DEFINE T == {t \in Nat : t <= col + 1 => Terms(cl, col, t) \in Nat}
<1>1. 0 \in T
  BY TermsUnfold
<1>2. ASSUME NEW t \in Nat, t \in T PROVE t + 1 \in T
  <2>1. SUFFICES ASSUME t + 1 <= col + 1 PROVE Terms(cl, col, t + 1) \in Nat
    OBVIOUS
  <2>2. col - t \in Nat /\ Terms(cl, col, t) \in Nat
    BY <1>2, <2>1
  <2>3. XDigit(cl, t) \in Nat /\ YDigit(cl, col - t) \in Nat
    BY <2>2, Operands DEF Word
  <2>4. XDigit(cl, t) * YDigit(cl, col - t) \in Nat
    BY <2>3
  <2>5. Terms(cl, col, t + 1) = Terms(cl, col, t) + XDigit(cl, t) * YDigit(cl, col - t)
    BY TermsUnfold
  <2> QED BY <2>2, <2>4, <2>5
<1>3. Nat \subseteq T
  <2> HIDE DEF T
  <2> QED BY <1>1, <1>2, SetInduction
<1> QED BY <1>3

LEMMA RowsType ==
  ASSUME NEW cl, CallOK(cl), NEW col \in Nat
  PROVE  \A r \in Nat : r <= col => Rows(cl, col, r) \in Nat
<1> DEFINE T == {r \in Nat : r <= col => Rows(cl, col, r) \in Nat}
<1>1. 0 \in T
  BY RowsUnfold
<1>2. ASSUME NEW r \in Nat, r \in T PROVE r + 1 \in T
  <2>1. SUFFICES ASSUME r + 1 <= col PROVE Rows(cl, col, r + 1) \in Nat
    OBVIOUS
  <2>2. col - r \in Nat /\ Rows(cl, col, r) \in Nat
    BY <1>2, <2>1
  <2>3. XDigit(cl, r) \in Nat /\ YPrefix(cl, col - r) \in Nat /\ Pow[r] \in Nat
    BY <2>2, Operands, PowType DEF Word
  <2>4. Pow[r] * XDigit(cl, r) * YPrefix(cl, col - r) \in Nat
    BY <2>3
  <2>5. Rows(cl, col, r + 1)
        = Rows(cl, col, r) + Pow[r] * XDigit(cl, r) * YPrefix(cl, col - r)
    BY RowsUnfold
  <2> QED BY <2>2, <2>4, <2>5
<1>3. Nat \subseteq T
  <2> HIDE DEF T
  <2> QED BY <1>1, <1>2, SetInduction
<1> QED BY <1>3

\* Column col added to the columns before it.
LEMMA ColumnsStep ==
  ASSUME NEW cl, CallOK(cl), NEW col \in Nat
  PROVE  Columns(cl, col + 1) = Columns(cl, col) + Pow[col] * Terms(cl, col, col + 1)
<1> DEFINE R(r) == Rows(cl, col, r)
           N(r) == Rows(cl, col + 1, r)
           C(r) == Terms(cl, col, r)
           T == {r \in Nat : r <= col => N(r) = R(r) + Pow[col] * C(r)}
<1>1. 0 \in T
  <2>1. R(0) = 0 /\ N(0) = 0 /\ C(0) = 0
    BY RowsUnfold, TermsUnfold
  <2> QED BY <2>1, PowType
<1>2. ASSUME NEW r \in Nat, r \in T PROVE r + 1 \in T
  <2>1. SUFFICES ASSUME r + 1 <= col PROVE N(r + 1) = R(r + 1) + Pow[col] * C(r + 1)
    OBVIOUS
  <2> DEFINE s == col - r
             X == XDigit(cl, r)
             Y == YPrefix(cl, s)
             y == YDigit(cl, s)
  <2>2. s \in Nat /\ (col + 1) - r = s + 1 /\ r + s = col /\ r <= col
    BY <2>1
  <2>3. N(r) = R(r) + Pow[col] * C(r)
    BY <1>2, <2>2
  <2>4. R(r + 1) = R(r) + Pow[r] * X * Y
    BY RowsUnfold
  <2>5. N(r + 1) = N(r) + Pow[r] * X * YPrefix(cl, s + 1)
    <3>1. \A j \in Nat : Rows(cl, col + 1, j + 1)
            = Rows(cl, col + 1, j) + Pow[j] * XDigit(cl, j) * YPrefix(cl, (col + 1) - j)
      BY RowsUnfold
    <3> QED BY <2>2, <3>1
  <2>6. C(r + 1) = C(r) + X * y
    BY TermsUnfold
  <2>7. YPrefix(cl, s + 1) = Y + Pow[s] * y
    BY <2>2, Operands
  <2>8. X \in Nat /\ Y \in Nat /\ y \in Nat /\ Pow[r] \in Nat /\ Pow[s] \in Nat
        /\ Pow[col] \in Nat /\ Pow[r] * Pow[s] = Pow[col]
    <3>1. X \in Word /\ y \in Word /\ Y \in Nat
      BY <2>2, Operands
    <3>2. Pow[r] * Pow[s] = Pow[col]
      BY <2>2, PowSum
    <3> QED BY <2>2, <3>1, <3>2, PowType DEF Word
  <2>9. R(r) \in Nat /\ C(r) \in Nat
    BY <2>2, RowsType, TermsType
  <2> HIDE DEF s, X, Y, y, R, N, C
  <2>10. Pow[r] * X * (Y + Pow[s] * y) = Pow[r] * X * Y + (Pow[r] * Pow[s]) * (X * y)
    BY <2>8
  <2>11. Pow[col] * (C(r) + X * y) = Pow[col] * C(r) + Pow[col] * (X * y)
    BY <2>8, <2>9
  <2>12. /\ Pow[r] * X * Y \in Nat /\ Pow[col] * (X * y) \in Nat
         /\ Pow[col] * C(r) \in Nat
    BY <2>8, <2>9
  <2> QED BY <2>3, <2>4, <2>5, <2>6, <2>7, <2>8, <2>9, <2>10, <2>11, <2>12
<1>3. Nat \subseteq T
  <2> HIDE DEF T
  <2> QED BY <1>1, <1>2, SetInduction
<1>4. N(col) = R(col) + Pow[col] * C(col)
  BY <1>3
<1> DEFINE X == XDigit(cl, col)
           y == YDigit(cl, 0)
<1>5. N(col + 1) = N(col) + Pow[col] * X * YPrefix(cl, 1) /\ C(col + 1) = C(col) + X * y
  <2>1. (col + 1) - col = 1 /\ col - col = 0
    OBVIOUS
  <2>2. N(col + 1) = N(col) + Pow[col] * X * YPrefix(cl, (col + 1) - col)
    BY RowsUnfold
  <2>3. C(col + 1) = C(col) + X * YDigit(cl, col - col)
    BY TermsUnfold
  <2> HIDE DEF N, C, X
  <2> QED BY <2>1, <2>2, <2>3
<1>6. YPrefix(cl, 1) = y
  <2>1. YPrefix(cl, 0 + 1) = YPrefix(cl, 0) + Pow[0] * YDigit(cl, 0) /\ YDigit(cl, 0) \in Nat
    BY Operands DEF Word
  <2> QED BY <2>1, YPrefixZero, PowStep
<1>7. /\ R(col) \in Nat /\ C(col) \in Nat /\ X \in Nat /\ y \in Nat
      /\ Pow[col] \in Nat
  <2>1. R(col) \in Nat /\ C(col) \in Nat
    BY RowsType, TermsType
  <2>2. X \in Word /\ y \in Word
    BY Operands
  <2> HIDE DEF R, C, X, y
  <2> QED BY <2>1, <2>2, PowType DEF Word
<1>8. N(col + 1) = R(col) + Pow[col] * C(col + 1)
  <2> HIDE DEF N, R, C, X, y
  <2>1. Pow[col] * X * y = Pow[col] * (X * y)
        /\ Pow[col] * (C(col) + X * y) = Pow[col] * C(col) + Pow[col] * (X * y)
    BY <1>7
  <2>2. Pow[col] * (X * y) \in Nat /\ Pow[col] * C(col) \in Nat
    BY <1>7
  <2> QED BY <1>4, <1>5, <1>6, <1>7, <2>1, <2>2
<1> QED BY <1>8 DEF Columns

\* The columns before col are the product modulo B^col.
LEMMA ProductSplit ==
  ASSUME NEW cl, CallOK(cl), NEW col \in Nat
  PROVE  \E q \in Nat : BignumFromMemory(cl.mem, cl.x, cl.m)
                          * BignumFromMemory(cl.mem, cl.y, cl.n)
                        = Pow[col] * q + Columns(cl, col)
<1> DEFINE a == BignumFromMemory(cl.mem, cl.x, cl.m)
           b == BignumFromMemory(cl.mem, cl.y, cl.n)
           X(r) == Prefix(cl.mem, cl.x, cl.m, r)
           R(r) == Rows(cl, col, r)
           P == Pow[col]
           T == {r \in Nat : r <= col => \E q \in Nat : X(r) * b = P * q + R(r)}
<1>1. /\ cl.mem \in Memory /\ cl.x \in Int /\ cl.y \in Int /\ cl.m \in Nat /\ cl.n \in Nat
      /\ InMemory(cl.x, cl.m) /\ InMemory(cl.y, cl.n)
  BY CallTypes DEF CallOK
<1>2. P \in Nat /\ a \in Nat /\ b \in Nat
  BY <1>1, PrefixSplit, PowType
<1>3. 0 \in T
  <2>1. X(0) = 0
    BY <1>1, ValueUnfold DEF Prefix, Lesser
  <2>2. R(0) = 0
    BY RowsUnfold
  <2> HIDE DEF X, R, P, b
  <2>3. X(0) * b = P * 0 + R(0)
    BY <1>2, <2>1, <2>2
  <2> QED BY <2>3
<1>4. ASSUME NEW r \in Nat, r \in T PROVE r + 1 \in T
  <2>1. SUFFICES ASSUME r + 1 <= col
                 PROVE  \E q \in Nat : X(r + 1) * b = P * q + R(r + 1)
    OBVIOUS
  <2> DEFINE s == col - r
             x == XDigit(cl, r)
             Y == YPrefix(cl, s)
  <2>2. s \in Nat /\ r + s = col /\ r <= col
    BY <2>1
  <2>3. PICK q \in Nat : X(r) * b = P * q + R(r)
    BY <1>4, <2>2
  <2>4. PICK u \in Nat : b = Pow[s] * u + Y
    BY <1>1, <2>2, PrefixSplit DEF YPrefix
  <2>5. X(r + 1) = X(r) + Pow[r] * x /\ X(r) \in Nat
    BY <1>1, PrefixStep DEF XDigit
  <2>6. R(r + 1) = R(r) + Pow[r] * x * Y
    BY RowsUnfold
  <2>7. x \in Word /\ Y \in Nat
    BY <2>2, Operands
  <2>8. Pow[r] * Pow[s] = P
    BY <2>2, PowSum
  <2>9. R(r) \in Nat /\ Pow[r] \in Nat /\ Pow[s] \in Nat
    BY <2>2, RowsType, PowType
  <2> HIDE DEF s, x, Y, X, R, P, b
  <2>10. x \in Nat
    BY <2>7 DEF Word
  <2>11. (X(r) + Pow[r] * x) * b = X(r) * b + Pow[r] * x * b
    BY <1>2, <2>5, <2>9, <2>10
  <2>12. Pow[r] * x * (Pow[s] * u + Y) = (Pow[r] * Pow[s]) * (x * u) + Pow[r] * x * Y
    BY <2>7, <2>9, <2>10
  <2>13. P * (q + x * u) = P * q + P * (x * u) /\ q + x * u \in Nat
    BY <1>2, <2>10
  <2>14. /\ P * q \in Nat /\ P * (x * u) \in Nat /\ Pow[r] * x * Y \in Nat
    BY <1>2, <2>7, <2>9, <2>10
  <2>15. X(r + 1) * b = P * (q + x * u) + R(r + 1)
    BY <2>3, <2>4, <2>5, <2>6, <2>8, <2>9, <2>11, <2>12, <2>13, <2>14
  <2> QED BY <2>13, <2>15
<1>5. Nat \subseteq T
  <2> HIDE DEF T
  <2> QED BY <1>3, <1>4, SetInduction
<1>6. PICK q \in Nat : X(col) * b = P * q + R(col)
  BY <1>5
<1>7. PICK v \in Nat : a = P * v + X(col)
  BY <1>1, PrefixSplit
<1>8. X(col) \in Nat /\ R(col) \in Nat
  <2>1. X(col) \in Nat
    BY <1>1, PrefixStep
  <2>2. R(col) \in Nat
    BY RowsType
  <2> QED BY <2>1, <2>2
<1> HIDE DEF a, b, X, R, P
<1>9. (P * v + X(col)) * b = P * (v * b) + X(col) * b
  BY <1>2, <1>8
<1>10. P * (v * b + q) = P * (v * b) + P * q /\ v * b + q \in Nat
  BY <1>2
<1>11. P * (v * b) \in Nat /\ P * q \in Nat
  BY <1>2
<1>12. a * b = P * (v * b + q) + R(col)
  BY <1>6, <1>7, <1>8, <1>9, <1>10, <1>11
<1> QED BY <1>10, <1>12 DEF Columns, a, b, R, P

\* The first and the last term of a column that can be different from zero; the
\* column is empty when there is none.
IsFirst(cl, col, f) == f = IF col + 1 >= cl.n THEN col + 1 - cl.n ELSE 0
IsLast(cl, col, e) == e = Lesser(col + 1, cl.m)

LEMMA TermsBefore ==
  ASSUME NEW cl, CallOK(cl), NEW col \in Nat, NEW f, IsFirst(cl, col, f)
  PROVE  \A t \in Nat : t <= f => Terms(cl, col, t) = 0
<1> DEFINE T == {t \in Nat : t <= f => Terms(cl, col, t) = 0}
<1>1. 0 \in T
  BY TermsUnfold
<1>2. ASSUME NEW t \in Nat, t \in T PROVE t + 1 \in T
  <2>1. SUFFICES ASSUME t + 1 <= f PROVE Terms(cl, col, t + 1) = 0
    OBVIOUS
  <2>2. f \in Nat /\ t <= f /\ ~(col - t < cl.n)
    BY <2>1, CallTypes DEF IsFirst
  <2>3. Terms(cl, col, t) = 0
    BY <1>2, <2>2
  <2>4. YDigit(cl, col - t) = 0
    BY <2>2 DEF YDigit, Digit
  <2>5. XDigit(cl, t) \in Nat
    BY Operands DEF Word
  <2>6. Terms(cl, col, t + 1) = Terms(cl, col, t) + XDigit(cl, t) * YDigit(cl, col - t)
    BY TermsUnfold
  <2> QED BY <2>3, <2>4, <2>5, <2>6
<1>3. Nat \subseteq T
  <2> HIDE DEF T
  <2> QED BY <1>1, <1>2, SetInduction
<1> QED BY <1>3

LEMMA TermsAfter ==
  ASSUME NEW cl, CallOK(cl), NEW col \in Nat, NEW e, IsLast(cl, col, e)
  PROVE  Terms(cl, col, col + 1) = Terms(cl, col, e)
<1> DEFINE T == {d \in Nat : e + d <= col + 1 => Terms(cl, col, e + d) = Terms(cl, col, e)}
<1>0. e \in Nat /\ e <= col + 1 /\ (e # col + 1 => e = cl.m)
  BY CallTypes DEF IsLast, Lesser
<1>1. 0 \in T
  BY <1>0
<1>2. ASSUME NEW d \in Nat, d \in T PROVE d + 1 \in T
  <2> DEFINE t == e + d
  <2>1. SUFFICES ASSUME t + 1 <= col + 1 PROVE Terms(cl, col, t + 1) = Terms(cl, col, e)
    BY <1>0
  <2>2. t \in Nat /\ col - t \in Nat /\ t <= col + 1 /\ ~(t < cl.m)
    BY <1>0, <2>1, CallTypes
  <2>3. Terms(cl, col, t) = Terms(cl, col, e)
    BY <1>2, <2>2
  <2> HIDE DEF t
  <2>4. XDigit(cl, t) = 0
    BY <2>2 DEF XDigit, Digit
  <2>5. YDigit(cl, col - t) \in Nat
    BY <2>2, Operands DEF Word
  <2>6. Terms(cl, col, t + 1) = Terms(cl, col, t) + XDigit(cl, t) * YDigit(cl, col - t)
    BY <2>2, TermsUnfold
  <2>7. Terms(cl, col, t) \in Nat
    BY <2>2, TermsType
  <2> QED BY <2>3, <2>4, <2>5, <2>6, <2>7
<1>3. Nat \subseteq T
  <2> HIDE DEF T
  <2> QED BY <1>1, <1>2, SetInduction
<1>4. (col + 1) - e \in T /\ e + ((col + 1) - e) = col + 1
  BY <1>0, <1>3
<1> QED BY <1>4

\* A column with no term in reach contributes nothing.
LEMMA EmptyColumn ==
  ASSUME NEW cl, CallOK(cl), NEW col \in Nat, NEW f, IsFirst(cl, col, f),
         NEW e, IsLast(cl, col, e), e <= f
  PROVE  Terms(cl, col, col + 1) = 0
<1>1. e \in Nat
  BY CallTypes DEF IsLast, Lesser
<1>2. Terms(cl, col, e) = 0
  BY <1>1, TermsBefore
<1> QED BY <1>2, TermsAfter

LEMMA CarryChain ==
  ASSUME NEW l0 \in Nat, NEW h0 \in Nat, NEW c0 \in Nat,
         NEW q1 \in Nat, NEW r1 \in Nat, NEW q2 \in Nat, NEW r2 \in Nat,
         NEW q3 \in Nat, NEW r3 \in Nat,
         l0 + r1 = B * q2 + r2, h0 + q1 + q2 = B * q3 + r3
  PROVE  r2 + B * r3 + B * B * (c0 + q3) = l0 + B * h0 + B * B * c0 + (B * q1 + r1)
<1>1. B \in Nat
  BY BaseAssumption
<1>2. B * B * (c0 + q3) = B * B * c0 + B * (B * q3)
  BY <1>1
<1>3. B * (B * q3) + B * r3 = B * h0 + B * q1 + B * q2
  <2>1. B * (B * q3 + r3) = B * (B * q3) + B * r3
    BY <1>1
  <2>2. B * (h0 + q1 + q2) = B * h0 + B * q1 + B * q2
    BY <1>1
  <2> QED BY <2>1, <2>2
<1>4. /\ B * B * c0 \in Nat /\ B * (B * q3) \in Nat /\ B * r3 \in Nat
      /\ B * h0 \in Nat /\ B * q1 \in Nat /\ B * q2 \in Nat
  BY <1>1
<1> QED BY <1>2, <1>3, <1>4

LEMMA DivMod ==
  ASSUME NEW v \in Nat
  PROVE  v \div B \in Nat /\ v % B \in Word /\ v = B * (v \div B) + (v % B)
BY BaseAssumption DEF Word

\* The accumulator holds no more than two words and t products.
AtMost(l0, h0, c0, t) ==
  l0 + B * h0 + B * B * c0 <= B * B - 1 + t * ((B - 1) * (B - 1))

\* The three words that mul, umulh, adds, adcs and adc leave are the exact sum.
AddsProduct(l0, h0, c0, a, b, t) ==
  LET prod == a * b
      low  == l0 + (prod % B)
      mid  == h0 + (prod \div B) + (low \div B)
      top  == (c0 + (mid \div B)) % B
  IN  /\ low % B \in Word /\ mid % B \in Word /\ top \in Word
      /\ (low % B) + B * (mid % B) + B * B * top = l0 + B * h0 + B * B * c0 + prod
      /\ AtMost(low % B, mid % B, top, t + 1)

\* The accumulator takes one more product without overflow while fewer than
\* B + 1 of them have been added to two words.
LEMMA AccumulatorStep ==
  ASSUME NEW l0 \in Word, NEW h0 \in Word, NEW c0 \in Word,
         NEW a \in Word, NEW b \in Word, NEW t \in Nat, t <= B,
         AtMost(l0, h0, c0, t)
  PROVE  AddsProduct(l0, h0, c0, a, b, t)
<1> DEFINE prod == a * b
           low == l0 + (prod % B)
           mid == h0 + (prod \div B) + (low \div B)
           top == c0 + (mid \div B)
           M == (B - 1) * (B - 1)
           v == l0 + B * h0 + B * B * c0 + prod
<1>1. B \in Nat /\ B > 1 /\ l0 \in Nat /\ h0 \in Nat /\ c0 \in Nat
      /\ a \in Nat /\ b \in Nat /\ a <= B - 1 /\ b <= B - 1
  BY BaseAssumption DEF Word
<1>2. prod \in Nat /\ prod <= M /\ M \in Nat
  <2>1. a * b <= (B - 1) * b /\ (B - 1) * b <= (B - 1) * (B - 1)
    BY <1>1
  <2>2. a * b \in Nat /\ (B - 1) * b \in Nat /\ (B - 1) * (B - 1) \in Nat
    BY <1>1
  <2> QED BY <2>1, <2>2
<1> HIDE DEF prod
<1>3. /\ prod \div B \in Nat /\ prod % B \in Word
      /\ prod = B * (prod \div B) + (prod % B)
  BY <1>2, DivMod
<1>4. low \in Nat
  BY <1>1, <1>3 DEF Word
<1> HIDE DEF low
<1>5. low \div B \in Nat /\ low % B \in Word /\ low = B * (low \div B) + (low % B)
  BY <1>4, DivMod
<1>6. mid \in Nat
  BY <1>1, <1>3, <1>5
<1> HIDE DEF mid
<1>7. mid \div B \in Nat /\ mid % B \in Word /\ mid = B * (mid \div B) + (mid % B)
  BY <1>6, DivMod
<1>8. top \in Nat
  BY <1>1, <1>7
<1> HIDE DEF top
<1>9. (low % B) + B * (mid % B) + B * B * top = v
  <2> DEFINE q1 == prod \div B
             r1 == prod % B
             q2 == low \div B
             r2 == low % B
             q3 == mid \div B
             r3 == mid % B
  <2>1. q1 \in Nat /\ r1 \in Nat /\ q2 \in Nat /\ r2 \in Nat /\ q3 \in Nat /\ r3 \in Nat
    BY <1>1, <1>3, <1>5, <1>7 DEF Word
  <2>2. l0 + r1 = B * q2 + r2 /\ h0 + q1 + q2 = B * q3 + r3
    BY <1>5, <1>7 DEF low, mid
  <2>3. prod = B * q1 + r1
    BY <1>3
  <2>4. top = c0 + q3
    BY DEF top
  <2> HIDE DEF q1, r1, q2, r2, q3, r3
  <2>5. r2 + B * r3 + B * B * (c0 + q3) = l0 + B * h0 + B * B * c0 + (B * q1 + r1)
    BY <1>1, <2>1, <2>2, CarryChain
  <2> QED BY <2>3, <2>4, <2>5 DEF v, r2, r3
<1>10. v <= B * B - 1 + (t + 1) * M
  <2>1. (t + 1) * M = t * M + M
    BY <1>2
  <2>2. l0 + B * h0 + B * B * c0 <= B * B - 1 + t * M
    BY DEF AtMost
  <2>3. B * h0 \in Nat /\ B * B * c0 \in Nat /\ B * B \in Nat /\ t * M \in Nat
    BY <1>1, <1>2
  <2> HIDE DEF M
  <2> QED BY <1>1, <1>2, <2>1, <2>2, <2>3 DEF v
<1>11. v < B * B * B
  <2>1. (t + 1) * M <= (B + 1) * M
    BY <1>1, <1>2
  <2>2. (B + 1) * M = B * B * B - B * B - B + 1
    BY <1>1
  <2> QED BY <1>1, <1>2, <1>10, <2>1, <2>2
<1>12. top < B
  <2>1. B * B * top <= v
    BY <1>1, <1>5, <1>7, <1>8, <1>9 DEF Word
  <2>2. B * B * top < B * B * B
    BY <1>1, <1>8, <1>11, <2>1, <1>2 DEF v
  <2> QED BY <1>1, <1>8, <2>2
<1>13. top % B = top /\ top \in Word
  BY <1>1, <1>8, <1>12 DEF Word
<1>14. AtMost(low % B, mid % B, top % B, t + 1)
  BY <1>9, <1>10, <1>13 DEF AtMost, M
<1> QED BY <1>5, <1>7, <1>9, <1>13, <1>14 DEF AddsProduct, prod, low, mid, top, v
-----------------------------------------------------------------------------
\* Where the loops stand.  The bound on the accumulator counts the terms that
\* were added since the column began with two words.
Loops ==
  /\ pc = "entry" => k = 0
  /\ pc = "innerloop" =>
       /\ i \in Nat /\ 0 < i /\ i <= Last(k) - First(k)
       /\ xx = call.x + (Last(k) - i)
       /\ yy = call.y + k - Last(k)
       /\ AtMost(l, h, c, Last(k) - i - First(k))
  /\ pc = "end" => k = call.p

\* Only the first k words of z have been written.
PrefixWritten == MayChange(call.mem, mem, Block(call.z, k))

IInv == TypeOK /\ CallOK(call) /\ Loops /\ PrefixWritten /\ PartialProduct

LEMMA InitIInv == Init => IInv
<1> SUFFICES ASSUME Init PROVE IInv
  OBVIOUS
<1>1. CallOK(call)
  BY DEF Init, CallOK
<1>2. TypeOK
  <2>1. call.p \in Nat /\ 0 \in Word
    BY <1>1, CallTypes, BaseAssumption DEF Word
  <2> QED BY <2>1 DEF Init, TypeOK
<1>3. Loops /\ PrefixWritten /\ PartialProduct
  BY DEF Init, Loops, PrefixWritten, MayChange, PartialProduct
<1> QED BY <1>1, <1>2, <1>3 DEF IInv

\* The terms the inner loop visits lie inside both sources.
LEMMA ColumnBounds ==
  ASSUME CallOK(call), k \in Nat
  PROVE  /\ First(k) \in Nat /\ Last(k) \in Nat
         /\ Last(k) <= k + 1 /\ Last(k) <= call.m /\ Last(k) - First(k) <= B + 1
         /\ IsFirst(call, k, First(k)) /\ IsLast(call, k, Last(k))
         /\ \A j \in Nat : First(k) <= j /\ j < Last(k) => k - j \in Nat /\ k - j < call.n
<1>1. call.m \in Nat /\ call.n \in Nat /\ call.m <= MaxSize /\ MaxSize <= B + 1
      /\ MaxSize \in Nat /\ B \in Nat
  BY CallTypes, ColumnAssumption, SizeAssumption, BaseAssumption
<1> QED BY <1>1 DEF First, Last, Lesser, IsFirst, IsLast

\* A word of a source still has the value it had at entry.
LEMMA SourceWords ==
  ASSUME TypeOK, CallOK(call), PrefixWritten, NEW j \in Nat
  PROVE  /\ j < call.m => /\ call.x + j \in Block(call.x, call.m)
                          /\ mem[call.x + j] = XDigit(call, j)
         /\ j < call.n => /\ call.y + j \in Block(call.y, call.n)
                          /\ mem[call.y + j] = YDigit(call, j)
<1>1. /\ call.p \in Nat /\ call.m \in Nat /\ call.n \in Nat
      /\ call.z \in Nat /\ call.x \in Nat /\ call.y \in Nat /\ k \in Nat /\ k <= call.p
  BY CallTypes DEF TypeOK
<1>2. Block(call.z, k) \subseteq Block(call.z, call.p)
  BY <1>1 DEF Block
<1>3. ASSUME j < call.m
      PROVE  call.x + j \in Block(call.x, call.m) /\ mem[call.x + j] = XDigit(call, j)
  <2>1. call.x + j \in Block(call.x, call.m)
    BY <1>1, <1>3 DEF Block
  <2>2. call.x + j \in Addr /\ call.x + j \notin Block(call.z, call.p)
    BY <2>1 DEF CallOK, InMemory, Nonoverlapping
  <2> QED BY <1>2, <1>3, <2>1, <2>2 DEF PrefixWritten, MayChange, XDigit, Digit
<1>4. ASSUME j < call.n
      PROVE  call.y + j \in Block(call.y, call.n) /\ mem[call.y + j] = YDigit(call, j)
  <2>1. call.y + j \in Block(call.y, call.n)
    BY <1>1, <1>4 DEF Block
  <2>2. call.y + j \in Addr /\ call.y + j \notin Block(call.z, call.p)
    BY <2>1 DEF CallOK, InMemory, Nonoverlapping
  <2> QED BY <1>2, <1>4, <2>1, <2>2 DEF PrefixWritten, MayChange, YDigit, Digit
<1> QED BY <1>3, <1>4

LEMMA EntryStep == IInv /\ Entry => IInv'
<1> SUFFICES ASSUME IInv, Entry PROVE IInv'
  OBVIOUS
<1>1. /\ call' = call /\ mem' = mem /\ k' = 0 /\ l' = 0 /\ h' = 0 /\ c' = c
      /\ pc' = (IF call.p = 0 THEN "end" ELSE "outerloop")
  BY DEF Entry
<1>2. call.p \in Nat /\ 0 \in Word /\ B \in Nat
  BY CallTypes, BaseAssumption DEF IInv, Word
<1>3. TypeOK' /\ CallOK(call)' /\ Loops' /\ PrefixWritten'
  <2>1. TypeOK'
    BY <1>1, <1>2 DEF IInv, TypeOK
  <2>2. CallOK(call)'
    BY <1>1 DEF IInv, CallOK
  <2>3. Loops'
    BY <1>1, <1>2 DEF Loops
  <2>4. k = 0
    BY DEF IInv, Loops, Entry
  <2>5. PrefixWritten'
    BY <1>1, <2>4 DEF IInv, PrefixWritten
  <2> QED BY <2>1, <2>2, <2>3, <2>5
<1>4. PartialProduct'
  <2>1. Top' = 0 /\ Added' = 0
    BY <1>1 DEF Top, Added
  <2>2. BignumFromMemory(mem, call.z, 0) = 0 /\ Columns(call, 0) = 0
    BY ValueUnfold, RowsUnfold DEF Columns
  <2>3. Pow[0] * (0 + B * 0 + B * B * 0) = 0 /\ Pow[0] * 0 = 0
    BY <1>2, PowStep
  <2> QED BY <1>1, <2>1, <2>2, <2>3 DEF PartialProduct
<1> QED BY <1>3, <1>4 DEF IInv

LEMMA OuterLoopStep == IInv /\ OuterLoop => IInv'
<1> SUFFICES ASSUME IInv, OuterLoop PROVE IInv'
  OBVIOUS
<1> DEFINE f == First(k)
           e == Last(k)
<1>1. /\ call' = call /\ mem' = mem /\ k' = k /\ l' = l /\ h' = h /\ c' = 0
      /\ pc = "outerloop"
  BY DEF OuterLoop
<1>2. /\ k \in Nat /\ k < call.p /\ l \in Word /\ h \in Word /\ CallOK(call)
      /\ 0 \in Word /\ B \in Nat /\ B > 1
  BY <1>1, CallTypes, BaseAssumption DEF IInv, TypeOK, Word
<1>3. /\ f \in Nat /\ e \in Nat /\ e <= k + 1 /\ e <= call.m
      /\ IsFirst(call, k, f) /\ IsLast(call, k, e)
      /\ \A j \in Nat : f <= j /\ j < e => k - j \in Nat /\ k - j < call.n
  BY <1>2, ColumnBounds
<1>4. First(k)' = f /\ Last(k)' = e
  BY <1>1 DEF First, Last
<1>5. CallOK(call)' /\ PrefixWritten'
  BY <1>1 DEF IInv, CallOK, PrefixWritten
<1>6. BignumFromMemory(mem, call.z, k) + Pow[k] * (l + B * h + B * B * 0)
      = Columns(call, k) + Pow[k] * 0
  BY <1>1 DEF IInv, PartialProduct, Top, Added
<1>7. CASE f < e
  <2>1. /\ i' = e - f /\ xx' = call.x + f /\ yy' = call.y + k - e /\ pc' = "innerloop"
    BY <1>7 DEF OuterLoop
  <2> HIDE DEF f, e
  <2>2. k - f \in Nat /\ k - f < call.n /\ f < call.m
    <3>1. f <= f /\ call.m \in Nat
      BY <1>2, <1>3, CallTypes
    <3>2. k - f \in Nat /\ k - f < call.n
      BY <1>3, <1>7, <3>1
    <3> QED BY <1>3, <1>7, <3>1, <3>2
  <2>3. call.x + f \in Block(call.x, call.m) /\ call.y + (k - f) \in Block(call.y, call.n)
    BY <1>2, <1>3, <2>2, CallTypes DEF Block
  <2>4. yy' + i' = call.y + (k - f)
    BY <1>2, <1>3, <2>1, CallTypes
  <2>5. TypeOK'
    BY <1>1, <1>2, <2>1, <2>3, <2>4 DEF IInv, TypeOK
  <2>6. AtMost(l, h, 0, 0)
    <3>1. B * h <= B * (B - 1) /\ B * (B - 1) = B * B - B
      BY <1>2 DEF Word
    <3>2. B * h \in Nat /\ B * B \in Nat /\ B * B * 0 = 0 /\ 0 * ((B - 1) * (B - 1)) = 0
      BY <1>2 DEF Word
    <3> QED BY <1>2, <3>1, <3>2 DEF Word, AtMost
  <2>7. Loops'
    <3>1. e - (e - f) = f /\ f - f = 0 /\ e - f \in Nat /\ 0 < e - f
      BY <1>3, <1>7
    <3> QED BY <1>1, <1>4, <2>1, <2>6, <3>1 DEF Loops
  <2>8. PartialProduct'
    <3>1. Added' = Terms(call, k, f)
      <4>1. e - (e - f) = f
        BY <1>3
      <4> QED BY <1>1, <1>4, <2>1, <4>1 DEF Added
    <3>2. Terms(call, k, f) = 0
      BY <1>2, <1>3, TermsBefore
    <3>3. Top' = 0
      BY <1>1, <2>1 DEF Top
    <3> QED BY <1>1, <1>6, <2>1, <3>1, <3>2, <3>3 DEF PartialProduct
  <2> QED BY <1>5, <2>5, <2>7, <2>8 DEF IInv
<1>8. CASE ~(f < e)
  <2>1. pc' = "innerend"
    BY <1>8 DEF OuterLoop
  <2> HIDE DEF f, e
  <2>2. TypeOK' /\ Loops'
    BY <1>1, <1>2, <2>1 DEF IInv, TypeOK, Loops
  <2>3. PartialProduct'
    <3>1. Added' = Terms(call, k, k + 1) /\ Top' = 0
      BY <1>1, <2>1 DEF Added, Top
    <3>2. Terms(call, k, k + 1) = 0
      BY <1>2, <1>3, <1>8, EmptyColumn
    <3> QED BY <1>1, <1>6, <2>1, <3>1, <3>2 DEF PartialProduct
  <2> QED BY <1>5, <2>2, <2>3 DEF IInv
<1> QED BY <1>7, <1>8

LEMMA InnerLoopStep == IInv /\ InnerLoop => IInv'
<1> SUFFICES ASSUME IInv, InnerLoop PROVE IInv'
  OBVIOUS
<1> DEFINE f == First(k)
           e == Last(k)
           j == e - i
           a == mem[xx]
           b == mem[yy + i]
           prod == a * b
           low == l + (prod % B)
           mid == h + (prod \div B) + (low \div B)
           Z == BignumFromMemory(mem, call.z, k)
<1>1. /\ call' = call /\ mem' = mem /\ k' = k /\ yy' = yy /\ xx' = xx + 1 /\ i' = i - 1
      /\ l' = low % B /\ h' = mid % B /\ c' = (c + (mid \div B)) % B
      /\ pc = "innerloop" /\ pc' = (IF i' # 0 THEN "innerloop" ELSE "innerend")
  BY DEF InnerLoop
<1>2. /\ k \in Nat /\ k < call.p /\ l \in Word /\ h \in Word /\ c \in Word
      /\ CallOK(call) /\ B \in Nat /\ B > 1 /\ PrefixWritten /\ TypeOK
  BY <1>1, CallTypes, BaseAssumption DEF IInv, TypeOK, Word
<1>3. /\ f \in Nat /\ e \in Nat /\ e <= k + 1 /\ e <= call.m /\ e - f <= B + 1
      /\ IsFirst(call, k, f) /\ IsLast(call, k, e)
      /\ \A q \in Nat : f <= q /\ q < e => k - q \in Nat /\ k - q < call.n
  BY <1>2, ColumnBounds
<1>4. First(k)' = f /\ Last(k)' = e
  BY <1>1 DEF First, Last
<1>5. CallOK(call)' /\ PrefixWritten'
  BY <1>1 DEF IInv, CallOK, PrefixWritten
<1>6. /\ i \in Nat /\ 0 < i /\ i <= e - f
      /\ xx = call.x + j /\ yy = call.y + k - e
      /\ AtMost(l, h, c, j - f)
  BY <1>1 DEF IInv, Loops
<1>7. Z + Pow[k] * (l + B * h + B * B * c) = Columns(call, k) + Pow[k] * Terms(call, k, j)
  BY <1>1 DEF IInv, PartialProduct, Top, Added
<1> HIDE DEF f, e
<1>8. /\ j \in Nat /\ f <= j /\ j < e /\ j < call.m /\ j <= k
      /\ k - j \in Nat /\ k - j < call.n /\ j - f \in Nat /\ j - f <= B
  <2>1. j \in Nat /\ f <= j /\ j < e /\ j <= k /\ j - f \in Nat /\ j - f <= B
    BY <1>2, <1>3, <1>6
  <2>2. k - j \in Nat /\ k - j < call.n
    BY <1>3, <2>1
  <2>3. j < call.m
    BY <1>2, <1>3, <2>1, CallTypes
  <2> QED BY <2>1, <2>2, <2>3
<1>9. yy + i = call.y + (k - j)
  BY <1>2, <1>3, <1>6, CallTypes
<1>10. /\ a = XDigit(call, j) /\ b = YDigit(call, k - j) /\ a \in Word /\ b \in Word
  <2>1. a = XDigit(call, j)
    BY <1>2, <1>6, <1>8, SourceWords
  <2>2. b = YDigit(call, k - j)
    BY <1>2, <1>8, <1>9, SourceWords
  <2> QED BY <1>2, <1>8, <2>1, <2>2, Operands
<1> HIDE DEF j, a, b
<1>11. /\ l' \in Word /\ h' \in Word /\ c' \in Word
       /\ l' + B * h' + B * B * c' = l + B * h + B * B * c + a * b
       /\ AtMost(l', h', c', (j - f) + 1)
  <2>1. AddsProduct(l, h, c, a, b, j - f)
    BY <1>2, <1>6, <1>8, <1>10, AccumulatorStep
  <2> QED BY <1>1, <2>1 DEF AddsProduct
<1> HIDE DEF prod, low, mid
<1>12. e - i' = j + 1 /\ i' \in Nat /\ i' <= e - f /\ (j + 1) - f = (j - f) + 1
  BY <1>1, <1>3, <1>6, <1>8 DEF j
<1>13. TypeOK'
  <2>1. CASE i' = 0
    BY <1>1, <1>2, <1>11, <2>1 DEF TypeOK
  <2>2. CASE i' # 0
    <3>1. /\ j + 1 \in Nat /\ j + 1 < call.m /\ k - (j + 1) \in Nat /\ k - (j + 1) < call.n
      <4>1. j + 1 \in Nat /\ f <= j + 1 /\ j + 1 < e
        <5>1. e \in Nat /\ i' > 0
          BY <1>3, <1>12, <2>2
        <5>2. j + 1 \in Nat /\ f <= j + 1
          BY <1>3, <1>8
        <5>3. \A p, q, r \in Nat : q > 0 /\ p - q = r => r < p
          OBVIOUS
        <5>4. j + 1 < e
          BY <1>12, <5>1, <5>2, <5>3
        <5> QED BY <5>2, <5>4
      <4>2. k - (j + 1) \in Nat /\ k - (j + 1) < call.n
        BY <1>3, <4>1
      <4> QED BY <1>2, <1>3, <4>1, <4>2, CallTypes
    <3>2. xx' = call.x + (j + 1) /\ yy' + i' = call.y + (k - (j + 1))
      BY <1>1, <1>2, <1>3, <1>6, <1>8, <1>9, CallTypes
    <3>3. xx' \in Block(call.x, call.m) /\ yy' + i' \in Block(call.y, call.n)
      BY <1>2, <3>1, <3>2, SourceWords
    <3> QED BY <1>1, <1>2, <1>11, <2>2, <3>3 DEF TypeOK
  <2> QED BY <2>1, <2>2
<1>14. Loops'
  <2>1. CASE i' = 0
    BY <1>1, <2>1 DEF Loops
  <2>2. CASE i' # 0
    <3>1. xx' = call.x + (j + 1) /\ yy' = call.y + k - e /\ 0 < i'
      BY <1>1, <1>2, <1>6, <1>8, <1>12, <2>2, CallTypes
    <3>2. AtMost(l', h', c', (j + 1) - f)
      BY <1>11, <1>12
    <3> QED BY <1>1, <1>4, <1>12, <2>2, <3>1, <3>2 DEF Loops
  <2> QED BY <2>1, <2>2
<1>15. PartialProduct'
  <2>1. Terms(call, k, j + 1) = Terms(call, k, j) + a * b
    <3>1. Terms(call, k, j + 1) = Terms(call, k, j) + XDigit(call, j) * YDigit(call, k - j)
      BY <1>8, TermsUnfold
    <3> QED BY <1>10, <3>1
  <2>2. Added' = Terms(call, k, j + 1)
    <3>1. CASE i' # 0
      BY <1>1, <1>4, <1>12, <3>1 DEF Added
    <3>2. CASE i' = 0
      <4>1. e = j + 1
        BY <1>3, <1>12, <3>2
      <4>2. Terms(call, k, k + 1) = Terms(call, k, e)
        BY <1>2, <1>3, TermsAfter
      <4> QED BY <1>1, <3>2, <4>1, <4>2 DEF Added
    <3> QED BY <3>1, <3>2
  <2>3. Top' = c'
    BY <1>1 DEF Top
  <2>4. Z + Pow[k] * (l' + B * h' + B * B * c')
        = Columns(call, k) + Pow[k] * (Terms(call, k, j) + a * b)
    <3> DEFINE v == l + B * h + B * B * c
               t == Terms(call, k, j)
               C == Columns(call, k)
               w == a * b
    <3>1. v \in Nat /\ w \in Nat
      BY <1>2, <1>10 DEF Word
    <3>2. t \in Nat /\ C \in Nat
      <4>1. j <= k + 1
        BY <1>2, <1>8
      <4> QED BY <1>2, <1>8, <4>1, TermsType, RowsType DEF Columns
    <3>3. Z \in Nat /\ Pow[k] \in Nat
      <4>1. Block(call.z, k) \subseteq Addr /\ mem \in Memory /\ call.z \in Int
        BY <1>2, CallTypes DEF CallOK, InMemory, Block, TypeOK
      <4> QED BY <1>2, <4>1, ValueType, PowType
    <3>4. Z + Pow[k] * v = C + Pow[k] * t
      BY <1>7
    <3>5. l' + B * h' + B * B * c' = v + w
      BY <1>11
    <3> HIDE DEF v, t, C, w, Z
    <3>6. Pow[k] * (v + w) = Pow[k] * v + Pow[k] * w /\ Pow[k] * (t + w) = Pow[k] * t + Pow[k] * w
      BY <3>1, <3>2, <3>3
    <3>7. Pow[k] * v \in Nat /\ Pow[k] * w \in Nat /\ Pow[k] * t \in Nat
      BY <3>1, <3>2, <3>3
    <3>8. Z + Pow[k] * (v + w) = C + Pow[k] * (t + w)
      BY <3>2, <3>3, <3>4, <3>6, <3>7
    <3> QED BY <3>5, <3>8 DEF t, C, w
  <2> QED BY <1>1, <2>1, <2>2, <2>3, <2>4 DEF PartialProduct, Z
<1> QED BY <1>5, <1>13, <1>14, <1>15 DEF IInv

LEMMA InnerEndStep == IInv /\ InnerEnd => IInv'
<1> SUFFICES ASSUME IInv, InnerEnd PROVE IInv'
  OBVIOUS
<1> DEFINE Z == BignumFromMemory(mem, call.z, k)
<1>1. /\ call' = call /\ mem' = [mem EXCEPT ![call.z + k] = l] /\ l' = h /\ h' = c /\ c' = c
      /\ k' = k + 1 /\ pc = "innerend"
      /\ pc' = (IF k' < call.p THEN "outerloop" ELSE "end")
  BY DEF InnerEnd
<1>2. /\ k \in Nat /\ k < call.p /\ l \in Word /\ h \in Word /\ c \in Word /\ call.p \in Nat
      /\ CallOK(call) /\ B \in Nat /\ PrefixWritten /\ mem \in Memory /\ call.z \in Nat
  BY <1>1, CallTypes, BaseAssumption DEF IInv, TypeOK
<1>3. Block(call.z, k) \subseteq Addr /\ call.z + k \in Addr
  BY <1>2 DEF CallOK, InMemory, Block
<1>4. /\ mem' \in Memory
      /\ BignumFromMemory(mem', call.z, k + 1) = Z + Pow[k] * l
  <2>1. call.z \in Int
    BY <1>2
  <2>2. /\ [mem EXCEPT ![call.z + k] = l] \in Memory
        /\ BignumFromMemory([mem EXCEPT ![call.z + k] = l], call.z, k + 1) = Z + Pow[k] * l
    BY <1>2, <1>3, <2>1, AppendWord
  <2> QED BY <1>1, <2>2
<1>5. TypeOK' /\ Loops'
  BY <1>1, <1>2, <1>4 DEF TypeOK, Loops
<1>6. CallOK(call)'
  BY <1>1, <1>2 DEF CallOK
<1>7. PrefixWritten'
  <2>1. call.z \in Int /\ MayChange(call.mem, mem, Block(call.z, k))
    BY <1>2 DEF PrefixWritten
  <2>2. MayChange(call.mem, [mem EXCEPT ![call.z + k] = l], Block(call.z, k + 1))
    BY <1>2, <2>1, FrameGrows
  <2> QED BY <1>1, <2>2 DEF PrefixWritten
<1>8. PartialProduct'
  <2> DEFINE t == Terms(call, k, k + 1)
             C == Columns(call, k)
             P == Pow[k]
  <2>1. Top' = 0 /\ Added' = 0
    BY <1>1 DEF Top, Added
  <2>2. Z + P * (l + B * h + B * B * c) = C + P * t
    BY <1>1 DEF IInv, PartialProduct, Top, Added
  <2>3. Columns(call, k + 1) = C + P * t
    BY <1>2, ColumnsStep
  <2>4. Pow[k + 1] = B * P /\ P \in Nat /\ Pow[k + 1] \in Nat
    BY <1>2, PowStep, PowType
  <2>5. Z \in Nat
    <3>1. call.z \in Int
      BY <1>2
    <3> QED BY <1>2, <1>3, <3>1, <2>4, ValueType
  <2>6. t \in Nat /\ C \in Nat
    BY <1>2, TermsType, RowsType DEF Columns
  <2>7. l \in Nat /\ h \in Nat /\ c \in Nat
    BY <1>2 DEF Word
  <2> HIDE DEF t, C, P, Z
  <2>8. P * (l + B * h + B * B * c) = P * l + (B * P) * (h + B * c)
    BY <1>2, <2>4, <2>7
  <2>9. (Z + P * l) + (B * P) * (h + B * c) = C + P * t
    <3>1. P * l \in Nat /\ (B * P) * (h + B * c) \in Nat
      BY <1>2, <2>4, <2>7
    <3> QED BY <2>2, <2>5, <2>8, <3>1
  <2>10. (Z + P * l) + Pow[k + 1] * (h + B * c + B * B * 0) = Columns(call, k + 1) + Pow[k + 1] * 0
    <3>1. h + B * c + B * B * 0 = h + B * c /\ Pow[k + 1] * 0 = 0
      BY <1>2, <2>4, <2>7
    <3>2. C + P * t \in Nat
      BY <2>4, <2>6
    <3> QED BY <2>3, <2>4, <2>9, <3>1, <3>2
  <2>11. BignumFromMemory(mem', call.z, k + 1) + Pow[k + 1] * (h + B * c + B * B * 0)
         = Columns(call, k + 1) + Pow[k + 1] * 0
    BY <1>4, <2>10 DEF Z, P
  <2> QED BY <1>1, <2>1, <2>11 DEF PartialProduct
<1> QED BY <1>5, <1>6, <1>7, <1>8 DEF IInv

LEMMA StepIInv == IInv /\ [Next]_vars => IInv'
<1> SUFFICES ASSUME IInv, UNCHANGED vars PROVE IInv'
  BY EntryStep, OuterLoopStep, InnerLoopStep, InnerEndStep DEF Next, Done
<1>1. First(k)' = First(k) /\ Last(k)' = Last(k)
  BY DEF vars, First, Last
<1>2. TypeOK' /\ CallOK(call)' /\ Loops'
  BY <1>1 DEF vars, IInv, TypeOK, CallOK, Loops
<1>3. PrefixWritten' /\ PartialProduct'
  BY <1>1 DEF vars, IInv, PrefixWritten, PartialProduct, Top, Added
<1> QED BY <1>2, <1>3 DEF IInv

\* The invariant of the routine: the accumulator never overflows, because its
\* bound counts the terms of the column, and x and y stay as they were.
THEOREM Invariance == Spec => []IInv
  BY InitIInv, StepIInv, PTL DEF Spec

\* Registers and memory hold words, and no load leaves x or y.
THEOREM TypeCorrect == Spec => []TypeOK
<1>1. IInv => TypeOK
  BY DEF IInv
<1> QED BY Invariance, <1>1, PTL

\* The digits written with the accumulator on top are exactly the terms added.
THEOREM ProductCorrect == Spec => []PartialProduct
<1>1. IInv => PartialProduct
  BY DEF IInv
<1> QED BY Invariance, <1>1, PTL

LEMMA PostHolds ==
  ASSUME IInv, pc = "end"
  PROVE  MulPost(call, mem, 0)
<1> DEFINE P == Pow[call.p]
           z == BignumFromMemory(mem, call.z, call.p)
           a == BignumFromMemory(call.mem, call.x, call.m)
           b == BignumFromMemory(call.mem, call.y, call.n)
           C == Columns(call, call.p)
           v == l + B * h + B * B * 0
<1>1. /\ call.p \in Nat /\ CallOK(call) /\ mem \in Memory /\ call.z \in Int
      /\ Block(call.z, call.p) \subseteq Addr
  BY CallTypes DEF IInv, TypeOK, CallOK, InMemory
<1>2. z \in 0..(P - 1) /\ P \in Nat \ {0}
  BY <1>1, ValueType, PowType
<1>3. z + P * v = C + P * 0
  BY DEF IInv, Loops, PartialProduct, Top, Added
<1>4. PICK q \in Nat : a * b = P * q + C
  BY <1>1, ProductSplit
<1>5. C \in Nat
  BY <1>1, RowsType DEF Columns
<1>6. v \in Nat
  BY BaseAssumption DEF IInv, TypeOK, Word
<1> HIDE DEF P, z, C, v
<1>7. P * (q + v) = P * q + P * v /\ P * q \in Nat /\ P * v \in Nat /\ P * 0 = 0
  BY <1>2, <1>6
<1>8. a * b = P * (q + v) + z
  BY <1>2, <1>3, <1>4, <1>5, <1>7
<1>9. (P * (q + v) + z) % P = z
  BY <1>2, <1>6, DivModUnique
<1> QED BY <1>8, <1>9 DEF MulPost, LowDigits, P, z

Correct ==
  /\ MayChange(call.mem, mem, MulFrame(call))
  /\ pc = "end" => MulPost(call, mem, 0)

\* Nothing outside z changes, and at the return the postcondition of
\* BIGNUM_MUL_SUBROUTINE_CORRECT holds.
THEOREM Correctness == Spec => []Correct
<1>1. IInv => Correct
  <2> SUFFICES ASSUME IInv PROVE MayChange(call.mem, mem, MulFrame(call))
    BY PostHolds DEF Correct
  <2>1. k \in Nat /\ k <= call.p /\ call.p \in Nat /\ call.z \in Nat
    BY CallTypes DEF IInv, TypeOK
  <2>2. Block(call.z, k) \subseteq Block(call.z, call.p)
    BY <2>1 DEF Block
  <2> QED BY <2>2 DEF IInv, PrefixWritten, MayChange, MulFrame
<1> QED BY Invariance, <1>1, PTL

\* The routine implements its contract: every step stays inside the frame and
\* the step that returns establishes the postcondition.
THEOREM ContractHolds == Spec => Implements
<1>1. Init => Contract!Init
  BY DEF Init, Contract!Init
<1>2. Correct' /\ [Next]_vars => [Contract!Next]_(Contract!vars)
  <2> SUFFICES ASSUME Correct', [Next]_vars, ~ UNCHANGED vars
               PROVE  Contract!Next
    BY DEF vars, Contract!vars
  <2>1. pc # "end" /\ call' = call
    BY DEF Next, Entry, OuterLoop, InnerLoop, InnerEnd, Done
  <2>2. MayChange(call.mem, mem', MulFrame(call))
    BY <2>1 DEF Correct
  <2>3. CASE pc' = "end"
    BY <2>1, <2>2, <2>3
    DEF Correct, Contract!Next, Contract!Return, MayChange, Contract!MayChange, Contract!Addr, Addr
  <2>4. CASE pc' # "end"
    BY <2>1, <2>2, <2>4
    DEF Contract!Next, Contract!Run, MayChange, Contract!MayChange, Contract!Addr, Addr
  <2> QED BY <2>3, <2>4
<1>3. Implements <=> Contract!Init /\ [][Contract!Next]_(Contract!vars)
  BY DEF Implements, Contract!Spec
<1> QED BY <1>1, <1>2, <1>3, Correctness, PTL DEF Spec
=============================================================================
