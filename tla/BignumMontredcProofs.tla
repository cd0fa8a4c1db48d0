----------------------- MODULE BignumMontredcProofs -------------------------
(***************************************************************************)
(* Proofs about BignumMontredc for every word size up to 80 bits, every    *)
(* memory, every size of operand and number of iterations.                 *)
(***************************************************************************)
EXTENDS BignumMontredc, BignumTheorems

BinaryFacts == INSTANCE BignumTheorems WITH B <- 2, MemSize <- 0, MaxSize <- 0

\* Two to the power n
Two(n) == BinaryFacts!Pow[n]

LEMMA TwoFacts ==
  /\ Two(0) = 1 /\ Two(1) = 2 /\ Two(5) = 32
  /\ \A n \in Nat : Two(n) \in Nat \ {0} /\ Two(n + 1) = 2 * Two(n)
<1>1. BinaryFacts!BaseAssumption
  BY DEF BinaryFacts!BaseAssumption
<1>2. Two(0) = 1 /\ \A n \in Nat : Two(n + 1) = 2 * Two(n)
  BY BinaryFacts!PowStep DEF Two
<1>3. Two(1) = 2
  <2>1. Two(0 + 1) = 2 * Two(0)
    BY <1>2
  <2> QED BY <1>2, <2>1
<1>4. Two(5) = 32
  <2>1. Two(1 + 1) = 4
    BY <1>2, <1>3
  <2>2. Two(2 + 1) = 8
    BY <1>2, <2>1
  <2>3. Two(3 + 1) = 16
    BY <1>2, <2>2
  <2>4. Two(4 + 1) = 32
    BY <1>2, <2>3
  <2> QED BY <2>4
<1>5. \A n \in Nat : Two(n) \in Nat \ {0}
  BY <1>1, BinaryFacts!PowType DEF Two
<1> QED BY <1>2, <1>3, <1>4, <1>5

LEMMA TwoSum ==
  ASSUME NEW s \in Nat, NEW t \in Nat
  PROVE  Two(s) * Two(t) = Two(s + t) /\ Two(s) \in Nat \ {0} /\ Two(t) \in Nat \ {0}
<1>1. BinaryFacts!BaseAssumption
  BY DEF BinaryFacts!BaseAssumption
<1> QED BY <1>1, BinaryFacts!PowSum, BinaryFacts!PowType DEF Two

LEMMA BaseIsTwo == \E n \in 1..80 : B = Two(n)
<1>1. Binary!Pow = BinaryFacts!Pow
  BY DEF Binary!Pow, BinaryFacts!Pow
<1> QED BY <1>1, BinaryAssumption DEF Two

LEMMA BaseEven == \E s \in Nat \ {0} : B = 2 * s
<1>1. PICK n \in 1..80 : B = Two(n)
  BY BaseIsTwo
<1>2. n - 1 \in Nat /\ (n - 1) + 1 = n
  BY <1>1
<1>3. Two(n) = 2 * Two(n - 1) /\ Two(n - 1) \in Nat \ {0}
  BY <1>2, TwoFacts
<1> QED BY <1>1, <1>3

-----------------------------------------------------------------------------
(* The inverse of the lowest word                                          *)

\* The number e has t zero bits at the end, or all of a word's.
Cleared(e, t) == \E s \in Int, q \in Int : e = Two(t) * s + B * q

LEMMA ResidueBelow ==
  ASSUME NEW v \in Int
  PROVE  \E s \in Int : v % B = v - B * s
<1> DEFINE s == v \div B
<1>1. v = B * s + (v % B) /\ s \in Int /\ v % B \in Int
  BY WordDivMod DEF Word
<1>2. B * s \in Int
  BY <1>1, BaseAssumption
<1>3. v % B = v - B * s
  <2> HIDE DEF s
  <2> QED BY <1>1, <1>2
<1> QED BY <1>1, <1>3

LEMMA ClearedSquare ==
  ASSUME NEW e \in Int, NEW t \in Nat, Cleared(e, t)
  PROVE  Cleared((e * e) % B, t + t)
<1>1. PICK s \in Int, q \in Int : e = Two(t) * s + B * q
  BY DEF Cleared
<1> DEFINE p == Two(t)
           n == e * e
           u == n \div B
<1>2. p \in Nat /\ B \in Nat /\ p * p = Two(t + t)
  BY TwoSum, BaseAssumption
<1>3. n \in Int /\ u \in Int /\ n = B * u + (n % B) /\ n % B \in Int
  <2>1. n \in Int
    OBVIOUS
  <2>2. n % B \in Int
    BY BaseAssumption
  <2> HIDE DEF n
  <2> QED BY <2>1, <2>2, WordDivMod
<1>4. n = (p * p) * (s * s) + B * (2 * (p * s) * q + (B * q) * q)
  <2> HIDE DEF p
  <2>1. e = p * s + B * q
    BY <1>1 DEF p
  <2> DEFINE x == p * s
             y == B * q
  <2>2. x \in Int /\ y \in Int /\ e = x + y
    BY <1>2, <2>1
  <2>3. n = x * x + 2 * (x * y) + y * y
    <3> HIDE DEF x, y
    <3> QED BY <2>2
  <2>4. x * x = (p * p) * (s * s) /\ x * y = B * (x * q) /\ y * y = B * (y * q)
    BY <1>2
  <2>5. B * (2 * x * q + y * q) = 2 * (x * y) + y * y
    <3> DEFINE u1 == x * q
               u2 == y * q
    <3>1. B * (2 * u1 + u2) = 2 * (B * u1) + B * u2 /\ 2 * x * q = 2 * u1
      <4>1. u1 \in Int /\ u2 \in Int
        BY <1>2
      <4>2. 2 * x * q = 2 * u1
        BY <1>2
      <4> HIDE DEF u1, u2
      <4> QED BY <1>2, <4>1, <4>2
    <3> QED BY <2>4, <3>1
  <2>6. x * x \in Int /\ x * y \in Int /\ y * y \in Int
    <3> HIDE DEF x, y
    <3> QED BY <2>2
  <2> QED BY <2>3, <2>4, <2>5, <2>6
<1> DEFINE g == 2 * (p * s) * q + (B * q) * q
<1>5. g \in Int /\ s * s \in Int /\ p * p \in Int
  BY <1>2
<1>6. n % B = (p * p) * (s * s) + B * (g - u)
  <2>1. n = (p * p) * (s * s) + B * g
    BY <1>4
  <2> HIDE DEF g, n, u, p
  <2> DEFINE x == (p * p) * (s * s)
             y == B * g
             z == B * u
  <2>2. x \in Int /\ y \in Int /\ z \in Int /\ B * (g - u) = y - z
    BY <1>2, <1>3, <1>5
  <2>3. n = x + y /\ n = z + (n % B) /\ n % B \in Int
    BY <1>3, <2>1
  <2> HIDE DEF x, y, z
  <2>4. n % B = x + (y - z)
    BY <2>2, <2>3
  <2> QED BY <2>2, <2>4 DEF x
<1>7. g - u \in Int
  BY <1>3, <1>5
<1> QED BY <1>2, <1>5, <1>6, <1>7 DEF Cleared

\* The error of the approximation v to the negated inverse of a is e modulo B.
Error(a, v, e) == \E q \in Int : a * v + 1 = e + B * q

\* One step of the iteration: the new error is the square of the old one.
LEMMA ErrorSquare ==
  ASSUME NEW a \in Int, NEW v \in Int, NEW e \in Int, Error(a, v, e)
  PROVE  Error(a, (e * v + v) % B, (e * e) % B)
<1>1. PICK q \in Int : a * v + 1 = e + B * q
  BY DEF Error
<1> DEFINE f == e * v + v
           n == e * e
<1>2. f \in Int /\ n \in Int
  OBVIOUS
<1>3. PICK s \in Int : f % B = f - B * s
  <2> HIDE DEF f
  <2> QED BY <1>2, ResidueBelow
<1>4. PICK t \in Int : n % B = n - B * t
  <2> HIDE DEF n
  <2> QED BY <1>2, ResidueBelow
<1>5. a * f + 1 = n + B * (e * q + q)
  <2>1. a * f = (a * v) * e + a * v
    OBVIOUS
  <2>2. a * v = e + B * q - 1 /\ a * v \in Int /\ B * q \in Int
    BY <1>1, BaseAssumption
  <2>3. (e + B * q - 1) * e = n + B * (q * e) - e
    BY BaseAssumption
  <2>4. B * (e * q + q) = B * (q * e) + B * q
    BY BaseAssumption
  <2> QED BY <2>1, <2>2, <2>3, <2>4, BaseAssumption
<1>6. a * (f - B * s) + 1 = (n - B * t) + B * (e * q + q + t - a * s)
  <2>1. a * (f - B * s) = a * f - B * (a * s)
    BY <1>2, BaseAssumption
  <2>2. B * (e * q + q + t - a * s) = B * (e * q + q) + B * t - B * (a * s)
    BY BaseAssumption
  <2> HIDE DEF f, n
  <2> QED BY <1>2, <1>5, <2>1, <2>2, BaseAssumption
<1>7. e * q + q + t - a * s \in Int
  OBVIOUS
<1> HIDE DEF f, n
<1> QED BY <1>3, <1>4, <1>6, <1>7 DEF Error, f, n

\* The first approximation has five correct bits: for each odd residue modulo 32
LEMMA FirstResidues ==
  \A r \in 0..31 : r % 2 = 1 =>
    /\ (0 - 3 * r) % 32 \in 0..31
    /\ (r * EorTwo((0 - 3 * r) % 32) + 1) % 32 = 0
<1> SUFFICES ASSUME NEW r \in 0..31, r % 2 = 1
             PROVE  /\ (0 - 3 * r) % 32 \in 0..31
                    /\ (r * EorTwo((0 - 3 * r) % 32) + 1) % 32 = 0
  OBVIOUS
<1>1. CASE r \in {1, 3, 5, 7}
  BY <1>1 DEF EorTwo
<1>2. CASE r \in {9, 11, 13, 15}
  BY <1>2 DEF EorTwo
<1>3. CASE r \in {17, 19, 21, 23}
  BY <1>3 DEF EorTwo
<1>4. CASE r \in {25, 27, 29, 31}
  BY <1>4 DEF EorTwo
<1>5. r \in {1, 3, 5, 7, 9, 11, 13, 15, 17, 19, 21, 23, 25, 27, 29, 31}
  OBVIOUS
<1> QED BY <1>1, <1>2, <1>3, <1>4, <1>5

LEMMA FirstError ==
  ASSUME NEW a \in Word, a % 2 = 1
  PROVE  /\ EorTwo((a - 4 * a) % B) \in Int
         /\ Cleared((a * EorTwo((a - 4 * a) % B) + 1) % B, 5)
<1>1. PICK n \in 1..80 : B = Two(n)
  BY BaseIsTwo
<1> DEFINE v == (a - 4 * a) % B
           w1 == EorTwo(v)
           e == a * w1 + 1
<1>2. a \in Nat /\ a < B /\ B \in Nat \ {0} /\ v \in 0..(B - 1)
  <2>1. a - 4 * a \in Int /\ a \in Nat /\ a < B
    BY BaseAssumption DEF Word
  <2> QED BY <2>1, WordDivMod, BaseAssumption DEF Word
<1>3. w1 \in Int
  <2> HIDE DEF v
  <2> QED BY <1>2 DEF EorTwo
<1>4. e \in Int
  <2> HIDE DEF w1
  <2> QED BY <1>2, <1>3
<1>5. CASE n < 5
  <2>1. B \in {2, 4, 8, 16}
    <3>1. n \in {1, 2, 3, 4}
      BY <1>5
    <3>2. Two(1) = 2 /\ Two(1 + 1) = 2 * Two(1) /\ Two(2 + 1) = 2 * Two(2) /\ Two(3 + 1) = 2 * Two(3)
      BY TwoFacts
    <3>3. Two(2) = 4 /\ Two(3) = 8 /\ Two(4) = 16
      BY <3>2
    <3> QED BY <1>1, <3>1, <3>2, <3>3
  <2>2. e % B = 0
    <3>1. CASE B = 2
      <4>1. a = 1
        BY <1>2, <3>1
      <4> QED BY <3>1, <4>1 DEF EorTwo
    <3>2. CASE B = 4
      <4>1. a \in {1, 3}
        BY <1>2, <3>2
      <4> QED BY <3>2, <4>1 DEF EorTwo
    <3>3. CASE B = 8
      <4>1. a \in {1, 3, 5, 7}
        BY <1>2, <3>3
      <4> QED BY <3>3, <4>1 DEF EorTwo
    <3>4. CASE B = 16
      <4>1. a \in {1, 3, 5, 7, 9, 11, 13, 15}
        BY <1>2, <3>4
      <4> QED BY <3>4, <4>1 DEF EorTwo
    <3> QED BY <2>1, <3>1, <3>2, <3>3, <3>4
  <2>3. 0 = Two(5) * 0 + B * 0
    BY <1>2, TwoFacts
  <2> QED BY <1>3, <2>2, <2>3 DEF Cleared
<1>6. CASE n >= 5
  <2>1. PICK s \in Nat \ {0} : B = 32 * s
    <3>1. n - 5 \in Nat /\ 5 + (n - 5) = n
      BY <1>6
    <3>2. Two(5) * Two(n - 5) = Two(5 + (n - 5)) /\ Two(n - 5) \in Nat \ {0}
      BY <3>1, 5 \in Nat, TwoSum
    <3> QED BY <1>1, <3>1, <3>2, TwoFacts
  <2>2. PICK u \in Int, r \in 0..31 : a = 32 * u + r
    <3>1. a = 32 * (a \div 32) + (a % 32) /\ a \div 32 \in Int /\ a % 32 \in 0..31
      BY <1>2
    <3> QED BY <3>1
  <2>3. r % 2 = 1
    BY <2>2, <1>2
  <2> DEFINE q == (0 - 3 * r) % 32
             b == EorTwo(q)
  <2>4. q \in 0..31 /\ (r * b + 1) % 32 = 0
    BY <2>3, FirstResidues
  <2>5. PICK t \in Int : v = 32 * t + q
    <3>1. PICK x \in Int : v = (a - 4 * a) - B * x
      <4>1. a - 4 * a \in Int
        BY <1>2
      <4> QED BY <4>1, ResidueBelow
    <3>2. PICK y \in Int : q = (0 - 3 * r) - 32 * y
      <4>1. 0 - 3 * r = 32 * ((0 - 3 * r) \div 32) + ((0 - 3 * r) % 32)
            /\ (0 - 3 * r) \div 32 \in Int
        OBVIOUS
      <4> QED BY <4>1
    <3>3. a - 4 * a = 32 * (0 - 3 * u) + (0 - 3 * r)
      BY <2>2
    <3>4. B * x = 32 * (s * x)
      BY <2>1, <3>1
    <3>5. s * x \in Int
      BY <2>1, <3>1
    <3> DEFINE z == s * x
    <3>6. v = 32 * (0 - 3 * u - z + y) + q /\ 0 - 3 * u - z + y \in Int
      <4>1. z \in Int /\ v = (a - 4 * a) - 32 * z
        BY <3>1, <3>4, <3>5
      <4> HIDE DEF z, v, q
      <4> QED BY <4>1, <3>2, <3>3, <2>2
    <3> QED BY <3>6
  <2>6. w1 = 32 * t + b
    <3> HIDE DEF v, q
    <3> QED BY <2>4, <2>5 DEF EorTwo
  <2>7. b \in Int
    <3> HIDE DEF q
    <3> QED BY <2>4 DEF EorTwo
  <2>8. PICK g \in Int : r * b + 1 = 32 * g
    <3> DEFINE x == r * b + 1
    <3>1. x \in Int /\ x % 32 = 0
      BY <2>2, <2>4, <2>7
    <3> HIDE DEF x
    <3>2. x = 32 * (x \div 32) /\ x \div 32 \in Int
      BY <3>1
    <3> QED BY <3>2 DEF x
  <2>9. e = 32 * (u * (32 * t + b) + r * t + g)
    <3> HIDE DEF b
    <3>1. a * w1 = (32 * u + r) * (32 * t + b)
      BY <2>2, <2>6
    <3>2. (32 * u + r) * (32 * t + b) = 32 * (u * (32 * t + b)) + (32 * (r * t) + r * b)
      <4> DEFINE x == 32 * t + b
      <4>1. x \in Int
        BY <2>5, <2>7
      <4>2. (32 * u + r) * x = 32 * (u * x) + r * x
        <5> HIDE DEF x
        <5> QED BY <2>2, <4>1
      <4>3. r * x = 32 * (r * t) + r * b
        BY <2>2, <2>5, <2>7
      <4> QED BY <4>2, <4>3
    <3>3. u * (32 * t + b) \in Int /\ r * t \in Int /\ r * b \in Int
      BY <2>2, <2>5, <2>7
    <3> DEFINE x == u * (32 * t + b)
               y == r * t
               z == r * b
    <3>4. e = 32 * x + (32 * y + z) + 1 /\ z + 1 = 32 * g /\ x \in Int /\ y \in Int /\ z \in Int
      BY <3>1, <3>2, <3>3, <2>8
    <3> HIDE DEF x, y, z, e
    <3>5. e = 32 * (x + y + g)
      BY <3>4, <2>8
    <3> QED BY <3>5 DEF x, y
  <2> DEFINE f == u * (32 * t + b) + r * t + g
  <2>10. f \in Int
    <3> HIDE DEF b
    <3> QED BY <2>2, <2>5, <2>7, <2>8
  <2>11. PICK x \in Int : e % B = e - B * x
    <3> HIDE DEF e
    <3> QED BY <1>4, ResidueBelow
  <2>12. e % B = Two(5) * f + B * (0 - x)
    <3>1. e = 32 * f
      BY <2>9
    <3>2. B * x \in Int /\ B * (0 - x) = 0 - B * x /\ Two(5) = 32
      BY <1>2, TwoFacts
    <3> DEFINE y == B * x
    <3>3. e % B = e - y /\ y \in Int /\ B * (0 - x) = 0 - y
      BY <2>11, <3>2
    <3> HIDE DEF e, f, y
    <3>4. e % B = 32 * f + (0 - y)
      BY <2>10, <3>1, <3>3
    <3> QED BY <3>2, <3>3, <3>4
  <2> QED BY <1>3, <2>10, <2>12 DEF Cleared
<1> QED BY <1>5, <1>6

\* word_negmodinv: an odd word's negated inverse, for words of at most 80 bits
LEMMA NegModInvCorrect ==
  ASSUME NEW a \in Word
  PROVE  /\ NegModInv(a) \in Word
         /\ a % 2 = 1 => (a * NegModInv(a) + 1) % B = 0
<1> DEFINE w1 == EorTwo((a - 4 * a) % B)
           e1 == (a * w1 + 1) % B
           e2 == (e1 * e1) % B
           w2 == (e1 * w1 + w1) % B
           e4 == (e2 * e2) % B
           w3 == (e2 * w2 + w2) % B
           e8 == (e4 * e4) % B
           w4 == (e4 * w3 + w3) % B
           w5 == (e8 * w4 + w4) % B
           e16 == (e8 * e8) % B
<1>1. NegModInv(a) = w5
  BY DEF NegModInv
<1>2. a \in Int /\ w1 \in Int /\ e1 \in Int
  <2>1. a \in Int /\ a - 4 * a \in Int
    BY BaseAssumption DEF Word
  <2>2. (a - 4 * a) % B \in Int
    <3> DEFINE x == a - 4 * a
    <3>1. x \in Int
      BY <2>1
    <3> HIDE DEF x
    <3> QED BY <3>1, WordDivMod DEF Word
  <2>3. w1 \in Int
    BY <2>2 DEF EorTwo
  <2>4. a * w1 + 1 \in Int
    <3> HIDE DEF w1
    <3> QED BY <2>1, <2>3
  <2> DEFINE x == a * w1 + 1
  <2>5. x % B \in Int
    <3>1. x \in Int
      BY <2>4
    <3> HIDE DEF x
    <3> QED BY <3>1, WordDivMod DEF Word
  <2> QED BY <2>1, <2>3, <2>5
<1>3. Error(a, w1, e1)
  <2> DEFINE x == a * w1 + 1
  <2>1. x \in Int
    <3> HIDE DEF w1
    <3> QED BY <1>2
  <2>2. PICK s \in Int : x % B = x - B * s
    <3> HIDE DEF x
    <3> QED BY <2>1, ResidueBelow
  <2>3. x = e1 + B * s
    <3>1. B * s \in Int /\ e1 = x - B * s
      BY <2>2, BaseAssumption
    <3> HIDE DEF x, e1
    <3> QED BY <2>1, <3>1
  <2> QED BY <2>3 DEF Error
<1>4. ASSUME a % 2 = 1 PROVE Cleared(e1, 5)
  BY <1>4, FirstError
<1> HIDE DEF w1, e1
<1>5. \A u \in Int, v \in Int : (u * u) % B \in Int /\ (u * v + v) % B \in Word
  <2> SUFFICES ASSUME NEW u \in Int, NEW v \in Int
               PROVE  (u * u) % B \in Int /\ (u * v + v) % B \in Word
    OBVIOUS
  <2> DEFINE x == u * u
             y == u * v + v
  <2>1. x \in Int /\ y \in Int
    OBVIOUS
  <2> HIDE DEF x, y
  <2>2. x % B \in Int /\ y % B \in Word
    BY <2>1, WordDivMod DEF Word
  <2> QED BY <2>2 DEF x, y
<1>6. Word \subseteq Int
  BY BaseAssumption DEF Word
<1>7. e2 \in Int /\ w2 \in Int /\ Error(a, w2, e2)
  BY <1>2, <1>3, <1>5, <1>6, ErrorSquare
<1>8. ASSUME a % 2 = 1 PROVE Cleared(e2, 10)
  BY <1>2, <1>4, <1>8, ClearedSquare, 5 \in Nat, 5 + 5 = 10
<1> HIDE DEF e2, w2
<1>9. e4 \in Int /\ w3 \in Int /\ Error(a, w3, e4)
  BY <1>2, <1>5, <1>6, <1>7, ErrorSquare
<1>10. ASSUME a % 2 = 1 PROVE Cleared(e4, 20)
  BY <1>7, <1>8, <1>10, ClearedSquare, 10 \in Nat, 10 + 10 = 20
<1> HIDE DEF e4, w3
<1>11. e8 \in Int /\ w4 \in Int /\ Error(a, w4, e8)
  BY <1>2, <1>5, <1>6, <1>9, ErrorSquare
<1>12. ASSUME a % 2 = 1 PROVE Cleared(e8, 40)
  BY <1>9, <1>10, <1>12, ClearedSquare, 20 \in Nat, 20 + 20 = 40
<1> HIDE DEF e8, w4
<1>13. e16 \in Int /\ w5 \in Word /\ Error(a, w5, e16)
  BY <1>2, <1>5, <1>6, <1>11, ErrorSquare
<1>14. ASSUME a % 2 = 1 PROVE Cleared(e16, 80)
  BY <1>11, <1>12, <1>14, ClearedSquare, 40 \in Nat, 40 + 40 = 80
<1> HIDE DEF e16, w5
<1>15. ASSUME a % 2 = 1 PROVE (a * w5 + 1) % B = 0
  <2>1. PICK s \in Int, q \in Int : e16 = Two(80) * s + B * q
    BY <1>14, <1>15 DEF Cleared
  <2>2. PICK r \in Nat : Two(80) = B * r
    <3>1. PICK n \in 1..80 : B = Two(n)
      BY BaseIsTwo
    <3> DEFINE l == 80 - n
    <3>2. l \in Nat /\ n \in Nat /\ n + l = 80
      BY <3>1
    <3> HIDE DEF l
    <3>3. Two(n) * Two(l) = Two(n + l) /\ Two(l) \in Nat
      BY ONLY <3>2, TwoSum
    <3>4. Two(n + l) = Two(80)
      BY <3>2
    <3> QED BY <3>1, <3>3, <3>4
  <2>3. PICK t \in Int : a * w5 + 1 = e16 + B * t
    BY <1>13 DEF Error
  <2>4. a * w5 + 1 = B * (r * s + q + t) + 0 /\ r * s + q + t \in Int
    <3>1. (B * r) * s = B * (r * s) /\ r * s \in Int /\ B \in Int
      BY <2>2, BaseAssumption
    <3> DEFINE y == r * s
    <3>2. e16 = B * y + B * q /\ y \in Int
      BY <2>1, <2>2, <3>1
    <3> HIDE DEF y
    <3>3. e16 + B * t = B * (y + q + t) + 0 /\ y + q + t \in Int
      BY <3>1, <3>2
    <3> QED BY <2>3, <3>3 DEF y
  <2> DEFINE u == r * s + q + t
  <2>5. u \in Int /\ a * w5 + 1 = B * u + 0 /\ 0 \in 0..(B - 1) /\ B \in Nat \ {0}
    BY <2>4, BaseAssumption
  <2> HIDE DEF u
  <2>6. (B * u + 0) % B = 0
    BY <2>5, DivModUnique
  <2> QED BY <2>5, <2>6
<1> QED BY <1>1, <1>13, <1>15

-----------------------------------------------------------------------------
(* The words of a block from index t on                                    *)
High(memory, a, k, t) == BignumFromMemory(memory, a + t, k - t)

LEMMA HeadWord ==
  ASSUME NEW memory \in Memory, NEW a \in Int, NEW k \in Nat, Block(a, k + 1) \subseteq Addr
  PROVE  BignumFromMemory(memory, a, k + 1)
         = memory[a] + B * BignumFromMemory(memory, a + 1, k)
<1> DEFINE V(l) == BignumFromMemory(memory, a, l)
           W(l) == BignumFromMemory(memory, a + 1, l)
           T == {l \in Nat : l <= k => V(l + 1) = memory[a] + B * W(l)}
<1>1. \A l \in 0..k : memory[a + l] \in Nat /\ memory[(a + 1) + l] = memory[a + (l + 1)]
  <2> SUFFICES ASSUME NEW l \in 0..k PROVE memory[a + l] \in Nat /\ memory[(a + 1) + l] = memory[a + (l + 1)]
    OBVIOUS
  <2>1. a + l \in Addr
    BY DEF Block
  <2>2. (a + 1) + l = a + (l + 1)
    OBVIOUS
  <2> QED BY <2>1, <2>2, BaseAssumption DEF Memory, Word
<1>2. V(0) = 0 /\ W(0) = 0 /\ \A l \in Nat : /\ V(l + 1) = V(l) + Pow[l] * memory[a + l]
                                            /\ W(l + 1) = W(l) + Pow[l] * memory[(a + 1) + l]
  BY ValueUnfold
<1>3. 0 \in T
  <2>1. V(0 + 1) = 0 + Pow[0] * memory[a + 0] /\ a + 0 = a
    BY <1>2
  <2>2. memory[a + 0] \in Nat
    BY <1>1
  <2> HIDE DEF V, W
  <2>3. V(0 + 1) = memory[a] + B * W(0)
    BY <1>2, <2>1, <2>2, PowStep, BaseAssumption
  <2>4. 0 \in {l \in Nat : l <= k => V(l + 1) = memory[a] + B * W(l)}
    BY <2>3
  <2> QED BY <2>4
<1>4. ASSUME NEW l \in Nat, l \in T PROVE l + 1 \in T
  <2>1. SUFFICES ASSUME l + 1 <= k PROVE V((l + 1) + 1) = memory[a] + B * W(l + 1)
    OBVIOUS
  <2> DEFINE g == memory[a + (l + 1)]
  <2>2. g \in Nat /\ memory[(a + 1) + l] = g /\ memory[a] \in Nat /\ Pow[l] \in Nat /\ B \in Nat
    <3>1. l + 1 \in 0..k /\ l \in 0..k /\ 0 \in 0..k /\ a + 0 = a
      BY <2>1
    <3> QED BY <3>1, <1>1, PowType, BaseAssumption
  <2>3. V((l + 1) + 1) = V(l + 1) + Pow[l + 1] * g /\ Pow[l + 1] = B * Pow[l]
    BY <1>2, PowStep
  <2>4. W(l + 1) = W(l) + Pow[l] * g
    BY <1>2, <2>2
  <2>5. V(l + 1) = memory[a] + B * W(l)
    BY <1>4, <2>1
  <2>6. W(l) \in Nat
    <3>1. Block(a + 1, l) \subseteq Block(a, k + 1)
      BY <2>1 DEF Block
    <3>2. W(l) \in 0..(Pow[l] - 1)
      BY <3>1, ValueType
    <3> HIDE DEF W
    <3> QED BY <2>2, <3>2
  <2> HIDE DEF V, W, g
  <2>7. B * (W(l) + Pow[l] * g) = B * W(l) + (B * Pow[l]) * g
    BY <2>2, <2>6
  <2>8. B * W(l) \in Nat /\ (B * Pow[l]) * g \in Nat
    BY <2>2, <2>6
  <2> QED BY <2>2, <2>3, <2>4, <2>5, <2>7, <2>8
<1>5. Nat \subseteq T
  <2> HIDE DEF T
  <2> QED BY <1>3, <1>4, SetInduction
<1> QED BY <1>5

LEMMA HighStep ==
  ASSUME NEW memory \in Memory, NEW a \in Int, NEW k \in Nat, NEW t \in Nat,
         Block(a, k) \subseteq Addr, t <= k
  PROVE  /\ High(memory, a, k, t) \in 0..(Pow[k - t] - 1)
         /\ High(memory, a, k, k) = 0
         /\ High(memory, a, k, 0) = BignumFromMemory(memory, a, k)
         /\ t < k => /\ memory[a + t] \in Word
                     /\ High(memory, a, k, t) = memory[a + t] + B * High(memory, a, k, t + 1)
<1>1. High(memory, a, k, t) \in 0..(Pow[k - t] - 1)
  <2>1. Block(a + t, k - t) \subseteq Block(a, k) /\ a + t \in Int /\ k - t \in Nat
    BY DEF Block
  <2> QED BY <2>1, ValueType DEF High
<1>2. High(memory, a, k, k) = 0
  <2>1. k - k = 0
    OBVIOUS
  <2> QED BY <2>1, ValueUnfold DEF High
<1>3. High(memory, a, k, 0) = BignumFromMemory(memory, a, k)
  <2>1. k - 0 = k /\ a + 0 = a
    OBVIOUS
  <2> QED BY <2>1 DEF High
<1>4. ASSUME t < k
      PROVE  /\ memory[a + t] \in Word
             /\ High(memory, a, k, t) = memory[a + t] + B * High(memory, a, k, t + 1)
  <2> DEFINE b == a + t
             l == k - (t + 1)
  <2>1. b \in Int /\ l \in Nat /\ k - t = l + 1 /\ a + (t + 1) = b + 1 /\ b \in Addr
    BY <1>4 DEF Block
  <2>2. Block(b, l + 1) \subseteq Addr
    <3>1. Block(a + t, k - t) \subseteq Block(a, k)
      BY DEF Block
    <3> QED BY <2>1, <3>1
  <2> HIDE DEF b, l
  <2>3. BignumFromMemory(memory, b, l + 1) = memory[b] + B * BignumFromMemory(memory, b + 1, l)
    BY <2>1, <2>2, HeadWord
  <2>4. memory[b] \in Word
    BY <2>1 DEF Memory
  <2> QED BY <2>1, <2>3, <2>4 DEF High, b, l
<1> QED BY <1>1, <1>2, <1>3, <1>4

\* A word written into a block changes its value by the difference, weighted.
Written(memory, new, z, k, t, v) ==
  /\ new \in Memory
  /\ MayChange(memory, new, Block(z, k))
  /\ BignumFromMemory(new, z, k)
     = BignumFromMemory(memory, z, k) + Pow[t] * (v - memory[z + t])

LEMMA WordWritten ==
  ASSUME NEW memory \in Memory, NEW z \in Int, NEW k \in Nat, NEW t \in Nat, t < k,
         Block(z, k) \subseteq Addr, NEW v \in Word,
         NEW new, new = [memory EXCEPT ![z + t] = v]
  PROVE  Written(memory, new, z, k, t, v)
<1>1. z + t \in Addr /\ z + t \in Block(z, k)
  BY DEF Block
<1>2. new \in Memory /\ MayChange(memory, new, Block(z, k))
  BY <1>1 DEF Memory, MayChange
<1>3. \A l \in Nat : l < k => memory[z + l] \in Nat /\ new[z + l] \in Nat
  <2> SUFFICES ASSUME NEW l \in Nat, l < k PROVE memory[z + l] \in Nat /\ new[z + l] \in Nat
    OBVIOUS
  <2>1. z + l \in Addr
    BY DEF Block
  <2> QED BY <2>1, <1>2, BaseAssumption DEF Memory, Word
<1> DEFINE V(l) == BignumFromMemory(memory, z, l)
           W(l) == BignumFromMemory(new, z, l)
           delta == Pow[t] * (v - memory[z + t])
           T == {l \in Nat : (t + 1) + l <= k => W((t + 1) + l) = V((t + 1) + l) + delta}
<1>4. \A l \in Nat : V(l + 1) = V(l) + Pow[l] * memory[z + l] /\ W(l + 1) = W(l) + Pow[l] * new[z + l]
  BY ValueUnfold
<1>5. delta \in Int /\ Pow[t] \in Nat /\ v \in Nat /\ memory[z + t] \in Nat
  BY <1>3, PowType, BaseAssumption DEF Word
<1>6. \A l \in Nat : l <= k => V(l) \in Int /\ W(l) \in Int
  <2> SUFFICES ASSUME NEW l \in Nat, l <= k PROVE V(l) \in Int /\ W(l) \in Int
    OBVIOUS
  <2>1. Block(z, l) \subseteq Addr
    BY DEF Block
  <2>2. V(l) \in 0..(Pow[l] - 1) /\ W(l) \in 0..(Pow[l] - 1)
    BY <1>2, <2>1, ValueType
  <2> HIDE DEF V, W
  <2> QED BY <2>2, PowType
<1>7. 0 \in T
  <2>1. W(t) = V(t)
    <3>1. \A l \in 0..(t - 1) : new[z + l] = memory[z + l]
      <4> SUFFICES ASSUME NEW l \in 0..(t - 1) PROVE new[z + l] = memory[z + l]
        OBVIOUS
      <4>1. z + l \in Addr /\ z + l # z + t
        BY DEF Block
      <4> QED BY <4>1 DEF Memory
    <3>2. BignumFromMemory(new, z, t) = BignumFromMemory(memory, z, t)
      BY ONLY <3>1, ValueCongruence, t \in Nat
    <3> QED BY <3>2
  <2>2. new[z + t] = v
    BY <1>1 DEF Memory
  <2>3. W(t + 1) = V(t) + Pow[t] * v /\ V(t + 1) = V(t) + Pow[t] * memory[z + t] /\ V(t) \in Int
    <3>1. t \in Nat /\ t <= k
      OBVIOUS
    <3> HIDE DEF V, W
    <3> QED BY <1>4, <1>6, <2>1, <2>2, <3>1
  <2> HIDE DEF V, W
  <2>4. W(t + 1) = V(t + 1) + delta
    <3>1. Pow[t] * (v - memory[z + t]) = Pow[t] * v - Pow[t] * memory[z + t]
      BY <1>5
    <3>2. Pow[t] * v \in Int /\ Pow[t] * memory[z + t] \in Int
      BY <1>5
    <3> QED BY <2>3, <3>1, <3>2
  <2>5. (t + 1) + 0 = t + 1
    OBVIOUS
  <2> HIDE DEF delta
  <2>6. 0 \in {l \in Nat : (t + 1) + l <= k => W((t + 1) + l) = V((t + 1) + l) + delta}
    BY <2>4, <2>5
  <2> QED BY <2>6
<1>8. ASSUME NEW l \in Nat, l \in T PROVE l + 1 \in T
  <2>1. SUFFICES ASSUME (t + 1) + (l + 1) <= k
                 PROVE  W((t + 1) + (l + 1)) = V((t + 1) + (l + 1)) + delta
    OBVIOUS
  <2> DEFINE n == (t + 1) + l
  <2>2. n \in Nat /\ n < k /\ n <= k /\ n # t /\ (t + 1) + (l + 1) = n + 1 /\ z + n # z + t
    BY <2>1
  <2>3. W(n) = V(n) + delta
    BY <1>8, <2>2
  <2>4. new[z + n] = memory[z + n]
    <3>1. z + n \in Addr
      BY <2>2 DEF Block
    <3> QED BY <2>2, <3>1 DEF Memory
  <2> HIDE DEF n, V, W, delta
  <2>5. W(n + 1) = W(n) + Pow[n] * memory[z + n] /\ V(n + 1) = V(n) + Pow[n] * memory[z + n]
    BY <1>4, <2>2, <2>4
  <2>6. Pow[n] * memory[z + n] \in Int /\ V(n) \in Int
    BY <1>3, <1>6, <2>2, PowType
  <2> QED BY <1>5, <2>2, <2>3, <2>5, <2>6
<1>9. Nat \subseteq T
  <2> HIDE DEF T
  <2> QED BY <1>7, <1>8, SetInduction
<1>10. W(k) = V(k) + delta
  <2> DEFINE l == k - (t + 1)
  <2>1. l \in Nat /\ (t + 1) + l = k
    OBVIOUS
  <2>2. l \in T
    BY <1>9, <2>1
  <2> HIDE DEF l, V, W, delta
  <2> QED BY <2>1, <2>2
<1> QED BY <1>2, <1>10 DEF Written

-----------------------------------------------------------------------------
(* The inductive invariant                                                 *)

CallOK(cl) ==
  /\ cl.mem \in Memory
  /\ cl.k \in Size /\ cl.n \in Size /\ cl.p \in Size
  /\ cl.z \in Addr /\ cl.x \in Addr /\ cl.m \in Addr
  /\ InMemory(cl.z, cl.k) /\ InMemory(cl.x, cl.n) /\ InMemory(cl.m, cl.k)
  /\ Nonoverlapping(cl.m, cl.k, cl.z, cl.k)
  /\ SameOrDisjoint(cl.x, cl.n, cl.z, cl.k)

\* The modulus, its first words, and the first words of x
Num(cl) == BignumFromMemory(cl.mem, cl.m, cl.k)
NumLow(cl, t) == BignumFromMemory(cl.mem, cl.m, t)
Odd(cl) == Num(cl) % 2 = 1
XDigit(cl, t) == Digit(cl.mem, cl.x, cl.n, t)
XLow(cl, t) == Prefix(cl.mem, cl.x, cl.n, t)

\* After t words have been cleared: v is the first s words of x plus a multiple
\* of the modulus, less the t words dropped, which are zero if it is odd.
Balanced(cl, v, s, t) ==
  \E q \in 0..(Pow[t] - 1), e \in 0..(Pow[t] - 1) :
    /\ v + e = XLow(cl, s) + q * Num(cl)
    /\ Odd(cl) => e = 0

WindowAt(cl, v, t) == Balanced(cl, Pow[t] * v, cl.k + t, t)

Registers ==
  /\ mem \in Memory /\ i \in Nat /\ j \in Nat
  /\ w \in Word /\ d \in Word /\ h \in Word /\ c \in Word /\ cf \in {0, 1}
  /\ pc \notin {"entry", "end"} => call.k > 0

Counters ==
  /\ pc = "copyloop" => i < j /\ j = Lesser(call.n, call.k)
  /\ pc = "padloop" => j = Lesser(call.n, call.k) /\ j <= i /\ i < call.k
  /\ pc \in {"outerloop", "montloop", "montend"} => i < call.p
  /\ pc \in {"montloop", "montend"} => j > 0
  /\ pc \in {"montloop", "cmploop", "corrloop"} => j < call.k
  /\ pc \in {"montend", "mask"} => j = call.k

FrameInv ==
  /\ MayChange(call.mem, mem, Block(call.z, call.k))
  /\ pc = "entry" => mem = call.mem

\* The words of x copied and extended so far
Copied ==
  /\ pc \in {"copyloop", "padloop"} =>
       /\ MayChange(call.mem, mem, Block(call.z, i))
       /\ BignumFromMemory(mem, call.z, i) = XLow(call, i)
  /\ pc = "initialized" => Zval = XLow(call, call.k)

Inverted ==
  pc \notin {"entry", "end"} /\ Odd(call) => (w * call.mem[call.m] + 1) % B = 0

\* The window with its top carry
Top == Zval + Pow[call.k] * c

\* The same inside the inner loop: the words before j have moved down, h and the
\* flag wait for the words from j on, and so does the multiple of the modulus.
Inner(cl, memory, t, high, flag, mult, carry) ==
  B * BignumFromMemory(memory, cl.z, t - 1)
    + Pow[t] * (high + flag + High(memory, cl.z, cl.k, t) + mult * High(cl.mem, cl.m, cl.k, t))
    + Pow[cl.k] * carry

WindowInv ==
  /\ pc \in {"outerloop", "montloop", "montend", "corrective", "cmploop", "mask"} => c \in {0, 1}
  /\ pc = "outerloop" => WindowAt(call, Top, i)
  /\ pc \in {"montloop", "montend"} =>
       Balanced(call, Pow[i] * Inner(call, mem, j, h, cf, d, c), call.k + i, i + 1)
  /\ pc \in {"corrective", "cmploop", "mask"} => WindowAt(call, Top, call.p)
  /\ pc \in {"cmploop", "mask"} =>
       (cf = 1 <=> BignumFromMemory(mem, call.z, j) >= NumLow(call, j))

\* The subtraction: with what has been and has yet to be taken off, z is the
\* window v; the mask says whether v is at least the modulus.
Subtracting(cl, memory, t, flag, mask) ==
  /\ mask \in {0, B - 1}
  /\ \E v \in 0..(2 * Pow[cl.k] - 1), carry \in {0, 1} :
       /\ WindowAt(cl, v, cl.p)
       /\ mask # 0 <=> v >= Num(cl)
       /\ BignumFromMemory(memory, cl.z, cl.k) + (IF mask = 0 THEN 0 ELSE NumLow(cl, t))
            - Pow[t] * (1 - flag) + Pow[cl.k] * carry = v

Corrected ==
  /\ pc = "corrloop" => Subtracting(call, mem, j, cf, c)
  /\ pc = "end" /\ call.k > 0 => Subtracting(call, mem, call.k, cf, c)

IInv == /\ CallOK(call) /\ Registers /\ Counters /\ FrameInv
        /\ Copied /\ Inverted /\ WindowInv /\ Corrected

LEMMA CallFacts ==
  ASSUME NEW cl, CallOK(cl)
  PROVE  /\ cl.mem \in Memory
         /\ cl.k \in Nat /\ cl.n \in Nat /\ cl.p \in Nat
         /\ cl.z \in Int /\ cl.x \in Int /\ cl.m \in Int
         /\ Block(cl.z, cl.k) \subseteq Addr /\ Block(cl.m, cl.k) \subseteq Addr
         /\ InMemory(cl.x, cl.n)
         /\ Num(cl) \in 0..(Pow[cl.k] - 1)
         /\ \A t \in Nat : Pow[t] \in Nat \ {0} /\ Pow[t + 1] = B * Pow[t]
<1>1. /\ cl.mem \in Memory /\ cl.k \in Nat /\ cl.n \in Nat /\ cl.p \in Nat
      /\ cl.z \in Int /\ cl.x \in Int /\ cl.m \in Int
      /\ Block(cl.z, cl.k) \subseteq Addr /\ Block(cl.m, cl.k) \subseteq Addr
      /\ InMemory(cl.x, cl.n)
  BY SizeAssumption DEF CallOK, Size, Addr, InMemory
<1>2. Num(cl) \in 0..(Pow[cl.k] - 1)
  BY <1>1, ValueType DEF Num
<1> QED BY <1>1, <1>2, PowType, PowStep

LEMMA XFacts ==
  ASSUME NEW cl, CallOK(cl), NEW t \in Nat
  PROVE  /\ XLow(cl, t) \in 0..(Pow[t] - 1) /\ XLow(cl, 0) = 0
         /\ XDigit(cl, t) \in Word
         /\ XLow(cl, t + 1) = XLow(cl, t) + Pow[t] * XDigit(cl, t)
<1>1. /\ cl.mem \in Memory /\ cl.n \in Nat /\ cl.x \in Int /\ InMemory(cl.x, cl.n)
  BY CallFacts
<1>2. XLow(cl, t) \in 0..(Pow[t] - 1)
  BY <1>1, PrefixSplit DEF XLow
<1>3. XLow(cl, 0) = 0
  BY <1>1, ValueUnfold DEF XLow, Prefix, Lesser
<1> QED BY <1>1, <1>2, <1>3, PrefixStep DEF XLow, XDigit

\* The words of the modulus are where they were.
LEMMA ModulusWords ==
  ASSUME NEW cl, CallOK(cl), NEW memory \in Memory, MayChange(cl.mem, memory, Block(cl.z, cl.k)),
         NEW t \in Nat, t < cl.k
  PROVE  memory[cl.m + t] = cl.mem[cl.m + t] /\ cl.mem[cl.m + t] \in Word
<1>1. cl.m + t \in Block(cl.m, cl.k) /\ cl.m + t \in Addr
  <2>1. cl.m \in Int /\ cl.k \in Nat /\ Block(cl.m, cl.k) \subseteq Addr
    BY CallFacts
  <2>2. cl.m + t \in Block(cl.m, cl.k)
    BY <2>1 DEF Block
  <2> QED BY <2>1, <2>2
<1>2. cl.m + t \notin Block(cl.z, cl.k)
  BY <1>1 DEF CallOK, Nonoverlapping
<1> QED BY <1>1, <1>2 DEF MayChange, CallOK, Memory

LEMMA ModulusSplit ==
  ASSUME NEW cl, CallOK(cl), NEW t \in Nat, t < cl.k
  PROVE  /\ NumLow(cl, t) \in Nat /\ NumLow(cl, t + 1) = NumLow(cl, t) + Pow[t] * cl.mem[cl.m + t]
         /\ NumLow(cl, 0) = 0 /\ NumLow(cl, cl.k) = Num(cl)
         /\ Num(cl) = cl.mem[cl.m] + B * High(cl.mem, cl.m, cl.k, 1)
         /\ Odd(cl) => cl.mem[cl.m] % 2 = 1
<1>1. NumLow(cl, t) \in Nat
  <2>1. Block(cl.m, t) \subseteq Addr
    BY CallFacts DEF Block
  <2>2. NumLow(cl, t) \in 0..(Pow[t] - 1)
    BY <2>1, CallFacts, ValueType DEF NumLow
  <2> QED BY <2>2, PowType
<1>2. /\ NumLow(cl, t + 1) = NumLow(cl, t) + Pow[t] * cl.mem[cl.m + t]
      /\ NumLow(cl, 0) = 0 /\ NumLow(cl, cl.k) = Num(cl)
  BY ValueUnfold DEF NumLow, Num
<1> DEFINE g == High(cl.mem, cl.m, cl.k, 1)
           m0 == cl.mem[cl.m]
<1>3. Num(cl) = m0 + B * g /\ m0 \in Word /\ g \in Nat
  <2>1. cl.m + 0 = cl.m /\ 0 < cl.k /\ 0 + 1 = 1 /\ 1 <= cl.k
    BY CallFacts
  <2>2. /\ High(cl.mem, cl.m, cl.k, 0) = Num(cl)
        /\ m0 \in Word /\ High(cl.mem, cl.m, cl.k, 0) = m0 + B * g
    BY <2>1, CallFacts, HighStep DEF Num
  <2>3. g \in 0..(Pow[cl.k - 1] - 1) /\ cl.k - 1 \in Nat
    <3>1. 1 \in Nat /\ cl.k - 1 \in Nat
      BY <2>1, CallFacts
    <3> QED BY <2>1, <3>1, CallFacts, HighStep
  <2> HIDE DEF g, m0
  <2> QED BY <2>2, <2>3, PowType
<1>4. Odd(cl) => m0 % 2 = 1
  <2>1. PICK s \in Nat : B = 2 * s
    BY BaseEven
  <2>2. m0 \in Nat
    BY <1>3 DEF Word
  <2> HIDE DEF g, m0
  <2>3. B * g = 2 * (s * g) /\ s * g \in Nat
    BY <1>3, <2>1
  <2> DEFINE u == s * g
  <2>4. u \in Nat /\ Num(cl) = m0 + 2 * u
    BY <1>3, <2>3
  <2> HIDE DEF u
  <2> QED BY <2>2, <2>4 DEF Odd
<1> QED BY <1>1, <1>2, <1>3, <1>4

\* Words of x that are still to be read are where they were.
LEMMA XWord ==
  ASSUME NEW cl, CallOK(cl), NEW memory \in Memory, NEW s \in Nat, s <= cl.k,
         MayChange(cl.mem, memory, Block(cl.z, s)), NEW t \in Nat, s <= t
  PROVE  XDigit(cl, t) = IF t < cl.n THEN memory[cl.x + t] ELSE 0
<1>1. Digit(memory, cl.x, cl.n, t) = Digit(cl.mem, cl.x, cl.n, t)
  BY CallFacts, DigitIntact DEF CallOK
<1> QED BY <1>1 DEF XDigit, Digit

LEMMA FrameStep ==
  ASSUME NEW old, NEW memory, NEW new, NEW blk,
         MayChange(old, memory, blk), MayChange(memory, new, blk)
  PROVE  MayChange(old, new, blk)
BY DEF MayChange

\* The numbers a bignum of t words within the block at z can be.
LEMMA PartFacts ==
  ASSUME NEW memory \in Memory, NEW a \in Int, NEW k \in Nat, NEW t \in Nat, t <= k,
         Block(a, k) \subseteq Addr
  PROVE  BignumFromMemory(memory, a, t) \in 0..(Pow[t] - 1) /\ BignumFromMemory(memory, a, t) \in Nat
<1>1. Block(a, t) \subseteq Addr
  BY DEF Block
<1>2. BignumFromMemory(memory, a, t) \in 0..(Pow[t] - 1)
  BY <1>1, ValueType
<1> QED BY <1>2, PowType

LEMMA InitInv == Init => IInv
<1> SUFFICES ASSUME Init PROVE IInv
  OBVIOUS
<1>1. mem \in Memory /\ call.mem = mem
  BY DEF Init
<1>2. CallOK(call)
  BY <1>1 DEF Init, CallOK
<1>3. Registers
  <2>1. 0 \in Word
    BY BaseAssumption DEF Word
  <2> QED BY <1>1, <2>1 DEF Init, Registers
<1>4. FrameInv
  BY <1>1 DEF Init, FrameInv, MayChange
<1>5. Counters /\ Copied /\ Inverted /\ WindowInv /\ Corrected
  BY DEF Init, Counters, Copied, Inverted, WindowInv, Corrected
<1> QED BY <1>2, <1>3, <1>4, <1>5 DEF IInv

-----------------------------------------------------------------------------
(* The initialization                                                      *)

LEMMA EntryStep == IInv /\ Entry => IInv'
<1> SUFFICES ASSUME IInv, Entry PROVE IInv'
  OBVIOUS
<1>1. /\ pc = "entry" /\ call' = call /\ mem' = mem /\ mem = call.mem
      /\ UNCHANGED <<d, h, c, cf>>
  BY DEF Entry, IInv, FrameInv
<1>2. CallOK(call) /\ CallOK(call)' /\ Registers /\ FrameInv
  BY <1>1 DEF IInv
<1>3. call.k \in Nat /\ call.n \in Nat /\ call.mem \in Memory
  BY <1>2, CallFacts
<1>4. CASE call.k = 0
  <2>1. pc' = "end" /\ UNCHANGED <<w, i, j>>
    BY <1>4 DEF Entry
  <2> QED BY <1>1, <1>2, <1>4, <2>1
      DEF IInv, Registers, Counters, FrameInv, Copied, Inverted, WindowInv, Corrected
<1>5. CASE call.k # 0
  <2>1. /\ w' = NegModInv(mem[call.m]) /\ j' = Lesser(call.n, call.k) /\ i' = 0
        /\ pc' = IF j' = 0 THEN "padloop" ELSE "copyloop"
    BY <1>5 DEF Entry
  <2>2. j' \in Nat /\ pc' \in {"padloop", "copyloop"}
    BY <1>3, <2>1 DEF Lesser
  <2>3. call.mem[call.m] \in Word
    <3>1. call.m + 0 = call.m /\ 0 < call.k /\ 0 \in Nat
      BY <1>2, <1>3, <1>5, CallFacts
    <3>2. MayChange(call.mem, call.mem, Block(call.z, call.k))
      BY DEF MayChange
    <3> QED BY <1>2, <1>3, <3>1, <3>2, ModulusWords
  <2>4. w' \in Word /\ (call.mem[call.m] % 2 = 1 => (call.mem[call.m] * w' + 1) % B = 0)
    BY <1>1, <2>1, <2>3, NegModInvCorrect
  <2>5. Odd(call) => call.mem[call.m] % 2 = 1
    <3>1. 0 \in Nat /\ 0 < call.k
      BY <1>3, <1>5
    <3> QED BY <1>2, <3>1, ModulusSplit
  <2>6. Registers'
    <3>1. call.k > 0
      BY <1>3, <1>5
    <3> QED BY <1>1, <1>2, <2>1, <2>2, <2>4, <3>1 DEF Registers
  <2>7. Counters'
    BY <1>1, <1>3, <1>5, <2>1, <2>2 DEF Counters, Lesser
  <2>8. FrameInv'
    BY <1>1, <1>2, <2>2 DEF FrameInv
  <2>9. Copied'
    <3>1. BignumFromMemory(mem, call.z, 0) = 0
      BY ValueUnfold
    <3>2. XLow(call, 0) = 0
      <4>1. 0 \in Nat OBVIOUS
      <4> QED BY <4>1, <1>2, XFacts
    <3>3. MayChange(call.mem, mem, Block(call.z, 0))
      BY <1>1 DEF MayChange
    <3> QED BY <1>1, <2>1, <2>2, <3>1, <3>2, <3>3 DEF Copied
  <2>10. Inverted'
    <3>1. w' \in Nat /\ call.mem[call.m] \in Nat
      BY <2>3, <2>4, BaseAssumption DEF Word
    <3>2. w' * call.mem[call.m] = call.mem[call.m] * w'
      BY <3>1
    <3> QED BY <1>1, <2>4, <2>5, <3>2 DEF Inverted
  <2>11. WindowInv' /\ Corrected'
    BY <2>2 DEF WindowInv, Corrected
  <2> QED BY <1>2, <2>6, <2>7, <2>8, <2>9, <2>10, <2>11 DEF IInv
<1> QED BY <1>4, <1>5

\* A word of x, or a zero beyond its end, goes to the word of z with the same index.
LEMMA Extend ==
  ASSUME IInv, pc \in {"copyloop", "padloop"}, NEW v, v = XDigit(call, i),
         mem' = [mem EXCEPT ![call.z + i] = v], i' = i + 1, UNCHANGED <<j, w, d, h, c, cf, call>>,
         pc' \in {"copyloop", "padloop", "initialized"},
         pc' = "initialized" => i' = call.k,
         pc' # "entry", Counters'
  PROVE  IInv'
<1>1. CallOK(call) /\ CallOK(call)' /\ Registers /\ Inverted /\ i \in Nat /\ mem \in Memory /\ i < call.k
  BY DEF IInv, Registers, Counters, Lesser, CallOK, Size
<1>2. call.z \in Int /\ call.k \in Nat /\ Block(call.z, call.k) \subseteq Addr
  BY <1>1, CallFacts
<1>3. call.z + i \in Addr
  BY <1>1, <1>2 DEF Block
<1>4. v \in Word /\ XLow(call, i + 1) = XLow(call, i) + Pow[i] * v
  BY <1>1, XFacts
<1>5. /\ mem' \in Memory
      /\ BignumFromMemory(mem', call.z, i + 1) = BignumFromMemory(mem, call.z, i) + Pow[i] * v
  BY <1>1, <1>2, <1>3, <1>4, AppendWord
<1>6. BignumFromMemory(mem', call.z, i + 1) = XLow(call, i + 1)
  BY <1>4, <1>5 DEF IInv, Copied
<1>7. MayChange(call.mem, mem, Block(call.z, i)) /\ call.mem \in Memory
  BY <1>1 DEF IInv, Copied, CallOK
<1>8. MayChange(call.mem, mem', Block(call.z, i + 1))
  BY <1>1, <1>2, <1>7, FrameGrows
<1>9. MayChange(call.mem, mem', Block(call.z, call.k))
  <2>1. Block(call.z, i + 1) \subseteq Block(call.z, call.k)
    BY <1>1, <1>2 DEF Block
  <2> QED BY <1>8, <2>1 DEF MayChange
<1>10. Registers'
  BY <1>1, <1>5 DEF Registers
<1>11. FrameInv'
  BY <1>9 DEF FrameInv
<1>12. Copied'
  BY <1>6, <1>8 DEF Copied, Zval
<1>13. Inverted'
  BY <1>1 DEF Inverted
<1>14. WindowInv' /\ Corrected'
  BY DEF WindowInv, Corrected
<1> QED BY <1>1, <1>10, <1>11, <1>12, <1>13, <1>14 DEF IInv

LEMMA CopyStep == IInv /\ CopyLoop => IInv'
<1> SUFFICES ASSUME IInv, CopyLoop PROVE IInv'
  OBVIOUS
<1>1. /\ pc = "copyloop" /\ mem' = [mem EXCEPT ![call.z + i] = mem[call.x + i]] /\ i' = i + 1
      /\ UNCHANGED <<j, w, d, h, c, cf, call>>
      /\ pc' = IF i' < j THEN "copyloop" ELSE IF i' < call.k THEN "padloop" ELSE "initialized"
  BY DEF CopyLoop
<1>2. /\ i \in Nat /\ i < j /\ j = Lesser(call.n, call.k) /\ call.k \in Nat /\ call.n \in Nat
      /\ CallOK(call) /\ mem \in Memory /\ MayChange(call.mem, mem, Block(call.z, i))
  BY <1>1, CallFacts DEF IInv, Registers, Counters, Copied
<1>3. i < call.n /\ i < call.k
  BY <1>2 DEF Lesser
<1>4. mem[call.x + i] = XDigit(call, i)
  BY <1>2, <1>3, XWord
<1>5. Counters' /\ (pc' = "initialized" => i' = call.k)
  BY <1>1, <1>2, <1>3 DEF Counters, Lesser
<1>6. pc' \in {"copyloop", "padloop", "initialized"} /\ pc' # "entry"
  BY <1>1
<1> QED BY <1>1, <1>4, <1>5, <1>6, Extend

LEMMA PadStep == IInv /\ PadLoop => IInv'
<1> SUFFICES ASSUME IInv, PadLoop PROVE IInv'
  OBVIOUS
<1>1. /\ pc = "padloop" /\ mem' = [mem EXCEPT ![call.z + i] = 0] /\ i' = i + 1
      /\ UNCHANGED <<j, w, d, h, c, cf, call>>
      /\ pc' = IF i' < call.k THEN "padloop" ELSE "initialized"
  BY DEF PadLoop
<1>2. /\ i \in Nat /\ j <= i /\ i < call.k /\ j = Lesser(call.n, call.k)
      /\ call.k \in Nat /\ call.n \in Nat
      /\ CallOK(call) /\ mem \in Memory /\ MayChange(call.mem, mem, Block(call.z, i))
  BY <1>1, CallFacts DEF IInv, Registers, Counters, Copied
<1>3. ~ (i < call.n)
  BY <1>2 DEF Lesser
<1>4. XDigit(call, i) = 0
  BY <1>2, <1>3, XWord
<1>5. Counters' /\ (pc' = "initialized" => i' = call.k)
  BY <1>1, <1>2 DEF Counters, Lesser
<1>6. pc' \in {"copyloop", "padloop", "initialized"} /\ pc' # "entry"
  BY <1>1
<1> QED BY <1>1, <1>4, <1>5, <1>6, Extend

LEMMA InitializedStep == IInv /\ Initialized => IInv'
<1> SUFFICES ASSUME IInv, Initialized PROVE IInv'
  OBVIOUS
<1>1. /\ pc = "initialized" /\ c' = 0 /\ UNCHANGED <<mem, j, w, d, h, cf, call>>
      /\ IF call.p = 0 THEN pc' = "corrective" /\ UNCHANGED i ELSE pc' = "outerloop" /\ i' = 0
  BY DEF Initialized
<1>2. CallOK(call) /\ CallOK(call)' /\ Registers /\ FrameInv /\ Inverted /\ Zval = XLow(call, call.k)
  BY <1>1 DEF IInv, Copied
<1>3. call.p \in Nat /\ call.k \in Nat /\ Pow[call.k] \in Nat /\ Pow[0] = 1 /\ Num(call) \in Nat
      /\ mem \in Memory /\ call.z \in Int /\ Block(call.z, call.k) \subseteq Addr
  BY <1>2, CallFacts, PowType, PowStep DEF Registers
<1>4. pc' \in {"corrective", "outerloop"}
  BY <1>1
<1>5. Registers'
  <2>1. 0 \in Word
    BY BaseAssumption DEF Word
  <2> QED BY <1>1, <1>2, <1>4, <2>1 DEF Registers
<1>6. Counters'
  BY <1>1, <1>3, <1>4 DEF Counters
<1>7. FrameInv' /\ Inverted' /\ Copied' /\ Corrected'
  BY <1>1, <1>2, <1>4 DEF FrameInv, Inverted, Copied, Corrected
<1>8. Top' = Zval
  <2>1. Zval \in Nat
    BY <1>3, PartFacts DEF Zval
  <2>2. Zval' = Zval /\ Pow[call.k] * 0 = 0
    BY <1>1, <1>3 DEF Zval
  <2> QED BY <1>1, <2>1, <2>2 DEF Top
<1>9. WindowAt(call, Zval, 0)
  <2>1. XLow(call, call.k) \in Nat
    BY <1>2, <1>3, XFacts
  <2>2. Pow[0] * Zval + 0 = XLow(call, call.k + 0) + 0 * Num(call)
    BY <1>2, <1>3, <2>1
  <2>3. 0 \in 0..(Pow[0] - 1)
    BY <1>3
  <2> QED BY <2>2, <2>3 DEF WindowAt, Balanced
<1>10. WindowInv'
  <2>1. pc' = "outerloop" => i' = 0
    BY <1>1
  <2>2. pc' = "corrective" => call.p = 0
    BY <1>1
  <2>3. c' \in {0, 1} /\ call' = call
    BY <1>1
  <2>4. WindowAt(call, Top, i)' <=> WindowAt(call, Zval, i')
    BY <1>1, <1>8 DEF WindowAt, Balanced, XLow, Num, Odd
  <2>5. WindowAt(call, Top, call.p)' <=> WindowAt(call, Zval, call.p)
    BY <1>1, <1>8 DEF WindowAt, Balanced, XLow, Num, Odd
  <2> QED BY <1>4, <1>9, <2>1, <2>2, <2>3, <2>4, <2>5 DEF WindowInv
<1> QED BY <1>2, <1>5, <1>6, <1>7, <1>10 DEF IInv

-----------------------------------------------------------------------------
(* The outer loop                                                          *)

\* Adding a multiple of the modulus that clears the lowest word, and dropping
\* that word, leaves the balance.
LEMMA BalancedStep ==
  ASSUME NEW cl, CallOK(cl), NEW v \in Nat, NEW u \in Nat, NEW s \in Nat, NEW t \in Nat,
         NEW mult \in Word, NEW low \in Word,
         Balanced(cl, Pow[t] * v, s, t), v + mult * Num(cl) = low + u, Odd(cl) => low = 0
  PROVE  Balanced(cl, Pow[t] * u, s, t + 1)
<1> DEFINE P == Pow[t]
           N == Num(cl)
           X == XLow(cl, s)
<1>1. PICK q \in 0..(P - 1), e \in 0..(P - 1) : P * v + e = X + q * N /\ (Odd(cl) => e = 0)
  BY DEF Balanced
<1>2. P \in Nat /\ N \in Nat /\ X \in Nat /\ Pow[t + 1] = B * P /\ B \in Nat
  BY CallFacts, XFacts, PowType, PowStep, BaseAssumption
<1>3. mult \in Nat /\ mult <= B - 1 /\ low \in Nat /\ low <= B - 1
  BY BaseAssumption DEF Word
<1> HIDE DEF P, N, X
<1>4. q + P * mult \in 0..(B * P - 1) /\ e + P * low \in 0..(B * P - 1)
  <2>1. P * mult <= P * (B - 1) /\ P * low <= P * (B - 1) /\ P * mult \in Nat /\ P * low \in Nat
    BY <1>2, <1>3
  <2>2. P * (B - 1) = B * P - P /\ B * P \in Nat
    BY <1>2
  <2> QED BY <1>1, <1>2, <2>1, <2>2
<1>5. P * u + (e + P * low) = X + (q + P * mult) * N
  <2>1. v + mult * N = low + u
    BY DEF N
  <2>2. P * (v + mult * N) = P * v + (P * mult) * N /\ P * (low + u) = P * low + P * u
    BY <1>2, <1>3
  <2>3. (q + P * mult) * N = q * N + (P * mult) * N
    BY <1>1, <1>2, <1>3
  <2>4. P * v \in Nat /\ P * low \in Nat /\ P * u \in Nat /\ q * N \in Nat /\ (P * mult) * N \in Nat
    BY <1>1, <1>2, <1>3
  <2> DEFINE y1 == P * v
             y2 == P * low
             y3 == P * u
             y4 == q * N
             y5 == (P * mult) * N
  <2>5. /\ y1 + y5 = y2 + y3 /\ y1 + e = X + y4 /\ (q + P * mult) * N = y4 + y5
        /\ y1 \in Nat /\ y2 \in Nat /\ y3 \in Nat /\ y4 \in Nat /\ y5 \in Nat /\ e \in Nat
    BY <1>1, <1>2, <2>1, <2>2, <2>3, <2>4
  <2> HIDE DEF y1, y2, y3, y4, y5
  <2>6. y3 + (e + y2) = X + (y4 + y5)
    BY <1>2, <2>5
  <2> QED BY <2>5, <2>6 DEF y2, y3
<1>6. Odd(cl) => e + P * low = 0
  BY <1>1, <1>2
<1> QED BY <1>2, <1>4, <1>5, <1>6 DEF Balanced, P, N, X

\* The high part of a window at index t, its low words and its value.
LEMMA WindowParts ==
  ASSUME NEW cl, CallOK(cl), NEW memory \in Memory, NEW t \in Nat, t <= cl.k
  PROVE  /\ High(memory, cl.z, cl.k, t) \in Nat /\ High(cl.mem, cl.m, cl.k, t) \in Nat
         /\ t < cl.k =>
              /\ memory[cl.z + t] \in Word /\ cl.mem[cl.m + t] \in Word
              /\ High(memory, cl.z, cl.k, t)
                 = memory[cl.z + t] + B * High(memory, cl.z, cl.k, t + 1)
              /\ High(cl.mem, cl.m, cl.k, t)
                 = cl.mem[cl.m + t] + B * High(cl.mem, cl.m, cl.k, t + 1)
         /\ t = cl.k => High(memory, cl.z, cl.k, t) = 0 /\ High(cl.mem, cl.m, cl.k, t) = 0
<1>1. /\ cl.mem \in Memory /\ cl.k \in Nat /\ cl.z \in Int /\ cl.m \in Int
      /\ Block(cl.z, cl.k) \subseteq Addr /\ Block(cl.m, cl.k) \subseteq Addr
  BY CallFacts
<1>2. /\ High(memory, cl.z, cl.k, t) \in 0..(Pow[cl.k - t] - 1)
      /\ High(cl.mem, cl.m, cl.k, t) \in 0..(Pow[cl.k - t] - 1)
  BY <1>1, HighStep
<1>3. cl.k - t \in Nat
  BY <1>1
<1>4. High(memory, cl.z, cl.k, t) \in Nat /\ High(cl.mem, cl.m, cl.k, t) \in Nat
  BY <1>2, <1>3, PowType
<1>5. t < cl.k =>
        /\ memory[cl.z + t] \in Word /\ cl.mem[cl.m + t] \in Word
        /\ High(memory, cl.z, cl.k, t) = memory[cl.z + t] + B * High(memory, cl.z, cl.k, t + 1)
        /\ High(cl.mem, cl.m, cl.k, t) = cl.mem[cl.m + t] + B * High(cl.mem, cl.m, cl.k, t + 1)
  BY <1>1, HighStep
<1>6. t = cl.k => High(memory, cl.z, cl.k, t) = 0 /\ High(cl.mem, cl.m, cl.k, t) = 0
  BY <1>1, HighStep
<1> QED BY <1>4, <1>5, <1>6

\* The value of a bignum from its lowest word.
LEMMA FromBottom ==
  ASSUME NEW cl, CallOK(cl), NEW memory \in Memory, cl.k > 0
  PROVE  /\ memory[cl.z] \in Word
         /\ High(memory, cl.z, cl.k, 1) \in Nat
         /\ BignumFromMemory(memory, cl.z, cl.k) = memory[cl.z] + B * High(memory, cl.z, cl.k, 1)
<1>1. /\ cl.mem \in Memory /\ cl.k \in Nat /\ cl.z \in Int /\ Block(cl.z, cl.k) \subseteq Addr
      /\ cl.z + 0 = cl.z /\ 0 + 1 = 1 /\ 0 < cl.k /\ 1 <= cl.k /\ 0 \in Nat /\ 1 \in Nat /\ 0 <= cl.k
  BY CallFacts
<1>2. High(memory, cl.z, cl.k, 0) = BignumFromMemory(memory, cl.z, cl.k)
  BY <1>1, HighStep
<1>3. /\ memory[cl.z + 0] \in Word
      /\ High(memory, cl.z, cl.k, 0) = memory[cl.z + 0] + B * High(memory, cl.z, cl.k, 0 + 1)
  BY <1>1, WindowParts
<1>4. High(memory, cl.z, cl.k, 1) \in Nat
  BY <1>1, WindowParts
<1> QED BY <1>1, <1>2, <1>3, <1>4

\* The multiplier of the outer loop: the word that leaves, and the carry and the
\* high word that stay.
Clears(z0, m0, inv, mult, high, flag) ==
  /\ mult \in Word /\ high \in Word /\ flag \in {0, 1}
  /\ \E low \in Word : /\ z0 + mult * m0 = low + B * (high + flag)
                       /\ (inv * m0 + 1) % B = 0 => low = 0

LEMMA ClearsHolds ==
  ASSUME NEW z0 \in Word, NEW m0 \in Word, NEW inv \in Word, NEW mult, mult = (z0 * inv) % B,
         NEW high, high = (mult * m0) \div B,
         NEW flag, flag = (z0 + ((mult * m0) % B)) \div B
  PROVE  Clears(z0, m0, inv, mult, high, flag)
<1>1. z0 \in Nat /\ m0 \in Nat /\ inv \in Nat /\ B \in Nat \ {0} /\ m0 <= B - 1
  BY BaseAssumption DEF Word
<1> DEFINE a == z0 * inv
           g == a \div B
<1>2. a \in Nat
  BY <1>1
<1>3. mult \in Word /\ g \in Int /\ a = B * g + mult
  <2>1. mult = a % B
    OBVIOUS
  <2> HIDE DEF a
  <2> QED BY <1>2, <2>1, WordDivMod
<1>4. mult \in Nat /\ mult <= B - 1
  BY <1>3, BaseAssumption DEF Word
<1> DEFINE prod == mult * m0
           rest == prod % B
<1>5. prod \in Nat /\ prod <= (B - 1) * (B - 1)
  BY <1>1, <1>4
<1>6. high \in Int /\ rest \in Word /\ prod = B * high + rest
  <2>1. high = prod \div B
    OBVIOUS
  <2> HIDE DEF prod
  <2> QED BY <1>5, <2>1, WordDivMod
<1>7. high \in Word
  <2>1. rest \in Nat /\ rest <= B - 1
    BY <1>6, BaseAssumption DEF Word
  <2>2. (B - 1) * (B - 1) = B * B - 2 * B + 1
    BY <1>1
  <2> HIDE DEF prod, rest
  <2>3. high >= 0
    BY <1>1, <1>5, <1>6, <2>1
  <2>4. high < B
    <3>1. SUFFICES ASSUME high >= B PROVE FALSE
      BY <1>1, <1>6
    <3>2. B * high >= B * B
      BY <1>1, <1>6, <3>1
    <3>3. B * B \in Nat /\ B * high \in Int
      BY <1>1, <1>6
    <3> QED BY <1>1, <1>5, <1>6, <2>1, <2>2, <3>2, <3>3, BaseAssumption
  <2> QED BY <1>6, <2>3, <2>4, BaseAssumption DEF Word
<1> DEFINE sum == z0 + rest
           low == sum % B
<1>8. flag \in {0, 1} /\ low \in Word /\ sum = B * flag + low
  <2>1. 0 \in {0, 1} /\ sum = z0 + rest + 0 /\ sum \in Int
    BY <1>1, <1>6, BaseAssumption DEF Word
  <2>2. flag = sum \div B
    OBVIOUS
  <2>3. (z0 + rest + 0) \div B \in {0, 1}
    <3> HIDE DEF rest
    <3> QED BY <1>6, <2>1, CarryBit
  <2>4. sum = B * (sum \div B) + (sum % B) /\ sum % B \in Word
    <3> HIDE DEF sum
    <3> QED BY <2>1, WordDivMod
  <2>5. flag \in {0, 1}
    BY <2>1, <2>2, <2>3
  <2> QED BY <2>2, <2>4, <2>5
<1>9. z0 + mult * m0 = low + B * (high + flag)
  <2>1. mult * m0 = B * high + rest /\ rest \in Nat /\ low \in Nat
    BY <1>6, <1>8, BaseAssumption DEF Word
  <2>2. z0 + rest = B * flag + low
    BY <1>8
  <2> HIDE DEF rest, low
  <2>3. B * (high + flag) = B * high + B * flag /\ B * high \in Int /\ B * flag \in Int
    <3>1. high \in Int /\ flag \in Int /\ B \in Int
      BY <1>1, <1>6, <1>8
    <3> QED BY ONLY <3>1
  <2> DEFINE y == mult * m0
             s1 == B * high
             s2 == B * flag
  <2>4. y = s1 + rest /\ z0 + rest = s2 + low /\ s1 \in Int /\ s2 \in Int /\ B * (high + flag) = s1 + s2
    BY <2>1, <2>2, <2>3
  <2> HIDE DEF y, s1, s2
  <2>5. z0 + y = low + (s1 + s2)
    BY <1>1, <2>1, <2>4
  <2> QED BY <2>4, <2>5 DEF y
<1>10. ASSUME (inv * m0 + 1) % B = 0 PROVE low = 0
  <2> DEFINE n == inv * m0 + 1
             r == n \div B
  <2>1. r \in Int /\ n = B * r
    <3>1. n \in Int /\ n % B = 0
      BY <1>1, <1>10
    <3> HIDE DEF n
    <3>2. n \div B \in Int /\ n = B * (n \div B) + (n % B)
      BY <3>1, WordDivMod
    <3>3. B * (n \div B) \in Int
      BY <3>2, <1>1
    <3> QED BY <3>1, <3>2, <3>3
  <2> HIDE DEF r
  <2>2. low = B * (z0 * r - g * m0 - high - flag)
    <3>1. z0 + mult * m0 = z0 * n - B * (g * m0)
      <4>1. z0 * n = (z0 * inv) * m0 + z0
        BY <1>1
      <4>2. (z0 * inv) * m0 = (B * g) * m0 + mult * m0
        <5>1. B * g \in Int
          BY <1>1, <1>3
        <5>2. (B * g + mult) * m0 = (B * g) * m0 + mult * m0
          BY <1>1, <1>4, <5>1
        <5> QED BY <1>3, <5>2
      <4>3. (B * g) * m0 = B * (g * m0) /\ B * (g * m0) \in Int /\ mult * m0 \in Int
        BY <1>1, <1>3, <1>4
      <4> DEFINE y == (z0 * inv) * m0
                 y1 == B * (g * m0)
                 y2 == mult * m0
                 y3 == z0 * n
      <4>4. y3 = y + z0 /\ y = y1 + y2 /\ y1 \in Int /\ y2 \in Int
        BY <4>1, <4>2, <4>3
      <4> HIDE DEF y, y1, y2, y3
      <4>5. z0 + y2 = y3 - y1
        BY <1>1, <4>4
      <4> QED BY <4>5 DEF y1, y2, y3
    <3>2. z0 * n = B * (z0 * r)
      BY <1>1, <2>1
    <3>3. B * (z0 * r - g * m0 - high - flag) = B * (z0 * r) - B * (g * m0) - B * (high + flag)
      <4> DEFINE y == z0 * r
                 y1 == g * m0
      <4>1. y \in Int /\ y1 \in Int
        BY <1>1, <1>3, <2>1
      <4> HIDE DEF y, y1
      <4>2. B * (y - y1 - high - flag) = B * y - B * y1 - B * (high + flag)
        BY <1>1, <1>6, <1>8, <4>1
      <4> QED BY <4>2 DEF y, y1
    <3>4. B * (z0 * r) \in Int /\ B * (g * m0) \in Int /\ B * (high + flag) \in Int /\ low \in Int
      <4>1. low \in Int
        BY <1>8, BaseAssumption DEF Word
      <4>2. z0 * r \in Int /\ g * m0 \in Int /\ high + flag \in Int
        BY <1>1, <1>3, <1>6, <1>8, <2>1
      <4> QED BY <1>1, <4>1, <4>2
    <3> DEFINE y == B * (z0 * r)
               y1 == B * (g * m0)
               y2 == B * (high + flag)
               y3 == z0 + mult * m0
    <3>5. y3 = y - y1 /\ y3 = low + y2 /\ y \in Int /\ y1 \in Int /\ y2 \in Int /\ low \in Int
      BY <1>9, <3>1, <3>2, <3>4
    <3> HIDE DEF y, y1, y2, y3, low
    <3>6. low = y - y1 - y2
      BY <3>5
    <3> QED BY <3>3, <3>6 DEF y, y1, y2
  <2> DEFINE x == z0 * r - g * m0 - high - flag
  <2>3. x \in Int
    BY <1>1, <1>3, <1>6, <1>8, <2>1
  <2>4. low \in 0..(B - 1) /\ low = B * x
    BY <1>8, <2>2 DEF Word
  <2> HIDE DEF low, x
  <2>5. ~ (x >= 1)
    <3>1. SUFFICES ASSUME x >= 1 PROVE FALSE
      OBVIOUS
    <3>2. B * x >= B
      BY <1>1, <2>3, <3>1
    <3> QED BY <1>1, <2>4, <3>2
  <2>6. ~ (x <= -1)
    <3>1. SUFFICES ASSUME x <= -1 PROVE FALSE
      OBVIOUS
    <3>2. B * x <= -B
      BY <1>1, <2>3, <3>1
    <3> QED BY <1>1, <2>4, <3>2
  <2>7. x = 0
    BY <2>3, <2>5, <2>6
  <2> QED BY <1>1, <2>4, <2>7
<1> QED BY <1>3, <1>7, <1>8, <1>9, <1>10 DEF Clears

LEMMA TopNat ==
  ASSUME NEW cl, CallOK(cl), NEW memory \in Memory, NEW carry \in {0, 1}
  PROVE  /\ BignumFromMemory(memory, cl.z, cl.k) \in 0..(Pow[cl.k] - 1)
         /\ BignumFromMemory(memory, cl.z, cl.k) + Pow[cl.k] * carry \in 0..(2 * Pow[cl.k] - 1)
         /\ Pow[cl.k] * carry \in Nat /\ Pow[cl.k] \in Nat \ {0}
<1> DEFINE Z == BignumFromMemory(memory, cl.z, cl.k)
           P == Pow[cl.k]
<1>1. Z \in 0..(P - 1) /\ P \in Nat \ {0}
  BY CallFacts, ValueType
<1> HIDE DEF Z, P
<1>2. P * carry \in Nat /\ P * carry <= P
  BY <1>1
<1> QED BY <1>1, <1>2 DEF Z, P

\* The multiplier before the inner loop: one more multiple of the modulus.
Starts(cl, memory, carry, mult, high, flag, low) ==
  /\ Inner(cl, memory, 1, high, flag, mult, carry) \in Nat
  /\ BignumFromMemory(memory, cl.z, cl.k) + Pow[cl.k] * carry + mult * Num(cl)
     = low + Inner(cl, memory, 1, high, flag, mult, carry)

LEMMA InnerStart ==
  ASSUME NEW cl, CallOK(cl), cl.k > 0, NEW memory \in Memory, NEW carry \in {0, 1},
         NEW mult \in Word, NEW high \in Word, NEW flag \in {0, 1}, NEW low \in Word,
         memory[cl.z] + mult * cl.mem[cl.m] = low + B * (high + flag)
  PROVE  Starts(cl, memory, carry, mult, high, flag, low)
<1> DEFINE Z == BignumFromMemory(memory, cl.z, cl.k)
           N == Num(cl)
           R == Pow[cl.k] * carry
           hz == High(memory, cl.z, cl.k, 1)
           hm == High(cl.mem, cl.m, cl.k, 1)
           z0 == memory[cl.z]
           m0 == cl.mem[cl.m]
           U == Inner(cl, memory, 1, high, flag, mult, carry)
<1>1. z0 \in Word /\ hz \in Nat /\ Z = z0 + B * hz
  BY FromBottom
<1>2. N = m0 + B * hm
  <2>1. 0 \in Nat /\ 0 < cl.k
    BY CallFacts
  <2> QED BY <2>1, ModulusSplit
<1>3. hm \in Nat /\ m0 \in Word
  <2>1. 0 \in Nat /\ 1 \in Nat /\ 1 <= cl.k /\ 0 < cl.k /\ 0 <= cl.k /\ cl.m + 0 = cl.m
    BY CallFacts
  <2>2. hm \in Nat
    BY <2>1, WindowParts
  <2>3. cl.mem[cl.m + 0] \in Word
    BY <2>1, WindowParts
  <2> QED BY <2>1, <2>2, <2>3
<1>4. R \in Nat
  BY TopNat
<1>5. /\ B \in Nat /\ z0 \in Nat /\ m0 \in Nat /\ mult \in Nat /\ high \in Nat /\ low \in Nat /\ flag \in Nat
  BY <1>1, <1>3, BaseAssumption DEF Word
<1>6. U = B * (high + flag + hz + mult * hm) + R
  <2>1. BignumFromMemory(memory, cl.z, 1 - 1) = 0 /\ Pow[1] = B
    <3>1. BignumFromMemory(memory, cl.z, 0) = 0
      BY ValueUnfold
    <3>2. Pow[0 + 1] = B * Pow[0] /\ Pow[0] = 1 /\ 0 \in Nat
      BY PowStep
    <3> QED BY <3>1, <3>2, <1>5
  <2> DEFINE y == high + flag + hz + mult * hm
  <2>2. y \in Nat
    BY <1>1, <1>3, <1>5
  <2>3. U = B * 0 + B * y + R
    BY <2>1 DEF Inner
  <2> HIDE DEF y, U, R
  <2>4. B * 0 + B * y + R = B * y + R
    BY <1>4, <1>5, <2>2
  <2> QED BY <2>3, <2>4 DEF y
<1> HIDE DEF Z, N, R, hz, hm, z0, m0, U
<1>7. U \in Nat
  <2>1. mult * hm \in Nat
    BY <1>3, <1>5
  <2> DEFINE y == high + flag + hz + mult * hm
  <2>2. y \in Nat
    BY <1>1, <1>5, <2>1
  <2> HIDE DEF y
  <2>3. B * y \in Nat
    BY <1>5, <2>2
  <2> QED BY <1>4, <1>6, <2>3 DEF y
<1>8. Z + R + mult * N = low + U
  <2>1. mult * N = mult * m0 + B * (mult * hm)
    <3>1. mult * (m0 + B * hm) = mult * m0 + B * (mult * hm)
      BY <1>3, <1>5
    <3> QED BY <1>2, <3>1
  <2> DEFINE x1 == mult * m0
             x2 == mult * hm
  <2>2. x1 \in Nat /\ x2 \in Nat /\ mult * N = x1 + B * x2 /\ z0 + x1 = low + B * (high + flag)
        /\ U = B * (high + flag + hz + x2) + R
    BY <1>3, <1>5, <1>6, <2>1 DEF z0, m0
  <2> HIDE DEF x1, x2
  <2>3. B * (high + flag + hz + x2) = B * (high + flag) + B * hz + B * x2
    BY <1>1, <1>5, <2>2
  <2> DEFINE y1 == B * (high + flag)
             y2 == B * hz
             y3 == B * x2
             y4 == mult * N
  <2>4. y1 \in Nat /\ y2 \in Nat /\ y3 \in Nat
    <3>1. high + flag \in Nat
      BY <1>5
    <3> QED BY <1>1, <1>5, <2>2, <3>1
  <2>5. y4 = x1 + y3 /\ z0 + x1 = low + y1 /\ U = (y1 + y2 + y3) + R /\ Z = z0 + y2
    BY <1>1, <2>2, <2>3
  <2> HIDE DEF y1, y2, y3, y4
  <2>6. Z + R + y4 = low + U
    BY <1>4, <1>5, <2>2, <2>4, <2>5
  <2> QED BY <2>6 DEF y4
<1> QED BY <1>7, <1>8 DEF Z, N, R, U, Starts

\* One word of the inner loop: the term is the word written and what is carried.
Splits(zj, mj, high, flag, mult, word, high1, flag1) ==
  /\ word \in Word /\ flag1 \in {0, 1} /\ high1 \in Word
  /\ high + flag + zj + mult * mj = word + B * (high1 + flag1)

LEMMA TermSplit ==
  ASSUME NEW zj \in Word, NEW mj \in Word, NEW high \in Word, NEW flag \in {0, 1}, NEW mult \in Word,
         NEW prod, prod = mult * mj, NEW e1, e1 = zj + high + flag,
         NEW e2, e2 = (e1 % B) + (prod % B)
  PROVE  Splits(zj, mj, high, flag, mult, e2 % B, ((prod \div B) + (e1 \div B)) % B, e2 \div B)
<1>1. /\ zj \in Nat /\ zj <= B - 1 /\ mj \in Nat /\ mj <= B - 1 /\ high \in Nat /\ high <= B - 1
      /\ mult \in Nat /\ mult <= B - 1 /\ B \in Nat /\ B > 1 /\ flag \in Nat /\ flag <= 1
  BY BaseAssumption DEF Word
<1> DEFINE a == e1 \div B
           b == e1 % B
           s == prod \div B
           r == prod % B
<1>2. a \in {0, 1} /\ b \in Word /\ e1 = B * a + b /\ e1 \in Nat
  <2>1. e1 \div B \in {0, 1} /\ e1 % B \in Word /\ e1 \in Nat
    BY CarryBit
  <2> QED BY <2>1, WordDivMod
<1>3. prod \in Nat /\ prod <= (B - 1) * (B - 1)
  <2>1. mult * mj \in Nat /\ mult * mj <= (B - 1) * (B - 1)
    BY <1>1
  <2> QED BY <2>1
<1>4. s \in Int /\ r \in Word /\ prod = B * s + r
  BY <1>3, WordDivMod
<1>5. s \in 0..(B - 2)
  <2> HIDE DEF s, r
  <2>1. r \in Nat /\ r <= B - 1 /\ (B - 1) * (B - 1) = B * (B - 2) + 1
    BY <1>1, <1>4 DEF Word
  <2>2. s >= 0
    <3>1. SUFFICES ASSUME s <= -1 PROVE FALSE
      BY <1>4
    <3>2. B * s <= -B
      BY <1>1, <1>4, <3>1
    <3>3. B * s \in Int
      BY <1>1, <1>4
    <3> QED BY <1>1, <1>3, <1>4, <2>1, <3>2, <3>3
  <2>3. s <= B - 2
    <3>1. SUFFICES ASSUME s >= B - 1 PROVE FALSE
      BY <1>1, <1>4
    <3>2. B * s >= B * (B - 1)
      BY <1>1, <1>4, <3>1
    <3>3. B * (B - 1) = B * (B - 2) + B /\ B * (B - 2) \in Int /\ B * s \in Int
      BY <1>1, <1>4
    <3> QED BY <1>1, <1>3, <1>4, <2>1, <3>2, <3>3
  <2> QED BY <1>1, <1>4, <2>2, <2>3
<1> DEFINE u == e2 \div B
           v == e2 % B
           f == (s + a) % B
<1>6. u \in {0, 1} /\ v \in Word /\ e2 = B * u + v
  <2>1. e2 = b + r + 0 /\ b \in Word /\ r \in Word /\ e2 \in Int
    BY <1>2, <1>4, BaseAssumption DEF Word
  <2> HIDE DEF b, r
  <2>2. (b + r + 0) \div B \in {0, 1}
    BY <2>1, CarryBit
  <2> QED BY <2>1, <2>2, WordDivMod
<1>7. f = s + a /\ f \in Word
  <2>1. s + a \in 0..(B - 1)
    <3> HIDE DEF s, a
    <3> QED BY <1>1, <1>2, <1>5
  <2> DEFINE x == s + a
  <2>2. B * 0 + x = x /\ x \in 0..(B - 1)
    BY <1>1, <2>1
  <2> HIDE DEF x
  <2>3. (B * 0 + x) % B = x
    BY <1>1, <2>2, DivModUnique
  <2> QED BY <2>2, <2>3 DEF x, Word
<1>8. high + flag + zj + mult * mj = v + B * (f + u)
  <2>1. b \in Nat /\ r \in Nat /\ v \in Nat
    BY <1>2, <1>4, <1>6, BaseAssumption DEF Word
  <2>2. e1 = high + flag + zj /\ mult * mj = prod /\ e2 = b + r
    BY <1>1
  <2> HIDE DEF a, b, s, r, u, v, f
  <2>3. B * (s + a + u) = B * s + B * a + B * u
    BY <1>1, <1>2, <1>5, <1>6
  <2>4. B * s \in Int /\ B * a \in Int /\ B * u \in Int
    BY <1>1, <1>2, <1>5, <1>6
  <2> DEFINE y1 == B * s
             y2 == B * a
             y3 == B * u
  <2>5. prod = y1 + r /\ e1 = y2 + b /\ e2 = y3 + v /\ y1 \in Int /\ y2 \in Int /\ y3 \in Int
        /\ B * (s + a + u) = y1 + y2 + y3
    BY <1>2, <1>4, <1>6, <2>3, <2>4
  <2> HIDE DEF y1, y2, y3
  <2>6. e1 + prod = v + (y1 + y2 + y3)
    BY <1>2, <1>3, <2>1, <2>2, <2>5
  <2>7. f + u = s + a + u
    BY <1>7
  <2> QED BY <2>2, <2>5, <2>6, <2>7
<1> QED BY <1>6, <1>7, <1>8 DEF Splits

\* A word written below index t leaves the words from t on, and adds to those
\* below t.
Slid(memory, new, z, k, t, v) ==
  /\ new \in Memory
  /\ MayChange(memory, new, Block(z, k))
  /\ BignumFromMemory(new, z, t) = BignumFromMemory(memory, z, t - 1) + Pow[t - 1] * v
  /\ High(new, z, k, t) = High(memory, z, k, t)

LEMMA SlideWord ==
  ASSUME NEW memory \in Memory, NEW z \in Int, NEW k \in Nat, NEW t \in Nat, t > 0, t <= k,
         Block(z, k) \subseteq Addr, NEW v \in Word, NEW new, new = [memory EXCEPT ![z + t - 1] = v]
  PROVE  Slid(memory, new, z, k, t, v)
<1> DEFINE u == t - 1
<1>1. u \in Nat /\ u + 1 = t /\ z + t - 1 = z + u /\ u < k
  OBVIOUS
<1> HIDE DEF u
<1>2. z + u \in Addr /\ z + u \in Block(z, k)
  BY <1>1 DEF Block
<1>3. new = [memory EXCEPT ![z + u] = v]
  BY <1>1
<1>4. new \in Memory /\ BignumFromMemory(new, z, u + 1) = BignumFromMemory(memory, z, u) + Pow[u] * v
  <2>1. /\ [memory EXCEPT ![z + u] = v] \in Memory
        /\ BignumFromMemory([memory EXCEPT ![z + u] = v], z, u + 1)
           = BignumFromMemory(memory, z, u) + Pow[u] * v
    BY <1>1, <1>2, AppendWord
  <2> QED BY <1>3, <2>1
<1>5. MayChange(memory, new, Block(z, k))
  BY <1>2, <1>3 DEF MayChange, Memory
<1>6. High(new, z, k, t) = High(memory, z, k, t)
  <2> DEFINE a == z + t
             l == k - t
  <2>1. a \in Int /\ l \in Nat
    OBVIOUS
  <2>2. \A s \in 0..(l - 1) : new[a + s] = memory[a + s]
    <3> SUFFICES ASSUME NEW s \in 0..(l - 1) PROVE new[a + s] = memory[a + s]
      OBVIOUS
    <3>1. a + s \in Addr /\ a + s # z + u
      BY <1>1 DEF Block
    <3> QED BY <1>3, <3>1 DEF Memory
  <2> HIDE DEF a, l
  <2>3. BignumFromMemory(new, a, l) = BignumFromMemory(memory, a, l)
    BY ONLY <2>1, <2>2, ValueCongruence
  <2> QED BY <2>3 DEF High, a, l
<1> QED BY <1>1, <1>4, <1>5, <1>6 DEF u, Slid

\* A step of the inner loop leaves the value it keeps.
Kept(cl, memory, t, high, flag, mult, carry, word, new, high1, flag1) ==
  Inner(cl, new, t + 1, high1, flag1, mult, carry) = Inner(cl, memory, t, high, flag, mult, carry)

LEMMA InnerNext ==
  ASSUME NEW cl, CallOK(cl), NEW memory \in Memory, NEW carry \in {0, 1}, NEW t \in Nat,
         t > 0, t < cl.k, NEW mult \in Word,
         NEW high \in Word, NEW flag \in {0, 1}, NEW word, NEW high1, NEW flag1,
         Splits(memory[cl.z + t], cl.mem[cl.m + t], high, flag, mult, word, high1, flag1),
         NEW new, Slid(memory, new, cl.z, cl.k, t, word), new[cl.z + t] = memory[cl.z + t]
  PROVE  Kept(cl, memory, t, high, flag, mult, carry, word, new, high1, flag1)
<1> DEFINE P == Pow[t]
           R == Pow[cl.k] * carry
           hz == High(memory, cl.z, cl.k, t)
           hm == High(cl.mem, cl.m, cl.k, t)
           hz1 == High(memory, cl.z, cl.k, t + 1)
           hm1 == High(cl.mem, cl.m, cl.k, t + 1)
           zj == memory[cl.z + t]
           mj == cl.mem[cl.m + t]
           low == BignumFromMemory(memory, cl.z, t - 1)
           low1 == BignumFromMemory(new, cl.z, t)
           Q == Pow[t - 1]
<1>1. /\ cl.k \in Nat /\ cl.z \in Int /\ Block(cl.z, cl.k) \subseteq Addr
  BY CallFacts
<1>2. /\ hz = zj + B * hz1 /\ hm = mj + B * hm1 /\ zj \in Word /\ mj \in Word
      /\ hz \in Nat /\ hm \in Nat
  <2>1. t <= cl.k
    BY <1>1
  <2> QED BY <2>1, WindowParts
<1>3. hz1 \in Nat /\ hm1 \in Nat
  <2>1. t + 1 \in Nat /\ t + 1 <= cl.k
    BY <1>1
  <2> QED BY <2>1, WindowParts
<1>4. low1 = low + Q * word /\ new \in Memory /\ High(new, cl.z, cl.k, t) = hz
  BY DEF Slid
<1>5. High(new, cl.z, cl.k, t + 1) = hz1
  <2>1. t \in Nat /\ t <= cl.k /\ t < cl.k
    BY <1>1
  <2>2. High(new, cl.z, cl.k, t) = new[cl.z + t] + B * High(new, cl.z, cl.k, t + 1)
    BY <1>4, <2>1, WindowParts
  <2>3. new[cl.z + t] = zj
    OBVIOUS
  <2>4. High(new, cl.z, cl.k, t + 1) \in Nat
    <3>1. t + 1 \in Nat /\ t + 1 <= cl.k
      BY <1>1
    <3> QED BY <1>4, <3>1, WindowParts
  <2> DEFINE x == High(new, cl.z, cl.k, t + 1)
  <2>5. hz = zj + B * x /\ x \in Nat /\ zj \in Nat
    BY <1>2, <1>4, <2>2, <2>3, <2>4, BaseAssumption DEF Word
  <2> HIDE DEF x, hz, hz1, zj
  <2>6. B * x = B * hz1 /\ B \in Nat /\ B > 0
    <3>1. B * x \in Nat /\ B * hz1 \in Nat /\ B \in Nat /\ B > 0
      BY <1>3, <2>5, BaseAssumption
    <3> QED BY <1>2, <2>5, <3>1
  <2>7. x = hz1
    BY <1>3, <2>5, <2>6
  <2> QED BY <2>7 DEF x
<1>6. P \in Nat /\ Q \in Nat /\ P = B * Q /\ Pow[t + 1] = B * P /\ B \in Nat /\ R \in Nat /\ low \in Nat /\ low1 \in Nat
  <2>1. t - 1 \in Nat /\ (t - 1) + 1 = t /\ t - 1 <= cl.k /\ t <= cl.k
    BY <1>1
  <2>2. low \in Nat /\ low1 \in Nat
    BY <1>1, <1>4, <2>1, PartFacts
  <2>3. R \in Nat
    BY TopNat
  <2> QED BY <2>1, <2>2, <2>3, PowType, PowStep, BaseAssumption
<1>7. /\ Inner(cl, memory, t, high, flag, mult, carry) = B * low + P * (high + flag + hz + mult * hm) + R
      /\ Inner(cl, new, t + 1, high1, flag1, mult, carry)
         = B * low1 + (B * P) * (high1 + flag1 + hz1 + mult * hm1) + R
  <2>1. (t + 1) - 1 = t
    OBVIOUS
  <2> QED BY <1>5, <1>6, <2>1 DEF Inner
<1>8. /\ zj \in Nat /\ mj \in Nat /\ mult \in Nat /\ high \in Nat /\ flag \in Nat /\ word \in Nat
      /\ high1 \in Nat /\ flag1 \in Nat
      /\ high + flag + zj + mult * mj = word + B * (high1 + flag1)
  BY <1>2, BaseAssumption DEF Word, Splits
<1> HIDE DEF P, Q, R, hz, hm, hz1, hm1, zj, mj, low, low1
<1> DEFINE r1 == high1 + flag1 + hz1 + mult * hm1
           r0 == high + flag + hz + mult * hm
<1>9. r1 \in Nat /\ r0 \in Nat /\ r0 = word + B * r1
  <2>1. mult * hm = mult * mj + B * (mult * hm1)
    <3>1. mult * (mj + B * hm1) = mult * mj + B * (mult * hm1)
      BY <1>3, <1>6, <1>8
    <3> QED BY <1>2, <3>1
  <2> DEFINE x == mult * mj
             x1 == mult * hm1
             x0 == mult * hm
  <2>2. x \in Nat /\ x1 \in Nat /\ x0 = x + B * x1 /\ high + flag + zj + x = word + B * (high1 + flag1)
    BY <1>3, <1>8, <2>1
  <2> HIDE DEF x, x1, x0
  <2>3. B * (high1 + flag1 + hz1 + x1) = B * (high1 + flag1) + B * hz1 + B * x1
    BY <1>3, <1>6, <1>8, <2>2
  <2> DEFINE y1 == B * (high1 + flag1)
             y2 == B * hz1
             y3 == B * x1
  <2>4. y1 \in Nat /\ y2 \in Nat /\ y3 \in Nat
    <3>1. high1 + flag1 \in Nat
      BY <1>8
    <3> QED BY <1>3, <1>6, <2>2, <3>1
  <2>5. x0 = x + y3 /\ high + flag + zj + x = word + y1 /\ hz = zj + y2
        /\ B * (high1 + flag1 + hz1 + x1) = y1 + y2 + y3
    BY <1>2, <2>2, <2>3
  <2> HIDE DEF y1, y2, y3
  <2>6. high + flag + hz + x0 = word + (y1 + y2 + y3)
    BY <1>8, <2>2, <2>4, <2>5
  <2>7. high1 + flag1 + hz1 + x1 \in Nat /\ high + flag + hz + x0 \in Nat
    BY <1>2, <1>3, <1>8, <2>2, <2>4, <2>5
  <2> QED BY <2>5, <2>6, <2>7 DEF x0, x1
<1> HIDE DEF r1, r0
<1>10. B * low1 + (B * P) * r1 = B * low + P * r0
  <2>1. B * low1 = B * low + P * word
    <3>1. B * (low + Q * word) = B * low + (B * Q) * word
      BY <1>6, <1>8
    <3> QED BY <1>4, <1>6, <3>1
  <2>2. P * r0 = P * word + (B * P) * r1
    <3>1. P * (word + B * r1) = P * word + (B * P) * r1
      BY <1>6, <1>8, <1>9
    <3> QED BY <1>9, <3>1
  <2>3. B * low \in Nat /\ P * word \in Nat /\ (B * P) * r1 \in Nat
    BY <1>6, <1>8, <1>9
  <2> DEFINE y1 == B * low
             y2 == P * word
             y3 == (B * P) * r1
             y4 == B * low1
             y5 == P * r0
  <2>4. y4 = y1 + y2 /\ y5 = y2 + y3 /\ y1 \in Nat /\ y2 \in Nat /\ y3 \in Nat
    BY <2>1, <2>2, <2>3
  <2> HIDE DEF y1, y2, y3, y4, y5
  <2>5. y4 + y3 = y1 + y5
    BY <2>4
  <2> QED BY <2>5 DEF y1, y3, y4, y5
<1> QED BY <1>7, <1>10 DEF r1, r0, Kept

LEMMA OuterStep == IInv /\ OuterLoop => IInv'
<1> SUFFICES ASSUME IInv, OuterLoop PROVE IInv'
  OBVIOUS
<1>1. /\ pc = "outerloop"
      /\ d' = (mem[call.z] * w) % B
      /\ h' = (d' * mem[call.m]) \div B
      /\ cf' = (mem[call.z] + ((d' * mem[call.m]) % B)) \div B
      /\ j' = 1
      /\ pc' = IF call.k = 1 THEN "montend" ELSE "montloop"
      /\ UNCHANGED <<mem, i, w, c, call>>
  BY DEF OuterLoop
<1>2. /\ CallOK(call) /\ CallOK(call)' /\ Registers /\ FrameInv /\ Inverted
      /\ mem \in Memory /\ w \in Word /\ i \in Nat /\ c \in {0, 1} /\ WindowAt(call, Top, i)
      /\ i < call.p
  BY <1>1 DEF IInv, Registers, WindowInv, Counters
<1>3. call.k \in Nat /\ call.k > 0 /\ call.m \in Int /\ MayChange(call.mem, mem, Block(call.z, call.k))
  BY <1>1, <1>2, CallFacts DEF Registers, FrameInv
<1>4. mem[call.z] \in Word
  BY <1>2, <1>3, FromBottom
<1>5. mem[call.m] = call.mem[call.m] /\ call.mem[call.m] \in Word
  <2>1. call.m + 0 = call.m /\ 0 \in Nat /\ 0 < call.k
    BY <1>3
  <2> QED BY <1>2, <1>3, <2>1, ModulusWords
<1>6. /\ d' \in Word /\ h' \in Word /\ cf' \in {0, 1}
      /\ \E low \in Word : /\ mem[call.z] + d' * call.mem[call.m] = low + B * (h' + cf')
                           /\ (w * call.mem[call.m] + 1) % B = 0 => low = 0
  <2>1. Clears(mem[call.z], call.mem[call.m], w, d', h', cf')
    BY <1>1, <1>2, <1>4, <1>5, ClearsHolds
  <2> QED BY <2>1 DEF Clears
<1>7. PICK low \in Word : /\ mem[call.z] + d' * call.mem[call.m] = low + B * (h' + cf')
                          /\ (w * call.mem[call.m] + 1) % B = 0 => low = 0
  BY <1>6
<1>8. Odd(call) => low = 0
  BY <1>1, <1>2, <1>7 DEF Inverted
<1> DEFINE U == Inner(call, mem, 1, h', cf', d', c)
<1>9. U \in Nat /\ Top + d' * Num(call) = low + U
  <2>1. Starts(call, mem, c, d', h', cf', low)
    BY <1>2, <1>3, <1>6, <1>7, InnerStart
  <2> QED BY <2>1 DEF Starts, Top, Zval
<1>10. Top \in Nat
  BY <1>2, TopNat DEF Top, Zval
<1>11. Balanced(call, Pow[i] * U, call.k + i, i + 1)
  <2>1. Balanced(call, Pow[i] * Top, call.k + i, i)
    BY <1>2 DEF WindowAt
  <2>2. call.k + i \in Nat
    BY <1>2, <1>3
  <2> HIDE DEF U
  <2> QED BY <1>2, <1>6, <1>8, <1>9, <1>10, <2>1, <2>2, BalancedStep
<1>12. pc' \in {"montloop", "montend"}
  BY <1>1
<1>13. Registers'
  BY <1>1, <1>2, <1>6, <1>12 DEF Registers
<1>14. Counters'
  BY <1>1, <1>2, <1>3 DEF Counters
<1>15. FrameInv' /\ Inverted' /\ Copied' /\ Corrected'
  BY <1>1, <1>2, <1>12 DEF FrameInv, Inverted, Copied, Corrected
<1>16. WindowInv'
  BY <1>1, <1>2, <1>11, <1>12 DEF WindowInv
<1> QED BY <1>2, <1>13, <1>14, <1>15, <1>16 DEF IInv

LEMMA MontStep == IInv /\ MontLoop => IInv'
<1> SUFFICES ASSUME IInv, MontLoop PROVE IInv'
  OBVIOUS
<1> DEFINE prod == d * mem[call.m + j]
           e1 == mem[call.z + j] + h + cf
           e2 == (e1 % B) + (prod % B)
<1>1. /\ pc = "montloop"
      /\ h' = ((prod \div B) + (e1 \div B)) % B
      /\ cf' = e2 \div B
      /\ mem' = [mem EXCEPT ![call.z + j - 1] = e2 % B]
      /\ j' = j + 1
      /\ pc' = IF j' # call.k THEN "montloop" ELSE "montend"
      /\ UNCHANGED <<i, w, d, c, call>>
  BY DEF MontLoop
<1>2. /\ CallOK(call) /\ CallOK(call)' /\ Registers /\ FrameInv /\ Inverted
      /\ mem \in Memory /\ i \in Nat /\ j \in Nat /\ c \in {0, 1} /\ i < call.p
      /\ j > 0 /\ j < call.k /\ d \in Word /\ h \in Word /\ cf \in {0, 1}
      /\ Balanced(call, Pow[i] * Inner(call, mem, j, h, cf, d, c), call.k + i, i + 1)
  BY <1>1 DEF IInv, Registers, WindowInv, Counters
<1>3. /\ call.k \in Nat /\ call.z \in Int /\ Block(call.z, call.k) \subseteq Addr
      /\ MayChange(call.mem, mem, Block(call.z, call.k))
  BY <1>1, <1>2, CallFacts DEF FrameInv
<1>4. mem[call.m + j] = call.mem[call.m + j] /\ call.mem[call.m + j] \in Word
  BY <1>2, <1>3, ModulusWords
<1>5. mem[call.z + j] \in Word
  <2>1. j <= call.k
    BY <1>2, <1>3
  <2> QED BY <1>2, <2>1, WindowParts
<1> DEFINE word == e2 % B
<1>6. /\ word \in Word /\ cf' \in {0, 1} /\ h' \in Word
      /\ Splits(mem[call.z + j], call.mem[call.m + j], h, cf, d, word, h', cf')
  <2>1. Splits(mem[call.z + j], call.mem[call.m + j], h, cf, d, word, h', cf')
    <3>1. prod = d * call.mem[call.m + j]
      BY <1>4
    <3>2. e1 = mem[call.z + j] + h + cf /\ e2 = (e1 % B) + (prod % B)
      OBVIOUS
    <3>3. h' = ((prod \div B) + (e1 \div B)) % B /\ cf' = e2 \div B /\ word = e2 % B
      BY <1>1
    <3> HIDE DEF prod, e1, e2, word
    <3>4. Splits(mem[call.z + j], call.mem[call.m + j], h, cf, d, e2 % B,
                 ((prod \div B) + (e1 \div B)) % B, e2 \div B)
      BY <1>2, <1>4, <1>5, <3>1, <3>2, TermSplit
    <3> QED BY <3>3, <3>4
  <2> HIDE DEF word
  <2> QED BY <2>1 DEF Splits
<1>7. mem' = [mem EXCEPT ![call.z + j - 1] = word]
  BY <1>1
<1> HIDE DEF word, prod, e1, e2
<1>8. Slid(mem, mem', call.z, call.k, j, word)
  <2>1. j <= call.k
    BY <1>2, <1>3
  <2> QED BY <1>2, <1>3, <1>6, <1>7, <2>1, SlideWord
<1>9. Inner(call, mem', j + 1, h', cf', d, c) = Inner(call, mem, j, h, cf, d, c)
  <2>1. mem'[call.z + j] = mem[call.z + j]
    <3>1. j \in Nat /\ j < call.k /\ call.k \in Nat /\ call.z \in Int
      BY <1>2, <1>3
    <3>2. call.z + j \in Block(call.z, call.k) /\ call.z + j # call.z + j - 1
      BY ONLY <3>1 DEF Block
    <3>3. call.z + j \in Addr
      BY <1>3, <3>2
    <3>4. mem \in Memory
      BY <1>2
    <3> QED BY ONLY <1>7, <3>2, <3>3, <3>4 DEF Memory
  <2>2. Kept(call, mem, j, h, cf, d, c, word, mem', h', cf')
    BY <1>2, <1>6, <1>8, <2>1, InnerNext
  <2> QED BY <2>2 DEF Kept
<1>10. pc' \in {"montloop", "montend"}
  BY <1>1
<1>11. Registers'
  BY <1>1, <1>2, <1>6, <1>8, <1>10 DEF Registers, Slid
<1>12. Counters'
  BY <1>1, <1>2, <1>3 DEF Counters
<1>13. FrameInv'
  <2>1. MayChange(call.mem, mem', Block(call.z, call.k))
    BY <1>3, <1>8, FrameStep DEF Slid
  <2> QED BY <1>1, <1>10, <2>1 DEF FrameInv
<1>14. Inverted' /\ Copied' /\ Corrected'
  BY <1>1, <1>2, <1>10 DEF Inverted, Copied, Corrected
<1>15. WindowInv'
  BY <1>1, <1>2, <1>9, <1>10 DEF WindowInv
<1> QED BY <1>2, <1>11, <1>12, <1>13, <1>14, <1>15 DEF IInv

\* A balanced window and its top carry: the carry is a bit.
LEMMA CarryBound ==
  ASSUME NEW cl, CallOK(cl), NEW t \in Nat, NEW v \in Nat, NEW carry \in Nat,
         WindowAt(cl, v + Pow[cl.k] * carry, t)
  PROVE  carry \in {0, 1}
<1> DEFINE P == Pow[t]
           K == Pow[cl.k]
           N == Num(cl)
           X == XLow(cl, cl.k + t)
           top == v + K * carry
<1>1. PICK q \in 0..(P - 1), e \in 0..(P - 1) : P * top + e = X + q * N
  BY DEF WindowAt, Balanced
<1>2. /\ P \in Nat \ {0} /\ K \in Nat \ {0} /\ N \in 0..(K - 1) /\ cl.k \in Nat
      /\ X \in 0..(Pow[cl.k + t] - 1) /\ K * P = Pow[cl.k + t]
  <2>1. cl.k \in Nat /\ N \in 0..(K - 1)
    BY CallFacts
  <2>2. cl.k + t \in Nat
    BY <2>1
  <2> QED BY <2>1, <2>2, PowType, PowSum, XFacts
<1> HIDE DEF P, K, N, X
<1>3. P * top = P * v + (P * K) * carry /\ P * v \in Nat /\ P * K \in Nat \ {0} /\ K * P = P * K
  BY <1>2
<1>4. q * N <= P * K /\ q * N \in Nat
  <2>1. q * N <= q * K
    BY <1>1, <1>2
  <2>2. q * K <= P * K
    BY <1>1, <1>2
  <2>3. q * N \in Nat /\ q * K \in Nat
    BY <1>1, <1>2
  <2> QED BY <1>3, <2>1, <2>2, <2>3
<1> DEFINE M == P * K
           y == q * N
<1>5. (M * carry < 2 * M) /\ M \in Nat \ {0}
  <2>1. X < M /\ y <= M /\ y \in Nat /\ M \in Nat \ {0} /\ X \in Nat
    BY <1>2, <1>3, <1>4
  <2> DEFINE y0 == P * top
             y1 == P * v
             y2 == M * carry
  <2>2. y0 = y1 + y2 /\ y1 \in Nat /\ y2 \in Nat /\ y0 + e = X + y /\ e \in Nat
    BY <1>1, <1>2, <1>3, <2>1
  <2> HIDE DEF M, y, y0, y1, y2, top
  <2>3. y2 < 2 * M
    BY <2>1, <2>2
  <2> QED BY <2>1, <2>3 DEF y2
<1> HIDE DEF M
<1>6. ~ (carry >= 2)
  <2>1. SUFFICES ASSUME carry >= 2 PROVE FALSE
    OBVIOUS
  <2>2. M * carry >= M * 2
    BY <1>5, <2>1
  <2>3. M * carry \in Nat
    BY <1>5
  <2> QED BY <1>5, <2>2, <2>3
<1> QED BY <1>6

\* The word and the carry of the sum at the top of the window
Tops(high, flag, carry, x, word, carry1) ==
  /\ word \in Word /\ carry1 \in Nat
  /\ high + flag + carry + x = word + B * carry1

LEMMA TopSum ==
  ASSUME NEW high \in Word, NEW flag \in {0, 1}, NEW carry \in {0, 1}, NEW x \in Word,
         NEW h1, h1 = high + carry + flag, NEW h2, h2 = (h1 % B) + x
  PROVE  Tops(high, flag, carry, x, h2 % B, (h1 \div B) + (h2 \div B))
<1>1. high \in Nat /\ x \in Nat /\ flag \in Nat /\ carry \in Nat /\ B \in Nat \ {0}
  BY BaseAssumption DEF Word
<1>2. h1 \in Nat
  BY <1>1
<1> DEFINE a == h1 \div B
           b == h1 % B
           s == h2 \div B
           r == h2 % B
<1>3. a \in Int /\ b \in Word /\ h1 = B * a + b
  BY <1>2, WordDivMod
<1>4. b \in Nat /\ b <= B - 1
  BY <1>3, BaseAssumption DEF Word
<1>5. a >= 0
  <2> HIDE DEF a, b
  <2>1. SUFFICES ASSUME a <= -1 PROVE FALSE
    BY <1>3
  <2>2. B * a <= -B /\ B * a \in Int
    BY <1>1, <1>3, <2>1
  <2> QED BY <1>1, <1>2, <1>3, <1>4, <2>2
<1>6. h2 = b + x /\ h2 \in Nat
  BY <1>1, <1>4
<1>7. s \in Int /\ r \in Word /\ h2 = B * s + r
  BY <1>6, WordDivMod
<1>8. r \in Nat /\ r <= B - 1
  BY <1>7, BaseAssumption DEF Word
<1>9. s >= 0
  <2> HIDE DEF a, b, s, r
  <2>1. SUFFICES ASSUME s <= -1 PROVE FALSE
    BY <1>7
  <2>2. B * s <= -B /\ B * s \in Int
    BY <1>1, <1>7, <2>1
  <2> QED BY <1>1, <1>6, <1>7, <1>8, <2>2
<1> HIDE DEF a, b, s, r
<1>10. B * (a + s) = B * a + B * s /\ B * a \in Int /\ B * s \in Int /\ a + s \in Nat
  BY <1>1, <1>3, <1>5, <1>7, <1>9
<1>11. high + flag + carry + x = r + B * (a + s)
  BY <1>1, <1>3, <1>4, <1>6, <1>7, <1>8, <1>10
<1> QED BY <1>7, <1>10, <1>11 DEF Tops, a, s, r

\* The top of the window takes the next word of x.
Enters(cl, memory, t, carry, mult, high, flag, word, carry1, new) ==
  /\ BignumFromMemory(new, cl.z, cl.k) \in Nat
  /\ WindowAt(cl, BignumFromMemory(new, cl.z, cl.k) + Pow[cl.k] * carry1, t + 1)

LEMMA WindowNext ==
  ASSUME NEW cl, CallOK(cl), cl.k > 0, NEW memory \in Memory, NEW carry \in {0, 1}, NEW t \in Nat,
         NEW mult \in Word, NEW high \in Word, NEW flag \in {0, 1},
         Balanced(cl, Pow[t] * Inner(cl, memory, cl.k, high, flag, mult, carry), cl.k + t, t + 1),
         NEW word, NEW carry1, Tops(high, flag, carry, XDigit(cl, cl.k + t), word, carry1),
         NEW new, Slid(memory, new, cl.z, cl.k, cl.k, word)
  PROVE  Enters(cl, memory, t, carry, mult, high, flag, word, carry1, new)
<1> DEFINE P == Pow[t]
           K == Pow[cl.k]
           Q == Pow[cl.k - 1]
           N == Num(cl)
           X == XLow(cl, cl.k + t)
           x == XDigit(cl, cl.k + t)
           low == BignumFromMemory(memory, cl.z, cl.k - 1)
           Z == BignumFromMemory(new, cl.z, cl.k)
           U == Inner(cl, memory, cl.k, high, flag, mult, carry)
<1>1. PICK q \in 0..(Pow[t + 1] - 1), e \in 0..(Pow[t + 1] - 1) :
         P * U + e = X + q * N /\ (Odd(cl) => e = 0)
  BY DEF Balanced
<1>2. /\ cl.k \in Nat /\ cl.k - 1 \in Nat /\ (cl.k - 1) + 1 = cl.k /\ cl.k + t \in Nat
      /\ cl.k - 1 <= cl.k /\ cl.k <= cl.k
      /\ cl.z \in Int /\ Block(cl.z, cl.k) \subseteq Addr
  BY CallFacts
<1>3. /\ P \in Nat /\ K \in Nat /\ Q \in Nat /\ K = B * Q /\ Pow[t + 1] = B * P /\ B \in Nat
      /\ K * P = Pow[cl.k + t]
  BY <1>2, PowType, PowStep, PowSum, BaseAssumption
<1>4. N \in Nat /\ X \in Nat /\ x \in Nat /\ XLow(cl, cl.k + t + 1) = X + (K * P) * x
  <2>1. N \in Nat
    BY <1>2, <1>3, CallFacts
  <2>2. X \in Nat /\ x \in Word /\ XLow(cl, (cl.k + t) + 1) = X + Pow[cl.k + t] * x
    BY <1>2, XFacts, PowType
  <2> QED BY <1>3, <2>1, <2>2, BaseAssumption DEF Word
<1>5. low \in Nat /\ Z \in Nat /\ Z = low + Q * word
  BY <1>2, PartFacts DEF Slid
<1>6. U = B * low + K * (high + flag + carry)
  <2>1. High(memory, cl.z, cl.k, cl.k) = 0 /\ High(cl.mem, cl.m, cl.k, cl.k) = 0
    BY <1>2, WindowParts
  <2>2. U = B * low + K * (high + flag + 0 + mult * 0) + K * carry
    BY <2>1 DEF Inner
  <2>3. high \in Nat /\ flag \in Nat /\ carry \in Nat /\ mult * 0 = 0
    BY BaseAssumption DEF Word
  <2>4. high + flag + 0 + mult * 0 = high + flag
    BY <2>3
  <2>5. K * (high + flag) + K * carry = K * (high + flag + carry) /\ K * (high + flag) \in Nat
        /\ K * carry \in Nat /\ B * low \in Nat
    <3> HIDE DEF K, low
    <3>1. K \in Nat /\ B \in Nat /\ low \in Nat /\ high + flag \in Nat
      BY <1>3, <1>5, <2>3
    <3> DEFINE y == high + flag
    <3>2. K * y + K * carry = K * (y + carry) /\ K * y \in Nat /\ K * carry \in Nat
      <4> HIDE DEF y
      <4>1. y \in Nat
        BY <3>1 DEF y
      <4> QED BY ONLY <2>3, <3>1, <4>1
    <3> QED BY ONLY <3>1, <3>2
  <2> DEFINE y1 == K * (high + flag)
             y2 == K * carry
             y3 == B * low
  <2>6. U = y3 + y1 + y2 /\ y1 + y2 = K * (high + flag + carry) /\ y1 \in Nat /\ y2 \in Nat /\ y3 \in Nat
    BY <2>2, <2>4, <2>5
  <2> HIDE DEF y1, y2, y3, U, K
  <2>7. U = y3 + (y1 + y2)
    BY <2>6
  <2> QED BY <2>6, <2>7 DEF y3
<1>7. /\ word \in Nat /\ high \in Nat /\ flag \in Nat /\ carry \in Nat /\ carry1 \in Nat
      /\ high + flag + carry + x = word + B * carry1
  BY BaseAssumption DEF Word, Tops
<1> HIDE DEF P, K, Q, N, X, x, low, Z, U
<1>8. B * (Z + K * carry1) = U + K * x
  <2>1. B * Z = B * low + K * word
    <3>1. B * (low + Q * word) = B * low + (B * Q) * word
      BY <1>3, <1>5, <1>7
    <3> QED BY <1>3, <1>5, <3>1
  <2>2. K * (high + flag + carry) + K * x = K * word + K * (B * carry1)
    <3> DEFINE y1 == high + flag + carry
               y2 == B * carry1
    <3>1. y1 \in Nat /\ y2 \in Nat /\ y1 + x = word + y2
      BY <1>3, <1>7
    <3> HIDE DEF y1, y2
    <3>2. K * (y1 + x) = K * y1 + K * x /\ K * (word + y2) = K * word + K * y2
      BY <1>3, <1>4, <1>7, <3>1
    <3> QED BY <3>1, <3>2 DEF y1, y2
  <2>3. B * (Z + K * carry1) = B * Z + K * (B * carry1)
    BY <1>3, <1>5, <1>7
  <2>4. /\ B * low \in Nat /\ K * word \in Nat /\ K * (B * carry1) \in Nat /\ K * x \in Nat
        /\ K * (high + flag + carry) \in Nat
    <3>1. high + flag + carry \in Nat /\ B * carry1 \in Nat
      BY <1>3, <1>7
    <3> QED BY <1>3, <1>4, <1>5, <1>7, <3>1
  <2> DEFINE y1 == B * low
             y2 == K * word
             y3 == K * (B * carry1)
             y4 == K * x
             y5 == K * (high + flag + carry)
             y6 == B * Z
  <2>5. y6 = y1 + y2 /\ y5 + y4 = y2 + y3 /\ U = y1 + y5 /\ B * (Z + K * carry1) = y6 + y3
        /\ y1 \in Nat /\ y2 \in Nat /\ y3 \in Nat /\ y4 \in Nat /\ y5 \in Nat
    BY <1>6, <2>1, <2>2, <2>3, <2>4
  <2> HIDE DEF y1, y2, y3, y4, y5, y6
  <2>6. y6 + y3 = U + y4
    BY <2>5
  <2> QED BY <2>5, <2>6 DEF y4
<1>9. (B * P) * (Z + K * carry1) + e = XLow(cl, cl.k + t + 1) + q * N
  <2> DEFINE V == Z + K * carry1
  <2>1. V \in Nat
    BY <1>3, <1>5, <1>7
  <2>2. B * V = U + K * x /\ U \in Nat
    <3>1. B * low \in Nat /\ high + flag + carry \in Nat
      BY <1>3, <1>5, <1>7
    <3>2. K * (high + flag + carry) \in Nat
      BY <1>3, <3>1
    <3> QED BY <1>6, <1>8, <3>1, <3>2
  <2> HIDE DEF V
  <2>3. (B * P) * V = P * (B * V) /\ P * (U + K * x) = P * U + (K * P) * x
    BY <1>3, <1>4, <2>1, <2>2
  <2>4. P * U \in Nat /\ (K * P) * x \in Nat /\ q * N \in Nat /\ e \in Nat
    <3>1. q \in Nat /\ e \in Nat /\ K * P \in Nat
      BY <1>1, <1>3
    <3> QED BY <1>3, <1>4, <2>2, <3>1
  <2> DEFINE y1 == P * U
             y2 == (K * P) * x
             y3 == q * N
             y4 == (B * P) * V
  <2>5. y4 = y1 + y2 /\ y1 + e = X + y3 /\ XLow(cl, cl.k + t + 1) = X + y2
        /\ y1 \in Nat /\ y2 \in Nat /\ y3 \in Nat /\ e \in Nat
    BY <1>1, <1>4, <2>2, <2>3, <2>4
  <2> HIDE DEF y1, y2, y3, y4
  <2>6. y4 + e = (X + y2) + y3
    BY <1>4, <2>5
  <2> QED BY <2>5, <2>6 DEF y3, y4, V
<1>10. WindowAt(cl, Z + K * carry1, t + 1)
  <2>1. cl.k + (t + 1) = cl.k + t + 1
    BY <1>2
  <2> QED BY <1>1, <1>3, <1>9, <2>1 DEF WindowAt, Balanced, N
<1> QED BY <1>5, <1>10 DEF Z, K, Enters

LEMMA MontEndStep == IInv /\ MontEnd => IInv'
<1> SUFFICES ASSUME IInv, MontEnd PROVE IInv'
  OBVIOUS
<1> DEFINE h1 == h + c + cf
           x == IF call.k + i < call.n THEN mem[call.x + call.k + i] ELSE 0
           h2 == (h1 % B) + x
           word == h2 % B
           top == (h1 \div B) + (h2 \div B)
<1>1. /\ pc = "montend"
      /\ h' = word
      /\ c' = top % B
      /\ mem' = [mem EXCEPT ![call.z + call.k - 1] = word]
      /\ j' = call.k - 1
      /\ i' = i + 1
      /\ pc' = IF i' < call.p THEN "outerloop" ELSE "corrective"
      /\ UNCHANGED <<w, d, cf, call>>
  BY DEF MontEnd, More
<1>2. /\ CallOK(call) /\ CallOK(call)' /\ Registers /\ FrameInv /\ Inverted
      /\ mem \in Memory /\ i \in Nat /\ c \in {0, 1} /\ i < call.p
      /\ call.k > 0 /\ d \in Word /\ h \in Word /\ cf \in {0, 1}
      /\ Balanced(call, Pow[i] * Inner(call, mem, call.k, h, cf, d, c), call.k + i, i + 1)
  BY <1>1 DEF IInv, Registers, WindowInv, Counters
<1>3. /\ call.k \in Nat /\ call.n \in Nat /\ call.p \in Nat /\ call.z \in Int /\ call.x \in Int
      /\ Block(call.z, call.k) \subseteq Addr
      /\ MayChange(call.mem, mem, Block(call.z, call.k))
  BY <1>1, <1>2, CallFacts DEF FrameInv
<1>4. x = XDigit(call, call.k + i) /\ x \in Word
  <2> DEFINE t == call.k + i
  <2>1. t \in Nat /\ call.k <= t /\ call.k <= call.k /\ call.x + t = call.x + call.k + i
    BY <1>2, <1>3
  <2> HIDE DEF t
  <2>2. XDigit(call, t) = IF t < call.n THEN mem[call.x + t] ELSE 0
    BY <1>2, <1>3, <2>1, XWord
  <2>3. XDigit(call, t) \in Word
    BY <1>2, <2>1, XFacts
  <2> QED BY <2>1, <2>2, <2>3 DEF t
<1>5. Tops(h, cf, c, x, word, top)
  <2>1. h1 = h + c + cf /\ h2 = (h1 % B) + x /\ word = h2 % B /\ top = (h1 \div B) + (h2 \div B)
    OBVIOUS
  <2> HIDE DEF h1, x, h2, word, top
  <2>2. Tops(h, cf, c, x, h2 % B, (h1 \div B) + (h2 \div B))
    BY <1>2, <1>4, <2>1, TopSum
  <2> QED BY <2>1, <2>2
<1> HIDE DEF h1, x, h2, word, top
<1>6. Slid(mem, mem', call.z, call.k, call.k, word) /\ word \in Word /\ top \in Nat
  <2>1. call.k <= call.k /\ word \in Word /\ top \in Nat
    BY <1>3, <1>5 DEF Tops
  <2> QED BY <1>1, <1>2, <1>3, <2>1, SlideWord
<1>7. Enters(call, mem, i, c, d, h, cf, word, top, mem')
  BY <1>2, <1>4, <1>5, <1>6, WindowNext
<1> DEFINE Z == BignumFromMemory(mem', call.z, call.k)
<1>8. Z \in Nat /\ WindowAt(call, Z + Pow[call.k] * top, i + 1)
  BY <1>7 DEF Enters
<1>9. top \in {0, 1}
  <2> HIDE DEF Z
  <2>1. i + 1 \in Nat
    BY <1>2
  <2> QED BY <1>2, <1>6, <1>8, <2>1, CarryBound
<1>10. c' = top /\ c' \in Word
  <2>1. B * 0 + top = top /\ top \in 0..(B - 1) /\ B \in Nat \ {0}
    BY <1>9, BaseAssumption
  <2>2. (B * 0 + top) % B = top
    BY <2>1, DivModUnique
  <2> QED BY <1>1, <2>1, <2>2 DEF Word
<1>11. pc' \in {"outerloop", "corrective"} /\ (pc' = "corrective" => i + 1 = call.p)
       /\ (pc' = "outerloop" => i + 1 < call.p)
  <2>1. pc' = (IF i + 1 < call.p THEN "outerloop" ELSE "corrective") /\ i < call.p
        /\ i \in Nat /\ call.p \in Nat
    BY <1>1, <1>2, <1>3
  <2> QED BY ONLY <2>1
<1>12. Registers'
  <2>1. call.k - 1 \in Nat /\ i + 1 \in Nat
    BY <1>2, <1>3
  <2> QED BY <1>1, <1>2, <1>6, <1>10, <1>11, <2>1 DEF Registers, Slid
<1>13. Counters'
  BY <1>1, <1>11 DEF Counters
<1>14. FrameInv'
  <2>1. MayChange(call.mem, mem', Block(call.z, call.k))
    BY <1>3, <1>6, FrameStep DEF Slid
  <2> QED BY <1>1, <1>11, <2>1 DEF FrameInv
<1>15. Inverted' /\ Copied' /\ Corrected'
  BY <1>1, <1>2, <1>11 DEF Inverted, Copied, Corrected
<1>16. WindowInv'
  <2>1. Top' = Z + Pow[call.k] * top
    BY <1>1, <1>10 DEF Top, Zval
  <2>2. pc' = "outerloop" => WindowAt(call', Top', i')
    BY <1>1, <1>8, <2>1
  <2>3. pc' = "corrective" => WindowAt(call', Top', call'.p)
    BY <1>1, <1>8, <1>11, <2>1
  <2> QED BY <1>9, <1>10, <1>11, <2>2, <2>3 DEF WindowInv
<1> QED BY <1>2, <1>12, <1>13, <1>14, <1>15, <1>16 DEF IInv

-----------------------------------------------------------------------------
(* The correction                                                          *)

LEMMA CorrectiveStep == IInv /\ Corrective => IInv'
<1> SUFFICES ASSUME IInv, Corrective PROVE IInv'
  OBVIOUS
<1>1. pc = "corrective" /\ pc' = "cmploop" /\ j' = 0 /\ cf' = 1 /\ UNCHANGED <<mem, i, w, d, h, c, call>>
  BY DEF Corrective
<1>2. /\ CallOK(call) /\ CallOK(call)' /\ Registers /\ FrameInv /\ Inverted
      /\ c \in {0, 1} /\ WindowAt(call, Top, call.p) /\ call.k > 0
  BY <1>1 DEF IInv, Registers, WindowInv
<1>3. Registers' /\ Counters' /\ FrameInv' /\ Inverted' /\ Copied' /\ Corrected'
  BY <1>1, <1>2 DEF Registers, Counters, FrameInv, Inverted, Copied, Corrected
<1>4. BignumFromMemory(mem, call.z, 0) = 0 /\ NumLow(call, 0) = 0
  BY ValueUnfold DEF NumLow
<1>5. WindowInv'
  <2>1. Top' = Top
    BY <1>1 DEF Top, Zval
  <2> QED BY <1>1, <1>2, <1>4, <2>1 DEF WindowInv
<1> QED BY <1>2, <1>3, <1>5 DEF IInv

\* The comparison word by word: the words above decide, or the flag does.
Compares(lowz, lown, zj, mj, flag, t) ==
  (zj >= mj + (1 - flag)) <=> (lowz + Pow[t] * zj >= lown + Pow[t] * mj)

LEMMA CompareStep ==
  ASSUME NEW t \in Nat, NEW lowz \in 0..(Pow[t] - 1), NEW lown \in 0..(Pow[t] - 1),
         NEW zj \in Word, NEW mj \in Word, NEW flag \in {0, 1}, flag = 1 <=> lowz >= lown
  PROVE  Compares(lowz, lown, zj, mj, flag, t)
<1> DEFINE P == Pow[t]
<1>1. P \in Nat \ {0} /\ zj \in Nat /\ mj \in Nat
  BY PowType, BaseAssumption DEF Word
<1>2. lowz \in 0..(P - 1) /\ lown \in 0..(P - 1)
  OBVIOUS
<1> HIDE DEF P
<1>3. P * zj \in Nat /\ P * mj \in Nat
  BY <1>1
<1>4. CASE zj > mj
  <2>1. P * zj >= P * (mj + 1) /\ P * (mj + 1) = P * mj + P
    BY <1>1, <1>4
  <2>2. lowz + P * zj >= lown + P * mj
    BY <1>1, <1>2, <1>3, <2>1
  <2>3. zj >= mj + (1 - flag)
    BY <1>1, <1>4
  <2> QED BY <2>2, <2>3 DEF Compares, P
<1>5. CASE zj < mj
  <2>1. P * mj >= P * (zj + 1) /\ P * (zj + 1) = P * zj + P
    BY <1>1, <1>5
  <2>2. ~ (lowz + P * zj >= lown + P * mj)
    BY <1>1, <1>2, <1>3, <2>1
  <2>3. ~ (zj >= mj + (1 - flag))
    BY <1>1, <1>5
  <2> QED BY <2>2, <2>3 DEF Compares, P
<1>6. CASE zj = mj
  <2>1. lowz + P * zj >= lown + P * mj <=> lowz >= lown
    BY <1>1, <1>2, <1>3, <1>6
  <2>2. zj >= mj + (1 - flag) <=> flag = 1
    BY <1>1, <1>6
  <2> QED BY <2>1, <2>2 DEF Compares, P
<1> QED BY <1>1, <1>4, <1>5, <1>6

LEMMA CmpStep == IInv /\ CmpLoop => IInv'
<1> SUFFICES ASSUME IInv, CmpLoop PROVE IInv'
  OBVIOUS
<1>1. /\ pc = "cmploop"
      /\ cf' = IF mem[call.z + j] >= mem[call.m + j] + (1 - cf) THEN 1 ELSE 0
      /\ j' = j + 1
      /\ pc' = IF j' # call.k THEN "cmploop" ELSE "mask"
      /\ UNCHANGED <<mem, i, w, d, h, c, call>>
  BY DEF CmpLoop
<1>2. /\ CallOK(call) /\ CallOK(call)' /\ Registers /\ FrameInv /\ Inverted
      /\ mem \in Memory /\ j \in Nat /\ j < call.k /\ cf \in {0, 1} /\ c \in {0, 1} /\ call.k > 0
      /\ WindowAt(call, Top, call.p)
      /\ cf = 1 <=> BignumFromMemory(mem, call.z, j) >= NumLow(call, j)
  BY <1>1 DEF IInv, Registers, WindowInv, Counters
<1>3. /\ call.k \in Nat /\ call.z \in Int /\ call.m \in Int /\ call.mem \in Memory
      /\ Block(call.z, call.k) \subseteq Addr /\ Block(call.m, call.k) \subseteq Addr
      /\ MayChange(call.mem, mem, Block(call.z, call.k)) /\ j <= call.k
  BY <1>1, <1>2, CallFacts DEF FrameInv
<1>4. mem[call.m + j] = call.mem[call.m + j] /\ call.mem[call.m + j] \in Word
  BY <1>2, <1>3, ModulusWords
<1>5. mem[call.z + j] \in Word
  BY <1>2, <1>3, WindowParts
<1> DEFINE lowz == BignumFromMemory(mem, call.z, j)
           lown == NumLow(call, j)
           zj == mem[call.z + j]
           mj == call.mem[call.m + j]
<1>6. lowz \in 0..(Pow[j] - 1) /\ lown \in 0..(Pow[j] - 1)
  BY <1>2, <1>3, PartFacts DEF NumLow
<1>7. Compares(lowz, lown, zj, mj, cf, j)
  <2>1. zj \in Word /\ mj \in Word /\ (cf = 1 <=> lowz >= lown)
    BY <1>2, <1>4, <1>5
  <2> HIDE DEF lowz, lown, zj, mj
  <2> QED BY <1>2, <1>6, <2>1, CompareStep
<1>8. cf' = 1 <=> BignumFromMemory(mem, call.z, j + 1) >= NumLow(call, j + 1)
  <2>1. BignumFromMemory(mem, call.z, j + 1) = lowz + Pow[j] * zj
    BY <1>2, ValueUnfold
  <2>2. NumLow(call, j + 1) = lown + Pow[j] * mj
    BY <1>2, ModulusSplit
  <2>3. cf' = 1 <=> zj >= mj + (1 - cf)
    BY <1>1, <1>4
  <2> HIDE DEF lowz, lown, zj, mj
  <2> QED BY <1>7, <2>1, <2>2, <2>3 DEF Compares
<1>9. pc' \in {"cmploop", "mask"} /\ cf' \in {0, 1}
  BY <1>1
<1>10. Registers'
  BY <1>1, <1>2, <1>9 DEF Registers
<1>11. Counters'
  BY <1>1, <1>2, <1>3 DEF Counters
<1>12. FrameInv' /\ Inverted' /\ Copied' /\ Corrected'
  BY <1>1, <1>2, <1>9 DEF FrameInv, Inverted, Copied, Corrected
<1>13. WindowInv'
  <2>1. Top' = Top
    BY <1>1 DEF Top, Zval
  <2> QED BY <1>1, <1>2, <1>8, <1>9, <2>1 DEF WindowInv
<1> QED BY <1>2, <1>10, <1>11, <1>12, <1>13 DEF IInv

LEMMA MaskStep == IInv /\ Mask => IInv'
<1> SUFFICES ASSUME IInv, Mask PROVE IInv'
  OBVIOUS
<1>1. /\ pc = "mask" /\ pc' = "corrloop"
      /\ c' = IF c >= 1 - cf THEN B - 1 ELSE 0
      /\ j' = 0 /\ cf' = 1
      /\ UNCHANGED <<mem, i, w, d, h, call>>
  BY DEF Mask
<1>2. /\ CallOK(call) /\ CallOK(call)' /\ Registers /\ FrameInv /\ Inverted
      /\ mem \in Memory /\ cf \in {0, 1} /\ c \in {0, 1} /\ call.k > 0 /\ j = call.k
      /\ WindowAt(call, Top, call.p)
      /\ cf = 1 <=> BignumFromMemory(mem, call.z, j) >= NumLow(call, j)
  BY <1>1 DEF IInv, Registers, WindowInv, Counters
<1>3. cf = 1 <=> Zval >= Num(call)
  BY <1>2 DEF Zval, NumLow, Num
<1>4. /\ Zval \in 0..(Pow[call.k] - 1) /\ Top \in 0..(2 * Pow[call.k] - 1)
      /\ Pow[call.k] \in Nat \ {0} /\ Num(call) \in 0..(Pow[call.k] - 1)
  BY <1>2, TopNat, CallFacts DEF Zval, Top
<1>5. c >= 1 - cf <=> Top >= Num(call)
  <2>1. CASE c = 0
    <3>1. Top = Zval
      BY <1>4, <2>1 DEF Top
    <3> QED BY <1>2, <1>3, <2>1, <3>1
  <2>2. CASE c = 1
    <3>1. Top = Zval + Pow[call.k]
      BY <1>4, <2>2 DEF Top
    <3> QED BY <1>2, <1>4, <2>2, <3>1
  <2> QED BY <1>2, <2>1, <2>2
<1>6. c' \in Word /\ c' \in {0, B - 1} /\ B - 1 # 0
  BY <1>1, BaseAssumption DEF Word
<1>7. Subtracting(call, mem, 0, 1, c')
  <2>1. c' # 0 <=> Top >= Num(call)
    BY <1>1, <1>5, <1>6
  <2>2. NumLow(call, 0) = 0
    BY ValueUnfold DEF NumLow
  <2>3. Zval + (IF c' = 0 THEN 0 ELSE NumLow(call, 0)) - Pow[0] * (1 - 1) + Pow[call.k] * c = Top
    <3>1. Pow[0] * (1 - 1) = 0
      BY PowStep
    <3>2. Pow[call.k] * c \in Int /\ Zval \in Int
      BY <1>2, <1>4
    <3> QED BY <2>2, <3>1, <3>2 DEF Top
  <2> QED BY <1>2, <1>4, <1>6, <2>1, <2>3 DEF Subtracting, Zval
<1>8. Registers'
  BY <1>1, <1>2, <1>6 DEF Registers
<1>9. Counters' /\ FrameInv' /\ Inverted' /\ Copied' /\ WindowInv'
  BY <1>1, <1>2 DEF Counters, FrameInv, Inverted, Copied, WindowInv
<1>10. Corrected'
  BY <1>1, <1>7 DEF Corrected
<1> QED BY <1>2, <1>8, <1>9, <1>10 DEF IInv

\* A step of the subtraction: the difference of the words and the borrow.
Subtracts(zj, e, flag, word, flag1) ==
  /\ word \in Word /\ flag1 \in {0, 1}
  /\ zj - e - (1 - flag) = word - B * (1 - flag1)

LEMMA SubtractWord ==
  ASSUME NEW zj \in Word, NEW e \in Word, NEW flag \in {0, 1},
         NEW flag1, flag1 = IF zj >= e + (1 - flag) THEN 1 ELSE 0
  PROVE  Subtracts(zj, e, flag, (zj - e - (1 - flag)) % B, flag1)
<1> DEFINE b == 1 - flag
           v == zj - e - b
<1>1. b \in {0, 1} /\ zj \in Nat /\ e \in Nat /\ B \in Nat
  BY BaseAssumption DEF Word
<1>2. v \in Int /\ v % B \in Word /\ (zj >= e + b => v \div B = 0) /\ (zj < e + b => v \div B = -1)
  <2> HIDE DEF b
  <2> QED BY <1>1, BorrowBit
<1>3. v = B * (v \div B) + (v % B)
  BY <1>2, WordDivMod
<1>4. v % B \in Nat
  BY <1>2, BaseAssumption DEF Word
<1>5. flag1 = IF zj >= e + b THEN 1 ELSE 0
  OBVIOUS
<1> HIDE DEF v, b
<1>6. v = (v % B) - B * (1 - flag1)
  <2>1. CASE zj >= e + b
    <3>1. flag1 = 1 /\ v \div B = 0
      BY <1>2, <1>5, <2>1
    <3>2. B * 0 = 0 /\ B * (1 - 1) = 0
      BY <1>1
    <3> QED BY <1>3, <1>4, <3>1, <3>2
  <2>2. CASE zj < e + b
    <3>1. flag1 = 0 /\ v \div B = -1
      BY <1>1, <1>2, <1>5, <2>2
    <3>2. B * (-1) = -B /\ B * (1 - 0) = B
      BY <1>1
    <3> QED BY <1>1, <1>3, <1>4, <3>1, <3>2
  <2> QED BY <1>1, <2>1, <2>2
<1> QED BY <1>2, <1>5, <1>6 DEF Subtracts, v, b

LEMMA SubtractNext ==
  ASSUME NEW cl, CallOK(cl), NEW memory \in Memory, NEW t \in Nat, t < cl.k, NEW flag \in {0, 1},
         NEW mask, Subtracting(cl, memory, t, flag, mask),
         NEW e, e = IF mask = 0 THEN 0 ELSE cl.mem[cl.m + t],
         NEW word, NEW flag1, Subtracts(memory[cl.z + t], e, flag, word, flag1),
         NEW new, Written(memory, new, cl.z, cl.k, t, word)
  PROVE  Subtracting(cl, new, t + 1, flag1, mask)
<1> DEFINE Z == BignumFromMemory(memory, cl.z, cl.k)
           Z1 == BignumFromMemory(new, cl.z, cl.k)
           K == Pow[cl.k]
           P == Pow[t]
           zj == memory[cl.z + t]
           L == IF mask = 0 THEN 0 ELSE NumLow(cl, t)
           L1 == IF mask = 0 THEN 0 ELSE NumLow(cl, t + 1)
<1>1. mask \in {0, B - 1}
  BY DEF Subtracting
<1>2. PICK v \in 0..(2 * K - 1), carry \in {0, 1} :
        /\ WindowAt(cl, v, cl.p)
        /\ mask # 0 <=> v >= Num(cl)
        /\ Z + L - P * (1 - flag) + K * carry = v
  BY DEF Subtracting
<1>3. /\ cl.k \in Nat /\ cl.z \in Int /\ Block(cl.z, cl.k) \subseteq Addr /\ cl.k <= cl.k /\ t <= cl.k
      /\ P \in Nat /\ K \in Nat /\ Pow[t + 1] = B * P /\ B \in Nat
  BY CallFacts, BaseAssumption
<1>4. Z \in Nat /\ Z1 \in Nat
  <2>1. new \in Memory
    BY DEF Written
  <2> QED BY <1>3, <2>1, PartFacts
<1>5. zj \in Nat /\ cl.mem[cl.m + t] \in Nat
  <2>1. zj \in Word /\ cl.mem[cl.m + t] \in Word
    BY <1>3, WindowParts
  <2> QED BY <2>1, BaseAssumption DEF Word
<1>6. L \in Nat /\ L1 = L + P * e /\ e \in Nat
  <2>1. NumLow(cl, t) \in Nat /\ NumLow(cl, t + 1) = NumLow(cl, t) + P * cl.mem[cl.m + t]
    BY ModulusSplit
  <2>2. CASE mask = 0
    BY <1>3, <2>2
  <2>3. CASE mask # 0
    BY <1>3, <1>5, <2>1, <2>3
  <2> QED BY <2>2, <2>3
<1>7. word \in Nat /\ flag1 \in {0, 1} /\ zj - e - (1 - flag) = word - B * (1 - flag1)
  BY BaseAssumption DEF Subtracts, Word
<1>8. Z1 = Z + P * (word - zj)
  BY DEF Written
<1> HIDE DEF Z, Z1, K, P, zj, L, L1
<1>9. Z1 + L1 - (B * P) * (1 - flag1) + K * carry = v
  <2> DEFINE b == 1 - flag
             b1 == 1 - flag1
  <2>1. b \in {0, 1} /\ b1 \in {0, 1}
    BY <1>7
  <2>2. zj - e - b = word - B * b1 /\ Z + L - P * b + K * carry = v
    BY <1>2, <1>7
  <2> HIDE DEF b, b1
  <2>3. P * (word - zj) = P * (B * b1 - e - b)
    <3>1. B * b1 \in Nat
      BY <1>3, <2>1
    <3> DEFINE y == B * b1
    <3>2. word - zj = y - e - b
      <4>1. y \in Nat /\ zj - e - b = word - y
        BY <2>2, <3>1
      <4> HIDE DEF y
      <4> QED BY <1>5, <1>6, <1>7, <2>1, <4>1
    <3> QED BY <3>2
  <2>4. P * (B * b1 - e - b) = (B * P) * b1 - P * e - P * b
    <3> DEFINE y == B * b1
    <3>1. y \in Nat /\ (B * P) * b1 = P * y
      BY <1>3, <2>1
    <3> HIDE DEF y
    <3>2. P * (y - e - b) = P * y - P * e - P * b
      BY <1>3, <1>6, <2>1, <3>1
    <3> QED BY <3>1, <3>2 DEF y
  <2>5. (B * P) * b1 \in Nat /\ P * e \in Nat /\ P * b \in Nat /\ K * carry \in Nat
    BY <1>3, <1>6, <2>1
  <2> DEFINE y1 == (B * P) * b1
             y2 == P * e
             y3 == P * b
             y4 == K * carry
  <2>6. /\ Z1 = Z + (y1 - y2 - y3) /\ L1 = L + y2 /\ Z + L - y3 + y4 = v
        /\ y1 \in Nat /\ y2 \in Nat /\ y3 \in Nat /\ y4 \in Nat
    BY <1>6, <1>8, <2>2, <2>3, <2>4, <2>5
  <2> HIDE DEF y1, y2, y3, y4
  <2>7. Z1 + L1 - y1 + y4 = v
    BY <1>4, <1>6, <2>6
  <2> QED BY <2>7 DEF y1, y4, b1
<1> QED BY <1>1, <1>2, <1>3, <1>9 DEF Subtracting, Z1, K, L1

LEMMA CorrStep == IInv /\ CorrLoop => IInv'
<1> SUFFICES ASSUME IInv, CorrLoop PROVE IInv'
  OBVIOUS
<1> DEFINE e == IF c = 0 THEN 0 ELSE mem[call.m + j]
           zj == mem[call.z + j]
           word == (zj - e - (1 - cf)) % B
<1>1. /\ pc = "corrloop"
      /\ mem' = [mem EXCEPT ![call.z + j] = word]
      /\ cf' = IF zj >= e + (1 - cf) THEN 1 ELSE 0
      /\ j' = j + 1
      /\ pc' = IF j' # call.k THEN "corrloop" ELSE "end"
      /\ UNCHANGED <<i, w, d, h, c, call>>
  BY DEF CorrLoop
<1>2. /\ CallOK(call) /\ CallOK(call)' /\ Registers /\ FrameInv /\ Inverted
      /\ mem \in Memory /\ j \in Nat /\ j < call.k /\ cf \in {0, 1} /\ call.k > 0
      /\ Subtracting(call, mem, j, cf, c)
  BY <1>1 DEF IInv, Registers, Corrected, Counters
<1>3. /\ call.k \in Nat /\ call.z \in Int /\ Block(call.z, call.k) \subseteq Addr
      /\ MayChange(call.mem, mem, Block(call.z, call.k)) /\ j <= call.k
  BY <1>1, <1>2, CallFacts DEF FrameInv
<1>4. mem[call.m + j] = call.mem[call.m + j] /\ call.mem[call.m + j] \in Word
  BY <1>2, <1>3, ModulusWords
<1>5. zj \in Word
  BY <1>2, <1>3, WindowParts
<1>6. e \in Word /\ e = IF c = 0 THEN 0 ELSE call.mem[call.m + j]
  <2>1. 0 \in Word
    BY BaseAssumption DEF Word
  <2> QED BY <1>4, <2>1
<1>7. Subtracts(zj, e, cf, word, cf')
  <2> HIDE DEF e, zj
  <2> QED BY <1>1, <1>2, <1>5, <1>6, SubtractWord
<1>8. word \in Word /\ cf' \in {0, 1}
  BY <1>7 DEF Subtracts
<1> HIDE DEF word, e
<1>9. Written(mem, mem', call.z, call.k, j, word)
  BY <1>1, <1>2, <1>3, <1>8, WordWritten
<1>10. Subtracting(call, mem', j + 1, cf', c)
  BY <1>2, <1>6, <1>7, <1>9, SubtractNext
<1>11. pc' \in {"corrloop", "end"} /\ (pc' = "corrloop" => j + 1 < call.k) /\ (pc' = "end" => j + 1 = call.k)
  <2>1. pc' = (IF j + 1 # call.k THEN "corrloop" ELSE "end") /\ j \in Nat /\ call.k \in Nat /\ j < call.k
    BY <1>1, <1>2, <1>3
  <2> QED BY ONLY <2>1
<1>12. Registers'
  BY <1>1, <1>2, <1>8, <1>9, <1>11 DEF Registers, Written
<1>13. Counters'
  BY <1>1, <1>11 DEF Counters
<1>14. FrameInv'
  <2>1. MayChange(call.mem, mem', Block(call.z, call.k))
    BY <1>3, <1>9, FrameStep DEF Written
  <2> QED BY <1>1, <1>11, <2>1 DEF FrameInv
<1>15. Inverted' /\ Copied' /\ WindowInv'
  BY <1>1, <1>2, <1>11 DEF Inverted, Copied, WindowInv
<1>16. Corrected'
  BY <1>1, <1>10, <1>11 DEF Corrected
<1> QED BY <1>2, <1>12, <1>13, <1>14, <1>15, <1>16 DEF IInv

LEMMA StepInv == IInv /\ [Next]_vars => IInv'
<1> SUFFICES ASSUME IInv, [Next]_vars PROVE IInv'
  OBVIOUS
<1>1. CASE UNCHANGED vars
  BY <1>1 DEF vars, IInv, CallOK, Registers, Counters, FrameInv, Copied, Inverted, WindowInv,
              Corrected, Top, Zval
<1>2. CASE Next
  BY <1>1, <1>2, EntryStep, CopyStep, PadStep, InitializedStep, OuterStep, MontStep, MontEndStep,
     CorrectiveStep, CmpStep, MaskStep, CorrStep DEF Next, Done
<1> QED BY <1>1, <1>2

-----------------------------------------------------------------------------
(* The theorems                                                            *)

\* At every label the counters, the frame, the window and the subtraction are as
\* the loops of bignum_montredc.S have them.
THEOREM Invariance == Spec => []IInv
  BY InitInv, StepInv, PTL DEF Spec

\* Registers, flag and memory keep their types, no loop indexes z or m beyond their
\* words, and every word loaded from x lies inside its n words, and below k + p.
THEOREM TypeCorrect == Spec => []TypeOK
<1>1. IInv => TypeOK
  <2> SUFFICES ASSUME IInv PROVE TypeOK
    OBVIOUS
  <2>1. pc = "copyloop" => i < call.k
    <3>1. call.k \in Nat /\ call.n \in Nat /\ i \in Nat
      BY CallFacts DEF IInv, Registers
    <3> QED BY <3>1 DEF IInv, Counters, Lesser
  <2>2. \A t \in XLoads : t < call.n /\ t < call.k + call.p
    <3>1. call.k \in Nat /\ call.n \in Nat /\ call.p \in Nat /\ i \in Nat
      BY CallFacts DEF IInv, Registers
    <3>2. CASE pc = "copyloop"
      BY <3>1, <3>2 DEF IInv, Counters, Lesser, XLoads
    <3>3. CASE pc = "montend"
      BY <3>1, <3>3 DEF IInv, Counters, XLoads, More
    <3> QED BY <3>2, <3>3 DEF XLoads
  <2> QED BY <2>1, <2>2 DEF IInv, Registers, Counters, TypeOK
<1> QED BY Invariance, <1>1, PTL

\* The sequence of word_negmodinv inverts the lowest word of every odd modulus,
\* for words of any size up to 80 bits.
THEOREM InverseHolds == Spec => []InverseOK
<1>1. IInv => InverseOK
  <2> SUFFICES ASSUME IInv, pc \notin {"entry", "end"}, Modulus % 2 = 1
               PROVE  (w * mem[call.m] + 1) % B = 0
    BY DEF InverseOK
  <2>1. (w * call.mem[call.m] + 1) % B = 0
    BY DEF IInv, Inverted, Odd, Num, Modulus
  <2>2. CallOK(call) /\ mem \in Memory /\ MayChange(call.mem, mem, Block(call.z, call.k)) /\ call.k > 0
    BY DEF IInv, Registers, FrameInv
  <2>3. call.m + 0 = call.m /\ 0 \in Nat /\ 0 < call.k
    BY <2>2, CallFacts
  <2>4. mem[call.m + 0] = call.mem[call.m + 0]
    BY <2>2, <2>3, ModulusWords
  <2> QED BY <2>1, <2>3, <2>4
<1> QED BY Invariance, <1>1, PTL

\* Two carries are added to the top of the window in each iteration, and it stays
\* a bit for every modulus and every x.
THEOREM TopCarryHolds == Spec => []TopCarryIsBit
<1>1. IInv => TopCarryIsBit
  BY DEF IInv, WindowInv, TopCarryIsBit
<1> QED BY Invariance, <1>1, PTL

LEMMA XLowDigits ==
  ASSUME NEW cl, CallOK(cl), NEW t \in Nat
  PROVE  LowDigits(BignumFromMemory(cl.mem, cl.x, cl.n), t) = XLow(cl, t)
<1>1. cl.mem \in Memory /\ cl.n \in Nat /\ cl.x \in Int /\ InMemory(cl.x, cl.n)
  BY CallFacts
<1> QED BY <1>1, PrefixSplit DEF XLow

\* After each iteration the window, shifted up by the words it has dropped, is
\* the part of x it has passed over plus a multiple of the modulus.
THEOREM WindowHolds == Spec => []Window
<1>1. IInv => (pc \in {"outerloop", "corrective"} /\ Modulus % 2 = 1 =>
                 \E q \in 0..(Pow[Iterations] - 1) :
                   Pow[Iterations] * (Zval + Pow[call.k] * c)
                     = LowDigits(Xval, call.k + Iterations) + q * Modulus)
  <2> SUFFICES ASSUME IInv, pc \in {"outerloop", "corrective"}, Modulus % 2 = 1
               PROVE  \E q \in 0..(Pow[Iterations] - 1) :
                        Pow[Iterations] * (Zval + Pow[call.k] * c)
                          = LowDigits(Xval, call.k + Iterations) + q * Modulus
    OBVIOUS
  <2> DEFINE t == Iterations
  <2>1. CallOK(call) /\ WindowAt(call, Top, t) /\ t \in Nat /\ call.k \in Nat
    BY CallFacts DEF IInv, WindowInv, Iterations, Registers
  <2> HIDE DEF t
  <2>2. Odd(call) /\ Modulus = Num(call)
    BY DEF Odd, Num, Modulus
  <2>3. PICK q \in 0..(Pow[t] - 1), e \in 0..(Pow[t] - 1) :
          Pow[t] * Top + e = XLow(call, call.k + t) + q * Num(call) /\ e = 0
    BY <2>1, <2>2 DEF WindowAt, Balanced
  <2>4. Pow[t] * Top \in Nat
    <3>1. mem \in Memory /\ c \in {0, 1}
      BY DEF IInv, Registers, WindowInv
    <3>2. Top \in Nat /\ Pow[t] \in Nat
      BY <2>1, <3>1, TopNat, PowType DEF Top, Zval
    <3> QED BY <3>2
  <2>5. Pow[t] * Top = XLow(call, call.k + t) + q * Num(call)
    BY <2>3, <2>4
  <2>6. LowDigits(Xval, call.k + t) = XLow(call, call.k + t)
    <3>1. call.k + t \in Nat
      BY <2>1
    <3> QED BY <2>1, <3>1, XLowDigits DEF Xval
  <2> QED BY <2>2, <2>3, <2>5, <2>6 DEF t, Top
<1>2. InverseOK /\ TopCarryIsBit /\ IInv => Window
  BY <1>1 DEF Window
<1> QED BY Invariance, InverseHolds, TopCarryHolds, <1>2, PTL

\* The residue of the balance: a window below twice the modulus and the modulus
\* taken off it or not.
LEMMA Reduced ==
  ASSUME NEW cl, CallOK(cl), Odd(cl), NEW memory \in Memory, NEW mask, NEW flag \in {0, 1}, cl.k > 0,
         Subtracting(cl, memory, cl.k, flag, mask),
         XLow(cl, cl.k + cl.p) <= Pow[cl.p] * Num(cl)
  PROVE  /\ BignumFromMemory(memory, cl.z, cl.k) < Num(cl)
         /\ \E s \in Int : Pow[cl.p] * BignumFromMemory(memory, cl.z, cl.k) - XLow(cl, cl.k + cl.p)
                           = Num(cl) * s
<1> DEFINE P == Pow[cl.p]
           K == Pow[cl.k]
           N == Num(cl)
           X == XLow(cl, cl.k + cl.p)
           Z == BignumFromMemory(memory, cl.z, cl.k)
           L == IF mask = 0 THEN 0 ELSE NumLow(cl, cl.k)
<1>1. PICK v \in 0..(2 * K - 1), carry \in {0, 1} :
        /\ WindowAt(cl, v, cl.p)
        /\ mask # 0 <=> v >= N
        /\ Z + L - K * (1 - flag) + K * carry = v
  BY DEF Subtracting
<1>2. PICK q \in 0..(P - 1), e \in 0..(P - 1) : P * v + e = X + q * N /\ e = 0
  BY <1>1 DEF WindowAt, Balanced
<1>3. /\ cl.k \in Nat /\ cl.p \in Nat /\ P \in Nat \ {0} /\ K \in Nat \ {0}
      /\ N \in 0..(K - 1) /\ X \in Nat /\ Z \in 0..(K - 1)
  <2>1. cl.k \in Nat /\ cl.p \in Nat /\ P \in Nat \ {0} /\ K \in Nat \ {0} /\ N \in 0..(K - 1)
    BY CallFacts
  <2>2. X \in Nat
    <3>1. cl.k + cl.p \in Nat
      BY <2>1
    <3>2. X \in 0..(Pow[cl.k + cl.p] - 1)
      BY <3>1, XFacts
    <3> QED BY <3>1, <3>2, PowType
  <2>3. Z \in 0..(K - 1)
    BY TopNat, 0 \in {0, 1}
  <2> QED BY <2>1, <2>2, <2>3
<1>4. N > 0
  BY <1>3 DEF Odd
<1>5. L = IF mask = 0 THEN 0 ELSE N
  BY DEF NumLow, Num
<1>6. X <= P * N
  OBVIOUS
<1> HIDE DEF P, K, N, X, Z, L
<1>7. P * v = X + q * N /\ P * v \in Nat /\ q * N \in Nat
  BY <1>1, <1>2, <1>3
<1>8. v < 2 * N
  <2>1. q * N <= (P - 1) * N
    BY <1>2, <1>3
  <2>2. (P - 1) * N = P * N - N /\ P * N \in Nat
    BY <1>3
  <2>3. P * v < 2 * (P * N)
    BY <1>3, <1>4, <1>6, <1>7, <2>1, <2>2
  <2>4. SUFFICES ASSUME v >= 2 * N PROVE FALSE
    BY <1>1, <1>3
  <2>5. P * v >= P * (2 * N) /\ P * (2 * N) = 2 * (P * N)
    BY <1>1, <1>3, <2>4
  <2> QED BY <1>7, <2>2, <2>3, <2>5
<1> DEFINE r == 1 - flag - carry
<1>9. r \in -1..1 /\ Z + L = v + K * r
  <2>1. r \in -1..1
    BY <1>1
  <2>2. K * (1 - flag) - K * carry = K * r
    BY <1>1, <1>3
  <2>3. K * (1 - flag) \in Int /\ K * carry \in Int /\ L \in Int
    BY <1>1, <1>3, <1>5
  <2> QED BY <1>1, <1>3, <2>1, <2>2, <2>3
<1> HIDE DEF r
<1>10. CASE mask = 0
  <2>1. v < N /\ L = 0
    BY <1>1, <1>3, <1>5, <1>10
  <2>2. r = 0
    <3>1. CASE r = 1
      BY <1>1, <1>3, <1>9, <2>1, <3>1
    <3>2. CASE r = -1
      BY <1>1, <1>3, <1>9, <2>1, <3>2
    <3> QED BY <1>9, <3>1, <3>2
  <2>3. Z = v
    BY <1>1, <1>3, <1>9, <2>1, <2>2
  <2>4. P * Z - X = N * q
    BY <1>2, <1>3, <1>7, <2>3
  <2> QED BY <1>2, <2>1, <2>3, <2>4 DEF P, N, X, Z
<1>11. CASE mask # 0
  <2>1. v >= N /\ L = N
    BY <1>1, <1>5, <1>11
  <2>2. r = 0
    <3>1. CASE r = 1
      BY <1>1, <1>3, <1>8, <1>9, <2>1, <3>1
    <3>2. CASE r = -1
      BY <1>1, <1>3, <1>8, <1>9, <2>1, <3>2
    <3> QED BY <1>9, <3>1, <3>2
  <2>3. Z = v - N /\ Z < N
    BY <1>1, <1>3, <1>8, <1>9, <2>1, <2>2
  <2>4. P * Z - X = N * (q - P)
    <3>1. P * (v - N) = P * v - P * N /\ N * (q - P) = q * N - P * N /\ P * N \in Int
      BY <1>1, <1>2, <1>3
    <3> QED BY <1>3, <1>7, <2>3, <3>1
  <2>5. q - P \in Int
    BY <1>2, <1>3
  <2> QED BY <2>3, <2>4, <2>5 DEF P, N, X, Z
<1> QED BY <1>10, <1>11

LEMMA PostHolds ==
  ASSUME IInv, pc = "end"
  PROVE  MontredcPost(call, mem, 0)
<1>1. CallOK(call) /\ mem \in Memory /\ cf \in {0, 1}
  BY DEF IInv, Registers
<1>2. call.k \in Nat /\ call.p \in Nat /\ call.k + call.p \in Nat
  BY <1>1, CallFacts
<1>3. LowDigits(BignumFromMemory(call.mem, call.x, call.n), call.k + call.p) = XLow(call, call.k + call.p)
  BY <1>1, <1>2, XLowDigits
<1> SUFFICES ASSUME Odd(call), XLow(call, call.k + call.p) <= Pow[call.p] * Num(call)
             PROVE  /\ BignumFromMemory(mem, call.z, call.k) < Num(call)
                    /\ (Pow[call.p] * BignumFromMemory(mem, call.z, call.k)
                          - XLow(call, call.k + call.p)) % Num(call) = 0
  BY <1>3 DEF MontredcPost, Odd, Num
<1>4. call.k > 0
  <2>1. call.k # 0
    <3>1. SUFFICES ASSUME call.k = 0 PROVE FALSE
      OBVIOUS
    <3>2. Num(call) = 0
      BY <3>1, ValueUnfold DEF Num
    <3> QED BY <3>2 DEF Odd
  <2> QED BY <1>2, <2>1
<1>5. Subtracting(call, mem, call.k, cf, c)
  BY <1>4 DEF IInv, Corrected
<1> DEFINE Z == BignumFromMemory(mem, call.z, call.k)
           a == Pow[call.p] * Z - XLow(call, call.k + call.p)
           N == Num(call)
<1>6. Z < N /\ \E s \in Int : a = N * s
  BY <1>1, <1>4, <1>5, Reduced
<1>7. N \in Nat \ {0}
  <2>1. N \in Nat
    BY <1>1, CallFacts
  <2> QED BY <2>1 DEF Odd
<1>8. PICK s \in Int : a = N * s
  BY <1>6
<1> HIDE DEF a, N
<1>9. a = N * s + 0 /\ 0 \in 0..(N - 1)
  <2>1. N * s \in Int
    BY <1>7
  <2> QED BY <1>7, <1>8, <2>1
<1>10. a % N = 0
  BY <1>7, <1>9, DivModUnique
<1> QED BY <1>6, <1>10 DEF a, N

Correct ==
  /\ MayChange(call.mem, mem, MontredcFrame(call))
  /\ pc = "end" => MontredcPost(call, mem, 0)

\* Nothing outside z changes, and at the return the postcondition of
\* BIGNUM_MONTREDC_SUBROUTINE_CORRECT holds.
THEOREM Correctness == Spec => []Correct
<1>1. IInv => Correct
  BY PostHolds DEF Correct, IInv, FrameInv, MontredcFrame
<1> QED BY Invariance, <1>1, PTL

\* The routine implements its contract: every step stays inside the frame and
\* the step that returns establishes the postcondition.
THEOREM ContractHolds == Spec => Implements
<1>1. Init => Contract!Init
  BY DEF Init, Contract!Init
<1>2. Correct' /\ [Next]_vars => [Contract!Next]_(Contract!vars)
  <2> SUFFICES ASSUME Correct', [Next]_vars, ~ UNCHANGED vars
               PROVE  Contract!Next
    BY DEF vars, Contract!vars
  <2>1. pc # "end" /\ call' = call
    BY DEF Next, Entry, CopyLoop, PadLoop, Initialized, OuterLoop, MontLoop, MontEnd,
           Corrective, CmpLoop, Mask, CorrLoop, Done
  <2>2. MayChange(call.mem, mem', MontredcFrame(call))
    BY <2>1 DEF Correct
  <2>3. CASE pc' = "end"
    BY <2>1, <2>2, <2>3
    DEF Correct, Contract!Next, Contract!Return, MayChange, Contract!MayChange, Contract!Addr, Addr
  <2>4. CASE pc' # "end"
    BY <2>1, <2>2, <2>4
    DEF Contract!Next, Contract!Run, MayChange, Contract!MayChange, Contract!Addr, Addr
  <2> QED BY <2>3, <2>4
<1>3. Implements <=> Contract!Init /\ [][Contract!Next]_(Contract!vars)
  BY DEF Implements, Contract!Spec
<1> QED BY <1>1, <1>2, <1>3, Correctness, PTL DEF Spec
=============================================================================
