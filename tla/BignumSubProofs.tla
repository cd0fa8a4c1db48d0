-------------------------- MODULE BignumSubProofs ---------------------------
(***************************************************************************)
(* Proofs about BignumSub for every word size, memory and argument sizes.  *)
(***************************************************************************)
EXTENDS BignumSub, BignumTheorems

m0 == Lesser(call.m, call.p)
n0 == Lesser(call.n, call.p)

CallOK ==
  /\ call.mem \in Memory
  /\ call.p \in Size /\ call.m \in Size /\ call.n \in Size
  /\ call.z \in Addr /\ call.x \in Addr /\ call.y \in Addr
  /\ InMemory(call.z, call.p)
  /\ InMemory(call.x, call.m)
  /\ InMemory(call.y, call.n)
  /\ SameOrDisjoint(call.x, call.m, call.z, call.p)
  /\ SameOrDisjoint(call.y, call.n, call.z, call.p)

\* How the counters divide the words of the result at each label.
Counters ==
  /\ pc = "entry" => p = call.p /\ m = call.m /\ n = call.n /\ i = 0
  /\ pc = "xmainloop" => /\ n0 <= m0 /\ n > 0 /\ i + n = n0
                         /\ m = m0 - n0 /\ p = call.p - m0
  /\ pc = "xtoploop" => /\ n0 < m0 /\ n0 = call.n /\ n0 <= i /\ m > 0 /\ i + m = m0
                        /\ p = call.p - m0
  /\ pc = "ymainloop" => /\ m0 < n0 /\ m > 0 /\ i + m = m0
                         /\ n = n0 - m0 /\ p = call.p - n0
  /\ pc = "ytoploop" => /\ m0 < n0 /\ m0 = call.m /\ m0 <= i /\ n > 0 /\ i + n = n0
                        /\ p = call.p - n0
  /\ pc = "return" => p = 0 /\ i = call.p
  /\ pc \in {"tails", "tailloop"} => /\ p > 0 /\ i + p = call.p
                                     /\ call.m <= i /\ call.n <= i
  /\ pc = "tailloop" => a \in {0, B - 1}
  /\ pc = "done" => i = call.p /\ p \in {0, 1}

\* Only the first i words of z have been written.
PrefixWritten == MayChange(call.mem, mem, Block(call.z, i))

IInv == TypeOK /\ CallOK /\ Counters /\ PrefixWritten /\ PartialDifference

LEMMA InitIInv == Init => IInv
<1> SUFFICES ASSUME Init PROVE IInv
  OBVIOUS
<1>1. TypeOK
  BY SizeAssumption, BaseAssumption DEF Init, TypeOK, Labels, Size, Word
<1>2. CallOK
  BY DEF Init, CallOK
<1>3. Counters
  BY DEF Init, Counters
<1>4. PrefixWritten
  BY DEF Init, PrefixWritten, MayChange
<1>5. PartialDifference
  BY DEF Init, PartialDifference
<1> QED BY <1>1, <1>2, <1>3, <1>4, <1>5 DEF IInv

LEMMA SubWordsStep ==
  ASSUME TypeOK, CallOK, PrefixWritten, i < call.p,
         NEW s \in Word, NEW t \in Word, SubWords(s, t)
  PROVE  /\ mem' \in Memory /\ cf' \in {0, 1} /\ i' = i + 1 /\ call' = call /\ a' = a
         /\ MayChange(call.mem, mem', Block(call.z, i + 1))
         /\ BignumFromMemory(mem, call.z, i) \in Nat
         /\ BignumFromMemory(mem', call.z, i + 1) \in Nat
         /\ (1 - cf) * Pow[i] \in Nat /\ (1 - cf') * Pow[i + 1] \in Nat
         /\ Pow[i] * s \in Nat /\ Pow[i] * t \in Nat
         /\ BignumFromMemory(mem', call.z, i + 1) - (1 - cf') * Pow[i + 1]
            = BignumFromMemory(mem, call.z, i) - (1 - cf) * Pow[i]
              + Pow[i] * s - Pow[i] * t
<1> DEFINE c == 1 - cf
           v == s - t - c
<1>1. /\ mem \in Memory /\ i \in Nat /\ call.z \in Int
      /\ Block(call.z, i + 1) \subseteq Addr
      /\ MayChange(call.mem, mem, Block(call.z, i))
  BY DEF TypeOK, CallOK, Block, InMemory, Addr, Size, PrefixWritten
<1>2. c \in {0, 1} /\ v \in Int
      /\ (s >= t + c => v \div B = 0) /\ (s < t + c => v \div B = -1)
  <2>1. c \in {0, 1}
    BY DEF TypeOK
  <2> HIDE DEF c
  <2> QED BY <2>1, BorrowBit
<1>3. /\ mem' = [mem EXCEPT ![call.z + i] = v % B] /\ i' = i + 1 /\ call' = call /\ a' = a
      /\ cf' = IF s >= t + c THEN 1 ELSE 0
  BY DEF SubWords
<1>4. v \div B = cf' - 1 /\ cf' \in {0, 1}
  BY <1>2, <1>3 DEF Word
<1> HIDE DEF v
<1>5. ChainStep(call.mem, mem, mem', call.z, i, v)
  BY <1>1, <1>2, <1>3, ChainStepHolds
<1> DEFINE P == Pow[i]
           R == Pow[i + 1]
<1>6. P \in Nat /\ R \in Nat /\ s \in Nat /\ t \in Nat
  BY <1>1, PowType DEF Word
<1>7. v = s - t - c
  BY DEF v
<1> HIDE DEF P, R, c
<1>8. P * v = P * s - P * t - c * P
  BY <1>2, <1>6, <1>7
<1>9. (cf' - 1) * R = -((1 - cf') * R) /\ (1 - cf') * R \in Nat
  <2>1. CASE cf' = 0
    BY <1>6, <2>1
  <2>2. CASE cf' = 1
    BY <1>6, <2>2
  <2> QED BY <1>4, <2>1, <2>2
<1>10. P * s \in Nat /\ P * t \in Nat /\ c * P \in Nat
  BY <1>2, <1>6
<1> QED BY <1>3, <1>4, <1>5, <1>8, <1>9, <1>10 DEF ChainStep, P, R, c

LEMMA ReadsIntact ==
  ASSUME TypeOK, CallOK, PrefixWritten, i <= call.p, NEW j \in Nat, i <= j
  PROVE  /\ Digit(mem, call.x, call.m, j) = Digit(call.mem, call.x, call.m, j)
         /\ Digit(mem, call.y, call.n, j) = Digit(call.mem, call.y, call.n, j)
<1>1. /\ call.mem \in Memory /\ call.z \in Int /\ call.p \in Nat /\ i \in Nat
      /\ MayChange(call.mem, mem, Block(call.z, i))
      /\ call.x \in Int /\ call.m \in Nat /\ call.y \in Int /\ call.n \in Nat
  BY DEF TypeOK, CallOK, PrefixWritten, Addr, Size
<1>2. Digit(mem, call.x, call.m, j) = Digit(call.mem, call.x, call.m, j)
  BY <1>1, DigitIntact DEF CallOK
<1>3. Digit(mem, call.y, call.n, j) = Digit(call.mem, call.y, call.n, j)
  BY <1>1, DigitIntact DEF CallOK
<1> QED BY <1>2, <1>3

\* The borrow equation, for a borrow c out of the first k words of z.
Difference(c, k) ==
  BignumFromMemory(mem, call.z, k) + Prefix(call.mem, call.y, call.n, k)
    = Prefix(call.mem, call.x, call.m, k) + c * Pow[k]

\* Subtracting from the partial difference the digits of the sources at index i.
LEMMA DifferenceStep ==
  ASSUME TypeOK, CallOK, PrefixWritten, i < call.p, Difference(1 - cf, i),
         NEW s, NEW t, SubWords(s, t),
         s = Digit(mem, call.x, call.m, i),
         t = Digit(mem, call.y, call.n, i)
  PROVE  /\ mem' \in Memory /\ cf' \in {0, 1} /\ i' = i + 1 /\ call' = call /\ a' = a
         /\ PrefixWritten' /\ CallOK'
         /\ Difference(1 - cf, i)'
<1>1. i \in Nat /\ call.mem \in Memory /\ call.x \in Int /\ call.y \in Int
      /\ call.m \in Nat /\ call.n \in Nat /\ call.p \in Nat
  BY DEF TypeOK, CallOK, Addr, Size
<1>2. s = Digit(call.mem, call.x, call.m, i) /\ t = Digit(call.mem, call.y, call.n, i)
  BY <1>1, ReadsIntact
<1> DEFINE X(k) == Prefix(call.mem, call.x, call.m, k)
           Y(k) == Prefix(call.mem, call.y, call.n, k)
<1>3. X(i + 1) = X(i) + Pow[i] * s /\ X(i) \in Nat /\ s \in Word
  <2>1. InMemory(call.x, call.m)
    BY DEF CallOK
  <2>2. /\ Prefix(call.mem, call.x, call.m, i + 1)
           = Prefix(call.mem, call.x, call.m, i) + Pow[i] * Digit(call.mem, call.x, call.m, i)
        /\ Prefix(call.mem, call.x, call.m, i) \in Nat
        /\ Digit(call.mem, call.x, call.m, i) \in Word
    BY <1>1, <2>1, PrefixStep
  <2> QED BY <1>2, <2>2
<1>4. Y(i + 1) = Y(i) + Pow[i] * t /\ Y(i) \in Nat /\ t \in Word
  <2>1. InMemory(call.y, call.n)
    BY DEF CallOK
  <2>2. /\ Prefix(call.mem, call.y, call.n, i + 1)
           = Prefix(call.mem, call.y, call.n, i) + Pow[i] * Digit(call.mem, call.y, call.n, i)
        /\ Prefix(call.mem, call.y, call.n, i) \in Nat
        /\ Digit(call.mem, call.y, call.n, i) \in Word
    BY <1>1, <2>1, PrefixStep
  <2> QED BY <1>2, <2>2
<1> DEFINE Z == BignumFromMemory(mem, call.z, i)
           W == BignumFromMemory(mem', call.z, i + 1)
           e == (1 - cf) * Pow[i]
           f == (1 - cf') * Pow[i + 1]
<1>5. /\ mem' \in Memory /\ cf' \in {0, 1} /\ i' = i + 1 /\ call' = call /\ a' = a
      /\ MayChange(call.mem, mem', Block(call.z, i + 1))
  BY <1>3, <1>4, SubWordsStep
<1>6. /\ Z \in Nat /\ W \in Nat /\ e \in Nat /\ f \in Nat
      /\ Pow[i] * s \in Nat /\ Pow[i] * t \in Nat
      /\ W - f = Z - e + Pow[i] * s - Pow[i] * t
  BY <1>3, <1>4, SubWordsStep
<1>7. PrefixWritten' /\ CallOK'
  BY <1>5 DEF PrefixWritten, CallOK
<1>8. Z + Y(i) = X(i) + e
  BY DEF Difference
<1> HIDE DEF X, Y, Z, W, e, f
<1>9. W + Y(i + 1) = X(i + 1) + f
  BY <1>3, <1>4, <1>6, <1>8
<1>10. Difference(1 - cf, i)'
  BY <1>5, <1>9 DEF Difference, X, Y, W, f
<1> QED BY <1>5, <1>7, <1>10

LEMMA SizeFacts ==
  ASSUME IInv
  PROVE  /\ call.p \in Nat /\ call.m \in Nat /\ call.n \in Nat
         /\ p \in Nat /\ m \in Nat /\ n \in Nat /\ i \in Nat
BY DEF IInv, CallOK, TypeOK, Size

\* Before the first word the operands and the result are empty.
LEMMA EmptyDifference ==
  ASSUME IInv
  PROVE  Difference(0, 0)
<1>1. \A mm, k : BignumFromMemory(mm, k, 0) = 0
  BY ValueUnfold
<1>2. Lesser(0, call.m) = 0 /\ Lesser(0, call.n) = 0
  BY SizeFacts DEF Lesser
<1>3. Pow[0] = 1
  BY PowStep
<1> QED BY <1>1, <1>2, <1>3 DEF Difference, Prefix

LEMMA StepIInv == IInv /\ [Next]_vars => IInv'
<1> SUFFICES ASSUME IInv, [Next]_vars PROVE IInv'
  OBVIOUS
<1> CASE XLonger
  <2>1. pc = "entry" /\ i' = 0 /\ cf' = 1 /\ UNCHANGED <<mem, a, call>>
    BY DEF XLonger
  <2>2. TypeOK'
    BY <2>1, SizeFacts DEF IInv, TypeOK, Counters, XLonger, TopSkip, XMainSkip, Labels, Lesser
  <2>3. Counters'
    BY <2>1, SizeFacts, SMTT(60) DEF IInv, Counters, XLonger, TopSkip, XMainSkip, m0, n0, Lesser
  <2>4. CallOK' /\ PrefixWritten'
    BY <2>1 DEF IInv, CallOK, PrefixWritten, Counters
  <2>5. PartialDifference'
    BY <2>1, EmptyDifference DEF XLonger, TopSkip, XMainSkip, PartialDifference, Borrow, Difference
  <2> QED BY <2>2, <2>3, <2>4, <2>5 DEF IInv
<1> CASE YLonger
  <2>1. pc = "entry" /\ i' = 0 /\ cf' = 1 /\ UNCHANGED <<mem, a, call>>
    BY DEF YLonger
  <2>2. TypeOK'
    BY <2>1, SizeFacts DEF IInv, TypeOK, Counters, YLonger, TopSkip, XMainSkip, Labels, Lesser
  <2>3. Counters'
    BY <2>1, SizeFacts, SMTT(60) DEF IInv, Counters, YLonger, TopSkip, XMainSkip, m0, n0, Lesser
  <2>4. CallOK' /\ PrefixWritten'
    BY <2>1 DEF IInv, CallOK, PrefixWritten, Counters
  <2>5. PartialDifference'
    BY <2>1, EmptyDifference DEF YLonger, TopSkip, XMainSkip, PartialDifference, Borrow, Difference
  <2> QED BY <2>2, <2>3, <2>4, <2>5 DEF IInv
<1> CASE XMainLoop
  <2>1. pc = "xmainloop" /\ i < call.p /\ call' = call
    <3>1. pc = "xmainloop" /\ call' = call
      BY DEF XMainLoop, SubWords
    <3>2. i < call.p
      BY <3>1, SizeFacts, SMTT(60) DEF IInv, Counters, m0, n0, Lesser
    <3> QED BY <3>1, <3>2
  <2> DEFINE s == mem[call.x + i]
             t == mem[call.y + i]
  <2>2. SubWords(s, t)
    BY DEF XMainLoop
  <2>3. s = Digit(mem, call.x, call.m, i) /\ t = Digit(mem, call.y, call.n, i)
    BY <2>1, SizeFacts DEF IInv, Counters, m0, n0, Lesser, Digit, TypeOK
  <2>4. Difference(1 - cf, i)
    BY <2>1 DEF IInv, PartialDifference, Borrow, Difference
  <2> HIDE DEF s, t
  <2>5. /\ mem' \in Memory /\ cf' \in {0, 1} /\ i' = i + 1
        /\ PrefixWritten' /\ CallOK' /\ a' = a
        /\ Difference(1 - cf, i)'
    BY <2>1, <2>2, <2>3, <2>4, DifferenceStep DEF IInv
  <2>6. TypeOK'
    BY <2>1, <2>5, SizeFacts DEF IInv, TypeOK, Counters, XMainLoop, TopSkip, XMainSkip, Labels
  <2>7. Counters'
    BY <2>1, <2>5, SizeFacts DEF IInv, TypeOK, Counters, XMainLoop, TopSkip, XMainSkip, m0, n0, Lesser
  <2>8. PartialDifference'
    BY <2>1, <2>5 DEF PartialDifference, Borrow, Difference, XMainLoop, TopSkip, XMainSkip
  <2> QED BY <2>5, <2>6, <2>7, <2>8 DEF IInv
<1> CASE XTopLoop
  <2>1. pc = "xtoploop" /\ i < call.p /\ call' = call
    <3>1. pc = "xtoploop" /\ call' = call
      BY DEF XTopLoop, SubWords
    <3>2. i < call.p
      BY <3>1, SizeFacts, SMTT(60) DEF IInv, Counters, m0, n0, Lesser
    <3> QED BY <3>1, <3>2
  <2> DEFINE s == mem[call.x + i]
             t == 0
  <2>2. SubWords(s, t)
    BY DEF XTopLoop
  <2>3. s = Digit(mem, call.x, call.m, i) /\ t = Digit(mem, call.y, call.n, i)
    BY <2>1, SizeFacts DEF IInv, Counters, m0, n0, Lesser, Digit, TypeOK
  <2>4. Difference(1 - cf, i)
    BY <2>1 DEF IInv, PartialDifference, Borrow, Difference
  <2> HIDE DEF s, t
  <2>5. /\ mem' \in Memory /\ cf' \in {0, 1} /\ i' = i + 1
        /\ PrefixWritten' /\ CallOK' /\ a' = a
        /\ Difference(1 - cf, i)'
    BY <2>1, <2>2, <2>3, <2>4, DifferenceStep DEF IInv
  <2>6. TypeOK'
    BY <2>1, <2>5, SizeFacts DEF IInv, TypeOK, Counters, XTopLoop, TopSkip, XMainSkip, Labels
  <2>7. Counters'
    BY <2>1, <2>5, SizeFacts DEF IInv, TypeOK, Counters, XTopLoop, TopSkip, XMainSkip, m0, n0, Lesser
  <2>8. PartialDifference'
    BY <2>1, <2>5 DEF PartialDifference, Borrow, Difference, XTopLoop, TopSkip, XMainSkip
  <2> QED BY <2>5, <2>6, <2>7, <2>8 DEF IInv
<1> CASE YMainLoop
  <2>1. pc = "ymainloop" /\ i < call.p /\ call' = call
    <3>1. pc = "ymainloop" /\ call' = call
      BY DEF YMainLoop, SubWords
    <3>2. i < call.p
      BY <3>1, SizeFacts, SMTT(60) DEF IInv, Counters, m0, n0, Lesser
    <3> QED BY <3>1, <3>2
  <2> DEFINE s == mem[call.x + i]
             t == mem[call.y + i]
  <2>2. SubWords(s, t)
    BY DEF YMainLoop
  <2>3. s = Digit(mem, call.x, call.m, i) /\ t = Digit(mem, call.y, call.n, i)
    BY <2>1, SizeFacts DEF IInv, Counters, m0, n0, Lesser, Digit, TypeOK
  <2>4. Difference(1 - cf, i)
    BY <2>1 DEF IInv, PartialDifference, Borrow, Difference
  <2> HIDE DEF s, t
  <2>5. /\ mem' \in Memory /\ cf' \in {0, 1} /\ i' = i + 1
        /\ PrefixWritten' /\ CallOK' /\ a' = a
        /\ Difference(1 - cf, i)'
    BY <2>1, <2>2, <2>3, <2>4, DifferenceStep DEF IInv
  <2>6. TypeOK'
    BY <2>1, <2>5, SizeFacts DEF IInv, TypeOK, Counters, YMainLoop, TopSkip, XMainSkip, Labels
  <2>7. Counters'
    BY <2>1, <2>5, SizeFacts DEF IInv, TypeOK, Counters, YMainLoop, TopSkip, XMainSkip, m0, n0, Lesser
  <2>8. PartialDifference'
    BY <2>1, <2>5 DEF PartialDifference, Borrow, Difference, YMainLoop, TopSkip, XMainSkip
  <2> QED BY <2>5, <2>6, <2>7, <2>8 DEF IInv
<1> CASE YTopLoop
  <2>1. pc = "ytoploop" /\ i < call.p /\ call' = call
    <3>1. pc = "ytoploop" /\ call' = call
      BY DEF YTopLoop, SubWords
    <3>2. i < call.p
      BY <3>1, SizeFacts, SMTT(60) DEF IInv, Counters, m0, n0, Lesser
    <3> QED BY <3>1, <3>2
  <2> DEFINE s == 0
             t == mem[call.y + i]
  <2>2. SubWords(s, t)
    BY DEF YTopLoop
  <2>3. s = Digit(mem, call.x, call.m, i) /\ t = Digit(mem, call.y, call.n, i)
    BY <2>1, SizeFacts DEF IInv, Counters, m0, n0, Lesser, Digit, TypeOK
  <2>4. Difference(1 - cf, i)
    BY <2>1 DEF IInv, PartialDifference, Borrow, Difference
  <2> HIDE DEF s, t
  <2>5. /\ mem' \in Memory /\ cf' \in {0, 1} /\ i' = i + 1
        /\ PrefixWritten' /\ CallOK' /\ a' = a
        /\ Difference(1 - cf, i)'
    BY <2>1, <2>2, <2>3, <2>4, DifferenceStep DEF IInv
  <2>6. TypeOK'
    BY <2>1, <2>5, SizeFacts DEF IInv, TypeOK, Counters, YTopLoop, TopSkip, XMainSkip, Labels
  <2>7. Counters'
    BY <2>1, <2>5, SizeFacts DEF IInv, TypeOK, Counters, YTopLoop, TopSkip, XMainSkip, m0, n0, Lesser
  <2>8. PartialDifference'
    BY <2>1, <2>5 DEF PartialDifference, Borrow, Difference, YTopLoop, TopSkip, XMainSkip
  <2> QED BY <2>5, <2>6, <2>7, <2>8 DEF IInv
<1> CASE Return
  <2>1. TypeOK' /\ Counters'
    BY SizeFacts DEF IInv, TypeOK, Counters, Return, Labels
  <2>2. CallOK' /\ PrefixWritten'
    BY DEF IInv, CallOK, PrefixWritten, Return
  <2>3. PartialDifference'
    BY DEF IInv, PartialDifference, Borrow, Return
  <2> QED BY <2>1, <2>2, <2>3 DEF IInv
<1> CASE Tails
  <2>1. a' \in {0, B - 1} /\ a' \in Word
    BY BaseAssumption DEF Tails, Word
  <2>2. TypeOK' /\ Counters'
    BY <2>1, SizeFacts DEF IInv, TypeOK, Counters, Tails, Labels
  <2>3. CallOK' /\ PrefixWritten'
    BY DEF IInv, CallOK, PrefixWritten, Tails
  <2>4. Borrow' = Borrow
    BY BaseAssumption DEF IInv, TypeOK, Tails, Borrow
  <2>5. PartialDifference'
    BY <2>4 DEF IInv, PartialDifference, Tails
  <2> QED BY <2>2, <2>3, <2>5 DEF IInv
<1> CASE TailLoop
  <2> DEFINE v == IF a = 0 THEN 0 ELSE -1
  <2>1. /\ mem' = [mem EXCEPT ![call.z + i] = a] /\ i' = i + 1 /\ call' = call /\ a' = a
        /\ i \in Nat /\ i < call.p /\ call.m <= i /\ call.n <= i
        /\ a \in {0, B - 1} /\ pc = "tailloop" /\ cf' = 1
    BY SizeFacts DEF TailLoop, IInv, Counters, TypeOK
  <2>2. /\ mem \in Memory /\ call.z \in Int /\ Block(call.z, i + 1) \subseteq Addr
        /\ MayChange(call.mem, mem, Block(call.z, i)) /\ call.p \in Nat
    <3>1. Block(call.z, call.p) \subseteq Addr /\ call.z \in Int
      BY DEF IInv, CallOK, InMemory, Addr
    <3>2. Block(call.z, i + 1) \subseteq Addr
      BY <2>1, <3>1, SizeFacts DEF Block
    <3> QED BY <3>1, <3>2, SizeFacts DEF IInv, TypeOK, PrefixWritten
  <2>3. v \in Int /\ v % B = a /\ v \div B = v
    BY <2>1, BaseAssumption
  <2>4. Borrow = -v /\ Borrow' = -v
    BY <2>1, SizeFacts, BaseAssumption DEF Borrow, TailLoop
  <2>5. BignumFromMemory(mem, call.z, i) + Prefix(call.mem, call.y, call.n, i)
        = Prefix(call.mem, call.x, call.m, i) + (-v) * Pow[i]
    BY <2>1, <2>4 DEF IInv, PartialDifference
  <2> HIDE DEF v
  <2>6. ChainStep(call.mem, mem, mem', call.z, i, v)
    BY <2>1, <2>2, <2>3, ChainStepHolds
  <2>7. /\ Prefix(call.mem, call.x, call.m, i + 1) = Prefix(call.mem, call.x, call.m, i)
        /\ Prefix(call.mem, call.y, call.n, i + 1) = Prefix(call.mem, call.y, call.n, i)
    <3>1. Lesser(i + 1, call.m) = Lesser(i, call.m) /\ Lesser(i + 1, call.n) = Lesser(i, call.n)
      BY <2>1, SizeFacts DEF Lesser
    <3> QED BY <3>1 DEF Prefix
  <2>8. TypeOK' /\ Counters'
    <3>1. p # 1 => p' = p - 1 /\ pc' = "tailloop"
      BY DEF TailLoop
    <3>2. p = 1 => p' \in {0, 1} /\ pc' = "done"
      <4>1. (B - a) % B \in {0, 1}
        BY <2>1, BaseAssumption
      <4> QED BY <4>1 DEF TailLoop
    <3>3. m' = m /\ n' = n /\ mem' \in Memory
      BY <2>6 DEF TailLoop, ChainStep
    <3>4. p > 0 /\ i + p = call.p
      BY <2>1 DEF IInv, Counters
    <3>5. TypeOK'
      BY <2>1, <3>1, <3>2, <3>3, <3>4, SizeFacts DEF IInv, TypeOK, Labels
    <3>6. Counters'
      BY <2>1, <3>1, <3>2, <3>3, <3>4, SizeFacts DEF Counters
    <3> QED BY <3>5, <3>6
  <2>9. CallOK' /\ PrefixWritten'
    BY <2>1, <2>6 DEF IInv, CallOK, PrefixWritten, ChainStep
  <2>10. PartialDifference'
    <3> DEFINE X == Prefix(call.mem, call.x, call.m, i)
               Y == Prefix(call.mem, call.y, call.n, i)
               Z == BignumFromMemory(mem, call.z, i)
               W == BignumFromMemory(mem', call.z, i + 1)
               P == Pow[i]
               R == Pow[i + 1]
    <3>1. X \in Nat /\ Y \in Nat /\ P \in Nat /\ R \in Nat
      <4>1. call.mem \in Memory /\ call.x \in Int /\ call.y \in Int
            /\ InMemory(call.x, call.m) /\ InMemory(call.y, call.n)
        BY DEF IInv, CallOK, Addr
      <4>2. P \in Nat /\ R \in Nat
        BY <2>1, PowType
      <4>3. X \in Nat
        BY <2>1, <4>1, SizeFacts, PrefixStep
      <4>4. Y \in Nat
        BY <2>1, <4>1, SizeFacts, PrefixStep
      <4> QED BY <4>2, <4>3, <4>4
    <3>2. W \in Nat /\ Z \in Nat /\ W + v * R = Z + P * v
      BY <2>3, <2>6 DEF ChainStep
    <3>3. Z + Y = X + (-v) * P
      BY <2>5
    <3> HIDE DEF X, Y, Z, W, P, R
    <3>4. W + Y = X + (-v) * R
      BY <2>3, <3>1, <3>2, <3>3
    <3> QED BY <2>1, <2>4, <2>7, <3>4 DEF PartialDifference, X, Y, W, R
  <2> QED BY <2>8, <2>9, <2>10 DEF IInv
<1> CASE UNCHANGED vars
  BY DEF vars, IInv, TypeOK, CallOK, Counters, m0, n0, PrefixWritten, PartialDifference, Borrow
<1> QED BY DEF Next, Done

\* The invariant of the routine: at every label the counters, the frame and the
\* partial difference are as the loop structure of bignum_sub.S has them.
THEOREM Invariance == Spec => []IInv
  BY InitIInv, StepIInv, PTL DEF Spec

\* At every step the registers, the flag and the memory have their types.
THEOREM TypeCorrect == Spec => []TypeOK
<1>1. IInv => TypeOK
  BY DEF IInv
<1> QED BY Invariance, <1>1, PTL

\* The words written and the borrow are always the difference of the words read.
THEOREM DifferenceCorrect == Spec => []PartialDifference
<1>1. IInv => PartialDifference
  BY DEF IInv
<1> QED BY Invariance, <1>1, PTL

\* In place or not, no digit of an operand is overwritten before it is read.
THEOREM SourcesStayIntact == Spec => []SourcesIntact
<1>1. IInv => SourcesIntact
  <2> SUFFICES ASSUME IInv, pc \in {"xmainloop", "xtoploop", "ymainloop", "ytoploop"},
                      NEW j \in i..(call.p - 1)
               PROVE  /\ Digit(mem, call.x, call.m, j) = Digit(call.mem, call.x, call.m, j)
                      /\ Digit(mem, call.y, call.n, j) = Digit(call.mem, call.y, call.n, j)
    BY DEF SourcesIntact
  <2>1. j \in Nat /\ i <= j /\ i <= call.p
    BY SizeFacts
  <2> QED BY <2>1, ReadsIntact DEF IInv
<1> QED BY Invariance, <1>1, PTL

LEMMA PostHolds ==
  ASSUME IInv, pc = "done"
  PROVE  SubPost(call, mem, p)
<1> DEFINE P == Pow[call.p]
           zv == BignumFromMemory(mem, call.z, call.p)
           xv == BignumFromMemory(call.mem, call.x, call.m)
           yv == BignumFromMemory(call.mem, call.y, call.n)
           xl == Prefix(call.mem, call.x, call.m, call.p)
           yl == Prefix(call.mem, call.y, call.n, call.p)
<1>1. /\ call.mem \in Memory /\ mem \in Memory /\ call.z \in Int /\ call.x \in Int
      /\ call.y \in Int /\ InMemory(call.x, call.m) /\ InMemory(call.y, call.n)
      /\ Block(call.z, call.p) \subseteq Addr
  BY DEF IInv, TypeOK, CallOK, InMemory, Addr
<1>2. P \in Nat \ {0} /\ zv \in 0..(P - 1) /\ p \in Nat
  BY <1>1, SizeFacts, PowType, ValueType
<1>3. zv + yl = xl + p * P
  BY SizeFacts DEF IInv, PartialDifference, Borrow, Counters
<1>4. PICK q \in Nat : xv = P * q + xl /\ LowDigits(xv, call.p) = xl /\ xl \in Nat
  BY <1>1, SizeFacts, PrefixSplit
<1>5. PICK r \in Nat : yv = P * r + yl /\ LowDigits(yv, call.p) = yl /\ yl \in Nat
  BY <1>1, SizeFacts, PrefixSplit
<1> HIDE DEF P, zv, xv, yv, xl, yl
<1>6. xv - yv = P * (q - r - p) + zv /\ q - r - p \in Int
  BY <1>2, <1>3, <1>4, <1>5
<1>7. (xv - yv) % P = zv
  BY <1>2, <1>6, DivModUnique
<1>8. P * p + xl = zv + yl
  BY <1>2, <1>3, <1>4, <1>5
<1> QED BY <1>4, <1>5, <1>7, <1>8 DEF SubPost, P, zv, xv, yv

Correct ==
  /\ MayChange(call.mem, mem, SubFrame(call))
  /\ pc = "done" => SubPost(call, mem, p)

\* Nothing outside z changes, and at the return the postcondition of
\* BIGNUM_SUB_SUBROUTINE_CORRECT holds.
THEOREM Correctness == Spec => []Correct
<1>1. IInv => Correct
  <2> SUFFICES ASSUME IInv PROVE MayChange(call.mem, mem, SubFrame(call))
    BY PostHolds DEF Correct
  <2>1. i <= call.p
    BY SizeFacts DEF IInv, Counters, TypeOK, Labels, m0, n0, Lesser
  <2>2. Block(call.z, i) \subseteq Block(call.z, call.p)
    BY <2>1, SizeFacts DEF Block, IInv, CallOK, Addr
  <2> QED BY <2>2 DEF IInv, PrefixWritten, MayChange, SubFrame
<1> QED BY Invariance, <1>1, PTL

\* The routine implements its contract: every step stays inside the frame and
\* the step that returns establishes the postcondition.
THEOREM ContractHolds == Spec => Implements
<1>1. Init => Contract!Init
  BY DEF Init, Contract!Init
<1>2. Correct' /\ [Next]_vars => [Contract!Next]_(Contract!vars)
  <2> SUFFICES ASSUME Correct', [Next]_vars, ~ UNCHANGED vars
               PROVE  Contract!Next
    BY DEF vars, Contract!vars
  <2>1. pc # "done" /\ call' = call
    BY DEF Next, XLonger, YLonger, XMainLoop, XTopLoop, YMainLoop, YTopLoop,
           SubWords, Return, Tails, TailLoop, Done
  <2>2. MayChange(call.mem, mem', SubFrame(call))
    BY <2>1 DEF Correct
  <2>3. CASE pc' = "done"
    BY <2>1, <2>2, <2>3
    DEF Correct, Contract!Next, Contract!Return, MayChange, Contract!MayChange, Contract!Addr, Addr
  <2>4. CASE pc' # "done"
    BY <2>1, <2>2, <2>4
    DEF Contract!Next, Contract!Run, MayChange, Contract!MayChange, Contract!Addr, Addr
  <2> QED BY <2>3, <2>4
<1>3. Implements <=> Contract!Init /\ [][Contract!Next]_(Contract!vars)
  BY DEF Implements, Contract!Spec
<1> QED BY <1>1, <1>2, <1>3, Correctness, PTL DEF Spec
=============================================================================
