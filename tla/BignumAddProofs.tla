-------------------------- MODULE BignumAddProofs ---------------------------
(***************************************************************************)
(* Proofs about BignumAdd for every word size, memory and argument sizes.  *)
(***************************************************************************)
EXTENDS BignumAdd, BignumAddConstantTime, BignumTheorems

m0 == Lesser(call.m, call.p)
n0 == Lesser(call.n, call.p)

CallOK ==
  /\ call.mem \in Memory
  /\ call.p \in Size /\ call.m \in Size /\ call.n \in Size
  /\ call.z \in Addr /\ call.x \in Addr /\ call.y \in Addr
  /\ InMemory(call.z, call.p)
  /\ InMemory(call.x, call.m)
  /\ InMemory(call.y, call.n)
  /\ SameOrDisjoint(call.x, call.m, call.z, call.p)
  /\ SameOrDisjoint(call.y, call.n, call.z, call.p)

\* How the counters divide the words of the result at each label.
Counters ==
  /\ pc = "entry" => p = call.p /\ m = call.m /\ n = call.n /\ i = 0
  /\ pc = "xmainloop" => /\ n0 <= m0 /\ n > 0 /\ i + n = n0
                         /\ m = m0 - n0 /\ p = call.p - m0
  /\ pc = "xtoploop" => /\ n0 < m0 /\ n0 = call.n /\ n0 <= i /\ m > 0 /\ i + m = m0
                        /\ p = call.p - m0
  /\ pc = "ymainloop" => /\ m0 < n0 /\ m > 0 /\ i + m = m0
                         /\ n = n0 - m0 /\ p = call.p - n0
  /\ pc = "ytoploop" => /\ m0 < n0 /\ m0 = call.m /\ m0 <= i /\ n > 0 /\ i + n = n0
                        /\ p = call.p - n0
  /\ pc = "return" => p = 0 /\ i = call.p
  /\ pc \in {"tails", "tailloop"} => /\ p > 0 /\ i + p = call.p
                                     /\ call.m <= i /\ call.n <= i
  /\ pc = "done" => i = call.p /\ p \in {0, 1}

\* Only the first i words of z have been written.
PrefixWritten == MayChange(call.mem, mem, Block(call.z, i))

IInv == TypeOK /\ CallOK /\ Counters /\ PrefixWritten /\ PartialSum

LEMMA InitIInv == Init => IInv
<1> SUFFICES ASSUME Init PROVE IInv
  OBVIOUS
<1>1. TypeOK
  BY SizeAssumption DEF Init, TypeOK, Labels, Size
<1>2. CallOK
  BY DEF Init, CallOK
<1>3. Counters
  BY DEF Init, Counters
<1>4. PrefixWritten
  BY DEF Init, PrefixWritten, MayChange
<1>5. PartialSum
  BY DEF Init, PartialSum
<1> QED BY <1>1, <1>2, <1>3, <1>4, <1>5 DEF IInv

LEMMA AddWordsStep ==
  ASSUME TypeOK, CallOK, PrefixWritten, i < call.p,
         NEW a \in Word, NEW d \in Word, AddWords(a, d)
  PROVE  /\ mem' \in Memory /\ cf' \in {0, 1} /\ i' = i + 1 /\ call' = call
         /\ MayChange(call.mem, mem', Block(call.z, i + 1))
         /\ BignumFromMemory(mem', call.z, i + 1) + cf' * Pow[i + 1]
            = BignumFromMemory(mem, call.z, i) + cf * Pow[i] + Pow[i] * a + Pow[i] * d
         /\ BignumFromMemory(mem', call.z, i + 1) \in Nat /\ cf' * Pow[i + 1] \in Nat
<1> DEFINE v == a + d + cf
<1>1. /\ mem \in Memory /\ i \in Nat /\ call.z \in Int
      /\ Block(call.z, i + 1) \subseteq Addr
      /\ MayChange(call.mem, mem, Block(call.z, i))
  BY DEF TypeOK, CallOK, Block, InMemory, Addr, Size, PrefixWritten
<1>2. v \in Nat /\ v \in Int /\ v \div B \in {0, 1}
  BY CarryBit DEF TypeOK
<1>3. /\ mem' = [mem EXCEPT ![call.z + i] = v % B] /\ cf' = v \div B
      /\ i' = i + 1 /\ call' = call
  BY DEF AddWords
<1> HIDE DEF v
<1>4. ChainStep(call.mem, mem, mem', call.z, i, v)
  BY <1>1, <1>2, <1>3, ChainStepHolds
<1>5. Pow[i] * v = cf * Pow[i] + Pow[i] * a + Pow[i] * d
  BY <1>4 DEF v, TypeOK, Word, ChainStep
<1>6. cf * Pow[i] \in Nat /\ Pow[i] * a \in Nat /\ Pow[i] * d \in Nat
  BY <1>4 DEF TypeOK, Word, ChainStep
<1>7. cf' * Pow[i + 1] \in Nat
  <2>1. Pow[i + 1] \in Nat
    BY <1>1, PowType
  <2> QED BY <1>2, <1>3, <2>1
<1> QED BY <1>2, <1>3, <1>4, <1>5, <1>6, <1>7 DEF ChainStep

LEMMA ReadsIntact ==
  ASSUME TypeOK, CallOK, PrefixWritten, i <= call.p, NEW j \in Nat, i <= j
  PROVE  /\ Digit(mem, call.x, call.m, j) = Digit(call.mem, call.x, call.m, j)
         /\ Digit(mem, call.y, call.n, j) = Digit(call.mem, call.y, call.n, j)
<1>1. /\ call.mem \in Memory /\ call.z \in Int /\ call.p \in Nat /\ i \in Nat
      /\ MayChange(call.mem, mem, Block(call.z, i))
      /\ call.x \in Int /\ call.m \in Nat /\ call.y \in Int /\ call.n \in Nat
  BY DEF TypeOK, CallOK, PrefixWritten, Addr, Size
<1>2. Digit(mem, call.x, call.m, j) = Digit(call.mem, call.x, call.m, j)
  BY <1>1, DigitIntact DEF CallOK
<1>3. Digit(mem, call.y, call.n, j) = Digit(call.mem, call.y, call.n, j)
  BY <1>1, DigitIntact DEF CallOK
<1> QED BY <1>2, <1>3

\* Adding to the partial sum the digits of the sources at index i.
LEMMA SumStep ==
  ASSUME TypeOK, CallOK, PrefixWritten, i < call.p,
         BignumFromMemory(mem, call.z, i) + cf * Pow[i] = Sum(i),
         NEW a, NEW d, AddWords(a, d),
         a = Digit(mem, call.x, call.m, i),
         d = Digit(mem, call.y, call.n, i)
  PROVE  /\ mem' \in Memory /\ cf' \in {0, 1} /\ i' = i + 1 /\ call' = call
         /\ PrefixWritten' /\ CallOK'
         /\ BignumFromMemory(mem', call'.z, i') + cf' * Pow[i'] = Sum(i)'
<1>1. i \in Nat /\ call.mem \in Memory /\ call.x \in Int /\ call.y \in Int
      /\ call.m \in Nat /\ call.n \in Nat /\ call.p \in Nat
  BY DEF TypeOK, CallOK, Addr, Size
<1>2. a = Digit(call.mem, call.x, call.m, i) /\ d = Digit(call.mem, call.y, call.n, i)
  BY <1>1, ReadsIntact
<1> DEFINE X(k) == Prefix(call.mem, call.x, call.m, k)
           Y(k) == Prefix(call.mem, call.y, call.n, k)
<1>3. X(i + 1) = X(i) + Pow[i] * a /\ X(i) \in Nat /\ a \in Word
  <2>1. InMemory(call.x, call.m)
    BY DEF CallOK
  <2>2. /\ Prefix(call.mem, call.x, call.m, i + 1)
           = Prefix(call.mem, call.x, call.m, i) + Pow[i] * Digit(call.mem, call.x, call.m, i)
        /\ Prefix(call.mem, call.x, call.m, i) \in Nat
        /\ Digit(call.mem, call.x, call.m, i) \in Word
    BY <1>1, <2>1, PrefixStep
  <2> QED BY <1>2, <2>2
<1>4. Y(i + 1) = Y(i) + Pow[i] * d /\ Y(i) \in Nat /\ d \in Word
  <2>1. InMemory(call.y, call.n)
    BY DEF CallOK
  <2>2. /\ Prefix(call.mem, call.y, call.n, i + 1)
           = Prefix(call.mem, call.y, call.n, i) + Pow[i] * Digit(call.mem, call.y, call.n, i)
        /\ Prefix(call.mem, call.y, call.n, i) \in Nat
        /\ Digit(call.mem, call.y, call.n, i) \in Word
    BY <1>1, <2>1, PrefixStep
  <2> QED BY <1>2, <2>2
<1>5. /\ mem' \in Memory /\ cf' \in {0, 1} /\ i' = i + 1 /\ call' = call
      /\ MayChange(call.mem, mem', Block(call.z, i + 1))
      /\ BignumFromMemory(mem', call.z, i + 1) + cf' * Pow[i + 1]
         = BignumFromMemory(mem, call.z, i) + cf * Pow[i] + Pow[i] * a + Pow[i] * d
  BY <1>3, <1>4, AddWordsStep
<1>6. PrefixWritten' /\ CallOK'
  BY <1>5 DEF PrefixWritten, CallOK
<1>7. Sum(i) = X(i) + Y(i) /\ Sum(i)' = X(i + 1) + Y(i + 1)
  BY <1>5 DEF Sum
<1>8. Pow[i] * a \in Nat /\ Pow[i] * d \in Nat
  BY <1>1, <1>3, <1>4, PowType DEF Word
<1> HIDE DEF X, Y
<1>9. Sum(i) + Pow[i] * a + Pow[i] * d = Sum(i)'
  BY <1>3, <1>4, <1>7, <1>8
<1> QED BY <1>5, <1>6, <1>9

LEMMA SizeFacts ==
  ASSUME IInv
  PROVE  /\ call.p \in Nat /\ call.m \in Nat /\ call.n \in Nat
         /\ p \in Nat /\ m \in Nat /\ n \in Nat /\ i \in Nat
BY DEF IInv, CallOK, TypeOK, Size

\* Before the first word the sum and the result are empty.
LEMMA EmptySum ==
  ASSUME IInv
  PROVE  /\ BignumFromMemory(mem, call.z, 0) + 0 * Pow[0] = Sum(0)
<1>1. \A mm, a : BignumFromMemory(mm, a, 0) = 0
  BY ValueUnfold
<1>2. Lesser(0, call.m) = 0 /\ Lesser(0, call.n) = 0
  BY SizeFacts DEF Lesser
<1>3. Pow[0] = 1
  BY PowStep
<1> QED BY <1>1, <1>2, <1>3 DEF Sum, Prefix

LEMMA StepIInv == IInv /\ [Next]_vars => IInv'
<1> SUFFICES ASSUME IInv, [Next]_vars PROVE IInv'
  OBVIOUS
<1> CASE XLonger
  <2>1. pc = "entry" /\ i' = 0 /\ cf' = 0 /\ UNCHANGED <<mem, call>>
    BY DEF XLonger
  <2>2. TypeOK'
    BY <2>1, SizeFacts DEF IInv, TypeOK, Counters, XLonger, TopSkip, XMainSkip, Labels, Lesser
  <2>3. Counters'
    BY <2>1, SizeFacts, SMTT(60) DEF IInv, Counters, XLonger, TopSkip, XMainSkip, m0, n0, Lesser
  <2>4. CallOK' /\ PrefixWritten'
    BY <2>1 DEF IInv, CallOK, PrefixWritten, Counters
  <2>5. PartialSum'
    BY <2>1, EmptySum DEF XLonger, TopSkip, XMainSkip, IInv, PartialSum, Carried, Sum
  <2> QED BY <2>2, <2>3, <2>4, <2>5 DEF IInv
<1> CASE YLonger
  <2>1. pc = "entry" /\ i' = 0 /\ cf' = 0 /\ UNCHANGED <<mem, call>>
    BY DEF YLonger
  <2>2. TypeOK'
    BY <2>1, SizeFacts DEF IInv, TypeOK, Counters, YLonger, TopSkip, XMainSkip, Labels, Lesser
  <2>3. Counters'
    BY <2>1, SizeFacts, SMTT(60) DEF IInv, Counters, YLonger, TopSkip, XMainSkip, m0, n0, Lesser
  <2>4. CallOK' /\ PrefixWritten'
    BY <2>1 DEF IInv, CallOK, PrefixWritten, Counters
  <2>5. PartialSum'
    BY <2>1, EmptySum DEF YLonger, TopSkip, XMainSkip, IInv, PartialSum, Carried, Sum
  <2> QED BY <2>2, <2>3, <2>4, <2>5 DEF IInv
<1> CASE XMainLoop
  <2>1. pc = "xmainloop" /\ i < call.p /\ call' = call
    <3>1. pc = "xmainloop" /\ call' = call
      BY DEF XMainLoop, AddWords
    <3>2. i < call.p
      BY <3>1, SizeFacts, SMTT(60) DEF IInv, Counters, m0, n0, Lesser
    <3> QED BY <3>1, <3>2
  <2> DEFINE a == mem[call.x + i]
             d == mem[call.y + i]
  <2>2. AddWords(a, d)
    BY DEF XMainLoop
  <2>3. a = Digit(mem, call.x, call.m, i) /\ d = Digit(mem, call.y, call.n, i)
    BY <2>1, SizeFacts DEF IInv, Counters, m0, n0, Lesser, Digit, TypeOK
  <2>4. BignumFromMemory(mem, call.z, i) + cf * Pow[i] = Sum(i)
    BY <2>1 DEF IInv, PartialSum, Carried
  <2> HIDE DEF a, d
  <2>5. /\ mem' \in Memory /\ cf' \in {0, 1} /\ i' = i + 1
        /\ PrefixWritten' /\ CallOK'
        /\ BignumFromMemory(mem', call'.z, i') + cf' * Pow[i'] = Sum(i)'
    BY <2>1, <2>2, <2>3, <2>4, SumStep DEF IInv
  <2>6. TypeOK'
    BY <2>1, <2>5, SizeFacts DEF IInv, TypeOK, Counters, XMainLoop, TopSkip, XMainSkip, Labels
  <2>7. Counters'
    BY <2>1, <2>5, SizeFacts DEF IInv, TypeOK, Counters, XMainLoop, TopSkip, XMainSkip, m0, n0, Lesser
  <2>8. PartialSum'
    BY <2>1, <2>5 DEF PartialSum, Carried, XMainLoop, TopSkip, XMainSkip
  <2> QED BY <2>5, <2>6, <2>7, <2>8 DEF IInv
<1> CASE XTopLoop
  <2>1. pc = "xtoploop" /\ i < call.p /\ call' = call
    <3>1. pc = "xtoploop" /\ call' = call
      BY DEF XTopLoop, AddWords
    <3>2. i < call.p
      BY <3>1, SizeFacts, SMTT(60) DEF IInv, Counters, m0, n0, Lesser
    <3> QED BY <3>1, <3>2
  <2> DEFINE a == mem[call.x + i]
             d == 0
  <2>2. AddWords(a, d)
    BY DEF XTopLoop
  <2>3. a = Digit(mem, call.x, call.m, i) /\ d = Digit(mem, call.y, call.n, i)
    BY <2>1, SizeFacts DEF IInv, Counters, m0, n0, Lesser, Digit, TypeOK
  <2>4. BignumFromMemory(mem, call.z, i) + cf * Pow[i] = Sum(i)
    BY <2>1 DEF IInv, PartialSum, Carried
  <2> HIDE DEF a, d
  <2>5. /\ mem' \in Memory /\ cf' \in {0, 1} /\ i' = i + 1
        /\ PrefixWritten' /\ CallOK'
        /\ BignumFromMemory(mem', call'.z, i') + cf' * Pow[i'] = Sum(i)'
    BY <2>1, <2>2, <2>3, <2>4, SumStep DEF IInv
  <2>6. TypeOK'
    BY <2>1, <2>5, SizeFacts DEF IInv, TypeOK, Counters, XTopLoop, TopSkip, XMainSkip, Labels
  <2>7. Counters'
    BY <2>1, <2>5, SizeFacts DEF IInv, TypeOK, Counters, XTopLoop, TopSkip, XMainSkip, m0, n0, Lesser
  <2>8. PartialSum'
    BY <2>1, <2>5 DEF PartialSum, Carried, XTopLoop, TopSkip, XMainSkip
  <2> QED BY <2>5, <2>6, <2>7, <2>8 DEF IInv
<1> CASE YMainLoop
  <2>1. pc = "ymainloop" /\ i < call.p /\ call' = call
    <3>1. pc = "ymainloop" /\ call' = call
      BY DEF YMainLoop, AddWords
    <3>2. i < call.p
      BY <3>1, SizeFacts, SMTT(60) DEF IInv, Counters, m0, n0, Lesser
    <3> QED BY <3>1, <3>2
  <2> DEFINE a == mem[call.x + i]
             d == mem[call.y + i]
  <2>2. AddWords(a, d)
    BY DEF YMainLoop
  <2>3. a = Digit(mem, call.x, call.m, i) /\ d = Digit(mem, call.y, call.n, i)
    BY <2>1, SizeFacts DEF IInv, Counters, m0, n0, Lesser, Digit, TypeOK
  <2>4. BignumFromMemory(mem, call.z, i) + cf * Pow[i] = Sum(i)
    BY <2>1 DEF IInv, PartialSum, Carried
  <2> HIDE DEF a, d
  <2>5. /\ mem' \in Memory /\ cf' \in {0, 1} /\ i' = i + 1
        /\ PrefixWritten' /\ CallOK'
        /\ BignumFromMemory(mem', call'.z, i') + cf' * Pow[i'] = Sum(i)'
    BY <2>1, <2>2, <2>3, <2>4, SumStep DEF IInv
  <2>6. TypeOK'
    BY <2>1, <2>5, SizeFacts DEF IInv, TypeOK, Counters, YMainLoop, TopSkip, XMainSkip, Labels
  <2>7. Counters'
    BY <2>1, <2>5, SizeFacts DEF IInv, TypeOK, Counters, YMainLoop, TopSkip, XMainSkip, m0, n0, Lesser
  <2>8. PartialSum'
    BY <2>1, <2>5 DEF PartialSum, Carried, YMainLoop, TopSkip, XMainSkip
  <2> QED BY <2>5, <2>6, <2>7, <2>8 DEF IInv
<1> CASE YTopLoop
  <2>1. pc = "ytoploop" /\ i < call.p /\ call' = call
    <3>1. pc = "ytoploop" /\ call' = call
      BY DEF YTopLoop, AddWords
    <3>2. i < call.p
      BY <3>1, SizeFacts, SMTT(60) DEF IInv, Counters, m0, n0, Lesser
    <3> QED BY <3>1, <3>2
  <2> DEFINE a == 0
             d == mem[call.y + i]
  <2>2. AddWords(a, d)
    BY DEF YTopLoop
  <2>3. a = Digit(mem, call.x, call.m, i) /\ d = Digit(mem, call.y, call.n, i)
    BY <2>1, SizeFacts DEF IInv, Counters, m0, n0, Lesser, Digit, TypeOK
  <2>4. BignumFromMemory(mem, call.z, i) + cf * Pow[i] = Sum(i)
    BY <2>1 DEF IInv, PartialSum, Carried
  <2> HIDE DEF a, d
  <2>5. /\ mem' \in Memory /\ cf' \in {0, 1} /\ i' = i + 1
        /\ PrefixWritten' /\ CallOK'
        /\ BignumFromMemory(mem', call'.z, i') + cf' * Pow[i'] = Sum(i)'
    BY <2>1, <2>2, <2>3, <2>4, SumStep DEF IInv
  <2>6. TypeOK'
    BY <2>1, <2>5, SizeFacts DEF IInv, TypeOK, Counters, YTopLoop, TopSkip, XMainSkip, Labels
  <2>7. Counters'
    BY <2>1, <2>5, SizeFacts DEF IInv, TypeOK, Counters, YTopLoop, TopSkip, XMainSkip, m0, n0, Lesser
  <2>8. PartialSum'
    BY <2>1, <2>5 DEF PartialSum, Carried, YTopLoop, TopSkip, XMainSkip
  <2> QED BY <2>5, <2>6, <2>7, <2>8 DEF IInv
<1> CASE Return
  <2>1. TypeOK' /\ Counters'
    BY SizeFacts DEF IInv, TypeOK, Counters, Return, Labels
  <2>2. CallOK' /\ PrefixWritten'
    BY DEF IInv, CallOK, PrefixWritten, Return
  <2>3. PartialSum'
    BY DEF IInv, PartialSum, Carried, Sum, Return
  <2> QED BY <2>1, <2>2, <2>3 DEF IInv
<1> CASE Tails
  <2> DEFINE v == IF pc = "tails" THEN cf ELSE 0
  <2>1. /\ mem' = [mem EXCEPT ![call.z + i] = v] /\ i' = i + 1 /\ call' = call
        /\ i \in Nat /\ i < call.p /\ call.m <= i /\ call.n <= i
        /\ v \in {0, 1} /\ pc \in {"tails", "tailloop"}
    <3>1. /\ pc \in {"tails", "tailloop"} /\ i' = i + 1 /\ call' = call
          /\ mem' = [mem EXCEPT ![call.z + i] = v]
      BY DEF Tails
    <3>2. i \in Nat /\ i < call.p /\ call.m <= i /\ call.n <= i
      BY <3>1, SizeFacts DEF IInv, Counters
    <3>3. v \in {0, 1}
      BY DEF IInv, TypeOK
    <3> QED BY <3>1, <3>2, <3>3
  <2>2. /\ mem \in Memory /\ call.z \in Int /\ Block(call.z, i + 1) \subseteq Addr
        /\ MayChange(call.mem, mem, Block(call.z, i)) /\ call.p \in Nat
    BY <2>1, SizeFacts DEF IInv, TypeOK, CallOK, Block, InMemory, Addr, PrefixWritten
  <2>3. v \in Nat /\ v \in Int /\ v % B = v /\ v \div B = 0
    BY <2>1, BaseAssumption
  <2>4. BignumFromMemory(mem, call.z, i) + v * Pow[i] = Sum(i)
    BY <2>1 DEF IInv, PartialSum, Carried
  <2> HIDE DEF v
  <2>5. ChainStep(call.mem, mem, mem', call.z, i, v)
    BY <2>1, <2>2, <2>3, ChainStepHolds
  <2>6. Sum(i)' = Sum(i)
    <3>1. Lesser(i + 1, call.m) = Lesser(i, call.m) /\ Lesser(i + 1, call.n) = Lesser(i, call.n)
      BY <2>1, SizeFacts DEF Lesser
    <3> QED BY <2>1, <3>1 DEF Sum, Prefix
  <2>7. BignumFromMemory(mem', call.z, i + 1) = Sum(i)'
    <3>1. Pow[i] \in Nat /\ Pow[i + 1] \in Nat
      BY <2>1, PowType
    <3> QED BY <2>3, <2>4, <2>5, <2>6, <3>1 DEF ChainStep
  <2>8. TypeOK' /\ Counters'
    BY <2>1, <2>5, SizeFacts DEF IInv, TypeOK, Counters, Tails, Labels, ChainStep
  <2>9. CallOK' /\ PrefixWritten'
    BY <2>1, <2>5 DEF IInv, CallOK, PrefixWritten, ChainStep
  <2>10. PartialSum'
    <3>1. Carried' = 0
      BY <2>1, SizeFacts DEF Carried, Tails, IInv, Counters
    <3>2. 0 * Pow[i + 1] = 0 /\ BignumFromMemory(mem', call.z, i + 1) \in Nat
      BY <2>1, <2>5, PowType DEF ChainStep
    <3> QED BY <2>1, <2>7, <3>1, <3>2 DEF PartialSum
  <2> QED BY <2>8, <2>9, <2>10 DEF IInv
<1> CASE UNCHANGED vars
  BY DEF vars, IInv, TypeOK, CallOK, Counters, m0, n0, PrefixWritten, PartialSum, Carried, Sum
<1> QED BY DEF Next, Done

\* The invariant of the routine: at every label the counters, the frame and the
\* partial sum are as the loop structure of bignum_add.S has them.
THEOREM Invariance == Spec => []IInv
  BY InitIInv, StepIInv, PTL DEF Spec

\* At every step the registers, the flag and the memory have their types.
THEOREM TypeCorrect == Spec => []TypeOK
<1>1. IInv => TypeOK
  BY DEF IInv
<1> QED BY Invariance, <1>1, PTL

\* The words written and the carry are always the sum of the words read.
THEOREM SumCorrect == Spec => []PartialSum
<1>1. IInv => PartialSum
  BY DEF IInv
<1> QED BY Invariance, <1>1, PTL

\* In place or not, no digit of an operand is overwritten before it is read.
THEOREM SourcesStayIntact == Spec => []SourcesIntact
<1>1. IInv => SourcesIntact
  <2> SUFFICES ASSUME IInv, pc \in {"xmainloop", "xtoploop", "ymainloop", "ytoploop"},
                      NEW j \in i..(call.p - 1)
               PROVE  /\ Digit(mem, call.x, call.m, j) = Digit(call.mem, call.x, call.m, j)
                      /\ Digit(mem, call.y, call.n, j) = Digit(call.mem, call.y, call.n, j)
    BY DEF SourcesIntact
  <2>1. j \in Nat /\ i <= j /\ i <= call.p
    BY SizeFacts
  <2> QED BY <2>1, ReadsIntact DEF IInv
<1> QED BY Invariance, <1>1, PTL

LEMMA PostHolds ==
  ASSUME IInv, pc = "done"
  PROVE  AddPost(call, mem, p)
<1> DEFINE P == Pow[call.p]
           z == BignumFromMemory(mem, call.z, call.p)
           a == BignumFromMemory(call.mem, call.x, call.m)
           b == BignumFromMemory(call.mem, call.y, call.n)
           al == Prefix(call.mem, call.x, call.m, call.p)
           bl == Prefix(call.mem, call.y, call.n, call.p)
<1>1. /\ call.mem \in Memory /\ mem \in Memory /\ call.z \in Int /\ call.x \in Int
      /\ call.y \in Int /\ InMemory(call.x, call.m) /\ InMemory(call.y, call.n)
      /\ Block(call.z, call.p) \subseteq Addr
  BY DEF IInv, TypeOK, CallOK, InMemory, Addr
<1>2. P \in Nat \ {0} /\ z \in 0..(P - 1) /\ p \in Nat
  BY <1>1, SizeFacts, PowType, ValueType
<1>3. z + p * P = al + bl
  BY SizeFacts DEF IInv, PartialSum, Carried, Counters, Sum
<1>4. PICK q \in Nat : a = P * q + al /\ LowDigits(a, call.p) = al /\ al \in Nat
  BY <1>1, SizeFacts, PrefixSplit
<1>5. PICK r \in Nat : b = P * r + bl /\ LowDigits(b, call.p) = bl /\ bl \in Nat
  BY <1>1, SizeFacts, PrefixSplit
<1> HIDE DEF P, z, a, b, al, bl
<1>6. a + b = P * (q + r + p) + z /\ q + r + p \in Int
  BY <1>2, <1>3, <1>4, <1>5
<1>7. (a + b) % P = z
  BY <1>2, <1>6, DivModUnique
<1>8. P * p + z = al + bl
  BY <1>2, <1>3
<1> QED BY <1>4, <1>5, <1>7, <1>8 DEF AddPost, P, z, a, b

Correct ==
  /\ MayChange(call.mem, mem, AddFrame(call))
  /\ pc = "done" => AddPost(call, mem, p)

\* Nothing outside z changes, and at the return the postcondition of
\* BIGNUM_ADD_SUBROUTINE_CORRECT holds.
THEOREM Correctness == Spec => []Correct
<1>1. IInv => Correct
  <2> SUFFICES ASSUME IInv PROVE MayChange(call.mem, mem, AddFrame(call))
    BY PostHolds DEF Correct
  <2>1. i <= call.p
    BY SizeFacts DEF IInv, Counters, TypeOK, Labels, m0, n0, Lesser
  <2>2. Block(call.z, i) \subseteq Block(call.z, call.p)
    BY <2>1, SizeFacts DEF Block, IInv, CallOK, Addr
  <2> QED BY <2>2 DEF IInv, PrefixWritten, MayChange, AddFrame
<1> QED BY Invariance, <1>1, PTL

\* The routine implements its contract: every step stays inside the frame and
\* the step that returns establishes the postcondition.
THEOREM ContractHolds == Spec => Implements
<1>1. Init => Contract!Init
  BY DEF Init, Contract!Init
<1>2. Correct' /\ [Next]_vars => [Contract!Next]_(Contract!vars)
  <2> SUFFICES ASSUME Correct', [Next]_vars, ~ UNCHANGED vars
               PROVE  Contract!Next
    BY DEF vars, Contract!vars
  <2>1. pc # "done" /\ call' = call
    BY DEF Next, XLonger, YLonger, XMainLoop, XTopLoop, YMainLoop, YTopLoop,
           AddWords, Return, Tails, Done
  <2>2. MayChange(call.mem, mem', AddFrame(call))
    BY <2>1 DEF Correct
  <2>3. CASE pc' = "done"
    BY <2>1, <2>2, <2>3
    DEF Correct, Contract!Next, Contract!Return, MayChange, Contract!MayChange, Contract!Addr, Addr
  <2>4. CASE pc' # "done"
    BY <2>1, <2>2, <2>4
    DEF Contract!Next, Contract!Run, MayChange, Contract!MayChange, Contract!Addr, Addr
  <2> QED BY <2>3, <2>4
<1>3. Implements <=> Contract!Init /\ [][Contract!Next]_(Contract!vars)
  BY DEF Implements, Contract!Spec
<1> QED BY <1>1, <1>2, <1>3, Correctness, PTL DEF Spec

-----------------------------------------------------------------------------
(***************************************************************************)
(* Constant time, for every word size, memory and operand size.  The       *)
(* invariant says that the two runs agree on every register a branch or an *)
(* address depends on.                                                     *)
(***************************************************************************)
Public(c) == <<c.p, c.z, c.m, c.x, c.n, c.y>>

\* The two runs agree on all they are controlled by.  Only the result register
\* may differ, and only once it holds the carry.
SameControl ==
  /\ pc1 = pc2 /\ i1 = i2 /\ m1 = m2 /\ n1 = n2
  /\ pc1 # "done" => p1 = p2
  /\ pc1 = "entry" => p1 \in Nat /\ m1 \in Nat /\ n1 \in Nat
  /\ Public(call1) = Public(call2)

\* No step of bignum_add makes a branch or an address depend on a word of memory
\* or on the carry flag.
THEOREM ConstantTimeHolds == LockstepSpec => []ConstantTime
<1>1. LockstepInit => SameControl
  BY SizeAssumption DEF LockstepInit, Run1!Init, Run2!Init, SameControl, Public, Run1!Size, Run2!Size
<1>2. SameControl /\ [LockstepNext]_lockstep => SameControl'
  <2> SUFFICES ASSUME SameControl, [LockstepNext]_lockstep PROVE SameControl'
    OBVIOUS
  <2> USE DEF SameControl, Public, Run1!TopSkip, Run1!XMainSkip, Run2!TopSkip, Run2!XMainSkip,
          Run1!AddWords, Run2!AddWords, Run1!Lesser, Run2!Lesser
  <2> USE DEF Run2!Next, Run2!XLonger, Run2!YLonger, Run2!XMainLoop, Run2!XTopLoop,
          Run2!YMainLoop, Run2!YTopLoop, Run2!Return, Run2!Tails, Run2!Done, Run2!vars
  <2>1. CASE Run1!XLonger /\ Run2!Next
    BY <2>1 DEF Run1!XLonger
  <2>2. CASE Run1!YLonger /\ Run2!Next
    BY <2>2 DEF Run1!YLonger
  <2>3. CASE Run1!XMainLoop /\ Run2!Next
    BY <2>3 DEF Run1!XMainLoop
  <2>4. CASE Run1!XTopLoop /\ Run2!Next
    BY <2>4 DEF Run1!XTopLoop
  <2>5. CASE Run1!YMainLoop /\ Run2!Next
    BY <2>5 DEF Run1!YMainLoop
  <2>6. CASE Run1!YTopLoop /\ Run2!Next
    BY <2>6 DEF Run1!YTopLoop
  <2>7. CASE Run1!Return /\ Run2!Next
    BY <2>7 DEF Run1!Return
  <2>8. CASE Run1!Tails /\ Run2!Next
    BY <2>8 DEF Run1!Tails
  <2>9. CASE Run1!Done /\ Run2!Next
    BY <2>9 DEF Run1!Done, Run1!vars
  <2>10. CASE UNCHANGED lockstep
    BY <2>10 DEF lockstep
  <2> QED BY <2>1, <2>2, <2>3, <2>4, <2>5, <2>6, <2>7, <2>8, <2>9, <2>10
          DEF LockstepNext, Run1!Next
<1>3. SameControl => ConstantTime
  BY DEF SameControl, ConstantTime, Observation, Public
<1> QED BY <1>1, <1>2, <1>3, PTL DEF LockstepSpec
=============================================================================
