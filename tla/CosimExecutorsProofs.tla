------------------------ MODULE CosimExecutorsProofs ------------------------
(***************************************************************************)
(* Proofs about CosimExecutors, for every set of lines, every size of the  *)
(* words, of the buffers and of the code slot, and every scratch area.     *)
(***************************************************************************)
EXTENDS CosimExecutors, TLAPS

NaturalFacts == INSTANCE BignumTheorems WITH B <- 10, MemSize <- 0, MaxSize <- 0

LEMMA NaturalAssumptions == NaturalFacts!BaseAssumption /\ NaturalFacts!SizeAssumption
  BY DEF NaturalFacts!BaseAssumption, NaturalFacts!SizeAssumption

-----------------------------------------------------------------------------
(* Recursive functions on 0..n, in the form the module writes them         *)

LEMMA UpToInduction ==
  ASSUME NEW n \in Nat, NEW T, 0 \in T, \A k \in 1..n : k - 1 \in T => k \in T
  PROVE  0..n \subseteq T
<1> DEFINE U == { k \in Nat : k <= n => k \in T }
<1>1. 0 \in U
  OBVIOUS
<1>2. ASSUME NEW k \in Nat, k \in U PROVE k + 1 \in U
  <2>1. CASE k + 1 <= n
    <3>1. k + 1 \in 1..n /\ (k + 1) - 1 = k /\ k \in T
      BY <1>2, <2>1
    <3> QED BY <3>1
  <2>2. CASE ~(k + 1 <= n)
    BY <2>2
  <2> QED BY <2>1, <2>2
<1>3. Nat \subseteq U
  <2> HIDE DEF U
  <2> QED BY <1>1, <1>2, NaturalAssumptions, NaturalFacts!SetInduction
<1> QED BY <1>3

Recurrence(f, n, S, e, s) ==
    f \in [0..n -> S] /\ f[0] = e /\ \A k \in 1..n : f[k] = s[k][f[k - 1]]

LEMMA RecursionUpTo ==
  \A n \in Nat : \A S : \A e \in S : \A s \in [1..n -> [S -> S]] : \E f : Recurrence(f, n, S, e, s)
<1> SUFFICES ASSUME NEW n \in Nat, NEW S, NEW e \in S, NEW s \in [1..n -> [S -> S]]
             PROVE  \E f : Recurrence(f, n, S, e, s)
  OBVIOUS
<1> DEFINE id == [v \in S |-> v]
           t == [k \in Nat |-> IF k + 1 \in 1..n THEN s[k + 1] ELSE id]
<1>1. t \in [Nat -> [S -> S]]
  OBVIOUS
<1>2. PICK g : NaturalFacts!IsRecursion(g, S, e, t)
  <2> HIDE DEF t
  <2> QED BY <1>1, NaturalAssumptions, NaturalFacts!RecursionExists, Zenon
<1> DEFINE f == [k \in 0..n |-> g[k]]
<1>3. g \in [Nat -> S] /\ g[0] = e /\ \A k \in Nat : g[k + 1] = t[k][g[k]]
  BY <1>2 DEF NaturalFacts!IsRecursion
<1>4. f \in [0..n -> S] /\ f[0] = e
  BY <1>3
<1>5. ASSUME NEW k \in 1..n PROVE f[k] = s[k][f[k - 1]]
  <2>1. k - 1 \in Nat /\ (k - 1) + 1 = k /\ k - 1 \in 0..n /\ k \in 0..n
    OBVIOUS
  <2>2. g[k] = t[k - 1][g[k - 1]]
    BY <1>3, <2>1
  <2>3. t[k - 1] = s[k]
    BY <2>1
  <2> QED BY <2>1, <2>2, <2>3
<1>6. Recurrence(f, n, S, e, s)
  BY <1>4, <1>5 DEF Recurrence
<1> QED BY <1>6

-----------------------------------------------------------------------------
(* Numbers: how many digits they have, and what a token spells             *)

Shortest(v, n) == (n = 10 \/ v < Tens[n]) /\ \A k \in 1..(n - 1) : v >= Tens[k]

LEMMA DigitsLeast == \A v \in Nat : Digits(v) \in 1..10 /\ Shortest(v, Digits(v))
<1> SUFFICES ASSUME NEW v \in Nat PROVE Digits(v) \in 1..10 /\ Shortest(v, Digits(v))
  OBVIOUS
<1> DEFINE T == { n \in Nat : n + 1 \in 1..10 => (\E k \in 1..(n + 1) : Shortest(v, k))
                                                 \/ \A k \in 1..(n + 1) : v >= Tens[k] /\ n + 1 # 10 }
<1>1. 0 \in T
  BY DEF Shortest, Tens
<1>2. ASSUME NEW n \in Nat, n \in T PROVE n + 1 \in T
  <2>1. CASE n + 2 \in 1..10
    <3>1. CASE \E k \in 1..(n + 1) : Shortest(v, k)
      BY <3>1
    <3>2. CASE \A k \in 1..(n + 1) : v >= Tens[k]
      <4>1. CASE n + 2 = 10 \/ v < Tens[n + 2]
        BY <2>1, <3>2, <4>1 DEF Shortest
      <4>2. CASE n + 2 # 10 /\ ~(v < Tens[n + 2])
        <5>1. n + 2 \in 1..9 /\ Tens[n + 2] \in Nat
          BY <2>1, <4>2 DEF Tens
        <5> QED BY <2>1, <3>2, <4>2, <5>1
      <4> QED BY <4>1, <4>2
    <3> QED BY <1>2, <2>1, <3>1, <3>2
  <2> QED BY <2>1
<1>3. 9 \in T
  <2>1. Nat \subseteq T
    <3> HIDE DEF T
    <3> QED BY <1>1, <1>2, NaturalAssumptions, NaturalFacts!SetInduction
  <2> QED BY <2>1
<1>4. \E n \in 1..10 : Shortest(v, n)
  BY <1>3
<1> QED BY <1>4 DEF Digits, Shortest

LEMMA DigitsMonotonic == \A v, w \in Nat : v <= w => Digits(v) <= Digits(w)
<1> SUFFICES ASSUME NEW v \in Nat, NEW w \in Nat, v <= w, Digits(v) > Digits(w) PROVE FALSE
  BY DigitsLeast
<1>1. Digits(v) \in 1..10 /\ Digits(w) \in 1..10
  BY DigitsLeast
<1>2. Digits(w) \in 1..(Digits(v) - 1) /\ Digits(w) \in 1..9
  BY <1>1
<1>3. v >= Tens[Digits(w)] /\ w < Tens[Digits(w)]
  BY <1>2, DigitsLeast DEF Shortest
<1>4. Tens[Digits(w)] \in Nat
  BY <1>2 DEF Tens
<1> QED BY <1>3, <1>4

LEMMA DigitsOne == \A v \in 0..9 : Digits(v) = 1
<1> SUFFICES ASSUME NEW v \in 0..9 PROVE Digits(v) = 1
  OBVIOUS
<1>1. Digits(v) \in 1..10 /\ Shortest(v, Digits(v))
  BY DigitsLeast
<1>2. Tens[1] = 10
  BY DEF Tens
<1> QED BY <1>1, <1>2 DEF Shortest

-----------------------------------------------------------------------------
IsSpelling(f, digits) ==
    f = [i \in 0..Len(digits) |-> IF i = 0 THEN 0 ELSE f[i - 1] * 10 + digits[i]]

LEMMA Spelling ==
  ASSUME NEW digits \in Seq(0..9)
  PROVE  \E f \in [0..Len(digits) -> Nat] :
            /\ f[0] = 0 /\ \A i \in 1..Len(digits) : f[i] = f[i - 1] * 10 + digits[i]
            /\ Spelled(digits) = f[Len(digits)]
<1> DEFINE n == Len(digits)
           s == [k \in 1..n |-> [v \in Nat |-> v * 10 + digits[k]]]
           g == CHOOSE g : IsSpelling(g, digits)
<1>1. n \in Nat /\ \A k \in 1..n : digits[k] \in 0..9
  OBVIOUS
<1>2. s \in [1..n -> [Nat -> Nat]]
  BY <1>1
<1>3. \E f : IsSpelling(f, digits)
  <2>1. PICK f : Recurrence(f, n, Nat, 0, s)
    <3>1. 0 \in Nat OBVIOUS
    <3> HIDE DEF s, n
    <3> QED BY <1>1, <1>2, <3>1, RecursionUpTo
  <2>2. \A k \in 1..n : \A v \in Nat : s[k][v] = v * 10 + digits[k]
    OBVIOUS
  <2>3. f = [k \in 0..n |-> IF k = 0 THEN 0 ELSE f[k - 1] * 10 + digits[k]]
    <3> HIDE DEF s, n
    <3>1. f \in [0..n -> Nat] /\ f[0] = 0 /\ \A k \in 1..n : f[k] = s[k][f[k - 1]]
      BY <2>1 DEF Recurrence
    <3>2. ASSUME NEW k \in 0..n, k # 0 PROVE f[k] = f[k - 1] * 10 + digits[k]
      <4>1. k \in 1..n /\ k - 1 \in 0..n
        BY <1>1, <3>2
      <4> QED BY <2>2, <3>1, <4>1
    <3> QED BY <3>1, <3>2
  <2> QED BY <2>3 DEF IsSpelling
<1>4. IsSpelling(g, digits)
  BY <1>3
<1>5. Spelled(digits) = g[n]
  BY DEF Spelled, IsSpelling
<1> HIDE DEF g, s
<1>6. g[0] = 0 /\ \A i \in 1..n : g[i] = g[i - 1] * 10 + digits[i]
  BY <1>1, <1>4 DEF IsSpelling
<1>7. \A i \in 0..n : g[i] \in Nat
  <2> DEFINE T == { i \in 0..n : g[i] \in Nat }
  <2>1. 0 \in T
    BY <1>1, <1>6
  <2>2. ASSUME NEW i \in 1..n, i - 1 \in T PROVE i \in T
    <3>1. i \in 0..n /\ digits[i] \in 0..9 /\ g[i] = g[i - 1] * 10 + digits[i]
      BY <1>1, <1>6
    <3>2. g[i - 1] \in Nat
      BY <2>2
    <3>3. g[i - 1] * 10 + digits[i] \in Nat
      <4> DEFINE u == g[i - 1]
                 d == digits[i]
      <4>1. u \in Nat /\ d \in 0..9
        BY <3>1, <3>2
      <4> HIDE DEF u, d
      <4>2. u * 10 + d \in Nat
        BY <4>1
      <4> QED BY <4>2 DEF u, d
    <3> QED BY <3>1, <3>3
  <2>3. 0..n \subseteq T
    <3> HIDE DEF T, n
    <3> QED BY <1>1, <2>1, <2>2, UpToInduction
  <2> QED BY <2>3
<1>8. g \in [0..n -> Nat]
  BY <1>4, <1>7 DEF IsSpelling
<1> QED BY <1>5, <1>6, <1>8

IsParsing(f, digits) ==
    f = [i \in 0..Len(digits) |-> IF i = 0 THEN 0 ELSE NextDigit(f[i - 1], digits[i])]

\* What parse_u32 has read so far: the number spelled, unless it is no word.
Capped(v) == IF v <= MaxWord THEN v ELSE NotAWord

LEMMA NextDigitCapped ==
  \A v \in Nat : \A d \in 0..9 : NextDigit(Capped(v), d) = Capped(v * 10 + d)
<1> SUFFICES ASSUME NEW v \in Nat, NEW d \in 0..9
             PROVE  NextDigit(Capped(v), d) = Capped(v * 10 + d)
  OBVIOUS
<1> USE DEF NextDigit, Capped, NotAWord
<1>1. MaxWord \in Nat /\ MaxWord >= 9
  BY RunnerAssumption
<1>2. CASE v > MaxWord
  BY <1>1, <1>2
<1>3. CASE v <= MaxWord /\ v > (MaxWord - d) \div 10
  BY <1>1, <1>3
<1>4. CASE v <= MaxWord /\ ~(v > (MaxWord - d) \div 10)
  <2>1. v * 10 + d <= MaxWord
    BY <1>1, <1>4
  <2>2. (v * 10 + d) % (MaxWord + 1) = v * 10 + d
    BY <1>1, <2>1
  <2> QED BY <1>1, <1>4, <2>1, <2>2
<1> QED BY <1>1, <1>2, <1>3, <1>4

(***************************************************************************)
(* parse_u32 reads the number that is spelled, of any length, and refuses  *)
(* it just when no word holds it (cosim_runner.c, lines 212-234).          *)
(***************************************************************************)
THEOREM ParseCorrect ==
  \A digits \in Seq(0..9) :
     ParseU32(digits) = IF digits = << >> THEN NotAWord ELSE Capped(Spelled(digits))
<1> SUFFICES ASSUME NEW digits \in Seq(0..9), digits # << >>
             PROVE  ParseU32(digits) = Capped(Spelled(digits))
  BY DEF ParseU32
<1> DEFINE n == Len(digits)
           g == CHOOSE g : IsParsing(g, digits)
<1>1. n \in Nat /\ \A k \in 1..n : digits[k] \in 0..9
  OBVIOUS
<1>2. PICK f \in [0..n -> Nat] :
         /\ f[0] = 0 /\ \A i \in 1..n : f[i] = f[i - 1] * 10 + digits[i]
         /\ Spelled(digits) = f[n]
  BY Spelling
<1>3. \E h : IsParsing(h, digits)
  <2> DEFINE h == [i \in 0..n |-> Capped(f[i])]
  <2>1. h[0] = 0
    BY <1>1, <1>2, RunnerAssumption DEF Capped
  <2>2. ASSUME NEW i \in 1..n PROVE h[i] = NextDigit(h[i - 1], digits[i])
    <3>1. i - 1 \in 0..n /\ i \in 0..n /\ f[i - 1] \in Nat
      BY <1>1, <1>2
    <3> QED BY <1>1, <1>2, <3>1, NextDigitCapped
  <2>3. \A i \in 0..n : i # 0 => i \in 1..n
    BY <1>1
  <2>4. h = [i \in 0..n |-> IF i = 0 THEN 0 ELSE NextDigit(h[i - 1], digits[i])]
    <3>1. \A i \in 0..n : h[i] = IF i = 0 THEN 0 ELSE NextDigit(h[i - 1], digits[i])
      BY <2>1, <2>2, <2>3
    <3>2. h = [i \in 0..n |-> h[i]]
      OBVIOUS
    <3> HIDE DEF h
    <3> QED BY <3>1, <3>2
  <2> QED BY <2>4 DEF IsParsing
<1>4. IsParsing(g, digits)
  BY <1>3
<1>5. ParseU32(digits) = g[n]
  BY DEF ParseU32, IsParsing
<1> HIDE DEF g
<1>6. g[0] = 0 /\ \A i \in 1..n : g[i] = NextDigit(g[i - 1], digits[i])
  BY <1>1, <1>4 DEF IsParsing
<1> DEFINE T == { i \in 0..n : g[i] = Capped(f[i]) }
<1>7. 0 \in T
  BY <1>1, <1>2, <1>6, RunnerAssumption DEF Capped
<1>8. ASSUME NEW i \in 1..n, i - 1 \in T PROVE i \in T
  <2>1. i \in 0..n /\ f[i - 1] \in Nat
    BY <1>1, <1>2
  <2> QED BY <1>1, <1>2, <1>6, <1>8, <2>1, NextDigitCapped
<1>9. n \in T
  <2>1. 0..n \subseteq T
    <3> HIDE DEF T, n
    <3> QED BY <1>1, <1>7, <1>8, UpToInduction
  <2> QED BY <1>1, <2>1
<1> QED BY <1>2, <1>5, <1>9

-----------------------------------------------------------------------------
(* Answers fit into `response`                                             *)

IsLength(f, words) ==
    f = [i \in 0..Len(words) |-> IF i = 0 THEN 0 ELSE f[i - 1] + 1 + Digits(words[i])]

LEMMA WordsLengthBounded ==
  ASSUME NEW words \in Seq(0..MaxWord)
  PROVE  WordsLength(words) <= Len(words) * (1 + Digits(MaxWord)) /\ WordsLength(words) \in Nat
<1> DEFINE n == Len(words)
           w == 1 + Digits(MaxWord)
           s == [k \in 1..n |-> [v \in Nat |-> v + 1 + Digits(words[k])]]
           g == CHOOSE g : IsLength(g, words)
<1>1. n \in Nat /\ \A k \in 1..n : words[k] \in 0..MaxWord
  <2> DEFINE S == 0..MaxWord
  <2> HIDE DEF S
  <2>1. words \in Seq(S)
    BY DEF S
  <2>2. n \in Nat /\ \A k \in 1..n : words[k] \in S
    BY <2>1
  <2> QED BY <2>2 DEF S
<1>2. MaxWord \in Nat /\ w \in Nat
  BY RunnerAssumption, DigitsLeast
<1>3. \A k \in 1..n : Digits(words[k]) \in Nat /\ 1 + Digits(words[k]) <= w
  <2> SUFFICES ASSUME NEW k \in 1..n
               PROVE  Digits(words[k]) \in Nat /\ 1 + Digits(words[k]) <= w
    OBVIOUS
  <2>1. words[k] \in Nat /\ words[k] <= MaxWord
    BY <1>1, <1>2
  <2>2. Digits(words[k]) \in 1..10 /\ Digits(MaxWord) \in 1..10
    BY <1>2, <2>1, DigitsLeast
  <2>3. Digits(words[k]) <= Digits(MaxWord)
    BY <1>2, <2>1, DigitsMonotonic
  <2> QED BY <2>2, <2>3
<1>4. \E f : IsLength(f, words)
  <2>1. PICK f : Recurrence(f, n, Nat, 0, s)
    <3>1. 0 \in Nat OBVIOUS
    <3>2. s \in [1..n -> [Nat -> Nat]]
      <4> HIDE DEF n
      <4> QED BY <1>3
    <3> HIDE DEF s, n
    <3> QED BY <1>1, <3>1, <3>2, RecursionUpTo
  <2>2. \A k \in 1..n : \A v \in Nat : s[k][v] = v + 1 + Digits(words[k])
    OBVIOUS
  <2>3. f = [k \in 0..n |-> IF k = 0 THEN 0 ELSE f[k - 1] + 1 + Digits(words[k])]
    <3> HIDE DEF s, n
    <3>1. f \in [0..n -> Nat] /\ f[0] = 0 /\ \A k \in 1..n : f[k] = s[k][f[k - 1]]
      BY <2>1 DEF Recurrence
    <3>2. ASSUME NEW k \in 0..n, k # 0 PROVE f[k] = f[k - 1] + 1 + Digits(words[k])
      <4>1. k \in 1..n /\ k - 1 \in 0..n
        BY <1>1, <3>2
      <4> QED BY <2>2, <3>1, <4>1
    <3> QED BY <3>1, <3>2
  <2> QED BY <2>3 DEF IsLength
<1>5. IsLength(g, words)
  BY <1>4
<1>6. WordsLength(words) = g[n]
  BY DEF WordsLength, IsLength
<1> HIDE DEF g, s
<1>7. g[0] = 0 /\ \A i \in 1..n : g[i] = g[i - 1] + 1 + Digits(words[i])
  BY <1>1, <1>5 DEF IsLength
<1> DEFINE T == { i \in 0..n : g[i] \in Nat /\ g[i] <= i * w }
<1>8. 0 \in T
  BY <1>1, <1>2, <1>7
<1>9. ASSUME NEW i \in 1..n, i - 1 \in T PROVE i \in T
  <2> HIDE DEF n, w
  <2>1. i \in 0..n /\ i \in Nat /\ g[i] = g[i - 1] + 1 + Digits(words[i])
    BY <1>1, <1>7
  <2>2. g[i - 1] \in Nat /\ g[i - 1] <= (i - 1) * w
    BY <1>9
  <2>3. (i - 1) * w + w = i * w
    BY <1>2, <2>1
  <2>4. (i - 1) * w \in Int /\ i * w \in Int
    BY <1>2, <2>1
  <2>5. 1 + Digits(words[i]) \in Nat /\ 1 + Digits(words[i]) <= w
    BY <1>3
  <2> DEFINE u == g[i - 1]
             d == 1 + Digits(words[i])
             P == (i - 1) * w
             Q == i * w
  <2>6. g[i] = u + d
    <3>1. Digits(words[i]) \in Nat
      BY <1>3
    <3> QED BY <2>1, <2>2, <3>1
  <2> HIDE DEF u, d, P, Q
  <2>7. u + d \in Nat /\ u + d <= Q
    <3>1. u \in Nat /\ u <= P
      BY <2>2 DEF u, P
    <3>2. d \in Nat /\ d <= w
      BY <2>5 DEF d
    <3>3. P \in Int /\ Q \in Int /\ P + w = Q
      BY <2>3, <2>4 DEF P, Q
    <3> QED BY <1>2, <3>1, <3>2, <3>3
  <2> QED BY <2>1, <2>6, <2>7 DEF Q
<1>10. n \in T
  <2>1. 0..n \subseteq T
    <3> HIDE DEF T, n
    <3> QED BY <1>1, <1>8, <1>9, UpToInduction
  <2> QED BY <1>1, <2>1
<1> QED BY <1>6, <1>10

LEMMA StateSequence ==
  \A words \in [1..NState -> 0..MaxWord] : words \in Seq(0..MaxWord) /\ Len(words) = NState
  BY RunnerAssumption DEF NState, NRegs, Order

LEMMA StateSent ==
  \A words \in [1..NState -> 0..MaxWord] : Sent(OK(words)) = OK(words)
<1> SUFFICES ASSUME NEW words \in [1..NState -> 0..MaxWord] PROVE Sent(OK(words)) = OK(words)
  OBVIOUS
<1>1. words \in Seq(0..MaxWord) /\ Len(words) = NState
  BY StateSequence
<1>2. WordsLength(words) <= NState * (1 + Digits(MaxWord)) /\ WordsLength(words) \in Nat
  BY <1>1, WordsLengthBounded
<1>3. ResponseLength(OK(words)) = 2 + WordsLength(words)
  BY DEF ResponseLength, OK
<1>4. NState \in Nat /\ Digits(MaxWord) \in Nat /\ NState * (1 + Digits(MaxWord)) \in Nat
  <2>1. NState \in Nat
    BY RunnerAssumption DEF NState, NRegs, Order
  <2>2. Digits(MaxWord) \in Nat
    BY RunnerAssumption, DigitsLeast
  <2>3. \A a, b \in Nat : a * b \in Nat
    OBVIOUS
  <2> HIDE DEF NState
  <2> QED BY <2>1, <2>2, <2>3
<1>5. ResponseSize \in Nat /\ 2 + NState * (1 + Digits(MaxWord)) + 1 < ResponseSize
  BY RunnerAssumption, ResponseAssumption
<1>6. ResponseLength(OK(words)) + 1 < ResponseSize
  <2> HIDE DEF NState
  <2> QED BY <1>2, <1>3, <1>4, <1>5
<1> QED BY <1>6 DEF Sent

LEMMA TrapSent ==
  \A cause \in 0..9, value \in 0..MaxWord : Sent(TRAP(cause, value)) = TRAP(cause, value)
<1> SUFFICES ASSUME NEW cause \in 0..9, NEW value \in 0..MaxWord
             PROVE  Sent(TRAP(cause, value)) = TRAP(cause, value)
  OBVIOUS
<1>1. MaxWord \in Nat /\ value <= MaxWord /\ value \in Nat
  BY RunnerAssumption
<1>2. Digits(cause) = 1 /\ Digits(value) \in Nat /\ Digits(MaxWord) \in Nat
      /\ Digits(value) <= Digits(MaxWord)
  BY <1>1, DigitsOne, DigitsLeast, DigitsMonotonic
<1>3. ResponseLength(TRAP(cause, value)) = 19 + Digits(cause) + Digits(value)
  BY DEF ResponseLength, TRAP
<1>4. ResponseLength(TRAP(cause, value)) + 1 < ResponseSize
  BY <1>2, <1>3, RunnerAssumption, ResponseAssumption
<1> QED BY <1>4 DEF Sent

LEMMA ReadySent == Sent(Ready) = Ready
  BY RunnerAssumption, ResponseAssumption DEF Sent, ResponseLength, Ready

LEMMA ErrorSent == \A reason : Sent(ERROR(reason)) = ERROR(reason)
  BY RunnerAssumption, ResponseAssumption DEF Sent, ResponseLength, ERROR

-----------------------------------------------------------------------------
(* The processor and the code it is given                                  *)

Word == 0..MaxWord
Transported == [s0 : Word, t0 : Word, a0 : Word, t3 : Word, sp : {ScratchSP}]
Machines == [reg : Transported, scratch : [1..NScratch -> Word]]

LEMMA WordSum == \A v, w \in Word : (v + w) % (MaxWord + 1) \in Word /\ (v + 1) % (MaxWord + 1) \in Word
  BY RunnerAssumption DEF Word

LEMMA ExecuteType ==
  ASSUME NEW m \in Machines, NEW instr, ~Traps(instr)
  PROVE  Execute(instr, m) \in Machines
<1>1. instr \in { "addi", "add", "mv", "sw", "lw" }
  BY DEF Traps, Instructions, Ebreak
<1>2. 1 \in 1..NScratch /\ 2 \in 1..NScratch
  BY RunnerAssumption
<1>3. m.reg \in Transported /\ m.scratch \in [1..NScratch -> Word]
  BY DEF Machines
<1>4. m.scratch[2] \in Word
  BY <1>2, <1>3
<1>5. CASE instr = "addi"
  <2>1. (m.reg.a0 + 1) % (MaxWord + 1) \in Word
    BY <1>3, WordSum DEF Transported
  <2>2. Execute(instr, m) = [m EXCEPT !.reg.a0 = (m.reg.a0 + 1) % (MaxWord + 1)]
    BY <1>5 DEF Execute
  <2> DEFINE v == (m.reg.a0 + 1) % (MaxWord + 1)
  <2> HIDE DEF v
  <2>3. [m.reg EXCEPT !.a0 = v] \in Transported
    BY <1>3, <2>1 DEF Transported, v
  <2> QED BY <2>2, <2>3 DEF Machines, v
<1>6. CASE instr = "add"
  <2>1. (m.reg.t3 + m.reg.t0) % (MaxWord + 1) \in Word
    BY <1>3, WordSum DEF Transported
  <2>2. Execute(instr, m) = [m EXCEPT !.reg.t3 = (m.reg.t3 + m.reg.t0) % (MaxWord + 1)]
    BY <1>6 DEF Execute
  <2> DEFINE v == (m.reg.t3 + m.reg.t0) % (MaxWord + 1)
  <2> HIDE DEF v
  <2>3. [m.reg EXCEPT !.t3 = v] \in Transported
    BY <1>3, <2>1 DEF Transported, v
  <2> QED BY <2>2, <2>3 DEF Machines, v
<1>7. CASE instr = "mv"
  <2>2. Execute(instr, m) = [m EXCEPT !.reg.s0 = m.reg.t3]
    BY <1>7 DEF Execute
  <2>3. [m.reg EXCEPT !.s0 = m.reg.t3] \in Transported
    BY <1>3 DEF Transported
  <2> QED BY <2>2, <2>3 DEF Machines
<1>8. CASE instr = "sw"
  <2>2. Execute(instr, m) = [m EXCEPT !.scratch[1] = m.reg.t0]
    BY <1>8 DEF Execute
  <2>3. [m.scratch EXCEPT ![1] = m.reg.t0] \in [1..NScratch -> Word]
    BY <1>2, <1>3 DEF Transported
  <2> QED BY <2>2, <2>3 DEF Machines
<1>9. CASE instr = "lw"
  <2>2. Execute(instr, m) = [m EXCEPT !.reg.t0 = m.scratch[2]]
    BY <1>9 DEF Execute
  <2>3. [m.reg EXCEPT !.t0 = m.scratch[2]] \in Transported
    BY <1>3, <1>4 DEF Transported
  <2> QED BY <2>2, <2>3 DEF Machines
<1> QED BY <1>1, <1>5, <1>6, <1>7, <1>8, <1>9

States == [1..NState -> Word]

LEMMA StateIndex == NRegs = 5 /\ NState = 5 + NScratch /\ NScratch \in Nat /\ NScratch >= 2
  BY RunnerAssumption DEF NState, NRegs, Order

LEMMA FreshType == \A words \in States : Fresh(words) \in Machines
<1> SUFFICES ASSUME NEW words \in States PROVE Fresh(words) \in Machines
  OBVIOUS
<1>1. \A i \in 1..NScratch : NRegs + i \in 1..NState
  BY StateIndex
<1>2. 2 \in 1..NState /\ 3 \in 1..NState /\ 4 \in 1..NState /\ 5 \in 1..NState
  BY StateIndex
<1> QED BY <1>1, <1>2 DEF Fresh, Machines, Transported, States

IsCourse(f, instrs, words) ==
    f = [i \in 0..Len(instrs) |->
            IF i = 0 THEN Fresh(words)
            ELSE IF Traps(instrs[i]) THEN f[i - 1] ELSE Execute(instrs[i], f[i - 1])]

LEMMA AfterStep ==
  ASSUME NEW instrs \in Seq(STRING), NEW words \in States
  PROVE  /\ After(instrs, words)[0] = Fresh(words)
         /\ \A i \in 1..Len(instrs) :
               After(instrs, words)[i] = IF Traps(instrs[i]) THEN After(instrs, words)[i - 1]
                                         ELSE Execute(instrs[i], After(instrs, words)[i - 1])
         /\ \A i \in 0..Len(instrs) : After(instrs, words)[i] \in Machines
<1> DEFINE n == Len(instrs)
           Step(k, v) == IF Traps(instrs[k]) THEN v ELSE Execute(instrs[k], v)
           s == [k \in 1..n |-> [v \in Machines |-> Step(k, v)]]
           g == After(instrs, words)
<1>1. n \in Nat
  OBVIOUS
<1>2. ASSUME NEW k, NEW v \in Machines PROVE Step(k, v) \in Machines
  BY ExecuteType
<1>3. \E f : IsCourse(f, instrs, words)
  <2> HIDE DEF Step
  <2>1. s \in [1..n -> [Machines -> Machines]]
    BY <1>2
  <2>2. PICK f : Recurrence(f, n, Machines, Fresh(words), s)
    <3> HIDE DEF s, n
    <3> QED BY <1>1, <2>1, FreshType, RecursionUpTo
  <2>3. \A k \in 1..n : \A v \in Machines : s[k][v] = Step(k, v)
    OBVIOUS
  <2>4. f = [k \in 0..n |-> IF k = 0 THEN Fresh(words) ELSE Step(k, f[k - 1])]
    <3> HIDE DEF s, n
    <3>1. f \in [0..n -> Machines] /\ f[0] = Fresh(words) /\ \A k \in 1..n : f[k] = s[k][f[k - 1]]
      BY <2>2 DEF Recurrence
    <3>2. ASSUME NEW k \in 0..n, k # 0 PROVE f[k] = Step(k, f[k - 1])
      <4>1. k \in 1..n /\ k - 1 \in 0..n
        BY <1>1, <3>2
      <4> QED BY <2>3, <3>1, <4>1
    <3> QED BY <3>1, <3>2
  <2> QED BY <2>4 DEF IsCourse, Step
<1>4. IsCourse(g, instrs, words)
  BY <1>3 DEF After, IsCourse
<1> HIDE DEF g, s, Step
<1>5. g[0] = Fresh(words) /\ \A i \in 1..n : g[i] = Step(i, g[i - 1])
  <2>1. g = [i \in 0..n |-> IF i = 0 THEN Fresh(words) ELSE Step(i, g[i - 1])]
    <3> HIDE DEF n
    <3> QED BY <1>4 DEF IsCourse, Step, n
  <2> HIDE DEF n
  <2>2. g[0] = Fresh(words)
    BY <1>1, <2>1
  <2>3. ASSUME NEW i \in 1..n PROVE g[i] = Step(i, g[i - 1])
    <3>1. i \in 0..n /\ i # 0
      BY <1>1
    <3> QED BY <2>1, <3>1
  <2> QED BY <2>2, <2>3
<1>6. 0..n \subseteq { i \in 0..n : g[i] \in Machines }
  <2> DEFINE T == { i \in 0..n : g[i] \in Machines }
  <2>1. 0 \in T
    BY <1>1, <1>5, FreshType
  <2>2. ASSUME NEW i \in 1..n, i - 1 \in T PROVE i \in T
    BY <1>1, <1>2, <1>5, <2>2
  <2>3. 0..n \subseteq T
    <3> HIDE DEF T, n
    <3> QED BY <1>1, <2>1, <2>2, UpToInduction
  <2> QED BY <2>3
<1> QED BY <1>5, <1>6 DEF g, Step

-----------------------------------------------------------------------------
(***************************************************************************)
(* The monitor.  What the request in the line is, as far as it has been    *)
(* read, and what the buffers and the machine hold of it; nothing is said  *)
(* of what earlier requests have left in the rest of them.                 *)
(***************************************************************************)
IsRun(l) ==
    /\ ~l.eof /\ ~Overlong(l.tokens)
    /\ Len(l.tokens) >= 1 /\ l.tokens[1].text = "RUN"
HasCode(l) == IsRun(l) /\ Len(l.tokens) >= 2 /\ IsCode(l.tokens[2])
Instrs(l) == l.tokens[2].hex
Input(l) == [i \in 1..NState |-> Spelled(l.tokens[i + 2].digits)]
WellFormed(l) ==
    /\ HasCode(l) /\ Len(l.tokens) = NState + 2
    /\ \A i \in 1..NState : IsWord(l.tokens[i + 2])
    /\ Input(l)[1] = 0
Course(l, k) == After(Instrs(l), Input(l))[k]
Fetched(l, k) == IF k = Len(Instrs(l)) + 1 THEN Ebreak ELSE Instrs(l)[k]

CodeRead(l, buffer, size) ==
    size = Len(Instrs(l)) /\ \A i \in 1..Len(Instrs(l)) : buffer[i] = Instrs(l)[i]
WordsRead(l, k, st) ==
    /\ Len(l.tokens) >= k + 2
    /\ \A i \in 1..k : IsWord(l.tokens[i + 2]) /\ st[i] = Spelled(l.tokens[i + 2].digits)
Loaded(l, seen, end) ==
    /\ WellFormed(l) /\ Len(Instrs(l)) < SlotWords /\ end = Len(Instrs(l)) + 1
    /\ \A a \in 1..(Len(Instrs(l)) + 1) : seen[a] = Fetched(l, a)
Ran(l, k) ==
    k \in 1..(Len(Instrs(l)) + 1) /\ \A j \in 1..(k - 1) : ~Traps(Instrs(l)[j])
Trapped(l, k, c) ==
    /\ Traps(Fetched(l, k))
    /\ c = [mepc |-> k, mcause |-> Cause(Fetched(l, k)), mtval |-> Value(Fetched(l, k), k)]
Stashed(r, t0, m) == r.s0 = m.s0 /\ t0 = m.t0 /\ r.a0 = m.a0 /\ r.t3 = m.t3
Saved(st, m) == st[1] = 0 /\ st[2] = m.s0 /\ st[3] = m.t0 /\ st[4] = m.a0 /\ st[5] = m.t3
Verdict(c, end) ==
    [cause |-> c.mcause, value |-> c.mtval,
     status |-> IF c.mcause = 3 /\ c.mepc = end THEN 0 ELSE 1]
Kept == [s0 |-> MonitorS0, sp |-> MonitorSP]

\* What a word of the two buffers for code may hold
Cell == STRING \cup { "zero", Torn, Ebreak }

\* The places from the installation of the code on, the trap and its record
Recorded == { "restore", "return", "answer" }
Trapping == { "stash", "snapshot", "record" } \cup Recorded
Testing == { "test" } \cup Trapping
Running == { "execute", "rv32_run" } \cup Testing
Places == { "send_ready", "read_line", "command", "decode_code", "parse_word", "install_code",
            "semihost_exit", "exited" } \cup Running

MonitorTypes ==
    /\ pc \in Places
    /\ line \in Lines /\ cursor \in 0..Len(line.tokens)
    /\ code_buffer \in [1..BufferWords -> Cell] /\ code_size \in 0..BufferWords
    /\ state \in States /\ index \in 1..(NState + 1)
    /\ slot \in [1..SlotWords -> Cell] /\ fetched \in [1..SlotWords -> Cell]
    /\ expected \in 0..SlotWords /\ ip \in 0..SlotWords
    /\ reg \in [s0 : Int, t0 : Int, a0 : Int, t3 : Int, sp : {MonitorSP, ScratchSP, TrapSP}]
    /\ scratch \in [1..NScratch -> Word]
    /\ stash \in Word
    /\ csr \in [mepc : 0..SlotWords, mcause : 0..9, mtval : 0..MaxWord]
    /\ trap \in [cause : 0..9, value : 0..MaxWord, status : {0, 1}]

MonitorRequest ==
    /\ pc = "semihost_exit" => Ends(line)
    /\ pc = "command" => ~line.eof /\ ~Overlong(line.tokens) /\ cursor = 0
    /\ pc = "decode_code" => IsRun(line) /\ cursor = 1
    /\ pc = "parse_word" => /\ HasCode(line) /\ CodeRead(line, code_buffer, code_size)
                            /\ cursor = index + 1 /\ WordsRead(line, index - 1, state)
    /\ pc = "install_code" => WellFormed(line) /\ CodeRead(line, code_buffer, code_size)
    /\ pc \in { "install_code", "execute", "rv32_run" } => state = Input(line)
    /\ pc \in Running => Loaded(line, fetched, expected)

MonitorRun ==
    /\ pc = "rv32_run" => scratch = Fresh(Input(line)).scratch
    /\ pc \in Testing => Ran(line, ip) /\ scratch = Course(line, ip - 1).scratch
    /\ pc \in { "test", "stash" } => reg = Course(line, ip - 1).reg
    /\ pc \in Trapping => Trapped(line, ip, csr)
    /\ pc = "snapshot" => Stashed(reg, stash, Course(line, ip - 1).reg)
    /\ pc \in { "record" } \cup Recorded => Saved(state, Course(line, ip - 1).reg)
    /\ pc \in Recorded => trap = Verdict(csr, expected)
    /\ pc = "return" => reg.a0 = trap.status
    /\ pc = "answer" => \A i \in 1..NScratch : state[NRegs + i] = scratch[i]

MonitorKept ==
    /\ MonitorContext
    /\ pc \in OutsideMonitor => context = Kept
    /\ pc \in { "test", "stash" } => mscratch = TrapSP

MonitorInv == MonitorTypes /\ MonitorRequest /\ MonitorRun /\ MonitorKept

-----------------------------------------------------------------------------
LEMMA LineType ==
  \A l \in Lines : l.tokens \in Seq(TokenType) /\ l.eof \in BOOLEAN /\ (l.eof => l.tokens = << >>)
<1> DEFINE T == TokenType
<1>1. << >> \in Seq(T) /\ Tokens \subseteq Seq(T)
  BY TokensAssumption
<1> HIDE DEF T
<1>2. \A l \in Lines : l.tokens \in Seq(T) /\ l.eof \in BOOLEAN /\ (l.eof => l.tokens = << >>)
  <2> SUFFICES ASSUME NEW l \in Lines
               PROVE  l.tokens \in Seq(T) /\ l.eof \in BOOLEAN /\ (l.eof => l.tokens = << >>)
    OBVIOUS
  <2>1. CASE l = Eof
    BY <1>1, <2>1 DEF Eof
  <2>2. CASE l # Eof
    <3>1. PICK ts \in Tokens : l = [eof |-> FALSE, tokens |-> ts]
      BY <2>2 DEF Lines
    <3> QED BY <1>1, <3>1
  <2> QED BY <2>1, <2>2
<1> QED BY <1>2 DEF T

LEMMA TokenFacts ==
  ASSUME NEW l \in Lines, NEW i \in 1..Len(l.tokens)
  PROVE  /\ l.tokens[i] \in TokenType
         /\ l.tokens[i].hex \in Seq(STRING) /\ l.tokens[i].digits \in Seq(0..9)
<1>1. l.tokens \in Seq(TokenType)
  BY LineType
<1>2. l.tokens[i] \in TokenType
  <2> DEFINE T == TokenType
  <2> HIDE DEF T
  <2>1. l.tokens \in Seq(T)
    BY <1>1 DEF T
  <2>2. l.tokens[i] \in T
    BY <2>1
  <2> QED BY <2>2 DEF T
<1> QED BY <1>2 DEF TokenType

LEMMA MonitorInit == Init => MonitorInv
<1> SUFFICES ASSUME Init PROVE MonitorInv
  OBVIOUS
<1> USE DEF Init
<1>1. MonitorTypes
  <2>1. /\ pc \in Places /\ line \in Lines /\ cursor \in 0..Len(line.tokens)
        /\ code_size \in 0..BufferWords /\ index \in 1..(NState + 1)
        /\ expected \in 0..SlotWords /\ ip \in 0..SlotWords
    BY RunnerAssumption, StateIndex DEF Places, Lines, Eof
  <2>9. \A n : [i \in 1..n |-> "zero"] \in [1..n -> Cell]
    BY DEF Cell
  <2>2. code_buffer \in [1..BufferWords -> Cell]
    BY <2>9
  <2>7. slot \in [1..SlotWords -> Cell]
    BY <2>9
  <2>8. fetched \in [1..SlotWords -> Cell]
    BY <2>7
  <2>3. 0 \in Word
    BY RunnerAssumption DEF Word
  <2>4. state \in States /\ scratch \in [1..NScratch -> Word] /\ stash \in Word
    BY <2>3 DEF States
  <2>5. reg \in [s0 : Int, t0 : Int, a0 : Int, t3 : Int, sp : {MonitorSP, ScratchSP, TrapSP}]
    BY DEF MonitorSP, MonitorS0, ScratchSP, TrapSP
  <2>6. /\ csr \in [mepc : 0..SlotWords, mcause : 0..9, mtval : 0..MaxWord]
        /\ trap \in [cause : 0..9, value : 0..MaxWord, status : {0, 1}]
    BY RunnerAssumption
  <2> QED BY <2>1, <2>2, <2>4, <2>5, <2>6, <2>7, <2>8 DEF MonitorTypes
<1>2. MonitorRequest /\ MonitorRun /\ MonitorKept
  BY DEF MonitorRequest, MonitorRun, MonitorKept, MonitorContext, OutsideMonitor, Running,
         Testing, Trapping, Recorded
<1> QED BY <1>1, <1>2 DEF MonitorInv

LEMMA RefuseStep ==
  ASSUME MonitorInv, MonitorTypes', pc' = "read_line", pc \notin OutsideMonitor, UNCHANGED reg
  PROVE  MonitorInv'
<1>1. MonitorKept'
  BY DEF MonitorInv, MonitorKept, MonitorContext, OutsideMonitor
<1> QED BY <1>1 DEF MonitorInv, MonitorRequest, MonitorRun, Running, Testing, Trapping, Recorded

-----------------------------------------------------------------------------
(* Every step of the monitor preserves the invariant.                      *)

LEMMA SendReadyStep == MonitorInv /\ SendReady => MonitorInv'
<1> SUFFICES ASSUME MonitorInv, SendReady PROVE MonitorInv'
  OBVIOUS
<1> USE DEF SendReady, request, code, transport, machine
<1>1. MonitorTypes'
  BY DEF MonitorInv, MonitorTypes, Places
<1> QED BY <1>1, RefuseStep DEF OutsideMonitor

LEMMA ReadLineStep == MonitorInv /\ ReadLine => MonitorInv'
<1> SUFFICES ASSUME MonitorInv, ReadLine PROVE MonitorInv'
  OBVIOUS
<1> USE DEF ReadLine, code, transport, machine
<1>1. line' \in Lines /\ cursor' = 0
      /\ pc' = IF line'.eof \/ Overlong(line'.tokens) THEN "semihost_exit" ELSE "command"
  OBVIOUS
<1>2. Len(line'.tokens) \in Nat
  <2>1. line'.tokens \in Seq(TokenType)
    BY <1>1, LineType
  <2> QED BY <2>1
<1>3. MonitorTypes'
  BY <1>1, <1>2 DEF MonitorInv, MonitorTypes, Places
<1>4. MonitorRequest' /\ MonitorRun'
  BY <1>1 DEF MonitorRequest, MonitorRun, Ends, Running, Testing, Trapping, Recorded
<1>5. MonitorKept'
  BY <1>1 DEF MonitorInv, MonitorKept, MonitorContext, OutsideMonitor
<1> QED BY <1>3, <1>4, <1>5 DEF MonitorInv

LEMMA CommandStep == MonitorInv /\ Command => MonitorInv'
<1> SUFFICES ASSUME MonitorInv, Command PROVE MonitorInv'
  OBVIOUS
<1> USE DEF code, transport, machine
<1>1. /\ pc = "command" /\ UNCHANGED << line, code, transport, machine >>
      /\ ~line.eof /\ ~Overlong(line.tokens) /\ cursor = 0
      /\ line \in Lines /\ Len(line.tokens) \in Nat
  <2>1. line \in Lines
    BY DEF MonitorInv, MonitorTypes
  <2>2. line.tokens \in Seq(TokenType)
    BY <2>1, LineType
  <2> QED BY <2>1, <2>2 DEF Command, MonitorInv, MonitorRequest
<1>2. MonitorKept'
  BY <1>1 DEF MonitorInv, MonitorKept, MonitorContext, OutsideMonitor, Command, Refuse
<1>3. CASE pc' = "read_line"
  <2>1. cursor' \in 0..Len(line.tokens)
    BY <1>1, <1>3 DEF Command, More
  <2>2. MonitorTypes'
    BY <1>1, <1>3, <2>1 DEF MonitorInv, MonitorTypes, Places
  <2> QED BY <1>1, <1>3, <2>2, RefuseStep DEF OutsideMonitor
<1>4. CASE pc' # "read_line"
  <2>1. More /\ cursor' = 1
        /\ \/ line.tokens[1].text = "QUIT" /\ pc' = "semihost_exit"
           \/ line.tokens[1].text = "RUN" /\ pc' = "decode_code"
    BY <1>1, <1>4 DEF Command, Refuse, Is, Token
  <2>2. MonitorTypes'
    BY <1>1, <2>1 DEF MonitorInv, MonitorTypes, Places, More
  <2>3. Len(line.tokens) >= 1
    BY <1>1, <2>1 DEF More
  <2>4. MonitorRequest' /\ MonitorRun'
    BY <1>1, <2>1, <2>3
       DEF MonitorRequest, MonitorRun, Ends, IsRun, Running, Testing, Trapping, Recorded
  <2> QED BY <1>2, <2>2, <2>4 DEF MonitorInv
<1> QED BY <1>3, <1>4

LEMMA LeastElement ==
  \A n \in Nat : \A S \in SUBSET (1..n) : S # {} => \E i \in S : \A j \in S : i <= j
<1> DEFINE T == { n \in Nat : \A S \in SUBSET (1..n) : S # {} => \E i \in S : \A j \in S : i <= j }
<1>1. 0 \in T
  <2>1. 1..0 = {}
    OBVIOUS
  <2> QED BY <2>1
<1>2. ASSUME NEW n \in Nat, n \in T PROVE n + 1 \in T
  <2> SUFFICES ASSUME NEW S \in SUBSET (1..(n + 1)), S # {}
               PROVE  \E i \in S : \A j \in S : i <= j
    OBVIOUS
  <2>1. CASE S \cap (1..n) = {}
    <3>1. \A i \in S : i = n + 1
      BY <2>1
    <3>2. PICK i \in S : i = n + 1
      BY <3>1
    <3> QED BY <3>1, <3>2
  <2>2. CASE S \cap (1..n) # {}
    <3>1. PICK i \in S \cap (1..n) : \A j \in S \cap (1..n) : i <= j
      <4> DEFINE U == S \cap (1..n)
      <4>1. U \in SUBSET (1..n) /\ U # {}
        BY <2>2
      <4> HIDE DEF U
      <4>2. \E i \in U : \A j \in U : i <= j
        BY <1>2, <4>1
      <4> QED BY <4>2 DEF U
    <3>2. \A j \in S : j \in 1..n \/ j = n + 1
      OBVIOUS
    <3> QED BY <3>1, <3>2
  <2> QED BY <2>1, <2>2
<1>3. Nat \subseteq T
  <2> HIDE DEF T
  <2> QED BY <1>1, <1>2, NaturalAssumptions, NaturalFacts!SetInduction
<1> QED BY <1>3

LEMMA DecodableFacts ==
  ASSUME NEW hex \in Seq(STRING)
  PROVE  /\ Decodable(hex) \in 0..Len(hex)
         /\ Decodable(hex) = Len(hex) <=> BadDigit \notin Range(hex)
<1> DEFINE bad == { i \in 1..Len(hex) : hex[i] = BadDigit }
<1>1. Len(hex) \in Nat /\ Range(hex) = { hex[i] : i \in 1..Len(hex) }
  BY DEF Range
<1>2. bad = {} <=> BadDigit \notin Range(hex)
  BY <1>1
<1>3. CASE bad = {}
  BY <1>1, <1>2, <1>3 DEF Decodable
<1>4. CASE bad # {}
  <2>1. \E i \in bad : \A j \in bad : i <= j
    <3>1. bad \in SUBSET (1..Len(hex))
      OBVIOUS
    <3> HIDE DEF bad
    <3> QED BY <1>1, <1>4, <3>1, LeastElement
  <2>2. Decodable(hex) = (CHOOSE i \in bad : \A j \in bad : i <= j) - 1
    BY <1>4 DEF Decodable
  <2>3. PICK i \in 1..Len(hex) : Decodable(hex) = i - 1
    BY <2>1, <2>2
  <2> HIDE DEF bad
  <2> QED BY <1>1, <1>2, <1>4, <2>3
<1> QED BY <1>3, <1>4

LEMMA DecodeCodeStep == MonitorInv /\ DecodeCode => MonitorInv'
<1> SUFFICES ASSUME MonitorInv, DecodeCode PROVE MonitorInv'
  OBVIOUS
<1> USE DEF machine
<1>1. /\ pc = "decode_code" /\ IsRun(line) /\ cursor = 1 /\ line \in Lines
      /\ index' = 1 /\ UNCHANGED << line, state, slot, fetched, expected, machine >>
  BY DEF DecodeCode, MonitorInv, MonitorRequest, MonitorTypes
<1>2. Len(line.tokens) \in Nat /\ BufferWords \in Nat
  <2>1. line.tokens \in Seq(TokenType)
    BY <1>1, LineType
  <2> QED BY <2>1, RunnerAssumption
<1>3. 1 \in 1..(NState + 1)
  BY StateIndex
<1>4. CASE ~More
  <2>1. pc' = "read_line" /\ UNCHANGED << cursor, code_buffer, code_size >>
    BY <1>1, <1>4 DEF DecodeCode, Refuse
  <2>2. MonitorTypes'
    BY <1>1, <1>3, <2>1 DEF MonitorInv, MonitorTypes, Places
  <2> QED BY <1>1, <2>1, <2>2, RefuseStep DEF OutsideMonitor
<1>5. CASE More
  <2> DEFINE hex == line.tokens[2].hex
  <2>1. Len(line.tokens) >= 2 /\ Token = line.tokens[2] /\ 2 \in 1..Len(line.tokens)
    BY <1>1, <1>2, <1>5 DEF More, Token
  <2>2. hex \in Seq(STRING)
    BY <1>1, <2>1, TokenFacts
  <2>3. Decodable(hex) \in 0..Len(hex) /\ (Decodable(hex) = Len(hex) <=> BadDigit \notin Range(hex))
    BY <2>2, DecodableFacts
  <2>4. Len(hex) \in Nat /\ \A i \in 1..Len(hex) : hex[i] \in STRING
    BY <2>2
  <2>5. cursor' = 2 /\ cursor' \in 0..Len(line.tokens)
    BY <1>1, <1>2, <1>5, <2>1 DEF DecodeCode
  <2>6. CASE hex = << >> \/ Len(hex) > BufferWords
    <3>1. pc' = "read_line" /\ UNCHANGED << code_buffer, code_size >>
      BY <1>2, <1>5, <2>1, <2>4, <2>6 DEF DecodeCode, Refuse
    <3>2. MonitorTypes'
      <4> HIDE DEF hex
      <4> QED BY <1>1, <1>3, <2>5, <3>1 DEF MonitorInv, MonitorTypes, Places
    <3> QED BY <1>1, <3>1, <3>2, RefuseStep DEF OutsideMonitor
  <2>7. CASE hex # << >> /\ Len(hex) <= BufferWords
    <3> DEFINE n == Decodable(hex)
    <3>1. /\ code_buffer' = [i \in 1..BufferWords |->
                               IF i <= n THEN hex[i]
                               ELSE IF i = n + 1 /\ n < Len(hex) THEN Torn
                               ELSE code_buffer[i]]
          /\ IF n < Len(hex) THEN pc' = "read_line" /\ UNCHANGED code_size
             ELSE code_size' = Len(hex) /\ pc' = "parse_word"
      BY <1>2, <1>5, <2>1, <2>4, <2>7 DEF DecodeCode, Refuse
    <3>2. n \in Nat /\ n <= Len(hex)
      BY <2>3, <2>4
    <3> HIDE DEF n
    <3>3. code_buffer' \in [1..BufferWords -> Cell]
      <4>1. \A i \in 1..BufferWords : i <= n => i \in 1..Len(hex)
        BY <1>2, <2>4, <3>2
      <4>2. \A i \in 1..BufferWords : code_buffer[i] \in Cell
        BY DEF MonitorInv, MonitorTypes
      <4> HIDE DEF hex
      <4> QED BY <2>4, <3>1, <4>1, <4>2 DEF Cell
    <3>4. MonitorTypes'
      <4>1. pc' \in Places /\ code_size' \in 0..BufferWords
        <5>1. code_size \in 0..BufferWords
          BY DEF MonitorInv, MonitorTypes
        <5>2. pc' \in {"read_line", "parse_word"} /\ code_size' \in {code_size, Len(hex)}
          BY <3>1
        <5> HIDE DEF hex
        <5> QED BY <1>2, <2>4, <2>7, <5>1, <5>2 DEF Places
      <4> HIDE DEF hex
      <4> QED BY <1>1, <1>3, <2>5, <3>3, <4>1 DEF MonitorInv, MonitorTypes
    <3>5. CASE n < Len(hex)
      BY <1>1, <3>1, <3>4, <3>5, RefuseStep DEF OutsideMonitor
    <3>6. CASE ~(n < Len(hex))
      <4>1. n = Len(hex) /\ pc' = "parse_word" /\ code_size' = Len(hex)
        BY <2>4, <3>1, <3>2, <3>6
      <4>2. HasCode(line)
        BY <1>1, <2>1, <2>3, <2>7, <4>1 DEF HasCode, IsCode, n
      <4>3. CodeRead(line, code_buffer', code_size')
        BY <1>2, <2>4, <2>7, <3>1, <4>1 DEF CodeRead, Instrs
      <4>4. WordsRead(line, 0, state)
        BY <2>1 DEF WordsRead
      <4>5. MonitorRequest' /\ MonitorRun'
        <5> HIDE DEF hex
        <5> QED BY <1>1, <2>5, <4>1, <4>2, <4>3, <4>4
                DEF MonitorRequest, MonitorRun, Running, Testing, Trapping, Recorded
      <4>6. MonitorKept'
        BY <1>1, <4>1 DEF MonitorInv, MonitorKept, MonitorContext, OutsideMonitor
      <4> QED BY <3>4, <4>5, <4>6 DEF MonitorInv
    <3> QED BY <3>5, <3>6
  <2> QED BY <1>2, <2>4, <2>6, <2>7
<1> QED BY <1>4, <1>5

LEMMA ParsedToken ==
  ASSUME NEW t \in TokenType
  PROVE  /\ Spelled(t.digits) \in Nat
         /\ ParseU32(t.digits) # NotAWord <=> IsWord(t)
         /\ IsWord(t) => ParseU32(t.digits) = Spelled(t.digits) /\ Spelled(t.digits) \in Word
<1>1. t.digits \in Seq(0..9)
  BY DEF TokenType
<1>2. Spelled(t.digits) \in Nat
  <2>1. PICK f \in [0..Len(t.digits) -> Nat] : Spelled(t.digits) = f[Len(t.digits)]
    BY <1>1, Spelling
  <2>2. Len(t.digits) \in 0..Len(t.digits)
    BY <1>1
  <2> QED BY <2>1, <2>2
<1>3. ParseU32(t.digits) = IF t.digits = << >> THEN NotAWord ELSE Capped(Spelled(t.digits))
  BY <1>1, ParseCorrect
<1> QED BY <1>2, <1>3, RunnerAssumption DEF IsWord, Capped, NotAWord, Word

LEMMA ParseWordStep == MonitorInv /\ ParseWord => MonitorInv'
<1> SUFFICES ASSUME MonitorInv, ParseWord PROVE MonitorInv'
  OBVIOUS
<1> USE DEF machine, code
<1>1. /\ pc = "parse_word" /\ HasCode(line) /\ CodeRead(line, code_buffer, code_size)
      /\ cursor = index + 1 /\ WordsRead(line, index - 1, state)
      /\ index \in 1..(NState + 1) /\ index <= NState /\ line \in Lines /\ state \in States
      /\ cursor \in 0..Len(line.tokens) /\ UNCHANGED << line, code, machine >>
  BY DEF ParseWord, MonitorInv, MonitorRequest, MonitorTypes
<1>2. Len(line.tokens) \in Nat
  <2>1. line.tokens \in Seq(TokenType)
    BY <1>1, LineType
  <2> QED BY <2>1
<1>3. CASE More /\ ParseU32(Token.digits) # NotAWord
  <2>1. /\ cursor' = cursor + 1 /\ state' = [state EXCEPT ![index] = ParseU32(Token.digits)]
        /\ index' = index + 1 /\ pc' = pc
    BY <1>3 DEF ParseWord
  <2>2. Token = line.tokens[index + 2] /\ index + 2 \in 1..Len(line.tokens)
    BY <1>1, <1>2, <1>3, StateIndex DEF More, Token
  <2>3. Token \in TokenType
    BY <1>1, <2>2, TokenFacts
  <2>4. IsWord(Token) /\ ParseU32(Token.digits) = Spelled(Token.digits)
        /\ Spelled(Token.digits) \in Word
    BY <1>3, <2>3, ParsedToken
  <2>5. index \in 1..NState /\ index + 1 \in 1..(NState + 1)
    BY <1>1, StateIndex
  <2>6. state' \in States /\ state'[index] = Spelled(Token.digits)
        /\ \A i \in 1..NState : i # index => state'[i] = state[i]
    <3> HIDE DEF NState
    <3> QED BY <1>1, <2>1, <2>4, <2>5 DEF States
  <2>7. MonitorTypes'
    <3>1. cursor' \in 0..Len(line.tokens)
      BY <1>1, <1>2, <2>1, <2>2, StateIndex
    <3> QED BY <1>1, <2>1, <2>5, <2>6, <3>1 DEF MonitorInv, MonitorTypes
  <2>8. WordsRead(line, index, state')
    <3>1. Len(line.tokens) >= index + 2
      BY <1>2, <2>2
    <3>2. ASSUME NEW i \in 1..index
          PROVE  IsWord(line.tokens[i + 2]) /\ state'[i] = Spelled(line.tokens[i + 2].digits)
      <4>1. CASE i = index
        BY <2>2, <2>4, <2>6, <4>1
      <4>2. CASE i # index
        <5>1. i \in 1..(index - 1) /\ i \in 1..NState
          BY <1>1, <4>2, StateIndex
        <5> QED BY <1>1, <2>6, <4>2, <5>1 DEF WordsRead
      <4> QED BY <4>1, <4>2
    <3> QED BY <3>1, <3>2 DEF WordsRead
  <2>9. MonitorRequest' /\ MonitorRun'
    <3>1. cursor' = index' + 1 /\ index' - 1 = index
      BY <1>1, <2>1, StateIndex
    <3> QED BY <1>1, <2>1, <2>8, <3>1
            DEF MonitorRequest, MonitorRun, Running, Testing, Trapping, Recorded
  <2>10. MonitorKept'
    BY <1>1, <2>1 DEF MonitorInv, MonitorKept, MonitorContext, OutsideMonitor
  <2> QED BY <2>7, <2>9, <2>10 DEF MonitorInv
<1>4. CASE ~(More /\ ParseU32(Token.digits) # NotAWord)
  <2>1. pc' = "read_line" /\ UNCHANGED << cursor, state, index >>
    BY <1>4 DEF ParseWord, Refuse
  <2>2. MonitorTypes'
    BY <1>1, <2>1 DEF MonitorInv, MonitorTypes, Places
  <2> QED BY <1>1, <2>1, <2>2, RefuseStep DEF OutsideMonitor
<1> QED BY <1>3, <1>4

LEMMA CheckRequestStep == MonitorInv /\ CheckRequest => MonitorInv'
<1> SUFFICES ASSUME MonitorInv, CheckRequest PROVE MonitorInv'
  OBVIOUS
<1> USE DEF request, code, transport, machine
<1>1. /\ pc = "parse_word" /\ HasCode(line) /\ CodeRead(line, code_buffer, code_size)
      /\ cursor = index + 1 /\ WordsRead(line, index - 1, state) /\ index = NState + 1
      /\ line \in Lines /\ state \in States
      /\ cursor \in 0..Len(line.tokens) /\ UNCHANGED << request, code, transport, machine >>
  BY DEF CheckRequest, MonitorInv, MonitorRequest, MonitorTypes
<1>2. Len(line.tokens) \in Nat /\ NState \in Nat /\ index - 1 = NState
  <2>1. line.tokens \in Seq(TokenType)
    BY <1>1, LineType
  <2> QED BY <1>1, <2>1, StateIndex
<1>3. CASE pc' = "read_line"
  <2>1. MonitorTypes'
    BY <1>1, <1>3 DEF MonitorInv, MonitorTypes, Places
  <2> QED BY <1>1, <1>3, <2>1, RefuseStep DEF OutsideMonitor
<1>4. CASE pc' # "read_line"
  <2>1. ~More /\ state[1] = 0 /\ pc' = "install_code"
    BY <1>4 DEF CheckRequest, Refuse
  <2>2. WordsRead(line, NState, state)
    BY <1>1, <1>2
  <2>3. state = Input(line)
    <3>1. \A i \in 1..NState : state[i] = Spelled(line.tokens[i + 2].digits)
      BY <2>2 DEF WordsRead
    <3> HIDE DEF NState
    <3> QED BY <1>1, <3>1 DEF Input, States
  <2>4. WellFormed(line)
    <3>1. Len(line.tokens) = NState + 2
      BY <1>1, <1>2, <2>1, <2>2 DEF More, WordsRead
    <3> QED BY <1>1, <2>1, <2>2, <2>3, <3>1 DEF WellFormed, WordsRead
  <2>5. MonitorTypes'
    BY <1>1, <2>1 DEF MonitorInv, MonitorTypes, Places
  <2>6. MonitorRequest' /\ MonitorRun'
    BY <1>1, <2>1, <2>3, <2>4
       DEF MonitorRequest, MonitorRun, Running, Testing, Trapping, Recorded
  <2>7. MonitorKept'
    BY <1>1, <2>1 DEF MonitorInv, MonitorKept, MonitorContext, OutsideMonitor
  <2> QED BY <2>5, <2>6, <2>7 DEF MonitorInv
<1> QED BY <1>3, <1>4

LEMMA InstallCodeStep == MonitorInv /\ InstallCode => MonitorInv'
<1> SUFFICES ASSUME MonitorInv, InstallCode PROVE MonitorInv'
  OBVIOUS
<1> USE DEF request, transport, machine
<1>1. /\ pc = "install_code" /\ WellFormed(line) /\ CodeRead(line, code_buffer, code_size)
      /\ state = Input(line) /\ line \in Lines /\ code_size \in 0..BufferWords
      /\ slot \in [1..SlotWords -> Cell] /\ code_buffer \in [1..BufferWords -> Cell]
      /\ UNCHANGED << request, code_buffer, code_size, transport, machine >>
  BY DEF InstallCode, MonitorInv, MonitorRequest, MonitorTypes
<1>2. BufferWords \in Nat /\ SlotWords \in Nat /\ code_size \in Nat
  BY <1>1, RunnerAssumption
<1>3. CASE code_size + 1 > SlotWords
  <2>1. pc' = "read_line" /\ UNCHANGED << slot, fetched, expected >>
    BY <1>2, <1>3 DEF InstallCode, Refuse
  <2>2. MonitorTypes'
    BY <1>1, <2>1 DEF MonitorInv, MonitorTypes, Places
  <2> QED BY <1>1, <2>1, <2>2, RefuseStep DEF OutsideMonitor
<1>4. CASE ~(code_size + 1 > SlotWords)
  <2>1. /\ slot' = Installed /\ fetched' = Installed /\ expected' = code_size + 1
        /\ pc' = "execute"
    BY <1>2, <1>4 DEF InstallCode
  <2>2. Installed \in [1..SlotWords -> Cell]
    <3>1. \A a \in 1..SlotWords : Installed[a] \in Cell
      <4>1. \A a \in 1..SlotWords : slot[a] \in Cell
        BY <1>1
      <4>2. \A a \in 1..SlotWords : a <= code_size => code_buffer[a] \in Cell
        BY <1>1, <1>2
      <4>3. Ebreak \in Cell
        BY DEF Cell
      <4> QED BY <4>1, <4>2, <4>3 DEF Installed
    <3>2. Installed = [a \in 1..SlotWords |-> Installed[a]]
      BY DEF Installed
    <3> QED BY <3>1, <3>2
  <2>3. code_size = Len(Instrs(line)) /\ \A i \in 1..code_size : code_buffer[i] = Instrs(line)[i]
    BY <1>1 DEF CodeRead
  <2>4. Loaded(line, fetched', expected')
    <3>1. ASSUME NEW a \in 1..(code_size + 1) PROVE Installed[a] = Fetched(line, a)
      <4>1. a \in 1..SlotWords
        BY <1>2, <1>4
      <4> QED BY <1>2, <2>3, <4>1 DEF Installed, Fetched
    <3>2. code_size < SlotWords
      BY <1>2, <1>4
    <3> QED BY <1>1, <2>1, <2>3, <3>1, <3>2 DEF Loaded
  <2>5. MonitorTypes'
    <3>1. expected' \in 0..SlotWords
      BY <1>2, <1>4, <2>1
    <3> QED BY <1>1, <2>1, <2>2, <3>1 DEF MonitorInv, MonitorTypes, Places, Running
  <2>6. MonitorRequest' /\ MonitorRun'
    BY <1>1, <2>1, <2>4 DEF MonitorRequest, MonitorRun, Testing, Trapping, Recorded
  <2>7. MonitorKept'
    BY <1>1, <2>1 DEF MonitorInv, MonitorKept, MonitorContext, OutsideMonitor
  <2> QED BY <2>5, <2>6, <2>7 DEF MonitorInv
<1> QED BY <1>3, <1>4

LEMMA LoadScratchStep == MonitorInv /\ LoadScratch => MonitorInv'
<1> SUFFICES ASSUME MonitorInv, LoadScratch PROVE MonitorInv'
  OBVIOUS
<1> USE DEF request, code, transport
<1>1. /\ pc = "execute" /\ state = Input(line) /\ Loaded(line, fetched, expected)
      /\ scratch' = [i \in 1..NScratch |-> state[NRegs + i]] /\ pc' = "rv32_run"
      /\ UNCHANGED << request, code, transport, ip, reg, context, mscratch, stash, csr, trap >>
  BY DEF LoadScratch, MonitorInv, MonitorRequest, Running
<1>2. scratch' = Fresh(Input(line)).scratch
  BY <1>1 DEF Fresh
<1>3. state \in States
  BY DEF MonitorInv, MonitorTypes
<1>4. scratch' \in [1..NScratch -> Word]
  BY <1>1, <1>3, StateIndex DEF States
<1>5. MonitorTypes'
  BY <1>1, <1>4 DEF MonitorInv, MonitorTypes, Places, Running
<1>6. MonitorRequest' /\ MonitorRun'
  BY <1>1, <1>2 DEF MonitorRequest, MonitorRun, Testing, Trapping, Recorded
<1>7. MonitorKept'
  BY <1>1 DEF MonitorInv, MonitorKept, MonitorContext, OutsideMonitor
<1> QED BY <1>5, <1>6, <1>7 DEF MonitorInv

\* The code of a request, and the state it starts from.
LEMMA RequestTypes ==
  ASSUME NEW l \in Lines, WellFormed(l)
  PROVE  /\ Instrs(l) \in Seq(STRING) /\ Len(Instrs(l)) \in Nat \ {0}
         /\ Input(l) \in States
<1>1. Len(l.tokens) = NState + 2 /\ IsCode(l.tokens[2]) /\ \A i \in 1..NState : IsWord(l.tokens[i + 2])
  BY DEF WellFormed, HasCode
<1>2. ASSUME NEW i \in 2..(NState + 2) PROVE l.tokens[i] \in TokenType
  <2>1. i \in 1..Len(l.tokens)
    BY <1>1, StateIndex
  <2> QED BY <2>1, TokenFacts
<1>3. Instrs(l) \in Seq(STRING) /\ Instrs(l) # << >>
  <2>1. 2 \in 2..(NState + 2)
    BY StateIndex
  <2>2. l.tokens[2] \in TokenType
    BY <1>2, <2>1
  <2> QED BY <1>1, <2>2 DEF Instrs, IsCode, TokenType
<1>4. ASSUME NEW i \in 1..NState PROVE Spelled(l.tokens[i + 2].digits) \in Word
  <2>1. i + 2 \in 2..(NState + 2)
    BY StateIndex
  <2>2. l.tokens[i + 2] \in TokenType /\ IsWord(l.tokens[i + 2])
    BY <1>1, <1>2, <2>1
  <2> QED BY <2>2, ParsedToken
<1>5. Input(l) \in States
  BY <1>4 DEF Input, States
<1> QED BY <1>3, <1>5

LEMMA CourseFacts ==
  ASSUME NEW l \in Lines, WellFormed(l)
  PROVE  /\ Course(l, 0) = Fresh(Input(l))
         /\ \A i \in 1..Len(Instrs(l)) :
               Course(l, i) = IF Traps(Instrs(l)[i]) THEN Course(l, i - 1)
                              ELSE Execute(Instrs(l)[i], Course(l, i - 1))
         /\ \A i \in 0..Len(Instrs(l)) : Course(l, i) \in Machines
<1>1. Instrs(l) \in Seq(STRING) /\ Input(l) \in States
  BY RequestTypes
<1> QED BY <1>1, AfterStep DEF Course

LEMMA Rv32RunStep == MonitorInv /\ Rv32Run => MonitorInv'
<1> SUFFICES ASSUME MonitorInv, Rv32Run PROVE MonitorInv'
  OBVIOUS
<1> USE DEF request, code, transport
<1>1. /\ pc = "rv32_run" /\ state = Input(line) /\ Loaded(line, fetched, expected)
      /\ scratch = Fresh(Input(line)).scratch /\ line \in Lines /\ state \in States
      /\ MonitorContext
  BY DEF Rv32Run, MonitorInv, MonitorRequest, MonitorRun, MonitorTypes, MonitorKept, Running
<1>2. /\ context' = SaveMonitorContext(reg) /\ mscratch' = TrapSP
      /\ reg' = LoadTransportState(state) /\ ip' = 1 /\ pc' = "test"
      /\ UNCHANGED << request, code, transport, scratch, stash, csr, trap >>
  BY DEF Rv32Run
<1>3. WellFormed(line)
  BY <1>1 DEF Loaded
<1>4. Course(line, 0) = Fresh(Input(line)) /\ Len(Instrs(line)) \in Nat \ {0}
  BY <1>1, <1>3, CourseFacts, RequestTypes
<1>5. reg' = Course(line, 0).reg /\ scratch' = Course(line, 0).scratch
  <2>1. LoadTransportState(state) = Fresh(state).reg
    BY DEF LoadTransportState, Fresh
  <2> QED BY <1>1, <1>2, <1>4, <2>1
<1>6. context' = Kept
  BY <1>1, <1>2 DEF SaveMonitorContext, MonitorContext, OutsideMonitor, Kept
<1>7. Ran(line, 1)
  BY <1>4 DEF Ran
<1>8. MonitorTypes'
  <2>1. Course(line, 0) \in Machines
    BY <1>1, <1>3, <1>4, CourseFacts
  <2>2. reg' \in Transported
    BY <1>5, <2>1 DEF Machines
  <2>3. reg' \in [s0 : Int, t0 : Int, a0 : Int, t3 : Int, sp : {MonitorSP, ScratchSP, TrapSP}]
    BY <2>2 DEF Transported, Word
  <2>4. ip' \in 0..SlotWords
    BY <1>2, RunnerAssumption
  <2> QED BY <1>2, <2>3, <2>4 DEF MonitorInv, MonitorTypes, Places, Running, Testing
<1>9. MonitorRequest' /\ MonitorRun'
  <2>1. ip' - 1 = 0
    BY <1>2
  <2> QED BY <1>1, <1>2, <1>5, <1>7, <2>1
          DEF MonitorRequest, MonitorRun, Running, Testing, Trapping, Recorded
<1>10. MonitorKept'
  BY <1>2, <1>6 DEF MonitorInv, MonitorKept, MonitorContext, OutsideMonitor
<1> QED BY <1>8, <1>9, <1>10 DEF MonitorInv

\* What the monitor fetches is the request's code and the ebreak behind it.
LEMMA FetchFacts ==
  ASSUME MonitorInv, pc = "test"
  PROVE  /\ line \in Lines /\ WellFormed(line)
         /\ expected = Len(Instrs(line)) + 1 /\ expected \in 1..SlotWords
         /\ ip \in 1..expected /\ Fetch(ip) = Fetched(line, ip)
         /\ Course(line, ip - 1) \in Machines
         /\ Course(line, ip - 1) = [reg |-> reg, scratch |-> scratch]
<1>1. /\ line \in Lines /\ Loaded(line, fetched, expected) /\ Ran(line, ip)
      /\ scratch = Course(line, ip - 1).scratch /\ reg = Course(line, ip - 1).reg
  BY DEF MonitorInv, MonitorTypes, MonitorRequest, MonitorRun, Running, Testing
<1>2. WellFormed(line) /\ expected = Len(Instrs(line)) + 1 /\ Len(Instrs(line)) < SlotWords
      /\ \A a \in 1..(Len(Instrs(line)) + 1) : fetched[a] = Fetched(line, a)
  BY <1>1 DEF Loaded
<1>3. Len(Instrs(line)) \in Nat \ {0}
  BY <1>1, <1>2, RequestTypes
<1>4. SlotWords \in Nat
  BY RunnerAssumption
<1>5. ip \in 1..expected /\ expected \in 1..SlotWords
  BY <1>1, <1>2, <1>3, <1>4 DEF Ran
<1>6. Fetch(ip) = Fetched(line, ip)
  BY <1>2, <1>3, <1>4, <1>5 DEF Fetch
<1>7. Course(line, ip - 1) \in Machines
  <2>1. ip - 1 \in 0..Len(Instrs(line))
    BY <1>2, <1>3, <1>5
  <2> QED BY <1>1, <1>2, <2>1, CourseFacts
<1>8. Course(line, ip - 1) = [reg |-> Course(line, ip - 1).reg,
                              scratch |-> Course(line, ip - 1).scratch]
  BY <1>7 DEF Machines
<1> QED BY <1>1, <1>2, <1>5, <1>6, <1>7, <1>8

LEMMA TestStepStep == MonitorInv /\ TestStep => MonitorInv'
<1> SUFFICES ASSUME MonitorInv, TestStep PROVE MonitorInv'
  OBVIOUS
<1> USE DEF request, code, transport
<1> DEFINE m == [reg |-> reg, scratch |-> scratch]
<1>1. /\ pc = "test" /\ ~Traps(Fetch(ip)) /\ ip' = ip + 1
      /\ reg' = Execute(Fetch(ip), m).reg /\ scratch' = Execute(Fetch(ip), m).scratch
      /\ UNCHANGED << pc, request, code, transport, context, mscratch, stash, csr, trap >>
  BY DEF TestStep
<1>2. /\ line \in Lines /\ WellFormed(line) /\ expected = Len(Instrs(line)) + 1
      /\ expected \in 1..SlotWords /\ ip \in 1..expected /\ Fetch(ip) = Fetched(line, ip)
      /\ Course(line, ip - 1) = m
  BY <1>1, FetchFacts
<1> HIDE DEF m
<1>3. Loaded(line, fetched, expected) /\ Ran(line, ip)
  BY <1>1 DEF MonitorInv, MonitorRequest, MonitorRun, Running, Testing
<1>4. Len(Instrs(line)) \in Nat \ {0}
  BY <1>2, RequestTypes
<1>5. ip \in 1..Len(Instrs(line)) /\ Fetch(ip) = Instrs(line)[ip]
  <2>1. Traps(Ebreak)
    BY DEF Traps
  <2>2. ip # Len(Instrs(line)) + 1
    BY <1>1, <1>2, <2>1 DEF Fetched
  <2> QED BY <1>2, <1>4, <2>2 DEF Fetched
<1>6. Course(line, ip) = Execute(Fetch(ip), m) /\ Course(line, ip) \in Machines
  <2>1. ip \in 0..Len(Instrs(line))
    BY <1>4, <1>5
  <2> QED BY <1>1, <1>2, <1>5, <2>1, CourseFacts
<1>7. ip' - 1 = ip /\ ip' \in 1..(Len(Instrs(line)) + 1)
  BY <1>1, <1>4, <1>5
<1>8. Ran(line, ip')
  <2>1. ASSUME NEW j \in 1..(ip' - 1) PROVE ~Traps(Instrs(line)[j])
    <3>1. j \in 1..(ip - 1) \/ j = ip
      <4>1. ip \in Int
        BY <1>4, <1>5
      <4>2. j \in 1..ip
        BY <1>7
      <4> QED BY <4>1, <4>2
    <3> QED BY <1>1, <1>3, <1>5, <3>1 DEF Ran
  <2> QED BY <1>7, <2>1 DEF Ran
<1>9. MonitorTypes'
  <2>1. Course(line, ip).reg \in Transported /\ scratch' \in [1..NScratch -> Word]
    BY <1>1, <1>6 DEF Machines
  <2>2. reg' \in [s0 : Int, t0 : Int, a0 : Int, t3 : Int, sp : {MonitorSP, ScratchSP, TrapSP}]
    BY <1>1, <1>6, <2>1 DEF Transported, Word
  <2>3. ip' \in 0..SlotWords
    BY <1>2, <1>4, <1>7, RunnerAssumption
  <2> QED BY <1>1, <2>1, <2>2, <2>3 DEF MonitorInv, MonitorTypes
<1>10. MonitorRequest' /\ MonitorRun'
  BY <1>1, <1>3, <1>6, <1>7, <1>8
     DEF MonitorRequest, MonitorRun, Running, Testing, Trapping, Recorded
<1>11. MonitorKept'
  BY <1>1 DEF MonitorInv, MonitorKept, MonitorContext, OutsideMonitor
<1> QED BY <1>9, <1>10, <1>11 DEF MonitorInv

LEMMA TestTrapStep == MonitorInv /\ TestTrap => MonitorInv'
<1> SUFFICES ASSUME MonitorInv, TestTrap PROVE MonitorInv'
  OBVIOUS
<1> USE DEF request, code, transport
<1>1. /\ pc = "test" /\ Traps(Fetch(ip)) /\ pc' = "stash"
      /\ csr' = [mepc |-> ip, mcause |-> Cause(Fetch(ip)), mtval |-> Value(Fetch(ip), ip)]
      /\ UNCHANGED << request, code, transport, ip, reg, scratch, context, mscratch, stash,
                      trap >>
  BY DEF TestTrap
<1>2. /\ line \in Lines /\ expected \in 1..SlotWords /\ ip \in 1..expected
      /\ Fetch(ip) = Fetched(line, ip)
  BY <1>1, FetchFacts
<1>3. Trapped(line, ip, csr')
  BY <1>1, <1>2 DEF Trapped
<1>4. MonitorTypes'
  <2>1. ip \in 0..SlotWords /\ ip \in 0..MaxWord /\ 0 \in 0..MaxWord
    BY <1>2, RunnerAssumption
  <2>2. csr' \in [mepc : 0..SlotWords, mcause : 0..9, mtval : 0..MaxWord]
    BY <1>1, <2>1 DEF Cause, Value
  <2> QED BY <1>1, <2>2 DEF MonitorInv, MonitorTypes, Places, Running, Testing, Trapping
<1>5. /\ Loaded(line, fetched, expected) /\ Ran(line, ip) /\ reg = Course(line, ip - 1).reg
      /\ scratch = Course(line, ip - 1).scratch /\ context = Kept /\ mscratch = TrapSP
  BY <1>1 DEF MonitorInv, MonitorRequest, MonitorRun, MonitorKept, Running, Testing,
              OutsideMonitor
<1>6. MonitorRequest' /\ MonitorRun'
  BY <1>1, <1>3, <1>5 DEF MonitorRequest, MonitorRun, Recorded
<1>7. MonitorKept'
  BY <1>1, <1>5 DEF MonitorKept, MonitorContext, OutsideMonitor
<1> QED BY <1>4, <1>6, <1>7 DEF MonitorInv

LEMMA TrappingFacts ==
  ASSUME MonitorInv, pc \in Trapping
  PROVE  /\ line \in Lines /\ WellFormed(line) /\ Loaded(line, fetched, expected)
         /\ Ran(line, ip) /\ scratch = Course(line, ip - 1).scratch /\ Trapped(line, ip, csr)
         /\ Course(line, ip - 1) \in Machines /\ ip \in 1..SlotWords
         /\ expected = Len(Instrs(line)) + 1
<1>1. /\ line \in Lines /\ Loaded(line, fetched, expected) /\ Ran(line, ip)
      /\ scratch = Course(line, ip - 1).scratch /\ Trapped(line, ip, csr)
  BY DEF MonitorInv, MonitorTypes, MonitorRequest, MonitorRun, Running, Testing
<1>2. WellFormed(line) /\ Len(Instrs(line)) < SlotWords /\ expected = Len(Instrs(line)) + 1
  BY <1>1 DEF Loaded
<1>3. Len(Instrs(line)) \in Nat \ {0}
  BY <1>1, <1>2, RequestTypes
<1>4. ip - 1 \in 0..Len(Instrs(line)) /\ ip \in 1..SlotWords
  BY <1>1, <1>2, <1>3, RunnerAssumption DEF Ran
<1>5. Course(line, ip - 1) \in Machines
  BY <1>1, <1>2, <1>4, CourseFacts
<1> QED BY <1>1, <1>2, <1>4, <1>5

LEMMA StashStep == MonitorInv /\ Stash => MonitorInv'
<1> SUFFICES ASSUME MonitorInv, Stash PROVE MonitorInv'
  OBVIOUS
<1> USE DEF request, code, transport
<1>1. /\ pc = "stash" /\ mscratch' = reg.sp /\ stash' = reg.t0
      /\ reg' = [reg EXCEPT !.sp = mscratch, !.t0 = 0] /\ pc' = "snapshot"
      /\ UNCHANGED << request, code, transport, ip, scratch, context, csr, trap >>
  BY DEF Stash
<1>2. /\ Loaded(line, fetched, expected) /\ Ran(line, ip) /\ Trapped(line, ip, csr)
      /\ scratch = Course(line, ip - 1).scratch /\ Course(line, ip - 1) \in Machines
  BY <1>1, TrappingFacts DEF Trapping
<1>3. reg = Course(line, ip - 1).reg /\ mscratch = TrapSP /\ context = Kept
  BY <1>1 DEF MonitorInv, MonitorRun, MonitorKept, OutsideMonitor
<1>4. reg \in Transported
  BY <1>2, <1>3 DEF Machines
<1>5. Stashed(reg', stash', reg)
  BY <1>1, <1>4 DEF Stashed, Transported
<1>6. MonitorTypes'
  <2>1. stash' \in Word
    BY <1>1, <1>4 DEF Transported
  <2>2. reg' \in [s0 : Int, t0 : Int, a0 : Int, t3 : Int, sp : {MonitorSP, ScratchSP, TrapSP}]
    <3>1. reg \in [s0 : Int, t0 : Int, a0 : Int, t3 : Int, sp : {MonitorSP, ScratchSP, TrapSP}]
      BY DEF MonitorInv, MonitorTypes
    <3>2. reg' = [s0 |-> reg.s0, t0 |-> 0, a0 |-> reg.a0, t3 |-> reg.t3, sp |-> TrapSP]
      BY <1>1, <1>3, <3>1
    <3> QED BY <3>1, <3>2
  <2> QED BY <1>1, <2>1, <2>2 DEF MonitorInv, MonitorTypes, Places, Running, Testing, Trapping
<1>7. MonitorRequest' /\ MonitorRun'
  BY <1>1, <1>2, <1>3, <1>5
     DEF MonitorRequest, MonitorRun, Running, Testing, Trapping, Recorded
<1>8. MonitorKept'
  BY <1>1, <1>3 DEF MonitorKept, MonitorContext, OutsideMonitor
<1> QED BY <1>6, <1>7, <1>8 DEF MonitorInv

LEMMA SnapshotStep == MonitorInv /\ Snapshot => MonitorInv'
<1> SUFFICES ASSUME MonitorInv, Snapshot PROVE MonitorInv'
  OBVIOUS
<1> USE DEF request, code, machine
<1>1. /\ pc = "snapshot" /\ state' = SaveTransportState(state, reg, stash) /\ pc' = "record"
      /\ UNCHANGED << request, code, index, machine >>
  BY DEF Snapshot
<1>2. /\ Loaded(line, fetched, expected) /\ Ran(line, ip) /\ Trapped(line, ip, csr)
      /\ scratch = Course(line, ip - 1).scratch /\ Course(line, ip - 1) \in Machines
  BY <1>1, TrappingFacts DEF Trapping
<1>3. Stashed(reg, stash, Course(line, ip - 1).reg) /\ state \in States /\ context = Kept
  BY <1>1 DEF MonitorInv, MonitorTypes, MonitorRun, MonitorKept, OutsideMonitor
<1> DEFINE r == Course(line, ip - 1).reg
<1>4. r \in Transported
  BY <1>2 DEF Machines
<1>5. reg.s0 = r.s0 /\ stash = r.t0 /\ reg.a0 = r.a0 /\ reg.t3 = r.t3
  BY <1>3 DEF Stashed
<1> HIDE DEF r
<1>6. state' \in States
  <2>1. ASSUME NEW i \in 1..NState PROVE state'[i] \in Word
    <3>1. 0 \in Word /\ state[i] \in Word
      BY <1>3, RunnerAssumption DEF States, Word
    <3> QED BY <1>1, <1>4, <1>5, <3>1 DEF SaveTransportState, Transported
  <2>2. state' = [i \in 1..NState |-> state'[i]]
    BY <1>1 DEF SaveTransportState
  <2> QED BY <2>1, <2>2 DEF States
<1>7. Saved(state', r)
  <2>1. 1 \in 1..NState /\ 2 \in 1..NState /\ 3 \in 1..NState /\ 4 \in 1..NState
        /\ 5 \in 1..NState
    BY StateIndex
  <2> QED BY <1>1, <1>5, <2>1 DEF SaveTransportState, Saved
<1>8. MonitorTypes'
  BY <1>1, <1>6 DEF MonitorInv, MonitorTypes, Places, Running, Testing, Trapping
<1>9. MonitorRequest' /\ MonitorRun'
  BY <1>1, <1>2, <1>7 DEF MonitorRequest, MonitorRun, Running, Testing, Trapping, Recorded, r
<1>10. MonitorKept'
  BY <1>1, <1>3 DEF MonitorKept, MonitorContext, OutsideMonitor
<1> QED BY <1>8, <1>9, <1>10 DEF MonitorInv

LEMMA RecordStep == MonitorInv /\ Record => MonitorInv'
<1> SUFFICES ASSUME MonitorInv, Record PROVE MonitorInv'
  OBVIOUS
<1> USE DEF request, code, transport
<1>1. /\ pc = "record" /\ reg' = [reg EXCEPT !.t3 = csr.mepc]
      /\ trap' = Verdict(csr, expected) /\ pc' = "restore"
      /\ UNCHANGED << request, code, transport, ip, scratch, context, mscratch, stash, csr >>
  BY DEF Record, Verdict
<1>2. /\ Loaded(line, fetched, expected) /\ Ran(line, ip) /\ Trapped(line, ip, csr)
      /\ scratch = Course(line, ip - 1).scratch
  BY <1>1, TrappingFacts DEF Trapping
<1>3. /\ Saved(state, Course(line, ip - 1).reg) /\ context = Kept
      /\ csr \in [mepc : 0..SlotWords, mcause : 0..9, mtval : 0..MaxWord]
      /\ reg \in [s0 : Int, t0 : Int, a0 : Int, t3 : Int, sp : {MonitorSP, ScratchSP, TrapSP}]
  BY <1>1 DEF MonitorInv, MonitorTypes, MonitorRun, MonitorKept, OutsideMonitor
<1>4. MonitorTypes'
  <2>1. trap' \in [cause : 0..9, value : 0..MaxWord, status : {0, 1}]
    BY <1>1, <1>3 DEF Verdict
  <2>2. csr.mepc \in Int
    BY <1>3
  <2>3. reg' \in [s0 : Int, t0 : Int, a0 : Int, t3 : Int, sp : {MonitorSP, ScratchSP, TrapSP}]
    BY <1>1, <1>3, <2>2
  <2> QED BY <1>1, <2>1, <2>3
          DEF MonitorInv, MonitorTypes, Places, Running, Testing, Trapping, Recorded
<1>5. MonitorRequest' /\ MonitorRun'
  BY <1>1, <1>2, <1>3 DEF MonitorRequest, MonitorRun, Running, Testing, Trapping, Recorded
<1>6. MonitorKept'
  BY <1>1, <1>3 DEF MonitorKept, MonitorContext, OutsideMonitor
<1> QED BY <1>4, <1>5, <1>6 DEF MonitorInv

LEMMA RestoreStep == MonitorInv /\ Restore => MonitorInv'
<1> SUFFICES ASSUME MonitorInv, Restore PROVE MonitorInv'
  OBVIOUS
<1> USE DEF request, code, transport
<1>1. /\ pc = "restore" /\ pc' = "return"
      /\ reg' = [RestoreMonitorContext(reg, context) EXCEPT !.a0 = trap.status]
      /\ UNCHANGED << request, code, transport, ip, scratch, context, mscratch, stash, csr,
                      trap >>
  BY DEF Restore
<1>2. /\ Loaded(line, fetched, expected) /\ Ran(line, ip) /\ Trapped(line, ip, csr)
      /\ scratch = Course(line, ip - 1).scratch
  BY <1>1, TrappingFacts DEF Trapping, Recorded
<1>3. /\ Saved(state, Course(line, ip - 1).reg) /\ context = Kept /\ trap = Verdict(csr, expected)
      /\ trap \in [cause : 0..9, value : 0..MaxWord, status : {0, 1}]
      /\ reg \in [s0 : Int, t0 : Int, a0 : Int, t3 : Int, sp : {MonitorSP, ScratchSP, TrapSP}]
  BY <1>1 DEF MonitorInv, MonitorTypes, MonitorRun, MonitorKept, OutsideMonitor, Recorded
<1>4. /\ reg' \in [s0 : Int, t0 : Int, a0 : Int, t3 : Int, sp : {MonitorSP, ScratchSP, TrapSP}]
      /\ reg'.a0 = trap.status /\ reg'.s0 = MonitorS0 /\ reg'.sp = MonitorSP
  <2>1. trap.status \in Int /\ MonitorS0 \in Int
    BY <1>3 DEF MonitorS0
  <2> QED BY <1>1, <1>3, <2>1 DEF RestoreMonitorContext, Kept
<1>5. MonitorTypes'
  BY <1>1, <1>4 DEF MonitorInv, MonitorTypes, Places, Running, Testing, Trapping, Recorded
<1>6. MonitorRequest' /\ MonitorRun'
  BY <1>1, <1>2, <1>3, <1>4
     DEF MonitorRequest, MonitorRun, Running, Testing, Trapping, Recorded
<1>7. MonitorKept'
  BY <1>1, <1>4 DEF MonitorKept, MonitorContext, OutsideMonitor
<1> QED BY <1>5, <1>6, <1>7 DEF MonitorInv

LEMMA ReturnStep == MonitorInv /\ Return => MonitorInv'
<1> SUFFICES ASSUME MonitorInv, Return PROVE MonitorInv'
  OBVIOUS
<1> USE DEF request, code
<1>1. /\ pc = "return" /\ pc' = "answer" /\ trap' = [trap EXCEPT !.status = reg.a0]
      /\ state' = [i \in 1..NState |-> IF i > NRegs THEN scratch[i - NRegs] ELSE state[i]]
      /\ UNCHANGED << request, code, index, ip, reg, scratch, context, mscratch, stash, csr >>
  BY DEF Return
<1>2. /\ Loaded(line, fetched, expected) /\ Ran(line, ip) /\ Trapped(line, ip, csr)
      /\ scratch = Course(line, ip - 1).scratch
  BY <1>1, TrappingFacts DEF Trapping, Recorded
<1>3. /\ Saved(state, Course(line, ip - 1).reg) /\ trap = Verdict(csr, expected)
      /\ reg.a0 = trap.status /\ state \in States /\ scratch \in [1..NScratch -> Word]
      /\ trap \in [cause : 0..9, value : 0..MaxWord, status : {0, 1}] /\ MonitorContext
  BY <1>1 DEF MonitorInv, MonitorTypes, MonitorRun, MonitorKept, Recorded
<1>4. trap' = trap
  BY <1>1, <1>3
<1>5. state' \in States /\ Saved(state', Course(line, ip - 1).reg)
      /\ \A i \in 1..NScratch : state'[NRegs + i] = scratch[i]
  <2>1. ASSUME NEW i \in 1..NState PROVE state'[i] \in Word
    <3>1. CASE i > NRegs
      <4>1. i - NRegs \in 1..NScratch
        BY <3>1, StateIndex
      <4> QED BY <1>1, <1>3, <3>1, <4>1
    <3>2. CASE ~(i > NRegs)
      BY <1>1, <1>3, <3>2 DEF States
    <3> QED BY <3>1, <3>2
  <2>2. state' = [i \in 1..NState |-> state'[i]]
    BY <1>1
  <2>3. state' \in States
    BY <2>1, <2>2 DEF States
  <2>4. \A i \in 1..5 : i \in 1..NState /\ state'[i] = state[i]
    BY <1>1, StateIndex
  <2>5. Saved(state', Course(line, ip - 1).reg)
    BY <1>3, <2>4 DEF Saved
  <2>6. ASSUME NEW i \in 1..NScratch PROVE state'[NRegs + i] = scratch[i]
    <3>1. NRegs + i \in 1..NState /\ NRegs + i > NRegs /\ (NRegs + i) - NRegs = i
      BY StateIndex
    <3> QED BY <1>1, <3>1
  <2> QED BY <2>3, <2>5, <2>6
<1>6. MonitorTypes'
  BY <1>1, <1>4, <1>5 DEF MonitorInv, MonitorTypes, Places, Running, Testing, Trapping, Recorded
<1>7. MonitorRequest' /\ MonitorRun'
  BY <1>1, <1>2, <1>3, <1>4, <1>5
     DEF MonitorRequest, MonitorRun, Running, Testing, Trapping, Recorded
<1>8. MonitorKept'
  BY <1>1, <1>3 DEF MonitorKept, MonitorContext, OutsideMonitor
<1> QED BY <1>6, <1>7, <1>8 DEF MonitorInv

LEMMA SendAnswerStep == MonitorInv /\ (SendState \/ SendTrap) => MonitorInv'
<1> SUFFICES ASSUME MonitorInv, SendState \/ SendTrap PROVE MonitorInv'
  OBVIOUS
<1> USE DEF request, code, transport, machine
<1>1. /\ pc = "answer" /\ pc' = "read_line"
      /\ UNCHANGED << request, code, transport, machine >>
  BY DEF SendState, SendTrap
<1>2. MonitorTypes'
  BY <1>1 DEF MonitorInv, MonitorTypes, Places
<1> QED BY <1>1, <1>2, RefuseStep DEF OutsideMonitor

LEMMA SemihostExitStep == MonitorInv /\ SemihostExit => MonitorInv'
<1> SUFFICES ASSUME MonitorInv, SemihostExit PROVE MonitorInv'
  OBVIOUS
<1> USE DEF request, code, transport, machine
<1>1. /\ pc = "semihost_exit" /\ pc' = "exited"
      /\ UNCHANGED << request, code, transport, machine >>
  BY DEF SemihostExit
<1>2. MonitorTypes'
  BY <1>1 DEF MonitorInv, MonitorTypes, Places
<1>3. MonitorRequest' /\ MonitorRun'
  BY <1>1 DEF MonitorRequest, MonitorRun, Running, Testing, Trapping, Recorded
<1>4. MonitorKept'
  BY <1>1 DEF MonitorInv, MonitorKept, MonitorContext, OutsideMonitor
<1> QED BY <1>2, <1>3, <1>4 DEF MonitorInv

LEMMA MonitorStutter == MonitorInv /\ UNCHANGED vars => MonitorInv'
<1> SUFFICES ASSUME MonitorInv, UNCHANGED vars PROVE MonitorInv'
  OBVIOUS
<1> USE DEF vars, request, code, transport, machine
<1>1. MonitorTypes'
  BY DEF MonitorInv, MonitorTypes
<1>2. MonitorRequest'
  BY DEF MonitorInv, MonitorRequest
<1>3. MonitorRun'
  BY DEF MonitorInv, MonitorRun
<1>4. MonitorKept'
  BY DEF MonitorInv, MonitorKept, MonitorContext
<1> QED BY <1>1, <1>2, <1>3, <1>4 DEF MonitorInv

LEMMA MonitorStep == MonitorInv /\ [Next]_vars => MonitorInv'
<1> SUFFICES ASSUME MonitorInv, [Next]_vars PROVE MonitorInv'
  OBVIOUS
<1>1. CASE SendReady \/ ReadLine \/ SemihostExit
  BY <1>1, SendReadyStep, ReadLineStep, SemihostExitStep
<1>2. CASE Command \/ DecodeCode \/ ParseWord \/ CheckRequest
  BY <1>2, CommandStep, DecodeCodeStep, ParseWordStep, CheckRequestStep
<1>3. CASE InstallCode \/ LoadScratch \/ Rv32Run
  BY <1>3, InstallCodeStep, LoadScratchStep, Rv32RunStep
<1>4. CASE TestStep \/ TestTrap
  BY <1>4, TestStepStep, TestTrapStep
<1>5. CASE Stash \/ Snapshot \/ Record \/ Restore \/ Return
  BY <1>5, StashStep, SnapshotStep, RecordStep, RestoreStep, ReturnStep
<1>6. CASE SendState \/ SendTrap
  BY <1>6, SendAnswerStep
<1>7. CASE UNCHANGED vars
  BY <1>7, MonitorStutter
<1> QED BY <1>1, <1>2, <1>3, <1>4, <1>5, <1>6, <1>7 DEF Next, Serve, Exited

-----------------------------------------------------------------------------
(* What the monitor sends is what the request means.                       *)

LEMMA MeaningOfLine ==
  ASSUME NEW l, NEW n \in Nat, Len(l.tokens) = n, l.tokens = << >> <=> n = 0
  PROVE  /\ n = 0 => Meaning(l) = ERROR("empty-command")
         /\ n # 0 /\ l.tokens[1].text # "RUN" => Meaning(l) = ERROR("unknown-command")
         /\ IsRun(l) /\ ~HasCode(l) => Meaning(l) = ERROR("malformed-code")
         /\ HasCode(l) /\ (n < NState + 2 \/ \E i \in 1..NState : ~IsWord(l.tokens[i + 2]))
               => Meaning(l) = ERROR("malformed-input-state")
         /\ HasCode(l) /\ n > NState + 2 /\ (\A i \in 1..NState : IsWord(l.tokens[i + 2]))
               => Meaning(l) = ERROR("wrong-input-state-size")
         /\ HasCode(l) /\ n = NState + 2 /\ (\A i \in 1..NState : IsWord(l.tokens[i + 2]))
               /\ Input(l)[1] # 0 => Meaning(l) = ERROR("invalid-initial-state")
         /\ WellFormed(l) /\ Len(Instrs(l)) >= SlotWords
               => Meaning(l) = ERROR("unsupported-code")
         /\ WellFormed(l) /\ ~(Len(Instrs(l)) >= SlotWords)
               => Meaning(l) = Outcome(Instrs(l), Input(l))
<1>1. NState \in Nat /\ 1 \in 1..NState
  BY StateIndex
<1>2. Input(l)[1] = Spelled(l.tokens[1 + 2].digits)
  BY <1>1 DEF Input
<1>3. HasCode(l) => n >= 2 /\ l.tokens[1].text = "RUN" /\ IsCode(l.tokens[2])
  BY DEF HasCode, IsRun
<1>4. IsRun(l) => n >= 1 /\ l.tokens[1].text = "RUN"
  BY DEF IsRun
<1>5. IsRun(l) /\ ~HasCode(l) => n < 2 \/ ~IsCode(l.tokens[2])
  BY DEF HasCode
<1>6. WellFormed(l) => /\ HasCode(l) /\ n = NState + 2
                       /\ \A i \in 1..NState : IsWord(l.tokens[i + 2])
                       /\ Input(l)[1] = 0
  BY DEF WellFormed
<1>7. n = 0 => Meaning(l) = ERROR("empty-command")
  BY DEF Meaning
<1>8. n # 0 /\ l.tokens[1].text # "RUN" => Meaning(l) = ERROR("unknown-command")
  BY DEF Meaning
<1>9. IsRun(l) /\ ~HasCode(l) => Meaning(l) = ERROR("malformed-code")
  BY <1>4, <1>5 DEF Meaning
<1>10. HasCode(l) /\ (n < NState + 2 \/ \E i \in 1..NState : ~IsWord(l.tokens[i + 2]))
          => Meaning(l) = ERROR("malformed-input-state")
  BY <1>1, <1>3 DEF Meaning
<1>11. HasCode(l) /\ n > NState + 2 /\ (\A i \in 1..NState : IsWord(l.tokens[i + 2]))
          => Meaning(l) = ERROR("wrong-input-state-size")
  BY <1>1, <1>3 DEF Meaning
<1>12. HasCode(l) /\ n = NState + 2 /\ (\A i \in 1..NState : IsWord(l.tokens[i + 2]))
          /\ Input(l)[1] # 0 => Meaning(l) = ERROR("invalid-initial-state")
  BY <1>1, <1>2, <1>3 DEF Meaning
<1>13. WellFormed(l) /\ Len(Instrs(l)) >= SlotWords
          => Meaning(l) = ERROR("unsupported-code")
  BY <1>1, <1>2, <1>3, <1>6 DEF Meaning, Instrs
<1>14. WellFormed(l) /\ ~(Len(Instrs(l)) >= SlotWords)
          => Meaning(l) = Outcome(Instrs(l), Input(l))
  BY <1>1, <1>2, <1>3, <1>6 DEF Meaning, Instrs, Input
<1> QED BY <1>7, <1>8, <1>9, <1>10, <1>11, <1>12, <1>13, <1>14

\* The state a machine would be reported with.
Reported(m) ==
    [i \in 1..NState |-> IF i > NRegs THEN m.scratch[i - NRegs]
                         ELSE << 0, m.reg.s0, m.reg.t0, m.reg.a0, m.reg.t3 >>[i]]

LEMMA OutcomeFacts ==
  ASSUME NEW l \in Lines, WellFormed(l), NEW k, Ran(l, k)
  PROVE  /\ k = Len(Instrs(l)) + 1
               => Outcome(Instrs(l), Input(l)) = OK(Reported(Course(l, k - 1)))
         /\ k # Len(Instrs(l)) + 1 /\ Traps(Fetched(l, k))
               => Outcome(Instrs(l), Input(l)) = TRAP(Cause(Fetched(l, k)), Value(Fetched(l, k), k))
<1> DEFINE is == Instrs(l)
           n == Len(Instrs(l))
           stops == { i \in 1..Len(Instrs(l)) : Traps(Instrs(l)[i]) }
           first == CHOOSE i \in stops : \A j \in stops : i <= j
<1>1. n \in Nat \ {0}
  BY RequestTypes
<1>2. k \in 1..(n + 1) /\ \A j \in 1..(k - 1) : ~Traps(is[j])
  BY DEF Ran
<1>3. CASE k = n + 1
  <2>1. stops = {}
    BY <1>1, <1>2, <1>3
  <2>2. Course(l, k - 1) = After(is, Input(l))[n]
    BY <1>1, <1>3 DEF Course
  <2> QED BY <1>3, <2>1, <2>2 DEF Outcome, Reported
<1>4. CASE k # n + 1 /\ Traps(Fetched(l, k))
  <2>1. k \in 1..n /\ Fetched(l, k) = is[k]
    BY <1>1, <1>2, <1>4 DEF Fetched
  <2>2. k \in stops
    BY <1>4, <2>1
  <2>3. \A j \in stops : j >= k
    <3> SUFFICES ASSUME NEW j \in stops, ~(j >= k) PROVE FALSE
      OBVIOUS
    <3>1. j \in 1..n /\ Traps(is[j])
      OBVIOUS
    <3>2. j \in 1..(k - 1)
      BY <1>1, <2>1, <3>1
    <3> QED BY <1>2, <3>1, <3>2
  <2>4. stops \subseteq Int
    BY <1>1
  <2>5. first = k
    <3> HIDE DEF stops
    <3>1. first \in stops /\ \A j \in stops : first <= j
      <4>1. \E i \in stops : \A j \in stops : i <= j
        BY <2>2, <2>3, <2>4
      <4> QED BY <4>1
    <3> HIDE DEF first
    <3>2. first \in Int /\ k \in Int /\ first <= k /\ first >= k
      BY <2>2, <2>3, <2>4, <3>1
    <3> QED BY <3>2
  <2>6. Outcome(is, Input(l)) = TRAP(Cause(is[first]), Value(is[first], first))
    BY <2>2 DEF Outcome
  <2> QED BY <2>1, <2>5, <2>6, <1>4
<1> QED BY <1>3, <1>4

\* The verdict tells the end of the code from a trap within it.
LEMMA AnswerFacts ==
  ASSUME MonitorInv, pc = "answer"
  PROVE  /\ trap.status = 0 => Meaning(line) = OK(state)
         /\ trap.status # 0 => Meaning(line) = TRAP(trap.cause, trap.value)
<1> DEFINE k == ip
           m == Course(line, ip - 1)
<1>1. /\ line \in Lines /\ WellFormed(line) /\ Loaded(line, fetched, expected) /\ Ran(line, ip)
      /\ Trapped(line, ip, csr) /\ m \in Machines /\ scratch = m.scratch
      /\ expected = Len(Instrs(line)) + 1
  BY TrappingFacts DEF Trapping, Recorded
<1>2. /\ Saved(state, m.reg) /\ trap = Verdict(csr, expected) /\ state \in States
      /\ \A i \in 1..NScratch : state[NRegs + i] = scratch[i]
  BY DEF MonitorInv, MonitorTypes, MonitorRun, Recorded
<1>3. Len(line.tokens) \in Nat /\ (line.tokens = << >> <=> Len(line.tokens) = 0)
  <2>1. line.tokens \in Seq(TokenType)
    BY <1>1, LineType
  <2> QED BY <2>1
<1>4. Meaning(line) = Outcome(Instrs(line), Input(line))
  <2>1. Len(Instrs(line)) < SlotWords /\ SlotWords \in Nat /\ Len(Instrs(line)) \in Nat
    BY <1>1, RunnerAssumption, RequestTypes DEF Loaded
  <2>2. ~(Len(Instrs(line)) >= SlotWords)
    BY <2>1
  <2> QED BY <1>1, <1>3, <2>2, MeaningOfLine
<1>5. csr = [mepc |-> ip, mcause |-> Cause(Fetched(line, ip)),
             mtval |-> Value(Fetched(line, ip), ip)] /\ Traps(Fetched(line, ip))
  BY <1>1 DEF Trapped
<1>6. CASE ip = expected
  <2>1. Fetched(line, ip) = Ebreak
    BY <1>1, <1>6 DEF Fetched
  <2>2. trap.status = 0
    BY <1>2, <1>5, <1>6, <2>1 DEF Verdict, Cause
  <2>3. Meaning(line) = OK(Reported(m))
    BY <1>1, <1>4, <1>6, OutcomeFacts
  <2>4. state = Reported(m)
    <3>1. ASSUME NEW i \in 1..NState PROVE state[i] = Reported(m)[i]
      <4>1. CASE i > NRegs
        <5>1. i - NRegs \in 1..NScratch /\ NRegs + (i - NRegs) = i
          BY <4>1, StateIndex
        <5> QED BY <1>1, <1>2, <4>1, <5>1 DEF Reported
      <4>2. CASE ~(i > NRegs)
        <5>1. i \in 1..5
          BY <4>2, StateIndex
        <5>2. Reported(m)[i] = << 0, m.reg.s0, m.reg.t0, m.reg.a0, m.reg.t3 >>[i]
          BY <4>2 DEF Reported
        <5>3. i = 1 \/ i = 2 \/ i = 3 \/ i = 4 \/ i = 5
          BY <5>1
        <5> HIDE DEF m
        <5> QED BY <1>2, <5>2, <5>3 DEF Saved
      <4> QED BY <4>1, <4>2
    <3>2. Reported(m) = [i \in 1..NState |-> Reported(m)[i]]
      BY DEF Reported
    <3> QED BY <1>2, <3>1, <3>2 DEF States
  <2> QED BY <2>2, <2>3, <2>4
<1>7. CASE ip # expected
  <2>1. trap.status = 1 /\ trap.cause = Cause(Fetched(line, ip))
        /\ trap.value = Value(Fetched(line, ip), ip)
    BY <1>2, <1>5, <1>7 DEF Verdict
  <2>2. Meaning(line) = TRAP(Cause(Fetched(line, ip)), Value(Fetched(line, ip), ip))
    BY <1>1, <1>4, <1>5, <1>7, OutcomeFacts
  <2> QED BY <2>1, <2>2
<1> QED BY <1>6, <1>7

(***************************************************************************)
(* The monitor's steps as those of an executor: a greeting, a request      *)
(* taken, its meaning sent, an end that was asked for, or none of these.   *)
(***************************************************************************)
MonitorGreets == phase = "starting" /\ phase' = "idle" /\ answer' = Ready /\ line' = line
MonitorTakes == phase = "idle" /\ phase' = "busy" /\ answer' = Silence /\ line' \in Lines
MonitorReplies ==
    /\ phase = "busy" /\ phase' = "idle" /\ answer' \in Meanings(line) /\ line' = line
MonitorStops ==
    /\ phase = "busy" /\ Ends(line) /\ phase' = "stopped"
    /\ line' = line /\ answer' = answer
MonitorIdles == phase' = phase /\ line' = line /\ answer' = answer
MonitorMove == MonitorGreets \/ MonitorTakes \/ MonitorReplies \/ MonitorStops \/ MonitorIdles

LEMMA TokensLength ==
  ASSUME NEW l \in Lines
  PROVE  Len(l.tokens) \in Nat /\ (l.tokens = << >> <=> Len(l.tokens) = 0)
<1>1. l.tokens \in Seq(TokenType)
  BY LineType
<1> QED BY <1>1

LEMMA RunDoesNotEnd == \A l \in Lines : IsRun(l) => ~Ends(l)
<1> SUFFICES ASSUME NEW l \in Lines, IsRun(l) PROVE ~Ends(l)
  OBVIOUS
<1> QED BY DEF IsRun, Ends

LEMMA Refusal ==
  ASSUME NEW reason, Refuse(reason), pc \notin { "send_ready", "read_line", "exited" },
         ~Ends(line), Meaning(line) = ERROR(reason), line' = line
  PROVE  MonitorReplies
<1>1. answer' = Meaning(line) /\ pc' = "read_line"
  BY ErrorSent DEF Refuse
<1>2. phase = "busy" /\ phase' = "idle"
  BY <1>1 DEF phase
<1> QED BY <1>1, <1>2 DEF MonitorReplies, Meanings

LEMMA Onward ==
  ASSUME pc \notin { "send_ready", "read_line", "exited" },
         pc' \notin { "send_ready", "read_line", "exited" }, line' = line, answer' = answer
  PROVE  MonitorIdles
  BY DEF MonitorIdles, phase

LEMMA ReadingMoves ==
  MonitorInv /\ (SendReady \/ ReadLine \/ Command \/ SemihostExit) => MonitorMove
<1> SUFFICES ASSUME MonitorInv, SendReady \/ ReadLine \/ Command \/ SemihostExit
             PROVE  MonitorMove
  OBVIOUS
<1>1. CASE SendReady
  BY <1>1, ReadySent DEF SendReady, request, MonitorMove, MonitorGreets, phase
<1>2. CASE ReadLine
  BY <1>2 DEF ReadLine, MonitorMove, MonitorTakes, phase
<1>3. CASE Command
  <2>1. /\ pc = "command" /\ line' = line /\ ~line.eof /\ ~Overlong(line.tokens) /\ cursor = 0
        /\ line \in Lines
    BY <1>3 DEF Command, MonitorInv, MonitorRequest, MonitorTypes
  <2>2. Len(line.tokens) \in Nat /\ (line.tokens = << >> <=> Len(line.tokens) = 0)
    BY <2>1, TokensLength
  <2>3. CASE ~More
    <3>1. Len(line.tokens) = 0
      BY <2>1, <2>2, <2>3 DEF More
    <3>2. Meaning(line) = ERROR("empty-command") /\ ~Ends(line)
      BY <2>1, <2>2, <3>1, MeaningOfLine DEF Ends
    <3>3. Refuse("empty-command")
      BY <1>3, <2>3 DEF Command
    <3> QED BY <2>1, <3>2, <3>3, Refusal DEF MonitorMove
  <2>4. CASE More /\ ~Is("QUIT") /\ ~Is("RUN")
    <3>1. Refuse("unknown-command")
      BY <1>3, <2>4 DEF Command
    <3>2. Token = line.tokens[1] /\ Len(line.tokens) # 0
      BY <2>1, <2>2, <2>4 DEF More, Token
    <3>3. Meaning(line) = ERROR("unknown-command") /\ ~Ends(line)
      BY <2>1, <2>2, <2>4, <3>2, MeaningOfLine DEF Ends, Is
    <3> QED BY <2>1, <3>1, <3>3, Refusal DEF MonitorMove
  <2>5. CASE More /\ (Is("QUIT") \/ Is("RUN"))
    <3>1. pc' \in { "semihost_exit", "decode_code" } /\ answer' = answer
      BY <1>3, <2>5 DEF Command
    <3> QED BY <2>1, <3>1, Onward DEF MonitorMove
  <2> QED BY <2>3, <2>4, <2>5
<1>4. CASE SemihostExit
  <2>1. Ends(line)
    BY <1>4 DEF SemihostExit, MonitorInv, MonitorRequest
  <2> QED BY <1>4, <2>1 DEF SemihostExit, request, MonitorMove, MonitorStops, phase
<1> QED BY <1>1, <1>2, <1>3, <1>4

LEMMA RefusingMoves ==
  MonitorInv /\ (DecodeCode \/ ParseWord \/ CheckRequest \/ InstallCode) => MonitorMove
<1> SUFFICES ASSUME MonitorInv, DecodeCode \/ ParseWord \/ CheckRequest \/ InstallCode
             PROVE  MonitorMove
  OBVIOUS
<1>1. line \in Lines
  BY DEF MonitorInv, MonitorTypes
<1>2. Len(line.tokens) \in Nat /\ (line.tokens = << >> <=> Len(line.tokens) = 0)
  BY <1>1, TokensLength
<1>3. CASE DecodeCode
  <2>1. pc = "decode_code" /\ line' = line /\ IsRun(line) /\ cursor = 1
    BY <1>3 DEF DecodeCode, MonitorInv, MonitorRequest
  <2>2. CASE HasCode(line)
    <3>1. More /\ Token = line.tokens[2] /\ IsCode(line.tokens[2]) /\ 2 \in 1..Len(line.tokens)
      BY <1>2, <2>1, <2>2 DEF HasCode, More, Token
    <3>2. Token.hex \in Seq(STRING)
      BY <1>1, <3>1, TokenFacts
    <3>3. Token.hex # << >> /\ Len(Token.hex) <= BufferWords
          /\ Decodable(Token.hex) = Len(Token.hex) /\ Len(Token.hex) \in Nat
      BY <3>1, <3>2, DecodableFacts DEF IsCode
    <3>4. ~(Decodable(Token.hex) < Len(Token.hex)) /\ ~(Len(Token.hex) > BufferWords)
      BY <3>3, RunnerAssumption
    <3>5. pc' = "parse_word" /\ answer' = answer
      BY <1>3, <3>1, <3>3, <3>4 DEF DecodeCode
    <3> QED BY <2>1, <3>5, Onward DEF MonitorMove
  <2>3. CASE ~HasCode(line)
    <3>1. Meaning(line) = ERROR("malformed-code") /\ ~Ends(line)
      BY <1>1, <1>2, <2>1, <2>3, MeaningOfLine, RunDoesNotEnd
    <3>2. Refuse("malformed-code")
      <4>1. CASE ~More
        BY <1>3, <4>1 DEF DecodeCode
      <4>2. CASE More
        <5>1. Token = line.tokens[2] /\ 2 \in 1..Len(line.tokens)
          BY <1>2, <2>1, <4>2 DEF More, Token
        <5>2. Token.hex \in Seq(STRING)
          BY <1>1, <5>1, TokenFacts
        <5>3. ~IsCode(Token)
          BY <2>1, <2>3, <5>1 DEF HasCode
        <5>4. CASE Token.hex = << >> \/ Len(Token.hex) > BufferWords
          BY <1>3, <4>2, <5>2, <5>4, RunnerAssumption DEF DecodeCode
        <5>5. CASE ~(Token.hex = << >> \/ Len(Token.hex) > BufferWords)
          <6>1. Len(Token.hex) \in Nat /\ Len(Token.hex) <= BufferWords
            BY <5>2, <5>5, RunnerAssumption
          <6>2. Decodable(Token.hex) < Len(Token.hex)
            BY <5>2, <5>3, <5>5, <6>1, DecodableFacts DEF IsCode
          <6> QED BY <1>3, <4>2, <5>5, <6>2 DEF DecodeCode
        <5> QED BY <5>4, <5>5
      <4> QED BY <4>1, <4>2
    <3> QED BY <2>1, <3>1, <3>2, Refusal DEF MonitorMove
  <2> QED BY <2>2, <2>3
<1>4. CASE ParseWord
  <2>1. /\ pc = "parse_word" /\ line' = line /\ HasCode(line) /\ cursor = index + 1
        /\ index \in 1..(NState + 1) /\ index <= NState
    BY <1>4 DEF ParseWord, MonitorInv, MonitorRequest, MonitorTypes
  <2>2. CASE More /\ ParseU32(Token.digits) # NotAWord
    <3>1. pc' = pc /\ answer' = answer
      BY <1>4, <2>2 DEF ParseWord
    <3> QED BY <2>1, <3>1, Onward DEF MonitorMove
  <2>3. CASE ~(More /\ ParseU32(Token.digits) # NotAWord)
    <3>1. Refuse("malformed-input-state")
      BY <1>4, <2>3 DEF ParseWord
    <3>2. index \in 1..NState /\ NState \in Nat
      BY <2>1, StateIndex
    <3>3. Len(line.tokens) < NState + 2 \/ ~IsWord(line.tokens[index + 2])
      <4>1. CASE ~More
        BY <1>2, <2>1, <3>2, <4>1 DEF More
      <4>2. CASE More
        <5>1. Token = line.tokens[index + 2] /\ index + 2 \in 1..Len(line.tokens)
          BY <1>2, <2>1, <3>2, <4>2 DEF More, Token
        <5>2. Token \in TokenType
          BY <1>1, <5>1, TokenFacts
        <5> QED BY <2>3, <4>2, <5>1, <5>2, ParsedToken
      <4> QED BY <4>1, <4>2
    <3>4. Meaning(line) = ERROR("malformed-input-state")
      BY <1>2, <2>1, <3>2, <3>3, MeaningOfLine
    <3>5. ~Ends(line)
      BY <1>1, <2>1, RunDoesNotEnd DEF HasCode
    <3> QED BY <2>1, <3>1, <3>4, <3>5, Refusal DEF MonitorMove
  <2> QED BY <2>2, <2>3
<1>5. CASE CheckRequest
  <2>1. /\ pc = "parse_word" /\ line' = line /\ HasCode(line) /\ cursor = index + 1
        /\ index = NState + 1 /\ WordsRead(line, index - 1, state)
    BY <1>5 DEF CheckRequest, request, MonitorInv, MonitorRequest
  <2>2. NState \in Nat /\ 1 \in 1..NState /\ index - 1 = NState
    BY <2>1, StateIndex
  <2>3. /\ Len(line.tokens) >= NState + 2
        /\ \A i \in 1..NState : IsWord(line.tokens[i + 2])
        /\ state[1] = Input(line)[1]
    BY <2>1, <2>2 DEF WordsRead, Input
  <2>4. ~Ends(line)
    BY <1>1, <2>1, RunDoesNotEnd DEF HasCode
  <2>5. More <=> Len(line.tokens) > NState + 2
    BY <1>2, <2>1, <2>2 DEF More
  <2>6. CASE More
    <3>1. Refuse("wrong-input-state-size")
      BY <1>5, <2>6 DEF CheckRequest
    <3>2. Meaning(line) = ERROR("wrong-input-state-size")
      BY <1>2, <2>1, <2>3, <2>5, <2>6, MeaningOfLine
    <3> QED BY <2>1, <2>4, <3>1, <3>2, Refusal DEF MonitorMove
  <2>7. CASE ~More /\ state[1] # 0
    <3>1. Refuse("invalid-initial-state")
      BY <1>5, <2>7 DEF CheckRequest
    <3>2. Len(line.tokens) = NState + 2
      BY <1>2, <2>2, <2>3, <2>5, <2>7
    <3>3. Meaning(line) = ERROR("invalid-initial-state")
      BY <1>2, <2>1, <2>3, <2>7, <3>2, MeaningOfLine
    <3> QED BY <2>1, <2>4, <3>1, <3>3, Refusal DEF MonitorMove
  <2>8. CASE ~More /\ state[1] = 0
    <3>1. pc' = "install_code" /\ answer' = answer
      BY <1>5, <2>8 DEF CheckRequest
    <3> QED BY <2>1, <3>1, Onward DEF MonitorMove
  <2> QED BY <2>6, <2>7, <2>8
<1>6. CASE InstallCode
  <2>1. /\ pc = "install_code" /\ line' = line /\ WellFormed(line)
        /\ code_size = Len(Instrs(line)) /\ SlotWords \in Nat
    BY <1>6, RunnerAssumption
       DEF InstallCode, request, MonitorInv, MonitorRequest, CodeRead
  <2>2. Len(Instrs(line)) \in Nat
    BY <1>1, <2>1, RequestTypes
  <2>3. CASE code_size + 1 > SlotWords
    <3>1. Refuse("unsupported-code")
      BY <1>6, <2>1, <2>2, <2>3 DEF InstallCode
    <3>2. Meaning(line) = ERROR("unsupported-code") /\ ~Ends(line)
      <4>1. Len(Instrs(line)) >= SlotWords
        BY <2>1, <2>2, <2>3
      <4> QED BY <1>1, <1>2, <2>1, <4>1, MeaningOfLine, RunDoesNotEnd DEF WellFormed, HasCode
    <3> QED BY <2>1, <3>1, <3>2, Refusal DEF MonitorMove
  <2>4. CASE ~(code_size + 1 > SlotWords)
    <3>1. pc' = "execute" /\ answer' = answer
      BY <1>6, <2>4 DEF InstallCode
    <3> QED BY <2>1, <3>1, Onward DEF MonitorMove
  <2> QED BY <2>3, <2>4
<1> QED BY <1>3, <1>4, <1>5, <1>6

LEMMA RunningMoves ==
  ASSUME MonitorInv,
         LoadScratch \/ Rv32Run \/ TestStep \/ TestTrap \/ Stash \/ Snapshot \/ Record \/ Restore
            \/ Return \/ SendState \/ SendTrap
  PROVE  MonitorMove
<1> USE DEF request
<1>1. CASE LoadScratch \/ Rv32Run \/ TestStep \/ TestTrap
  BY <1>1, Onward DEF LoadScratch, Rv32Run, TestStep, TestTrap, MonitorMove
<1>2. CASE Stash \/ Snapshot \/ Record \/ Restore \/ Return
  BY <1>2, Onward DEF Stash, Snapshot, Record, Restore, Return, MonitorMove
<1>3. CASE SendState \/ SendTrap
  <2>1. /\ pc = "answer" /\ pc' = "read_line" /\ line' = line
        /\ \/ trap.status = 0 /\ answer' = Sent(OK(state))
           \/ trap.status # 0 /\ answer' = Sent(TRAP(trap.cause, trap.value))
    BY <1>3 DEF SendState, SendTrap
  <2>2. Sent(OK(state)) = OK(state) /\ Sent(TRAP(trap.cause, trap.value)) = TRAP(trap.cause, trap.value)
    <3>1. state \in States /\ trap \in [cause : 0..9, value : 0..MaxWord, status : {0, 1}]
      BY DEF MonitorInv, MonitorTypes
    <3> QED BY <3>1, StateSent, TrapSent DEF States, Word
  <2>3. answer' = Meaning(line)
    BY <2>1, <2>2, AnswerFacts
  <2>4. ~Ends(line)
    <3>1. line \in Lines /\ WellFormed(line)
      BY <2>1, TrappingFacts DEF Trapping, Recorded
    <3> QED BY <3>1, RunDoesNotEnd DEF WellFormed, HasCode
  <2> QED BY <2>1, <2>3, <2>4 DEF MonitorMove, MonitorReplies, Meanings, phase
<1> QED BY <1>1, <1>2, <1>3

LEMMA MonitorMoves == MonitorInv /\ [Next]_vars => MonitorMove
<1> SUFFICES ASSUME MonitorInv, [Next]_vars PROVE MonitorMove
  OBVIOUS
<1>1. CASE UNCHANGED vars
  BY <1>1 DEF vars, request, MonitorMove, MonitorIdles, phase
<1>2. CASE SendReady \/ ReadLine \/ Command \/ SemihostExit
  BY <1>2, ReadingMoves
<1>3. CASE DecodeCode \/ ParseWord \/ CheckRequest \/ InstallCode
  BY <1>3, RefusingMoves
<1>4. CASE LoadScratch \/ Rv32Run \/ TestStep \/ TestTrap \/ Stash \/ Snapshot \/ Record \/ Restore
           \/ Return \/ SendState \/ SendTrap
  BY <1>4, RunningMoves
<1> QED BY <1>1, <1>2, <1>3, <1>4 DEF Next, Serve, Exited

-----------------------------------------------------------------------------
(***************************************************************************)
(* The server script.  While a request runs, the request is in order, the  *)
(* units are those of its bytes, and the output file holds nothing, the    *)
(* one word of a failed harness, or what the code makes of the words.      *)
(***************************************************************************)
GoodRun(l) ==
    /\ ~l.eof /\ Len(l.tokens) = StateWords + 2
    /\ l.tokens[1].text = "RUN" /\ Script!IsCode(l.tokens[2])
Bytes(l) == l.tokens[2].bytes
Given(l) == [i \in 1..StateWords |-> l.tokens[i + 2].value]
Output(l, words) ==
    \/ words = << >> \/ words = << 0 >>
    \/ ~Script!Faults(Bytes(l)) /\ words = Script!Effect(Bytes(l), Given(l))

Serving == { "mktemp", "naming", "assign", "start", "wait", "collect" }
Unasked == { "send_ready", "read_line", "command", "mktemp" }
ServerPlaces ==
    Unasked \cup Serving \cup Script!Ended \cup { "rm", "removing", "forget", "cleanup" }

ScriptTypes == server_pc \in ServerPlaces /\ Script!TypeOK

\* Only a handler leads into cleanup with a file, and only a second one out of it.
ScriptControl ==
    /\ server_pc \in Unasked \cup Serving => ~exiting
    /\ server_pc \in { "cleanup", "exited" } => exiting
    /\ ~exiting => handled = 0
    /\ server_pc \notin Script!Ended => handled < 2

ScriptRequest ==
    server_pc \in Serving => GoodRun(server_line) /\ units = Script!CodeArgument(Bytes(server_line))

ScriptRun ==
    /\ made # Script!NoFile => output = << >>
    /\ server_pc = "start" /\ file # Script!NoFile => Output(server_line, output)
    /\ server_pc \in { "wait", "collect" } => Output(server_line, output)
    /\ child = "harness" => regs = Given(server_line)
    /\ child = "print" => /\ ~Script!Faults(Bytes(server_line))
                          /\ regs = Script!Effect(Bytes(server_line), Given(server_line))

\* The one file that exists is known to the server or to mktemp, or it is lost.
ScriptFiles ==
    /\ files \subseteq { file } \/ files \subseteq { made } \/ files \subseteq { lost }
    /\ made # Script!NoFile => server_pc \in { "naming", "assign", "killed" }
    /\ server_pc \in Unasked \cup { "naming", "assign" } => file = Script!NoFile
    /\ server_pc \in Unasked \/ child = "mktemp" => files = {} /\ made = Script!NoFile
    /\ server_pc = "forget" /\ signal = 0 => files \subseteq { lost }
    /\ lost # Script!NoFile => signal # 0 \/ handled > 0
    /\ exiting /\ handled = 0 => file = Script!NoFile
    /\ server_pc = "exited" => files \subseteq IF handled < 2 THEN { lost } ELSE { lost, file }

ScriptInv == ScriptTypes /\ ScriptControl /\ ScriptRequest /\ ScriptRun /\ ScriptFiles

LEMMA ScriptLineType ==
  ASSUME NEW l \in Script!Lines
  PROVE  /\ l.tokens \in Seq(ScriptTokenType) /\ Len(l.tokens) \in Nat
         /\ l.tokens = << >> <=> Len(l.tokens) = 0
         /\ l.eof \in BOOLEAN /\ (l.eof => l.tokens = << >>)
<1> DEFINE T == ScriptTokenType
<1>1. << >> \in Seq(T) /\ ScriptTokens \subseteq Seq(T)
  BY ScriptAssumption
<1> HIDE DEF T
<1>2. l.tokens \in Seq(T) /\ l.eof \in BOOLEAN /\ (l.eof => l.tokens = << >>)
  <2>1. CASE l = Script!Eof
    BY <1>1, <2>1 DEF Script!Eof
  <2>2. CASE l # Script!Eof
    <3>1. PICK ts \in ScriptTokens : l = [eof |-> FALSE, tokens |-> ts]
      BY <2>2 DEF Script!Lines
    <3> QED BY <1>1, <3>1
  <2> QED BY <2>1, <2>2
<1> QED BY <1>2 DEF T

LEMMA ScriptToken ==
  ASSUME NEW l \in Script!Lines, NEW i \in 1..Len(l.tokens)
  PROVE  l.tokens[i].bytes \in Seq(STRING) /\ l.tokens[i].value \in 0..ScriptMaxWord
<1>1. l.tokens[i] \in ScriptTokenType
  <2> DEFINE T == ScriptTokenType
  <2>1. l.tokens \in Seq(T)
    BY ScriptLineType
  <2> HIDE DEF T
  <2>2. l.tokens[i] \in T
    BY <2>1
  <2> QED BY <2>2 DEF T
<1> QED BY <1>1 DEF ScriptTokenType

LEMMA GoodRunTypes ==
  ASSUME NEW l \in Script!Lines, GoodRun(l)
  PROVE  /\ Bytes(l) \in Seq(STRING) /\ Len(Bytes(l)) % UnitBytes = 0
         /\ \A i \in 1..StateWords : l.tokens[i + 2].value \in 0..ScriptMaxWord
<1>1. Len(l.tokens) = StateWords + 2 /\ StateWords \in Nat
  BY ScriptAssumption DEF GoodRun
<1>2. 2 \in 1..Len(l.tokens) /\ \A i \in 1..StateWords : i + 2 \in 1..Len(l.tokens)
  BY <1>1
<1> QED BY <1>2, ScriptToken DEF Bytes, GoodRun, Script!IsCode

LEMMA DivMod ==
  ASSUME NEW n \in Nat, NEW u \in Nat \ {0}
  PROVE  n \div u \in Nat /\ n % u \in 0..(u - 1) /\ n = u * (n \div u) + (n % u)
  OBVIOUS

\* The assembler undoes what CodeArgument does: the binary gets the bytes sent.
LEMMA AssembledBytes ==
  ASSUME NEW l \in Script!Lines, GoodRun(l), units = Script!CodeArgument(Bytes(l))
  PROVE  Script!Assembled = Bytes(l)
<1> DEFINE b == Bytes(l)
           n == Len(Bytes(l))
           U == UnitBytes
           m == n \div U
<1>1. b \in Seq(STRING) /\ n \in Nat /\ U \in Nat \ {0} /\ n % U = 0
  BY GoodRunTypes, ScriptAssumption
<1>2. m \in Nat /\ n = U * m
  BY <1>1, DivMod
<1>3. units = [u \in 1..m |-> [c \in 1..U |-> b[u * U + 1 - c]]]
  BY DEF Script!CodeArgument
<1>4. Len(units) = m
  <2> HIDE DEF m
  <2> QED BY <1>2, <1>3
<1> HIDE DEF m, n, U, b
<1>5. Len(units) * U = n
  BY <1>1, <1>2, <1>4
<1>6. ASSUME NEW k \in 1..n
      PROVE  units[(k - 1) \div U + 1][U - ((k - 1) % U)] = b[k]
  <2> DEFINE q == (k - 1) \div U
             r == (k - 1) % U
  <2>1. k - 1 \in Nat /\ k - 1 < n
    BY <1>1
  <2>2. q \in Nat /\ r \in 0..(U - 1) /\ k - 1 = U * q + r
    BY <1>1, <2>1, DivMod
  <2> HIDE DEF q, r
  <2>3. q < m
    <3> SUFFICES ASSUME q >= m PROVE FALSE
      BY <1>2, <2>2
    <3>1. U * q >= U * m
      BY <1>1, <1>2, <2>2
    <3>2. U * q \in Nat
      BY <1>1, <2>2
    <3> QED BY <1>1, <1>2, <2>1, <2>2, <3>1, <3>2
  <2>4. q + 1 \in 1..m /\ U - r \in 1..U
    BY <1>1, <1>2, <2>2, <2>3
  <2>5. units[q + 1][U - r] = b[(q + 1) * U + 1 - (U - r)]
    BY <1>3, <2>4
  <2>6. (q + 1) * U + 1 - (U - r) = k
    <3>1. (q + 1) * U = U * q + U
      BY <1>1, <2>2
    <3>2. U * q \in Nat
      BY <1>1, <2>2
    <3> QED BY <1>1, <2>2, <3>1, <3>2
  <2> QED BY <2>5, <2>6 DEF q, r
<1>7. Script!Assembled = [k \in 1..n |-> b[k]]
  BY <1>5, <1>6 DEF Script!Assembled, U
<1>8. b = [k \in 1..n |-> b[k]]
  BY <1>1 DEF n, b
<1> QED BY <1>7, <1>8 DEF b

\* The parts of ScriptTypes: what a type is, the process waited for, and the signal.
ScriptData ==
    /\ server_line \in Script!Lines /\ exiting \in BOOLEAN
    /\ { file, made, lost } \subseteq Names \cup {Script!NoFile} /\ files \subseteq Names
    /\ products \in BOOLEAN /\ status \in {0, 137}
ScriptChild ==
    /\ server_pc = "naming" <=> child \in Script!Mktemp
    /\ server_pc = "removing" <=> child = "rm"
    /\ server_pc = "wait" => child \in Script!LegacyCommand
    /\ server_pc = "collect" => child \in Script!Binary \cup {"none"}
    /\ server_pc \notin Script!Waiting \cup {"collect"} => child = "none"
ScriptSignal == signal \in {0, 129, 130, 143} /\ handled \in 0..2

LEMMA ScriptTypesParts ==
  ScriptTypes <=> server_pc \in ServerPlaces /\ ScriptData /\ ScriptChild /\ ScriptSignal
  BY Zenon DEF ScriptTypes, Script!TypeOK, ScriptData, ScriptChild, ScriptSignal

LEMMA ScriptInit == Script!Init => ScriptInv
<1> SUFFICES ASSUME Script!Init PROVE ScriptInv
  OBVIOUS
<1> USE DEF Script!Init, Script!Ended, Serving, Unasked
<1>1. server_pc \in ServerPlaces /\ ScriptData
  BY DEF ServerPlaces, ScriptData, Script!Lines, Script!Eof, Script!NoFile
<1>2. ScriptChild /\ ScriptSignal
  BY DEF ScriptChild, ScriptSignal, Script!Mktemp, Script!Waiting
<1>3. ScriptTypes
  BY <1>1, <1>2, ScriptTypesParts
<1>4. ScriptControl /\ ScriptRequest
  BY DEF ScriptControl, ScriptRequest
<1>5. ScriptRun
  BY DEF ScriptRun, Script!NoFile
<1>6. ScriptFiles
  BY DEF ScriptFiles
<1> QED BY <1>3, <1>4, <1>5, <1>6 DEF ScriptInv

LEMMA ScriptDataStep ==
  ASSUME ScriptData, Script!Next \/ UNCHANGED svars
  PROVE  ScriptData'
<1> USE DEF Script!server, Script!command, Script!signals, Script!vars, svars,
            Script!Ended
<1>1. CASE Script!SendReady \/ Script!ReadLine \/ Script!Command
  BY <1>1
     DEF Script!SendReady, Script!ReadLine, Script!Command, Script!Answering, ScriptData
<1>2. CASE \/ Script!StartMktemp \/ Script!CreateFile \/ Script!PrintName \/ Script!TakeName
           \/ Script!NoTempfile
  BY <1>2
     DEF Script!StartMktemp, Script!CreateFile, Script!PrintName, Script!TakeName,
         Script!NoTempfile, Script!Answering, ScriptData
<1>3. CASE \/ Script!StartChild \/ Script!Build \/ Script!Main \/ Script!Harness
           \/ Script!PrintState \/ Script!RemoveProducts \/ Script!KillCommand
  BY <1>3
     DEF Script!StartChild, Script!Build, Script!Main, Script!Harness,
         Script!PrintState, Script!RemoveProducts, Script!KillCommand,
         Script!BinaryEnds, ScriptData
<1>4. CASE \/ Script!Collect \/ Script!StartRm \/ Script!RemoveFile \/ Script!ForgetFile
           \/ Script!Cleanup
  BY <1>4
     DEF Script!Collect, Script!StartRm, Script!RemoveFile, Script!ForgetFile,
         Script!Cleanup, ScriptData
<1>5. CASE Script!HandleSignal \/ Script!SignalGroup \/ Script!Kill
  BY <1>5
     DEF Script!HandleSignal, Script!SignalGroup, Script!Kill, ScriptData
<1>6. CASE Script!Signal \/ Script!Rest \/ UNCHANGED svars
  BY <1>6
     DEF Script!Signal, Script!Rest, ScriptData
<1> QED BY <1>1, <1>2, <1>3, <1>4, <1>5, <1>6 DEF Script!Next, Script!Serve

LEMMA ScriptChildStep ==
  ASSUME server_pc \in ServerPlaces, ScriptChild, Script!Next \/ UNCHANGED svars
  PROVE  server_pc' \in ServerPlaces /\ ScriptChild'
<1> USE DEF Script!server, Script!command, Script!signals, Script!vars, svars,
            Script!Ended, Script!Waiting, Script!Mktemp, Script!Binary,
            Script!LegacyCommand
<1>1. CASE Script!SendReady \/ Script!ReadLine \/ Script!Command
  BY <1>1
     DEF Script!SendReady, Script!ReadLine, Script!Command, Script!Answering,
         ScriptChild, ServerPlaces, Serving, Unasked
<1>2. CASE \/ Script!StartMktemp \/ Script!CreateFile \/ Script!PrintName \/ Script!TakeName
           \/ Script!NoTempfile
  BY <1>2
     DEF Script!StartMktemp, Script!CreateFile, Script!PrintName, Script!TakeName,
         Script!NoTempfile, Script!Answering, ScriptChild, ServerPlaces, Serving,
         Unasked
<1>3. CASE \/ Script!StartChild \/ Script!Build \/ Script!Main \/ Script!Harness
           \/ Script!PrintState \/ Script!RemoveProducts \/ Script!KillCommand
  BY <1>3
     DEF Script!StartChild, Script!Build, Script!Main, Script!Harness,
         Script!PrintState, Script!RemoveProducts, Script!KillCommand,
         Script!BinaryEnds, ScriptChild, ServerPlaces, Serving, Unasked
<1>4. CASE \/ Script!Collect \/ Script!StartRm \/ Script!RemoveFile \/ Script!ForgetFile
           \/ Script!Cleanup
  BY <1>4
     DEF Script!Collect, Script!StartRm, Script!RemoveFile, Script!ForgetFile,
         Script!Cleanup, ScriptChild, ServerPlaces, Serving, Unasked
<1>5. CASE Script!HandleSignal \/ Script!SignalGroup \/ Script!Kill
  BY <1>5
     DEF Script!HandleSignal, Script!SignalGroup, Script!Kill, ScriptChild,
         ServerPlaces, Serving, Unasked
<1>6. CASE Script!Signal \/ Script!Rest \/ UNCHANGED svars
  BY <1>6
     DEF Script!Signal, Script!Rest, ScriptChild, ServerPlaces, Serving, Unasked
<1> QED BY <1>1, <1>2, <1>3, <1>4, <1>5, <1>6 DEF Script!Next, Script!Serve

LEMMA ScriptSignalStep ==
  ASSUME ScriptSignal, ScriptControl, Script!Next \/ UNCHANGED svars
  PROVE  ScriptSignal'
<1> USE DEF Script!server, Script!command, Script!signals, Script!vars, svars,
            Script!Ended
<1>1. CASE Script!SendReady \/ Script!ReadLine \/ Script!Command
  BY <1>1
     DEF Script!SendReady, Script!ReadLine, Script!Command, Script!Answering,
         ScriptSignal, ScriptControl
<1>2. CASE \/ Script!StartMktemp \/ Script!CreateFile \/ Script!PrintName \/ Script!TakeName
           \/ Script!NoTempfile
  BY <1>2
     DEF Script!StartMktemp, Script!CreateFile, Script!PrintName, Script!TakeName,
         Script!NoTempfile, Script!Answering, ScriptSignal, ScriptControl
<1>3. CASE \/ Script!StartChild \/ Script!Build \/ Script!Main \/ Script!Harness
           \/ Script!PrintState \/ Script!RemoveProducts \/ Script!KillCommand
  BY <1>3
     DEF Script!StartChild, Script!Build, Script!Main, Script!Harness,
         Script!PrintState, Script!RemoveProducts, Script!KillCommand,
         Script!BinaryEnds, ScriptSignal, ScriptControl
<1>4. CASE \/ Script!Collect \/ Script!StartRm \/ Script!RemoveFile \/ Script!ForgetFile
           \/ Script!Cleanup
  BY <1>4
     DEF Script!Collect, Script!StartRm, Script!RemoveFile, Script!ForgetFile,
         Script!Cleanup, ScriptSignal, ScriptControl
<1>5. CASE Script!HandleSignal \/ Script!SignalGroup \/ Script!Kill
  BY <1>5
     DEF Script!HandleSignal, Script!SignalGroup, Script!Kill, ScriptSignal,
         ScriptControl
<1>6. CASE Script!Signal \/ Script!Rest \/ UNCHANGED svars
  BY <1>6
     DEF Script!Signal, Script!Rest, ScriptSignal, ScriptControl
<1> QED BY <1>1, <1>2, <1>3, <1>4, <1>5, <1>6 DEF Script!Next, Script!Serve

LEMMA ScriptTypesStep ==
  ASSUME ScriptTypes, ScriptControl, Script!Next \/ UNCHANGED svars
  PROVE  ScriptTypes'
<1>1. server_pc \in ServerPlaces /\ ScriptData /\ ScriptChild /\ ScriptSignal
  BY ScriptTypesParts
<1>2. server_pc' \in ServerPlaces' /\ ScriptData' /\ ScriptChild' /\ ScriptSignal'
  BY <1>1, ScriptDataStep, ScriptChildStep, ScriptSignalStep
     DEF ServerPlaces, Serving, Unasked, Script!Ended
<1> QED BY <1>2, Zenon DEF ScriptTypes, Script!TypeOK, ScriptData, ScriptChild, ScriptSignal

LEMMA ScriptControlStep ==
  ASSUME ScriptTypes, ScriptControl, Script!Next \/ UNCHANGED svars
  PROVE  ScriptControl'
<1> USE DEF Script!server, Script!command, Script!signals, Script!vars, svars, Script!Ended,
            Script!Waiting
<1>1. CASE Script!SendReady \/ Script!ReadLine \/ Script!Command
  BY <1>1
     DEF Script!SendReady, Script!ReadLine, Script!Command, Script!Answering, ScriptTypes,
         ScriptControl, Script!TypeOK, Serving, Unasked
<1>2. CASE \/ Script!StartMktemp \/ Script!CreateFile \/ Script!PrintName \/ Script!TakeName
           \/ Script!NoTempfile
  BY <1>2
     DEF Script!StartMktemp, Script!CreateFile, Script!PrintName, Script!TakeName,
         Script!NoTempfile, Script!Answering, ScriptTypes, ScriptControl, Script!TypeOK,
         Serving, Unasked
<1>3. CASE \/ Script!StartChild \/ Script!Build \/ Script!Main \/ Script!Harness
           \/ Script!PrintState \/ Script!RemoveProducts \/ Script!KillCommand
  BY <1>3
     DEF Script!StartChild, Script!Build, Script!Main, Script!Harness, Script!PrintState,
         Script!RemoveProducts, Script!KillCommand, Script!BinaryEnds, ScriptTypes,
         ScriptControl, Script!TypeOK, Serving, Unasked
<1>4. CASE \/ Script!Collect \/ Script!StartRm \/ Script!RemoveFile \/ Script!ForgetFile
           \/ Script!Cleanup
  BY <1>4
     DEF Script!Collect, Script!StartRm, Script!RemoveFile, Script!ForgetFile,
         Script!Cleanup, ScriptTypes, ScriptControl, Script!TypeOK, Serving, Unasked
<1>5. CASE Script!HandleSignal \/ Script!SignalGroup \/ Script!Kill
  BY <1>5
     DEF Script!HandleSignal, Script!SignalGroup, Script!Kill, ScriptTypes, ScriptControl,
         Script!TypeOK, Serving, Unasked
<1>6. CASE Script!Signal \/ Script!Rest \/ UNCHANGED svars
  BY <1>6
     DEF Script!Signal, Script!Rest, ScriptTypes, ScriptControl, Script!TypeOK, Serving,
         Unasked
<1> QED BY <1>1, <1>2, <1>3, <1>4, <1>5, <1>6 DEF Script!Next, Script!Serve

LEMMA ScriptFilesStep ==
  ASSUME ScriptTypes, ScriptControl, ScriptFiles, Script!Next \/ UNCHANGED svars
  PROVE  ScriptFiles'
<1> USE DEF Script!server, Script!command, Script!signals, Script!vars, svars, Script!Ended,
            Script!Waiting, Script!Mktemp, Script!Binary, Script!LegacyCommand
<1>1. CASE Script!SendReady \/ Script!ReadLine \/ Script!Command
  BY ScriptAssumption, <1>1
     DEF Script!SendReady, Script!ReadLine, Script!Command, Script!Answering, ScriptTypes,
         ScriptControl, ScriptFiles, Script!TypeOK, Script!NoFile, Serving, Unasked
<1>2. CASE \/ Script!StartMktemp \/ Script!CreateFile \/ Script!PrintName \/ Script!TakeName
           \/ Script!NoTempfile
  BY ScriptAssumption, <1>2
     DEF Script!StartMktemp, Script!CreateFile, Script!PrintName, Script!TakeName,
         Script!NoTempfile, Script!Answering, ScriptTypes, ScriptControl, ScriptFiles,
         Script!TypeOK, Script!NoFile, Serving, Unasked
<1>3. CASE \/ Script!StartChild \/ Script!Build \/ Script!Main \/ Script!Harness
           \/ Script!PrintState \/ Script!RemoveProducts \/ Script!KillCommand
  BY ScriptAssumption, <1>3
     DEF Script!StartChild, Script!Build, Script!Main, Script!Harness, Script!PrintState,
         Script!RemoveProducts, Script!KillCommand, Script!BinaryEnds, ScriptTypes,
         ScriptControl, ScriptFiles, Script!TypeOK, Script!NoFile, Serving, Unasked
<1>4. CASE \/ Script!Collect \/ Script!StartRm \/ Script!RemoveFile \/ Script!ForgetFile
           \/ Script!Cleanup
  BY ScriptAssumption, <1>4
     DEF Script!Collect, Script!StartRm, Script!RemoveFile, Script!ForgetFile,
         Script!Cleanup, ScriptTypes, ScriptControl, ScriptFiles, Script!TypeOK,
         Script!NoFile, Serving, Unasked
<1>5. CASE Script!HandleSignal \/ Script!SignalGroup \/ Script!Kill
  BY ScriptAssumption, <1>5
     DEF Script!HandleSignal, Script!SignalGroup, Script!Kill, ScriptTypes, ScriptControl,
         ScriptFiles, Script!TypeOK, Script!NoFile, Serving, Unasked
<1>6. CASE Script!Signal \/ Script!Rest \/ UNCHANGED svars
  BY ScriptAssumption, <1>6
     DEF Script!Signal, Script!Rest, ScriptTypes, ScriptControl, ScriptFiles, Script!TypeOK,
         Script!NoFile, Serving, Unasked
<1> QED BY <1>1, <1>2, <1>3, <1>4, <1>5, <1>6 DEF Script!Next, Script!Serve

LEMMA ScriptRequestStep ==
  ASSUME ScriptTypes, ScriptRequest, Script!Next \/ UNCHANGED svars
  PROVE  ScriptRequest'
<1> USE DEF Script!server, Script!command, Script!signals, Script!vars, svars, Serving
<1>1. CASE Script!Command
  <2>1. server_line' = server_line /\ server_line \in Script!Lines
    BY <1>1 DEF Script!Command, ScriptTypes, Script!TypeOK
  <2>2. server_pc' \in { "read_line", "cleanup", "mktemp" }
    BY <1>1 DEF Script!Command, Script!Answering
  <2>3. CASE server_pc' = "mktemp"
    <3>1. /\ Script!Text(1) = "RUN" /\ Len(server_line.tokens) = StateWords + 2
          /\ Script!IsCode(server_line.tokens[2])
          /\ units' = Script!CodeArgument(server_line.tokens[2].bytes)
      BY <1>1, <2>3 DEF Script!Command, Script!Answering
    <3>2. Len(server_line.tokens) \in Nat
          /\ (server_line.tokens = << >> <=> Len(server_line.tokens) = 0)
          /\ (server_line.eof => server_line.tokens = << >>)
      BY <2>1, ScriptLineType
    <3>3. 1 <= Len(server_line.tokens) /\ ~server_line.eof
      BY <3>1, <3>2, ScriptAssumption
    <3>4. GoodRun(server_line)
      BY <3>1, <3>3 DEF GoodRun, Script!Text
    <3> QED BY <2>1, <3>1, <3>4 DEF ScriptRequest, Bytes
  <2> QED BY <2>2, <2>3 DEF ScriptRequest
<1>2. CASE Script!SendReady \/ Script!ReadLine \/ Script!NoTempfile
  <2>1. server_pc' \notin Serving
    BY <1>2 DEF Script!SendReady, Script!ReadLine, Script!NoTempfile, Script!Answering
  <2> QED BY <2>1 DEF ScriptRequest
<1>3. CASE \/ Script!StartMktemp \/ Script!CreateFile \/ Script!PrintName \/ Script!TakeName
           \/ Script!StartChild
  <2>1. server_pc \in Serving
    BY <1>3 DEF Script!StartMktemp, Script!CreateFile, Script!PrintName, Script!TakeName,
       Script!StartChild, ScriptTypes, Script!TypeOK, Script!Mktemp
  <2>2. UNCHANGED << server_line, units >>
    BY <1>3 DEF Script!StartMktemp, Script!CreateFile, Script!PrintName, Script!TakeName,
       Script!StartChild
  <2> QED BY <2>1, <2>2 DEF ScriptRequest
<1>4. CASE \/ Script!Build \/ Script!Main \/ Script!Harness \/ Script!PrintState
           \/ Script!RemoveProducts \/ Script!KillCommand
  <2>1. server_pc \in Serving
    BY <1>4 DEF Script!Build, Script!Main, Script!Harness, Script!PrintState,
       Script!RemoveProducts, Script!KillCommand, ScriptTypes, Script!TypeOK, Script!Waiting
  <2>2. UNCHANGED << server_line, units >>
    BY <1>4 DEF Script!Build, Script!Main, Script!Harness, Script!PrintState,
       Script!RemoveProducts, Script!KillCommand
  <2> QED BY <2>1, <2>2 DEF ScriptRequest
<1>5. CASE \/ Script!Collect \/ Script!StartRm \/ Script!RemoveFile \/ Script!ForgetFile
           \/ Script!Cleanup \/ Script!HandleSignal \/ Script!Kill
  <2>1. server_pc' \notin Serving
    BY <1>5 DEF Script!Collect, Script!StartRm, Script!RemoveFile, Script!ForgetFile,
       Script!Cleanup, Script!HandleSignal, Script!Kill
  <2> QED BY <2>1 DEF ScriptRequest
<1>6. CASE Script!SignalGroup \/ Script!Signal \/ Script!Rest \/ UNCHANGED svars
  <2>1. server_pc' \in Serving => server_pc \in Serving
    BY <1>6 DEF Script!SignalGroup, Script!Signal, Script!Rest
  <2>2. UNCHANGED << server_line, units >>
    BY <1>6 DEF Script!SignalGroup, Script!Signal, Script!Rest
  <2> QED BY <2>1, <2>2 DEF ScriptRequest
<1> QED BY <1>1, <1>2, <1>3, <1>4, <1>5, <1>6 DEF Script!Next, Script!Serve

LEMMA ScriptRunStep ==
  ASSUME ScriptTypes, ScriptRequest, ScriptRun, ScriptFiles, Script!Next \/ UNCHANGED svars
  PROVE  ScriptRun'
<1> USE DEF Script!server, Script!command, Script!signals, Script!vars, svars
<1> DEFINE l == server_line
<1>1. CASE Script!SendReady \/ Script!ReadLine \/ Script!Command \/ Script!StartMktemp
  <2>1. child = "none" /\ child' \in { "none", "mktemp" } /\ UNCHANGED << output, made >>
    BY <1>1 DEF Script!SendReady, Script!ReadLine, Script!Command, Script!StartMktemp,
       ScriptTypes, Script!TypeOK, Script!Waiting
  <2>2. server_pc' \in { "read_line", "command", "mktemp", "cleanup", "naming" }
    BY <1>1 DEF Script!SendReady, Script!ReadLine, Script!Command, Script!StartMktemp,
       Script!Answering
  <2> QED BY <2>1, <2>2 DEF ScriptRun
<1>2. CASE Script!CreateFile \/ Script!PrintName \/ Script!TakeName \/ Script!NoTempfile
  <2>1. child \in { "none", "mktemp", "name" } /\ child' \in { "none", "name" }
        /\ server_line' = server_line
    BY <1>2 DEF Script!CreateFile, Script!PrintName, Script!TakeName, Script!NoTempfile,
       ScriptTypes, Script!TypeOK, Script!Waiting
  <2>2. server_pc' \in { "naming", "assign", "start", "read_line" }
    BY <1>2 DEF Script!CreateFile, Script!PrintName, Script!TakeName, Script!NoTempfile,
       Script!Answering, ScriptTypes, Script!TypeOK, Script!Mktemp
  <2>3. made' # Script!NoFile => output' = << >>
    BY <1>2 DEF Script!CreateFile, Script!PrintName, Script!TakeName, Script!NoTempfile,
       Script!Mktemp, ScriptRun
  <2>4. server_pc' = "start" /\ file' # Script!NoFile => output' = << >>
    BY <1>2, <2>2 DEF Script!CreateFile, Script!PrintName, Script!TakeName, Script!NoTempfile,
       Script!Answering, ScriptTypes, Script!TypeOK, Script!Mktemp, ScriptRun
  <2> QED BY <2>1, <2>2, <2>3, <2>4 DEF ScriptRun, Output
<1>3. CASE Script!StartChild
  BY <1>3 DEF Script!StartChild, ScriptRun
<1>4. CASE Script!Build \/ Script!RemoveProducts \/ Script!KillCommand
  <2>1. server_pc \in { "wait", "collect" } /\ server_pc' \in { "wait", "collect" }
        /\ UNCHANGED << server_line, output, made, regs >>
    BY <1>4, ScriptTypesParts
       DEF Script!Build, Script!RemoveProducts, Script!KillCommand, ScriptChild,
           Script!Waiting, Script!Mktemp, Script!Binary
  <2>2. child' \in { "run", "remove", "none", child }
    BY <1>4 DEF Script!Build, Script!RemoveProducts, Script!KillCommand
  <2> QED BY <2>1, <2>2 DEF ScriptRun
<1>5. CASE Script!Main \/ Script!Harness \/ Script!PrintState
  <2>1. /\ server_pc \in { "wait", "collect" } /\ server_pc' = server_pc
        /\ UNCHANGED << server_line, units, made >>
    BY <1>5 DEF Script!Main, Script!Harness, Script!PrintState, ScriptTypes, Script!TypeOK,
       Script!Waiting, Script!Mktemp
  <2>2. l \in Script!Lines /\ GoodRun(l) /\ units = Script!CodeArgument(Bytes(l))
    BY <2>1 DEF ScriptTypes, Script!TypeOK, ScriptRequest, Serving
  <2>3. Output(l, output) /\ made = Script!NoFile
    BY <2>1 DEF ScriptRun, ScriptFiles
  <2>4. CASE Script!Main
    <3>1. CASE child' = "harness"
      <4>1. regs' = [i \in 1..StateWords |-> Script!Least(l.tokens[i + 2].value, ScriptMaxWord)]
            /\ output' = output
        BY <2>4, <3>1 DEF Script!Main, Script!BinaryEnds
      <4>2. \A i \in 1..StateWords : l.tokens[i + 2].value \in 0..ScriptMaxWord
        BY <2>2, GoodRunTypes
      <4>3. regs' = Given(l)
        BY <4>1, <4>2, ScriptAssumption DEF Script!Least, Given
      <4> QED BY <2>1, <2>3, <3>1, <4>1, <4>3 DEF ScriptRun
    <3>2. CASE child' # "harness"
      <4>1. output' = << 0 >> /\ child' \in { "remove", "none" }
        BY <2>4, <3>2 DEF Script!Main, Script!BinaryEnds
      <4> QED BY <2>1, <2>3, <4>1 DEF ScriptRun, Output
    <3> QED BY <3>1, <3>2
  <2>5. CASE Script!Harness
    <3>1. Script!Assembled = Bytes(l) /\ regs = Given(l) /\ output' = output
      BY <2>2, <2>5, AssembledBytes DEF ScriptRun, Script!Harness
    <3>2. \/ child' \in { "remove", "none" }
          \/ /\ ~Script!Faults(Script!Assembled)
             /\ regs' = Script!Effect(Script!Assembled, regs) /\ child' = "print"
      BY <2>5 DEF Script!Harness, Script!BinaryEnds
    <3> QED BY <2>1, <2>3, <3>1, <3>2 DEF ScriptRun
  <2>6. CASE Script!PrintState
    <3>1. output' = regs /\ child' \in { "remove", "none" } /\ child = "print"
      BY <2>6 DEF Script!PrintState, Script!BinaryEnds
    <3>2. Output(l, regs)
      BY <3>1 DEF ScriptRun, Output
    <3> QED BY <2>1, <2>3, <3>1, <3>2 DEF ScriptRun
  <2> QED BY <1>5, <2>4, <2>5, <2>6
<1>6. CASE \/ Script!Collect \/ Script!StartRm \/ Script!RemoveFile \/ Script!ForgetFile
           \/ Script!Cleanup \/ Script!HandleSignal \/ Script!Kill
  <2>1. server_pc' \in { "rm", "removing", "forget", "read_line", "exited", "cleanup", "killed" }
        /\ UNCHANGED << output, made >>
    BY <1>6 DEF Script!Collect, Script!StartRm, Script!RemoveFile, Script!ForgetFile,
       Script!Cleanup, Script!HandleSignal, Script!Kill
  <2>2. child' \in { "none", "rm" }
    BY <1>6 DEF Script!Collect, Script!StartRm, Script!RemoveFile, Script!ForgetFile,
       Script!Cleanup, Script!HandleSignal, Script!Kill, ScriptTypes, Script!TypeOK,
       Script!Waiting
  <2> QED BY <2>1, <2>2 DEF ScriptRun
<1>7. CASE Script!SignalGroup
  <2>1. made' = Script!NoFile /\ child' = "none" /\ UNCHANGED << server_line, output, regs >>
    BY <1>7 DEF Script!SignalGroup
  <2>2. server_pc' \in { "assign", "forget" } \/ (server_pc = "wait" /\ server_pc' = "collect")
    BY <1>7 DEF Script!SignalGroup
  <2> QED BY <2>1, <2>2 DEF ScriptRun
<1>8. CASE Script!Signal \/ Script!Rest \/ UNCHANGED svars
  <2>1. UNCHANGED << server_pc, server_line, file, output, made, child, regs >>
    BY <1>8 DEF Script!Signal, Script!Rest
  <2> QED BY <2>1 DEF ScriptRun
<1> QED BY <1>1, <1>2, <1>3, <1>4, <1>5, <1>6, <1>7, <1>8 DEF Script!Next, Script!Serve

LEMMA ScriptStep == ScriptInv /\ (Script!Next \/ UNCHANGED svars) => ScriptInv'
  BY ScriptTypesStep, ScriptControlStep, ScriptRequestStep, ScriptRunStep, ScriptFilesStep
     DEF ScriptInv

\* In a session that may go on there is no file when the next line is read.
LEMMA ScriptNoFileLeft == ScriptInv => NoFileLeft
<1> SUFFICES ASSUME ScriptInv PROVE NoFileLeft
  OBVIOUS
<1> USE DEF ScriptInv, ScriptFiles
<1>1. server_pc = "read_line" => files = {}
  BY DEF Unasked
<1>2. server_pc = "exited" => files \subseteq IF handled < 2 THEN { lost } ELSE { lost, file }
  OBVIOUS
<1>3. lost # Script!NoFile => signal # 0 \/ handled > 0
  OBVIOUS
<1>4. \A f, g \in files : f = g
  OBVIOUS
<1> QED BY <1>1, <1>2, <1>3, <1>4 DEF NoFileLeft, Script!NoFileLeft

(***************************************************************************)
(* The script's steps as those of an executor, which may also be ended     *)
(* from outside at any moment.                                             *)
(***************************************************************************)
SameExchange == server_line' = server_line /\ server_answer' = server_answer
ScriptGreets ==
    /\ Script!phase = "starting" /\ Script!phase' = "idle"
    /\ server_answer' = Script!Ready /\ server_line' = server_line
ScriptTakes ==
    /\ Script!phase = "idle" /\ Script!phase' = "busy"
    /\ server_answer' = Script!Silence /\ server_line' \in Script!Lines
ScriptReplies ==
    /\ Script!phase = "busy" /\ Script!phase' = "idle"
    /\ server_answer' \in Script!Meanings(server_line) /\ server_line' = server_line
ScriptStops ==
    /\ Script!phase = "busy" /\ Script!Ends(server_line) /\ Script!phase' = "stopped"
    /\ SameExchange
ScriptDies == Script!phase # "stopped" /\ Script!phase' = "stopped" /\ SameExchange
ScriptIdles == Script!phase' = Script!phase /\ SameExchange
ScriptMove ==
    ScriptGreets \/ ScriptTakes \/ ScriptReplies \/ ScriptStops \/ ScriptDies \/ ScriptIdles

LEMMA GoodRunMeanings ==
  ASSUME NEW l \in Script!Lines, GoodRun(l)
  PROVE  /\ Script!Failures \subseteq Script!Meanings(l)
         /\ ~Script!Faults(Bytes(l))
               => Script!OK(Script!Effect(Bytes(l), Given(l))) \in Script!Meanings(l)
<1>1. ~Script!Ends(l) /\ l.tokens # << >> /\ l.tokens[1].text = "RUN"
      /\ Len(l.tokens) = StateWords + 2 /\ Script!IsCode(l.tokens[2])
  <2>1. l.tokens = << >> <=> Len(l.tokens) = 0
    BY ScriptLineType
  <2> QED BY <2>1, ScriptAssumption DEF GoodRun, Script!Ends
<1> QED BY <1>1 DEF Script!Meanings, Bytes, Given

LEMMA ScriptCommandMoves == ScriptInv /\ Script!Command => ScriptMove
<1> SUFFICES ASSUME ScriptInv, Script!Command PROVE ScriptMove
  OBVIOUS
<1> DEFINE ts == server_line.tokens
<1>1. /\ server_pc = "command" /\ server_line' = server_line /\ server_line \in Script!Lines
      /\ exiting = FALSE
  BY DEF Script!Command, ScriptInv, ScriptTypes, Script!TypeOK, ScriptControl, Unasked
<1>2. Len(ts) \in Nat /\ (ts = << >> <=> Len(ts) = 0) /\ (server_line.eof => ts = << >>)
  BY <1>1, ScriptLineType
<1>3. ts = << >> => Script!Text(1) = ""
  BY <1>2 DEF Script!Text
<1>4. ts # << >> => Script!Text(1) = ts[1].text
  <2>1. ts # << >> => 1 <= Len(ts)
    <3> HIDE DEF ts
    <3> QED BY <1>2
  <2> QED BY <2>1 DEF Script!Text
<1> HIDE DEF ts
<1>5. CASE server_pc' = "cleanup"
  <2>1. (server_line.eof \/ Script!Text(1) = "QUIT") /\ server_answer' = server_answer
        /\ exiting' = TRUE
    BY <1>5 DEF Script!Command, Script!Answering
  <2>2. Script!Ends(server_line)
    BY <1>3, <1>4, <2>1 DEF Script!Ends, ts
  <2> QED BY <1>1, <1>5, <2>1, <2>2 DEF ScriptMove, ScriptStops, SameExchange, Script!phase
<1>6. CASE server_pc' = "mktemp"
  <2>1. server_answer' = server_answer /\ exiting' = exiting
    BY <1>6 DEF Script!Command, Script!Answering
  <2> QED BY <1>1, <1>6, <2>1 DEF ScriptMove, ScriptIdles, SameExchange, Script!phase
<1>7. CASE server_pc' = "read_line"
  <2>1. server_answer' \in Script!Meanings(server_line)
    <3>1. CASE ~server_line.eof /\ Script!Text(1) \notin {"QUIT", "RUN"}
               /\ server_answer' = Script!ERROR("unknown-command")
      BY <1>3, <1>4, <3>1 DEF Script!Meanings, Script!Ends, ts
    <3>2. CASE Script!Text(1) = "RUN" /\ Len(ts) # StateWords + 2
               /\ server_answer' = Script!ERROR("wrong-input-state-size")
      <4>1. ts # << >> /\ ts[1].text = "RUN" /\ ~server_line.eof
        BY <1>2, <1>3, <1>4, <3>2
      <4> QED BY <3>2, <4>1 DEF Script!Meanings, Script!Ends, ts
    <3>3. CASE Script!Text(1) = "RUN" /\ Len(ts) = StateWords + 2 /\ ~Script!IsCode(ts[2])
               /\ server_answer' = Script!ERROR("malformed-code")
      <4>1. ts # << >> /\ ts[1].text = "RUN" /\ ~server_line.eof
        BY <1>2, <1>3, <1>4, <3>3
      <4> QED BY <3>3, <4>1 DEF Script!Meanings, Script!Ends, ts
    <3> QED BY <1>7, <3>1, <3>2, <3>3 DEF Script!Command, Script!Answering, ts
  <2>2. exiting' = exiting
    BY <1>7 DEF Script!Command, Script!Answering
  <2> QED BY <1>1, <1>7, <2>1, <2>2 DEF ScriptMove, ScriptReplies, Script!phase
<1> QED BY <1>5, <1>6, <1>7 DEF Script!Command, Script!Answering

LEMMA ScriptAnswerMoves == ScriptInv /\ (Script!NoTempfile \/ Script!Collect) => ScriptMove
<1> SUFFICES ASSUME ScriptInv, Script!NoTempfile \/ Script!Collect PROVE ScriptMove
  OBVIOUS
<1> USE DEF Script!server, Script!command
<1>1. /\ server_line \in Script!Lines /\ server_line' = server_line /\ GoodRun(server_line)
      /\ exiting = FALSE /\ exiting' = FALSE
  BY DEF Script!NoTempfile, Script!Collect, ScriptInv, ScriptTypes, Script!TypeOK, ScriptRequest,
         ScriptControl, Serving
<1>2. CASE Script!NoTempfile
  <2>1. server_pc = "start" /\ server_pc' = "read_line"
        /\ server_answer' = Script!ERROR("tempfile")
    BY <1>2 DEF Script!NoTempfile, Script!Answering
  <2>2. server_answer' \in Script!Meanings(server_line)
    BY <1>1, <2>1, GoodRunMeanings DEF Script!Failures
  <2> QED BY <1>1, <2>1, <2>2 DEF ScriptMove, ScriptReplies, Script!phase
<1>3. CASE Script!Collect
  <2>1. /\ server_pc = "collect" /\ server_pc' = "rm" /\ Output(server_line, output)
        /\ status \in {0, 137}
        /\ server_answer' = IF output = << >> THEN Script!TRAP(status)
                            ELSE IF Len(output) # StateWords
                                 THEN Script!ERROR("wrong-output-state-size")
                            ELSE Script!OK(output)
    BY <1>3 DEF Script!Collect, ScriptInv, ScriptRun, ScriptTypes, Script!TypeOK
  <2>2. server_answer' \in Script!Meanings(server_line)
    <3>1. CASE output = << >> \/ Len(output) # StateWords
      <4>1. server_answer' \in Script!Failures
        BY <2>1, <3>1 DEF Script!Failures
      <4> QED BY <1>1, <4>1, GoodRunMeanings
    <3>2. CASE output # << >> /\ Len(output) = StateWords
      <4>1. output # << 0 >>
        <5>1. Len(<< 0 >>) = 1 /\ StateWords # 1
          BY ScriptAssumption
        <5> QED BY <3>2, <5>1
      <4>2. ~Script!Faults(Bytes(server_line))
            /\ output = Script!Effect(Bytes(server_line), Given(server_line))
        BY <2>1, <3>2, <4>1 DEF Output
      <4>3. server_answer' = Script!OK(output)
        BY <2>1, <3>2
      <4> QED BY <1>1, <4>2, <4>3, GoodRunMeanings
    <3> QED BY <3>1, <3>2
  <2> QED BY <1>1, <2>1, <2>2 DEF ScriptMove, ScriptReplies, Script!phase
<1> QED BY <1>2, <1>3

LEMMA ScriptMoves == ScriptInv /\ (Script!Next \/ UNCHANGED svars) => ScriptMove
<1> SUFFICES ASSUME ScriptInv, Script!Next \/ UNCHANGED svars PROVE ScriptMove
  OBVIOUS
<1> USE DEF Script!server, Script!command, Script!signals, Script!vars, svars
<1>1. CASE Script!Command
  BY <1>1, ScriptCommandMoves
<1>2. CASE Script!NoTempfile \/ Script!Collect
  BY <1>2, ScriptAnswerMoves
<1> USE DEF ScriptInv, ScriptTypes, Script!TypeOK, ScriptControl
<1>3. CASE Script!SendReady
  BY <1>3 DEF Script!SendReady, Script!Answering, ScriptMove, ScriptGreets, Script!phase, Unasked
<1>4. CASE Script!ReadLine
  BY <1>4 DEF Script!ReadLine, ScriptMove, ScriptTakes, Script!phase, Unasked
<1>5. CASE \/ Script!StartMktemp \/ Script!CreateFile \/ Script!PrintName \/ Script!TakeName
           \/ Script!StartChild
  <2>1. server_pc \in { "mktemp", "naming", "assign", "start" }
        /\ server_pc' \in { "naming", "assign", "start", "wait" }
    BY <1>5 DEF Script!StartMktemp, Script!CreateFile, Script!PrintName, Script!TakeName,
                Script!StartChild, Script!Mktemp
  <2>2. UNCHANGED << exiting, server_line, server_answer >>
    BY <1>5 DEF Script!StartMktemp, Script!CreateFile, Script!PrintName, Script!TakeName,
                Script!StartChild
  <2> QED BY <2>1, <2>2 DEF ScriptMove, ScriptIdles, SameExchange, Script!phase
<1>6. CASE \/ Script!Build \/ Script!Main \/ Script!Harness \/ Script!PrintState
           \/ Script!RemoveProducts \/ Script!KillCommand
  <2>1. server_pc \in { "wait", "collect" } /\ server_pc' \in { "wait", "collect" }
    BY <1>6 DEF Script!Build, Script!Main, Script!Harness, Script!PrintState,
                Script!RemoveProducts, Script!KillCommand, Script!Waiting, Script!Mktemp
  <2>2. UNCHANGED << exiting, server_line, server_answer >>
    BY <1>6 DEF Script!Build, Script!Main, Script!Harness, Script!PrintState,
                Script!RemoveProducts, Script!KillCommand
  <2> QED BY <2>1, <2>2 DEF ScriptMove, ScriptIdles, SameExchange, Script!phase
<1>7. CASE Script!StartRm \/ Script!RemoveFile \/ Script!ForgetFile \/ Script!Cleanup
  <2>1. UNCHANGED << exiting, server_line, server_answer >>
    BY <1>7 DEF Script!StartRm, Script!RemoveFile, Script!ForgetFile, Script!Cleanup
  <2>2. exiting \/ ( /\ server_pc \in { "rm", "removing", "forget" }
                    /\ server_pc' \in { "removing", "forget", "read_line" } )
    BY <1>7 DEF Script!StartRm, Script!RemoveFile, Script!ForgetFile, Script!Cleanup
  <2> QED BY <2>1, <2>2 DEF ScriptMove, ScriptIdles, SameExchange, Script!phase
<1>8. CASE Script!HandleSignal \/ Script!Kill
  <2>1. exiting' = TRUE \/ (server_pc' = "killed" /\ exiting' = exiting)
    BY <1>8 DEF Script!HandleSignal, Script!Kill
  <2>2. SameExchange /\ server_pc # "killed"
    BY <1>8 DEF Script!HandleSignal, Script!Kill, Script!Ended, SameExchange
  <2> QED BY <2>1, <2>2 DEF ScriptMove, ScriptDies, ScriptIdles, Script!phase
<1>9. CASE Script!SignalGroup
  <2>1. UNCHANGED << exiting, server_line, server_answer >>
    BY <1>9 DEF Script!SignalGroup
  <2>2. \/ server_pc \in { "naming", "wait" } /\ server_pc' \in { "assign", "collect" }
        \/ server_pc = "removing" /\ server_pc' = "forget"
    BY <1>9 DEF Script!SignalGroup
  <2> QED BY <2>1, <2>2 DEF ScriptMove, ScriptIdles, SameExchange, Script!phase
<1>10. CASE Script!Signal \/ Script!Rest \/ UNCHANGED svars
  <2>1. UNCHANGED << server_pc, exiting, server_line, server_answer >>
    BY <1>10 DEF Script!Signal, Script!Rest
  <2> QED BY <2>1 DEF ScriptMove, ScriptIdles, SameExchange, Script!phase
<1> QED BY <1>1, <1>2, <1>3, <1>4, <1>5, <1>6, <1>7, <1>8, <1>9, <1>10
        DEF Script!Next, Script!Serve

-----------------------------------------------------------------------------
(* A session: whichever of the two is running keeps its invariant, and the *)
(* other one, which is not started, rests in its initial state.            *)
SessionInv == backend \in { "monitor", "script" } /\ MonitorInv /\ ScriptInv

LEMMA SessionInvInit == SessionInit => SessionInv
  BY MonitorInit, ScriptInit DEF SessionInit, SessionInv

LEMMA SessionInvStep == SessionInv /\ [SessionNext]_session => SessionInv'
<1> SUFFICES ASSUME SessionInv, [SessionNext]_session PROVE SessionInv'
  OBVIOUS
<1>1. backend' = backend
  BY DEF SessionNext, OfMonitor, OfScript, session
<1>2. [Next]_vars
  BY DEF SessionNext, OfMonitor, OfScript, session
<1>3. Script!Next \/ UNCHANGED svars
  BY DEF SessionNext, OfMonitor, OfScript, session
<1> QED BY <1>1, <1>2, <1>3, MonitorStep, ScriptStep DEF SessionInv

LEMMA SessionInductive == SessionSpec => []SessionInv
  BY SessionInvInit, SessionInvStep, PTL DEF SessionSpec

(***************************************************************************)
(* The types of both executors (cosim_runner.c, lines 22-52, and           *)
(* tools/simulate-persistent, lines 14-53).                                *)
(***************************************************************************)
THEOREM SessionTypeHolds == SessionSpec => []SessionTypeOK
<1>1. SessionInv => SessionTypeOK
  <2> SUFFICES ASSUME SessionInv PROVE SessionTypeOK
    OBVIOUS
  <2>1. TypeOK
    BY DEF SessionInv, MonitorInv, MonitorTypes, TypeOK, States, Word
  <2>2. Script!TypeOK
    BY DEF SessionInv, ScriptInv, ScriptTypes
  <2> QED BY <2>1, <2>2 DEF SessionTypeOK
<1> QED BY <1>1, SessionInductive, PTL

(***************************************************************************)
(* No C code runs on a register of the tested code, whatever that code     *)
(* does to the registers and wherever it traps (cosim_start.S, 20-83).     *)
(***************************************************************************)
THEOREM MonitorContextHolds == SessionSpec => []MonitorContext
<1>1. SessionInv => MonitorContext
  BY DEF SessionInv, MonitorInv, MonitorKept
<1> QED BY <1>1, SessionInductive, PTL

(***************************************************************************)
(* The processor meets the code of the request and the breakpoint behind   *)
(* it, for any slot and any sequence of requests (cosim_runner.c,          *)
(* 334-345).                                                               *)
(***************************************************************************)
THEOREM OnlyRequestedCodeHolds == SessionSpec => []OnlyRequestedCode
<1>1. SessionInv => OnlyRequestedCode
  <2> SUFFICES ASSUME SessionInv, pc = "test" PROVE OnlyRequestedCode
    BY DEF OnlyRequestedCode
  <2>1. MonitorInv
    BY DEF SessionInv
  <2> QED BY <2>1, FetchFacts DEF OnlyRequestedCode, Fetched, Instrs
<1> QED BY <1>1, SessionInductive, PTL

(***************************************************************************)
(* The script removes every file it makes, whichever step a signal meets,  *)
(* but for the one whose mktemp the signal ended too (line 107), and the   *)
(* one whose removal a second signal prevents; either is the last of its   *)
(* session (tools/simulate-persistent, 45-55 and 107-127).                 *)
(***************************************************************************)
THEOREM NoFileLeftHolds == SessionSpec => []NoFileLeft
<1>1. SessionInv => NoFileLeft
  BY ScriptNoFileLeft DEF SessionInv
<1> QED BY <1>1, SessionInductive, PTL

-----------------------------------------------------------------------------
LEMMA ExecutorInit == SessionInit => Executor!Init
<1> SUFFICES ASSUME SessionInit PROVE Executor!Init
  OBVIOUS
<1>1. CASE backend = "monitor"
  BY <1>1 DEF SessionInit, Init, Executor!Init, phase, Lines, Asked, From
<1>2. CASE backend = "script"
  BY <1>2 DEF SessionInit, Script!Init, Script!Silence, Silence, Executor!Init, Script!phase,
              Script!Lines, Asked, From
<1> QED BY <1>1, <1>2 DEF SessionInit

LEMMA ExecutorStep == SessionInv /\ [SessionNext]_session => [Executor!Next]_(Executor!vars)
<1> SUFFICES ASSUME SessionInv, [SessionNext]_session PROVE [Executor!Next]_(Executor!vars)
  OBVIOUS
<1>1. backend' = backend
  BY DEF SessionNext, OfMonitor, OfScript, session
<1>2. CASE backend = "monitor"
  <2>1. MonitorMove
    BY MonitorMoves DEF SessionInv, SessionNext, OfMonitor, OfScript, session
  <2>2. CASE MonitorGreets
    BY <1>1, <1>2, <2>2 DEF MonitorGreets, Executor!Greet, Executor!Next
  <2>3. CASE MonitorTakes
    BY <1>1, <1>2, <2>3 DEF MonitorTakes, Executor!Take, Executor!Next, Asked, From
  <2>4. CASE MonitorReplies
    BY <1>1, <1>2, <2>4 DEF MonitorReplies, Executor!Reply, Executor!Next, Allowed
  <2>5. CASE MonitorStops
    BY <1>1, <1>2, <2>5 DEF MonitorStops, Executor!Stop, Executor!Next, Ending
  <2>6. CASE MonitorIdles
    BY <1>1, <1>2, <2>6 DEF MonitorIdles, Executor!vars
  <2> QED BY <2>1, <2>2, <2>3, <2>4, <2>5, <2>6 DEF MonitorMove
<1>3. CASE backend = "script"
  <2> USE DEF SameExchange
  <2>1. ScriptMove
    BY <1>3, ScriptMoves DEF SessionInv, SessionNext, OfMonitor, OfScript, session
  <2>2. CASE ScriptGreets
    BY <1>1, <1>3, <2>2
       DEF ScriptGreets, Script!Ready, Ready, Executor!Greet, Executor!Next
  <2>3. CASE ScriptTakes
    BY <1>1, <1>3, <2>3
       DEF ScriptTakes, Script!Silence, Silence, Executor!Take, Executor!Next, Asked, From
  <2>4. CASE ScriptReplies
    BY <1>1, <1>3, <2>4 DEF ScriptReplies, Executor!Reply, Executor!Next, Allowed
  <2>5. CASE ScriptStops
    BY <1>1, <1>3, <2>5 DEF ScriptStops, Executor!Stop, Executor!Next, Ending
  <2>6. CASE ScriptDies
    BY <1>1, <1>3, <2>6 DEF ScriptDies, Executor!Die, Executor!Next, Killable
  <2>7. CASE ScriptIdles
    BY <1>1, <1>3, <2>7 DEF ScriptIdles, Executor!vars
  <2> QED BY <2>1, <2>2, <2>3, <2>4, <2>5, <2>6, <2>7 DEF ScriptMove
<1> QED BY <1>2, <1>3 DEF SessionInv

(***************************************************************************)
(* A session with either executor is one with the executor of cosim.ml     *)
(* (lines 42-59): what is answered is what the request means, with nothing *)
(* of an earlier request in it, and the end is one that was asked for or   *)
(* comes from outside.                                                     *)
(***************************************************************************)
THEOREM AnswersItsRequestHolds == SessionSpec => AnswersItsRequest
<1>1. SessionSpec => []SessionInv /\ [][SessionNext]_session /\ Executor!Init
  BY SessionInductive, ExecutorInit, PTL DEF SessionSpec
<1>2. []SessionInv /\ [][SessionNext]_session => [][Executor!Next]_(Executor!vars)
  BY ExecutorStep, PTL
<1> QED BY <1>1, <1>2, PTL DEF AnswersItsRequest, Executor!SafetySpec
=============================================================================
