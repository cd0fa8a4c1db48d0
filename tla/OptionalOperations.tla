------------------------- MODULE OptionalOperations -------------------------
(***************************************************************************)
(* The functions that do or leave out an operation without branching on    *)
(* it: modular sums and differences, negation and addition under a flag,   *)
(* multiplexers.  A mask is a condition here.  The modulus m is read again *)
(* after the first result has been stored, x and y are not.                *)
(***************************************************************************)
EXTENDS WordLoops

Buffers(k, x, y, m) == [x |-> Words(x, k), y |-> Words(y, k), m |-> Words(m, k), z |-> Words(0, 0)]
Flags == { 0, 1, B - 1 }
Under(b, w) == IF b THEN w ELSE 0

\* The k words of z plus, and minus, the modulus under the condition c
Corrected(mem, k, z, c) ==
    LET Z(b, i) == b[z][i]
        Modulus(b, i) == Under(c, M(b, i))
    IN  Added(mem, k, z, Z, Modulus, 0)
Lowered(mem, k, z, c) ==
    LET Z(b, i) == b[z][i]
        Modulus(b, i) == Under(c, M(b, i))
    IN  Subtracted(mem, k, z, Z, Modulus, 1)

\* The subtraction of the modulus that is not stored
LessModulus(mem, k, z) == LET Z(b, i) == b[z][i] IN Subtracted(mem, k, "none", Z, M, 1)

\* Mutant of Reached: the carry out of the words is not looked at.
ReachedLow(mem, k, z, carry) == LessModulus(mem, k, z).carry = 1

\* (carry :: z) >= m.  The mask is the complement of a word that is 0 or -1,
\* as the sum is below 2 * m.
Reached(mem, k, z, carry) == carry - 1 + LessModulus(mem, k, z).carry >= 0

Sum(mem, k, z) == Added(mem, k, z, X, Y, 0)
Difference(mem, k, z) == Subtracted(mem, k, z, X, Y, 1)

Modadd == \E k \in 1..MaxWords : \E m \in Numbers(k), z \in { "x", "y", "z" } :
  \E x, y \in 0..(m - 1) :
    LET mem == Buffers(k, x, y, m)
        sum == Sum(mem, k, z)
        c == Reached(sum.mem, k, z, sum.carry)
    IN  Call("modadd", << k, x, y, m >>, << Left(mem, Lowered(sum.mem, k, z, c).mem, z, k) >>)

\* The words of 2 * x are made while m is subtracted; b is the word before.
Doubled(mem, k, z) ==
    LET Subtract(s, i) ==
            LET a == X(s.mem, i)
                t == ((2 * a + (s.before \div (B \div 2))) % B) + (B - 1 - M(s.mem, i)) + s.carry
            IN  [mem |-> Store(s.mem, z, i, t % B), carry |-> t \div B, before |-> a]
    IN  Up(k, Subtract, [mem |-> mem, carry |-> 1, before |-> 0])

Moddouble == \E k \in 1..MaxWords : \E m \in Numbers(k), z \in { "x", "z" } :
  \E x \in 0..(m - 1) :
    LET mem == Buffers(k, x, 0, m)
        s == Doubled(mem, k, z)
        borrow == (s.before \div (B \div 2)) - 1 + s.carry < 0
    IN  Call("moddouble", << k, x, m >>, << Left(mem, Corrected(s.mem, k, z, borrow).mem, z, k) >>)

Modsub == \E k \in 1..MaxWords : \E m \in Numbers(k), z \in { "x", "y", "z" } :
  \E x, y \in 0..(m - 1) :
    LET mem == Buffers(k, x, y, m)
        s == Difference(mem, k, z)
    IN  Call("modsub", << k, x, y, m >>,
             << Left(mem, Corrected(s.mem, k, z, s.carry = 0).mem, z, k) >>)

\* 0 + x or m - x
Negated(mem, k, z, q) ==
    LET Modulus(b, i) == Under(q, M(b, i))
        Signed(b, i) == IF q THEN B - 1 - X(b, i) ELSE X(b, i)
    IN  Added(mem, k, z, Modulus, Signed, Flag(q))

\* Negation is forgone for the number zero.
Modoptneg == \E k \in 0..MaxWords : \E m \in Numbers(k), p \in Flags, z \in { "x", "z" } :
  \E x \in 0..(IF k = 0 THEN 0 ELSE m - 1) :
    LET mem == Buffers(k, x, 0, m)
        q == p # 0 /\ \E i \in 0..(k - 1) : X(mem, i) # 0
    IN  Call("modoptneg", << k, x, p, m >>, << Left(mem, Negated(mem, k, z, q).mem, z, k) >>)

OptionalSum(mem, k, z, p) ==
    LET Second(b, i) == Under(p, Y(b, i)) IN Added(mem, k, z, X, Second, 0)
OptionalDifference(mem, k, z, p) ==
    LET Second(b, i) == Under(p, Y(b, i)) IN Subtracted(mem, k, z, X, Second, 1)
OptionalNegation(mem, k, z, p) ==
    LET Signed(b, i) == IF p THEN B - 1 - X(b, i) ELSE X(b, i)
        Zero(b, i) == 0
    IN  Added(mem, k, z, Signed, Zero, Flag(p))
SignedSum(mem, k, z, p, q) ==
    LET Second(b, i) == Under(p, IF q THEN B - 1 - Y(b, i) ELSE Y(b, i))
    IN  Added(mem, k, z, X, Second, Flag(q))

Optadd == \E k \in Lengths : \E x, y \in Numbers(k), p \in Flags, z \in { "x", "y", "z" } :
    LET mem == Buffers(k, x, y, 0)
        s == OptionalSum(mem, k, z, p # 0)
    IN  Call("optadd", << k, x, p, y >>, << Left(mem, s.mem, z, k), s.carry >>)

Optsub == \E k \in Lengths : \E x, y \in Numbers(k), p \in Flags, z \in { "x", "y", "z" } :
    LET mem == Buffers(k, x, y, 0)
        s == OptionalDifference(mem, k, z, p # 0)
    IN  Call("optsub", << k, x, p, y >>, << Left(mem, s.mem, z, k), 1 - s.carry >>)

Optneg == \E k \in Lengths : \E x \in Numbers(k), p \in Flags, z \in { "x", "z" } :
    LET mem == Buffers(k, x, 0, 0)
        s == OptionalNegation(mem, k, z, p # 0)
    IN  Call("optneg", << k, x, p >>,
             << Left(mem, s.mem, z, k), IF k = 0 THEN 0 ELSE (s.carry + Flag(p # 0)) % 2 >>)

\* The sign of p as a word decides.
Optsubadd == \E k \in Lengths : \E x, y \in Numbers(k), p \in Flags, z \in { "x", "y", "z" } :
    LET mem == Buffers(k, x, y, 0)
        q == p >= B \div 2
        s == SignedSum(mem, k, z, p # 0, q)
    IN  Call("optsubadd", << k, x, p, y >>,
             << Left(mem, s.mem, z, k), IF k = 0 THEN 0 ELSE (s.carry + Flag(q)) % 2 >>)

Selected(mem, k, z, p) ==
    LET Select(b, i) == Store(b, z, i, IF p THEN X(b, i) ELSE Y(b, i)) IN Down(k, Select, mem)

Mux == \E k \in Lengths : \E x, y \in Numbers(k), p \in Flags, z \in { "x", "y", "z" } :
    LET mem == Buffers(k, x, y, 0)
    IN  Call("mux", << k, p, x, y >>, << Left(mem, Selected(mem, k, z, p # 0), z, k) >>)

\* A table of 16 numbers of k words: the word w of the entry is found by
\* comparing offsets k * j with the one wanted.
EntryWord(k, numbers, wanted, w) ==
    LET word(j) == (numbers[j] \div Pow(w)) % B
        a[j \in 0..15] == IF j > 0 /\ k * j # k * wanted THEN a[j - 1] ELSE word(j)
    IN  a[15]
Entry(mem, k, numbers, wanted) ==
    LET Select(b, w) == Store(b, "z", w, EntryWord(k, numbers, wanted, w)) IN Up(k, Select, mem)

Mux16 == \E k \in Lengths, first \in Numbers(2), wanted \in 0..15 :
    LET numbers == [j \in 0..15 |-> (first + 3 * j) % Pow(k)]
        mem == [z |-> Words(0, 0)]
    IN  Call("mux16", << k, numbers[wanted] >>, << Left(mem, Entry(mem, k, numbers, wanted), "z", k) >>)

OptionalNext ==
    \/ Modadd \/ Moddouble \/ Modsub \/ Modoptneg
    \/ Optadd \/ Optsub \/ Optneg \/ Optsubadd \/ Mux \/ Mux16
=============================================================================
