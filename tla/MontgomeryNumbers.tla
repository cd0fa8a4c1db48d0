------------------------- MODULE MontgomeryNumbers -------------------------
(***************************************************************************)
(* The Montgomery arithmetic under arm/generic, for numbers of k words and *)
(* an odd modulus m: what bignum_modexp is made of, and its relatives.     *)
(* Each loop clears the lowest word of a number and moves the others down. *)
(* Where a number outgrows its words the carry becomes a mask; a carry     *)
(* that is neither 0 nor 1 makes no mask.                                  *)
(***************************************************************************)
EXTENDS Calls

CONSTANTS WordBits,     \* 64
          Moduli        \* pairs << k, m >> to be tried

B == 2^WordBits
Numbers(k) == 0..(B^k - 1)
Digit(v, i) == (v \div B^i) % B
NoNumber == -1

Iterated(n, Step(_, _), start) ==
    LET s[i \in 0..n] == IF i = 0 THEN start ELSE LET u == s[i - 1] IN Step(u, i - 1)
    IN  s[n]

\* The negated inverse of the lowest word, and the multiple of m that clears
\* the lowest word of v
Inverse(m) == CHOOSE w \in 0..(B - 1) : ((m * w) + 1) % B = 0
Clearing(v, m) == ((v % B) * Inverse(m)) % B
Lowered(v, m) == (v + (Clearing(v, m) * m)) \div B

\* A masked subtraction of m, under the word above the number
Corrected(v, m, k) ==
    CASE v < B^k -> v
      [] v \in B^k..(2 * B^k - 1) -> (v - m) % B^k
      [] OTHER -> NoNumber
Subtracted(v, m, k) == IF v >= m THEN (v - m) % B^k ELSE v

\* k steps on k words, without a carry
Demontgomerized(v, m, k) ==
    LET Lower(u, i) == Lowered(u, m) % B^k
    IN  Subtracted(Iterated(k, Lower, v), m, k)

Demont == \E q \in Moduli : \E x \in Numbers(q[1]) :
    Call("demont", << q[1], x, q[2] >>, << Demontgomerized(x, q[2], q[1]) >>)

\* A word of x enters at the top for each that leaves at the bottom.
Amontredc == \E q \in Moduli : \E n, p \in 0..(2 * q[1]) : \E x \in Numbers(n) :
    LET k == q[1]
        LowerAndLoad(u, i) == Lowered(u, q[2]) + (Digit(x, k + i) * B^(k - 1))
        v == Iterated(p, LowerAndLoad, x % B^k)
    IN  Call("amontredc", << k, x, q[2], p >>, << Corrected(v, q[2], k) >>)

\* In place on 2 k words: a cleared word keeps the multiple that has cleared
\* it.  The carry of a step waits for the next word.
Emontredc == \E q \in Moduli : \E z \in Numbers(2 * q[1]) :
    LET k == q[1]
        Lower(s, i) ==
            LET t == Lowered(s.z % B^k, q[2]) + (s.carry * B^(k - 1)) + (Digit(s.z, k) * B^(k - 1))
            IN  [z |-> (t % B^k) + ((s.z \div B^(k + 1)) * B^k),
                 carry |-> t \div B^k,
                 multiple |-> s.multiple + Clearing(s.z, q[2]) * B^i]
        s == Iterated(k, Lower, [z |-> z, carry |-> 0, multiple |-> 0])
    IN  Call("emontredc", << k, z, q[2] >>, << s.z, s.carry, s.multiple >>)
-----------------------------------------------------------------------------
(* Products                                                                *)
\* Mutant of Product: the word above a sum is not kept for the next one.
ProductCarryless(x, y, m, k) ==
    LET AddAndLower(u, i) == Lowered((u % B^k) + Digit(x, i) * y, m)
    IN  Iterated(k, AddAndLower, 0)

Product(x, y, m, k) ==
    LET AddAndLower(u, i) == Lowered(u + Digit(x, i) * y, m)
    IN  Iterated(k, AddAndLower, 0)

\* The carry word enters the comparison of montmul.
AlmostProduct(x, y, m, k) == Corrected(Product(x, y, m, k), m, k)
ReducedProduct(x, y, m, k) == Subtracted(Product(x, y, m, k), m, k)

Amontmul == \E q \in Moduli : \E x, y \in Numbers(q[1]) :
    Call("amontmul", << q[1], x, q[2], y >>, << AlmostProduct(x, y, q[2], q[1]) >>)
Amontsqr == \E q \in Moduli : \E x \in Numbers(q[1]) :
    Call("amontmul", << q[1], x, q[2], x >>, << AlmostProduct(x, x, q[2], q[1]) >>)
Montmul == \E q \in Moduli : \E x, y \in Numbers(q[1]) :
    /\ x * y <= q[2] * B^q[1]
    /\ Call("montmul", << q[1], x, q[2], y >>, << ReducedProduct(x, y, q[2], q[1]) >>)
Montsqr == \E q \in Moduli : \E x \in Numbers(q[1]) :
    /\ x * x <= q[2] * B^q[1]
    /\ Call("montmul", << q[1], x, q[2], x >>, << ReducedProduct(x, x, q[2], q[1]) >>)

\* The inverse of all of x, word by word from that of the lowest
Negmodinv == \E q \in Moduli :
    LET k == q[1]
        x == q[2]
        NextWord(s, i) ==
            LET d == Clearing(s.rest, x)
            IN  [z |-> s.z + d * B^i, rest |-> ((s.rest + d * x) \div B) % B^k]
    IN  Call("negmodinv", << k, x >>,
             << Iterated(k, NextWord, [z |-> 0, rest |-> 1]).z >>)
-----------------------------------------------------------------------------
(* Powers of 2^(WordBits k) modulo m                                       *)
\* m with zero words and bits taken from its top, as n
Normalized(m, k) == m * 2^(CHOOSE i \in 0..(WordBits * k) : m * 2^i \in (B^k \div 2)..(B^k - 1))

\* The quotient of 2^(2 WordBits - 2) by the top word of n, bit by bit
Estimate(h) ==
    LET Bit(s, i) ==
            LET bit == IF s.r >= (h - s.r) % B THEN 1 ELSE 0
            IN  [q |-> (2 * s.q + bit) % B, r |-> (2 * s.r - bit * h) % B]
        s == Iterated(WordBits - 2, Bit, [q |-> 1, r |-> -h % B])
    IN  IF s.r = h THEN s.q + 1 ELSE s.q

\* A number below n, or n itself, is doubled.
Doubled(z, n, k) ==
    CASE 2 * z < n -> 2 * z
      [] 2 * z - n \in Numbers(k) -> 2 * z - n
      [] OTHER -> NoNumber

\* 2^(WordBits (k + 1)) modulo n: a remainder from the estimate, doubled twice
Start(m, k) ==
    LET n == Normalized(m, k)
        d == Estimate(n \div B^(k - 1)) * n
        high == (d \div B^k) - (B \div 4)
        z == (IF high >= 0 THEN n - d ELSE -d) % B^k
    IN  Doubled(Doubled(z, n, k), n, k)

\* Multiplications by 2^WordBits in k + 1 words, then one step down
Amontified(m, k, n) ==
    LET r == Start(m, k)
        Raise(t, i) ==
            LET u == ((t \div B^k) * r) + (B * (t % B^k))
            IN  (IF u >= B^(k + 1) THEN u + r ELSE u) % B^(k + 1)
    IN  Corrected(Lowered(Iterated(n, Raise, r), m), m, k)

Amontifier == \E q \in Moduli :
    Call("amontifier", << q[1], q[2] >>, << Amontified(q[2], q[1], q[1]) >>)
\* The same and a reduction of all k words
Modifier == \E q \in Moduli :
    Call("modifier", << q[1], q[2] >>,
         << Demontgomerized(Amontified(q[2], q[1], q[1]), q[2], q[1]) >>)
Montifier == \E q \in Moduli :
    Call("montifier", << q[1], q[2] >>,
         << Demontgomerized(Amontified(q[2], q[1], 2 * q[1]), q[2], q[1]) >>)

MontgomeryNext ==
    \/ Demont \/ Amontredc \/ Emontredc \/ Amontmul \/ Amontsqr \/ Montmul \/ Montsqr
    \/ Negmodinv \/ Amontifier \/ Modifier \/ Montifier
=============================================================================
