--------------------------- MODULE WordDivision ----------------------------
(***************************************************************************)
(* Division of a number by a word, and multiplication and division by ten  *)
(* in place.  Division by ten is a multiplication by a reciprocal, which   *)
(* is exact for a dividend that is short enough: so the two words are      *)
(* split at Split bits, 2^Split being 1 modulo 5.                          *)
(***************************************************************************)
EXTENDS WordLoops

CONSTANTS Split,        \* 28
          Longs         \* numbers of more than one word to be tried

Tried(k) == IF k <= 1 THEN Numbers(k) ELSE Longs

\* 10 a = 8 a + 2 a; the three top bits of a are the high word of 8 a, and the
\* topmost of them that of 2 a.
Muladd10 == \E k \in Lengths : \E x \in Tried(k), d \in { 0, 1, 9, B - 1 } :
    LET mem == [z |-> Words(x, k)]
        Times10(s, i) ==
            LET a == s.mem["z"][i]
                h == a \div (B \div 8)
                l == (2 * a) % B
                t == l + ((4 * l) % B)
                u == (t % B) + s.d
            IN  [mem |-> Store(s.mem, "z", i, u % B), d |-> h + (h \div 4) + (t \div B) + (u \div B)]
        s == Up(k, Times10, [mem |-> mem, d |-> d])
    IN  Call("muladd10", << k, x, d >>, << Left(mem, s.mem, "z", k), s.d >>)

\* Mutant of Reciprocal: the quotient of all ones by five, not rounded up.
ReciprocalLow == (B - 1) \div 5

Reciprocal == (B - 1) \div 5 + 1

\* With 2^Split h + l = (B r + d) / 2, ten's quotient is
\* ((2^Split - 1) / 5) h + (h + l) / 5.
Divmod10 == \E k \in Lengths : \E x \in Tried(k) :
    LET mem == [z |-> Words(x, k)]
        Divide(s, i) ==
            LET d == s.mem["z"][i]
                h == (s.r * B + d) \div 2^(Split + 1)
                l == (d \div 2) % 2^Split
                q == ((h * ((2^Split - 1) \div 5)) + (((h + l) * Reciprocal) \div B)) % B
            IN  [mem |-> Store(s.mem, "z", i, q), r |-> (d - 10 * q) % B]
        s == Down(k, Divide, [mem |-> mem, r |-> 0])
    IN  Call("divmod10", << k, x >>, << Left(mem, s.mem, "z", k), s.r >>)

DecimalNext == Muladd10 \/ Divmod10
-----------------------------------------------------------------------------
(* Division by any word.  The remainder is collected from the top, modulo  *)
(* a multiple of the divisor; the quotient from below, as a Montgomery     *)
(* reduction of the number plus the complement of the remainder.           *)
Shift(m) == CHOOSE e \in 0..WordBits : B \div 2 <= m * 2^e /\ m * 2^e < B
\* word_recip, with its leading one taken off
Recip(f) == ((B^2 - 1) \div f) - B
Twos(m) == CHOOSE e \in 0..WordBits : (m % 2^e) = 0 /\ ((m \div 2^e) % 2) = 1
NegInverse(m) == CHOOSE w \in 0..(B - 1) : ((m * w) + 1) % B = 0

\* One subtraction of f from what has reached the limit
Corrected(v, limit, f) == IF v >= limit THEN v - f ELSE v

Remainder(n, mem, m) ==
    LET f == m * 2^Shift(m)
        w == Recip(f)
        r == -(w * f) % B
        Collect(s, i) ==
            LET t == (r * s.h) + X(mem, i) + (B * s.l)
                low == (t % B) + IF t >= B^2 THEN r ELSE 0
            IN  [h |-> ((t \div B) + (low \div B)) % B, l |-> low % B]
        s == Down(n, Collect, [h |-> 0, l |-> 0])
        q == ((w * s.h) \div B) + s.h
        u == ((s.h * B) + s.l - (q * f)) % B^2
        l == Corrected(Corrected(u, B, f), B, f) % B
        p == ((((w * l) \div B) + l) \div 2) \div 2^(WordBits - 1 - Shift(m))
    IN  IF n = 0 THEN 0 ELSE Corrected((l - (p * m)) % B, m, m)

\* Mutant of Divided: the carry of the addition is not kept.
DividedCarryless(mem, z, n, k, m, carry) ==
    LET e == Twos(m)
        odd == m \div 2^e
        w == NegInverse(odd)
        DivideWord(s, i) ==
            LET word == IF i + 1 < n THEN X(s.mem, i + 1) ELSE 0
                low == word \div 2^e
                a == s.d + ((word * 2^(WordBits - e)) % B)
                t == a + s.c
                q == (t * w) % B
            IN  [mem |-> Store(s.mem, z, i, B - 1 - q), d |-> low,
                 c |-> ((q * odd) + (t % B)) \div B]
        first == IF n = 0 THEN 0 ELSE X(mem, 0) \div 2^e
    IN  Up(k, DivideWord, [mem |-> mem, d |-> first, c |-> carry]).mem

\* The words of the number are shifted by the divisor's twos on the way.
Divided(mem, z, n, k, m, carry) ==
    LET e == Twos(m)
        odd == m \div 2^e
        w == NegInverse(odd)
        DivideWord(s, i) ==
            LET word == IF i + 1 < n THEN X(s.mem, i + 1) ELSE 0
                low == word \div 2^e
                a == s.d + ((word * 2^(WordBits - e)) % B)
                t == a + s.c
                q == (t * w) % B
            IN  [mem |-> Store(s.mem, z, i, B - 1 - q), d |-> low,
                 c |-> (((q * odd) + (t % B)) \div B) + (t \div B)]
        first == IF n = 0 THEN 0 ELSE X(mem, 0) \div 2^e
    IN  Up(k, DivideWord, [mem |-> mem, d |-> first, c |-> carry]).mem

Cdiv == \E k, n \in Lengths : \E x \in Numbers(n), m \in 1..(B - 1), z \in { "x", "z" } :
    LET mem == [x |-> Words(x, n), z |-> Words(0, k)]
        r == Remainder(n, mem, m)
        c == ((m \div 2^Twos(m)) - (r \div 2^Twos(m))) % B
    IN  Call("cdiv", << k, x, m >>, << Left(mem, Divided(mem, z, n, k, m, c), z, k), r >>)

CdivExact == \E k, n \in Lengths : \E x \in Numbers(n), m \in 1..(B - 1), z \in { "x", "z" } :
    LET mem == [x |-> Words(x, n), z |-> Words(0, k)]
        c == m \div 2^Twos(m)
    IN  /\ (x % m) = 0
        /\ Call("cdiv_exact", << k, x, m >>, << Left(mem, Divided(mem, z, n, k, m, c), z, k) >>)

Cmod == \E n \in Lengths : \E x \in Numbers(n), m \in 1..(B - 1) :
    Call("cmod", << n, x, m >>, << Remainder(n, [x |-> Words(x, n)], m) >>)

DivisionNext == Cdiv \/ CdivExact \/ Cmod
=============================================================================
