----------------------------- MODULE Inverses ------------------------------
(***************************************************************************)
(* The two ways in which the library finds inverses and common divisors:   *)
(* word_divstep59, and the loops of bignum_modinv and bignum_coprime.      *)
(***************************************************************************)
EXTENDS Calls

CONSTANTS Block,            \* 20
          Ds, Fs, Gs,       \* operands of word_divstep59 to be tried
          Operands          \* sizes and numbers << m, n, x, y >> to be tried

Bits == 3 * Block + 4
-----------------------------------------------------------------------------
(***************************************************************************)
(* word_divstep59: three packed blocks of division steps on the low bits   *)
(* of f and g, which give the matrix that the steps multiply f and g by.   *)
(* A packed register holds the low bits and, negated and in fields above   *)
(* them, a row of the matrix; a step acts on all three at once, and a      *)
(* field may borrow from the next.  With Block = 20 a word has 64 bits and *)
(* the steps are 59.                                                       *)
(***************************************************************************)
Wrapped(v) == ((v + 2^(Bits - 1)) % 2^Bits) - 2^(Bits - 1)
Asr(v, n) == v \div 2^n

Low(v) == v % 2^Block
Packed(d, f, g) == [d |-> d, fuv |-> Low(f) - 2^(2 * Block + 1), grs |-> Low(g) - 2^(3 * Block + 2)]

\* Mutant of Step: f is replaced by the sum instead of by the old g.
StepLate(s) ==
    LET odd == s.grs % 2 = 1
        swap == odd /\ s.d >= 0
        t == IF odd THEN s.fuv ELSE 0
        sum == Wrapped(s.grs + (IF swap THEN -t ELSE t))
    IN  [d |-> (IF swap THEN -s.d ELSE s.d) + 2,
         fuv |-> IF swap THEN sum ELSE s.fuv,
         grs |-> Asr(sum, 1)]

Step(s) ==
    LET odd == s.grs % 2 = 1
        swap == odd /\ s.d >= 0
        t == IF odd THEN s.fuv ELSE 0
    IN  [d |-> (IF swap THEN -s.d ELSE s.d) + 2,
         fuv |-> IF swap THEN s.grs ELSE s.fuv,
         grs |-> Asr(Wrapped(s.grs + (IF swap THEN -t ELSE t)), 1)]

Steps(n, s) == LET f[i \in 0..n] == IF i = 0 THEN s ELSE Step(f[i - 1]) IN f[n]

\* The row in a packed register after as many steps as bring its fields down
\* to bit n: n is Block + 1 after Block steps, one more after one step less.
Field(v, n) == LET u == (v \div 2^n) % 2^(Block + 1) IN IF u < 2^Block THEN u ELSE u - 2^(Block + 1)
Row(v, n) ==
    << Field(v + 2^Block, n), Asr(Wrapped(v + 2^Block + 2^(2 * Block + 1)), n + Block + 1) >>
Matrix(s, n) == << Row(s.fuv, n), Row(s.grs, n) >>

\* A row of the product, in which the sign of n's row may be changed
Times(sign, row, m) ==
    << Wrapped(sign * (row[1] * m[1][1] + row[2] * m[2][1])),
       Wrapped(sign * (row[1] * m[1][2] + row[2] * m[2][2])) >>
Product(sign, n, m) == << Times(sign, n[1], m), Times(sign, n[2], m) >>

\* f and g for the next block, with their signs changed by the negated row
Applied(row, f, g) == Asr(Wrapped(row[1] * f + row[2] * g), Block)

Divstep59 == \E d \in Ds, f \in Fs, g \in Gs :
    LET s1 == Steps(Block, Packed(d, f, g))
        m1 == Matrix(s1, Block + 1)
        f1 == Applied(m1[1], f, g)
        g1 == Applied(m1[2], f, g)
        s2 == Steps(Block, Packed(s1.d, f1, g1))
        m2 == Matrix(s2, Block + 1)
        s3 == Steps(Block - 1, Packed(s2.d, Applied(m2[1], f1, g1), Applied(m2[2], f1, g1)))
        m == Product(-1, Matrix(s3, Block + 2), Product(1, m2, m1))
    IN  Call("word_divstep59", << d, f, g >>, << s3.d, m >>)
-----------------------------------------------------------------------------
(* bignum_modinv and bignum_coprime: numbers m and n are divided by 2 to   *)
(* the Chunk at a time.  What is subtracted from what is decided on words  *)
(* that stand for the upper parts of both, and may be decided wrongly; the *)
(* result is then negative, and is negated.                                *)
B == 2^Bits
Chunk == Bits - 6

Odd(v) == v % 2 = 1
Length(v) == CHOOSE i \in 0..30 : v < 2^i /\ (i > 0 => v >= 2^(i - 1))

\* The word whose top bit is aligned with that of the longer number
Proxy(v, length) == IF length >= Bits THEN v \div 2^(length - Bits) ELSE v * 2^(Bits - length)

\* One division by 2 of the proxies, in words, with the matrix << mm, mn, nm, nn >>
Halved(s) ==
    LET hi == (s.mhi - IF Odd(s.mlo) THEN s.nhi ELSE 0) % B
        lo == (s.mlo - IF Odd(s.mlo) THEN s.nlo ELSE 0) % B
        swap == Odd(s.mlo) /\ s.mhi < s.nhi
        kept == IF swap THEN << s.m[1], s.m[2] >> ELSE << s.m[3], s.m[4] >>
        added == IF Odd(s.mlo) THEN << s.m[3], s.m[4] >> ELSE << 0, 0 >>
    IN  [mhi |-> ((IF swap THEN -hi ELSE hi) % B) \div 2,
         mlo |-> ((IF swap THEN -lo ELSE lo) % B) \div 2,
         nhi |-> IF swap THEN s.mhi ELSE s.nhi,
         nlo |-> IF swap THEN s.mlo ELSE s.nlo,
         m |-> << (s.m[1] + added[1]) % B, (s.m[2] + added[2]) % B,
                  (2 * kept[1]) % B, (2 * kept[2]) % B >>]

\* Mutant of Digits: of the numbers' words, one more is dropped.
DigitsFewer(k, t) == LET l == t \div Bits IN IF l < k THEN l ELSE k

\* As the product of m and n has t bits at most, neither has more words.
Digits(k, t) == LET l == (t + Bits - 1) \div Bits IN IF l < k THEN l ELSE k

Update(m, n, l) ==
    LET length == Length(IF m % B^l > n % B^l THEN m % B^l ELSE n % B^l)
        start == [mhi |-> Proxy(m % B^l, length) % B, mlo |-> m % B,
                  nhi |-> Proxy(n % B^l, length) % B, nlo |-> n % B, m |-> << 1, 0, 0, 1 >>]
        s[i \in 0..Chunk] == IF i = 0 THEN start ELSE Halved(s[i - 1])
    IN  s[Chunk].m

\* The combination of l words, whose sign is the last borrow; words of the old
\* value above them stay.
Negative(c, d, m, n, l) == c * (m % B^l) < d * (n % B^l)
Reduced(old, c, d, m, n, l) ==
    LET v == (c * (m % B^l)) - (d * (n % B^l))
        u == v \div 2^Chunk
    IN  (old - (old % B^l)) + ((IF v < 0 THEN -u ELSE u) % B^l)

\* 2^(Bits - Chunk) (c w + d z) in k + 1 words, divided by a word modulo b
Combined(c, d, w, z, b, k) ==
    LET t == (2^(Bits - Chunk) * ((c * w) + (d * z))) % B^(k + 1)
        v == CHOOSE v \in 0..(B - 1) : ((b * v) + 1) % B = 0
        u == (t + ((((t % B) * v) % B) * b)) \div B
    IN  (IF u >= b THEN u - b ELSE u) % B^k

Outer(s, b, k) ==
    LET l == Digits(k, s.t)
        c == Update(s.m, s.n, l)
        w == Combined(c[1], c[2], s.w, s.z, b, k)
        z == Combined(c[3], c[4], s.w, s.z, b, k)
    IN  [m |-> Reduced(s.m, c[1], c[2], s.m, s.n, l),
         n |-> Reduced(s.n, c[3], c[4], s.m, s.n, l),
         w |-> IF Negative(c[1], c[2], s.m, s.n, l) THEN (b - w) % B^k ELSE w,
         z |-> IF Negative(c[3], c[4], s.m, s.n, l) THEN z ELSE (b - z) % B^k,
         t |-> s.t - Chunk]

Rounds(bits) == (bits + Chunk - 1) \div Chunk

Gcd(u, v) ==
    LET gcd[i, j \in Nat] == IF j = 0 THEN i ELSE gcd[j, i % j]
    IN  gcd[u, v]

\* The numbers are coprime, and the modulus odd and above 1.
Modinv == \E o \in Operands :
    LET k == o[1]
        a == o[3]
        b == o[4]
        s[i \in 0..Rounds(2 * Bits * k)] ==
            IF i = 0 THEN [m |-> a, n |-> b, w |-> b - 1, z |-> 0, t |-> 2 * Bits * k]
            ELSE LET u == s[i - 1] IN Outer(u, b, k)
    IN  /\ o[1] = o[2] /\ Odd(b) /\ b > 1 /\ Gcd(a, b) = 1
        /\ Call("modinv", << k, a, b >>, << s[Rounds(2 * Bits * k)].z >>)

\* Without w and z.  If y is even the two are exchanged, and if both are the
\* answer is no, whatever the loop makes of them.
Coprime == \E o \in Operands :
    LET k == IF o[1] >= o[2] THEN o[1] ELSE o[2]
        x == o[3]
        y == o[4]
        bits == Bits * (o[1] + o[2])
        Halve(u) ==
            LET l == Digits(k, u.t)
                c == Update(u.m, u.n, l)
            IN  [m |-> Reduced(u.m, c[1], c[2], u.m, u.n, l),
                 n |-> Reduced(u.n, c[3], c[4], u.m, u.n, l), t |-> u.t - Chunk]
        s[i \in 0..Rounds(bits)] ==
            IF i = 0 THEN [m |-> IF Odd(y) THEN x ELSE y, n |-> IF Odd(y) THEN y ELSE x, t |-> bits]
            ELSE LET u == s[i - 1] IN Halve(u)
    IN  Call("coprime", << k, x, y >>,
             << IF k > 0 /\ (Odd(x) \/ Odd(y)) /\ s[Rounds(bits)].n = 1 THEN 1 ELSE 0 >>)

InversesNext == Modinv \/ Coprime
=============================================================================
