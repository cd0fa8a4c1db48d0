---------------------------- MODULE Polynomials ----------------------------
(***************************************************************************)
(* Functions of ML-KEM and ML-DSA on the 256 coefficients of a polynomial: *)
(* the rejection samplers, with Entries in place of 256 and vectors of     *)
(* Lanes entries, and at their own size the reductions, in 16 bits and in  *)
(* 32, that estimate a quotient by the high half of a product.             *)
(***************************************************************************)
EXTENDS Calls, SequencesExt

CONSTANTS Entries, Lanes, MaxPairs      \* of vectors in a sampler's buffer
-----------------------------------------------------------------------------
(* Samplers.  Vectors of candidates are compressed to what is accepted and *)
(* stored whole in a scratch area on the stack, each over the unused end   *)
(* of the one before; behind that area is the caller's frame.              *)
ScratchSize == Entries + 4 * Lanes
Untouched == -1

Start == [
    mem |-> [i \in 0..(ScratchSize + Entries) |-> IF i < Entries THEN 0 ELSE Untouched],
    count |-> 0, next |-> 1]

Accepted(vector, limit) == LET Below(v) == v < limit IN SelectSeq(vector, Below)

\* tbl with the row of the table for the accepted lanes: the others are zero.
Compressed(vector, limit) ==
    LET taken == Accepted(vector, limit)
    IN  [i \in 1..Lanes |-> IF i <= Len(taken) THEN taken[i] ELSE 0]

TakeVector(s, buf, limit) ==
    LET vector == SubSeq(buf, s.next, s.next + Lanes - 1)
        z == Compressed(vector, limit)
    IN  [mem |-> [i \in DOMAIN s.mem |->
                     IF i \in s.count..(s.count + Lanes - 1) THEN z[i - s.count + 1] ELSE s.mem[i]],
         count |-> s.count + Len(Accepted(vector, limit)),
         next |-> s.next + Lanes]

Take(s, buf, limit, vectors) ==
    LET t[i \in 0..vectors] == IF i = 0 THEN s ELSE TakeVector(t[i - 1], buf, limit)
    IN  t[vectors]

\* Mutant of Repeat: the count is looked at only when all has been taken.
RepeatToEnd(s, buf, limit, vectors) ==
    LET t[i \in 0..(Len(buf) \div (vectors * Lanes))] ==
            IF i = 0 THEN s ELSE Take(t[i - 1], buf, limit, vectors)
    IN  t[Len(buf) \div (vectors * Lanes)]

\* The loop: as many vectors at a time, until there are entries enough or
\* the buffer has fewer left.
Repeat(s, buf, limit, vectors) ==
    LET t[i \in 0..(Len(buf) \div (vectors * Lanes))] ==
            IF i = 0 THEN s
            ELSE LET u == t[i - 1]
                 IN  IF u.count >= Entries THEN u ELSE Take(u, buf, limit, vectors)
    IN  t[Len(buf) \div (vectors * Lanes)]

\* All entries are copied, those behind the count as well.
Sample(f, buf, limit, s, Mapped(_)) ==
    Call(f, << buf, limit >>,
         << IF s.count < Entries THEN s.count ELSE Entries,
            [i \in 0..(Entries - 1) |-> Mapped(s.mem[i])],
            [i \in ScratchSize..(ScratchSize + Entries) |-> s.mem[i]] >>)

\* Some of the candidates are below the limit.
Candidates(pairs) == 1..(2 * Lanes * pairs)
Buffer(pairs, yes, limit, Value(_)) ==
    [i \in Candidates(pairs) |-> IF i \in yes THEN Value(i) ELSE limit]

\* ML-KEM and ML-DSA: four vectors at a time, then perhaps two.
RejUniform ==
    LET limit == 1000
        Numbered(i) == i
        Same(v) == v
    IN  \E n \in 0..MaxPairs : \E yes \in SUBSET Candidates(n) :
            LET buf == Buffer(n, yes, limit, Numbered)
                s == Repeat(Start, buf, limit, 4)
                more == s.count < Entries /\ Len(buf) - s.next + 1 >= 2 * Lanes
            IN  Sample("rej_uniform", buf, limit,
                       IF more THEN Take(s, buf, limit, 2) ELSE s, Same)

\* High half of twice the product of 16-bit words, and rounding shift
Sqdmulh(v, c) == (2 * v * c) \div 65536
Sqrdmulh(v, c) == ((2 * v * c) + 32768) \div 65536
Srshr(v, n) == (v + 2^(n - 1)) \div 2^n
Wrapped(v) == ((v + 32768) % 65536) - 32768

\* The loop is entered without a look at the length.  A nibble modulo 5 is
\* found by a multiplication, as are those of the entries never stored.
RejUniformEta2 ==
    LET Value(i) == (4 * i) % 15
        Mapped(v) == 2 - (v - 5 * Sqdmulh(v, 6554))
    IN  \E n \in 1..(MaxPairs - 1) : \E yes \in SUBSET Candidates(n) :
            LET buf == Buffer(n, yes, 15, Value)
            IN  Sample("rej_uniform_eta2", buf, 15, Repeat(Start, buf, 15, 2), Mapped)

RejUniformEta4 ==
    LET Value(i) == (4 * i) % 9
        Mapped(v) == 4 - v
    IN  \E n \in 1..(MaxPairs - 1) : \E yes \in SUBSET Candidates(n) :
            LET buf == Buffer(n, yes, 9, Value)
            IN  Sample("rej_uniform_eta4", buf, 9, Repeat(Start, buf, 9, 2), Mapped)

SamplersNext == RejUniform \/ RejUniformEta2 \/ RejUniformEta4
-----------------------------------------------------------------------------
(* In-place loops over 8 blocks of 4 vectors.  Three vectors of the next   *)
(* block are read before the last ones of this block are stored.           *)
Blocks == 8

Prefetched(a, b) == << a[b + 1], a[b + 2], a[b + 3] >>

Pipelined(a, F(_)) ==
    LET s[i \in 0..Blocks] ==
            IF i = 0 THEN [a |-> a, ahead |-> Prefetched(a, 0)]
            ELSE LET b == 4 * (i - 1)
                     old == s[i - 1]
                 IN  [a |-> [old.a EXCEPT ![b] = F(@), ![b + 1] = F(old.ahead[1]),
                                          ![b + 2] = F(old.ahead[2]), ![b + 3] = F(old.ahead[3])],
                      ahead |-> IF i < Blocks THEN Prefetched(old.a, b + 4) ELSE << >>]
    IN  s[Blocks].a

\* Every 16-bit coefficient is in one of these arrays.
Arrays == { [i \in 0..(4 * Blocks - 1) |-> v + 2048 * i] : v \in -32768..-30721 }

\* Mutant of Canonical: what the rounding left negative stays so.
CanonicalNegative(v) == Wrapped(v - Srshr(Sqdmulh(v, 20159), 11) * 3329)

Canonical(v) ==
    LET z == Wrapped(v - Srshr(Sqdmulh(v, 20159), 11) * 3329)
    IN  IF z < 0 THEN z + 3329 ELSE z

Montgomery(v) == Wrapped(Wrapped(-1044 * v) - Sqrdmulh(v, -10276) * 3329)

Reduce == \E a \in Arrays : Call("reduce", << a >>, << Pipelined(a, Canonical) >>)
Tomont == \E a \in Arrays : Call("tomont", << a >>, << Pipelined(a, Montgomery) >>)

\* Three bytes for two coefficients, of which 12 bits count
Coefficients == { -32768, -3329, -1, 0, 1, 15, 16, 255, 256, 3328, 4095, 4096, 32767 }
Tobytes == \E v, w \in Coefficients :
    Call("tobytes", << v, w >>,
         << << v % 256, 16 * (w % 16) + ((v \div 256) % 16), (w \div 16) % 256 >> >>)
-----------------------------------------------------------------------------
(* ML-DSA, 32 bits                                                         *)
Q == 8380417

Caddq == \E v \in { 1 - Q, -2, -1, 0, 1, Q - 1 } : Call("caddq", << v >>, << IF v < 0 THEN v + Q ELSE v >>)

\* sqdmulh: the part above 31 bits of the product, for v below 2^24, in digits
\* of 12 bits
High(v, c) ==
    LET v0 == v % 4096
        v1 == v \div 4096
        c0 == c % 4096
        c1 == (c \div 4096) % 4096
        c2 == c \div 16777216
        low == (v0 * c1) + (v1 * c0) + ((v0 * c0) \div 4096)
    IN  ((4096 * v1 * c2) + (v0 * c2) + (v1 * c1) + (low \div 4096)) \div 128

\* GAMMA2 = (Q - 1) / 32 and (Q - 1) / 88: the constant of the quotient and its
\* shift, twice GAMMA2, and the number above which the quotient is zero again
Gamma32 == [c |-> 1074791425, shift |-> 18, twice |-> 523776, last |-> 8118528]
Gamma88 == [c |-> 1477838209, shift |-> 17, twice |-> 190464, last |-> 8285184]

High1(v, g) == Srshr(High(v, g.c), g.shift)
Decomposed(v, g) ==
    IF v > g.last THEN << 0, v - High1(v, g) * g.twice - 1 >>
                  ELSE << High1(v, g), v - High1(v, g) * g.twice >>

\* At each place where the quotient may change
Around(g) ==
    { v \in { (i * (g.twice \div 2)) + d : i \in 0..(2 * (Q \div g.twice) + 1), d \in -2..2 } :
          v \in 0..(Q - 1) }

Hinted(v, g, h) ==
    LET d == Decomposed(v, g) IN d[1] + (IF d[2] <= 0 THEN -h ELSE h)

Decompose == \E g \in { Gamma32, Gamma88 } : \E v \in Around(g) :
    Call("decompose", << v, g.twice >>, << Decomposed(v, g) >>)

UseHint32 == \E v \in Around(Gamma32), h \in { 0, 1 } :
    Call("use_hint", << v, Gamma32.twice, h >>, << Hinted(v, Gamma32, h) % 16 >>)

\* Above 43 it is cleared; umin takes what is negative for large.
UseHint88 == \E v \in Around(Gamma88), h \in { 0, 1 } :
    LET b == Hinted(v, Gamma88, h)
    IN  Call("use_hint", << v, Gamma88.twice, h >>,
             << IF b > 43 THEN 0 ELSE IF b < 0 THEN 43 ELSE b >>)

CoefficientsNext ==
    Reduce \/ Tomont \/ Tobytes \/ Caddq \/ Decompose \/ UseHint32 \/ UseHint88
=============================================================================
