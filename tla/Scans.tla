------------------------------- MODULE Scans -------------------------------
(***************************************************************************)
(* The functions that run over all the words of a number, whatever is in   *)
(* them, to find, count or compare something, and the ones that make a     *)
(* number from an index.                                                   *)
(***************************************************************************)
EXTENDS WordLoops

CONSTANT LongBits       \* largest bit index to be tried

Operand(k, x) == [x |-> Words(x, k)]

Clz(w) == IF w = 0 THEN WordBits ELSE CHOOSE i \in 0..(WordBits - 1) : w \div 2^(WordBits - 1 - i) = 1

\* The highest word that is not zero and its index plus one.  Below the
\* lowest word there is one of ones.
Highest(mem, k) ==
    LET Note(s, i) == IF X(mem, i) # 0 THEN [i |-> i + 1, w |-> X(mem, i)] ELSE s
    IN  Up(k, Note, [i |-> 0, w |-> B - 1])

\* The lowest; above the highest word there is a one.
Lowest(mem, k) ==
    LET Note(s, i) == IF X(mem, i) # 0 THEN [i |-> i, w |-> X(mem, i)] ELSE s
    IN  Down(k, Note, [i |-> k, w |-> 1])

\* ~w & (w - 1) are the zeros below the lowest one, as ones.
ZerosBelow(w) ==
    LET t == CHOOSE i \in 0..(WordBits - 1) : (w \div 2^i) % 2 = 1 /\ (w % 2^i) = 0
    IN  2^t - 1

Scanned(f, k, x, n) == Call(f, << k, x >>, << n >>)

Cld == \E k \in Lengths : \E x \in Numbers(k) :
    Scanned("cld", k, x, k - Highest(Operand(k, x), k).i)
Digitsize == \E k \in Lengths : \E x \in Numbers(k) :
    Scanned("digitsize", k, x, Highest(Operand(k, x), k).i)
Clz_ == \E k \in Lengths : \E x \in Numbers(k) :
    LET h == Highest(Operand(k, x), k)
    IN  Scanned("clz", k, x, (k - h.i) * WordBits + Clz(h.w))
Bitsize == \E k \in Lengths : \E x \in Numbers(k) :
    LET h == Highest(Operand(k, x), k)
    IN  Scanned("bitsize", k, x, h.i * WordBits - Clz(h.w))
Ctd == \E k \in Lengths : \E x \in Numbers(k) :
    Scanned("ctd", k, x, Lowest(Operand(k, x), k).i)
Ctz == \E k \in Lengths : \E x \in Numbers(k) :
    LET l == Lowest(Operand(k, x), k)
    IN  Scanned("ctz", k, x,
                IF k = 0 THEN 0 ELSE (l.i + 1) * WordBits - Clz(ZerosBelow(l.w)))

WordAt(mem, k, n) == LET Note(d, i) == IF i = n THEN X(mem, i) ELSE d IN Up(k, Note, 0)
Digit == \E k \in Lengths : \E x \in Numbers(k), n \in 0..(MaxWords + 1) :
    Call("digit", << k, x, n >>, << WordAt(Operand(k, x), k, n) >>)

\* Mutant of Part: no override where the index runs off the end.
PartStuck(k, n, d) == d

\* Every word up to the wanted one was taken: the last is not the wanted one
\* if there are fewer.
Part(k, n, d) == IF k < n + 1 THEN 0 ELSE d

Bitfield == \E k \in Lengths : \E x \in Numbers(k), n \in 0..LongBits, l \in 0..WordBits :
    LET mem == Operand(k, x)
        m == n % WordBits
        j == n \div WordBits
        Note(s, i) == [d |-> IF i < j + 1 THEN X(mem, i) ELSE s.d,
                       e |-> IF i = j + 1 THEN X(mem, i) ELSE s.e]
        s == Up(k, Note, [d |-> 0, e |-> 0])
        upper == IF m = 0 THEN 0 ELSE (s.e * 2^(WordBits - m)) % B
        mask == IF l < WordBits THEN 2^l ELSE B
    IN  Call("bitfield", << k, x, n, l >>, << ((Part(k, j, s.d) \div 2^m) + upper) % mask >>)

Parity(k, x) == IF k = 0 THEN 0 ELSE X(Operand(k, x), 0) % 2
Even == \E k \in Lengths : \E x \in Numbers(k) : Scanned("even", k, x, 1 - Parity(k, x))
Odd == \E k \in Lengths : \E x \in Numbers(k) : Scanned("odd", k, x, Parity(k, x))

Ones(mem, k) == \E i \in 0..(k - 1) : X(mem, i) # 0
Iszero == \E k \in Lengths : \E x \in Numbers(k) :
    Scanned("iszero", k, x, Flag(~Ones(Operand(k, x), k)))
Nonzero == \E k \in Lengths : \E x \in Numbers(k) :
    Scanned("nonzero", k, x, Flag(Ones(Operand(k, x), k)))
-----------------------------------------------------------------------------
(* Comparisons of numbers of m and n words: the words that both have, then *)
(* those of the longer one against zeros.                                  *)
Eq == \E m, n \in Lengths : \E x \in Numbers(m), y \in Numbers(n) :
    LET xw == Words(x, m)
        yw == Words(y, n)
        k == IF m < n THEN m ELSE n
        differ == \/ \E i \in n..(m - 1) : xw[i] # 0
                  \/ \E i \in m..(n - 1) : yw[i] # 0
                  \/ \E i \in 0..(k - 1) : xw[i] # yw[i]
    IN  Call("eq", << m, x, n, y >>, << Flag(~differ) >>)

\* No borrow from x - y
NotLess(m, x, n, y) ==
    LET xw == Words(x, m)
        yw == Words(y, n)
        Compare(carry, i) ==
            ((IF i < m THEN xw[i] ELSE 0) + B - 1 - (IF i < n THEN yw[i] ELSE 0) + carry) \div B
    IN  Up(IF m < n THEN n ELSE m, Compare, 1)

Compared(f, m, x, n, y, b) == Call(f, << m, x, n, y >>, << b >>)
Ge == \E m, n \in Lengths : \E x \in Numbers(m), y \in Numbers(n) :
    Compared("ge", m, x, n, y, NotLess(m, x, n, y))
Gt == \E m, n \in Lengths : \E x \in Numbers(m), y \in Numbers(n) :
    Compared("gt", m, x, n, y, 1 - NotLess(n, y, m, x))
Le == \E m, n \in Lengths : \E x \in Numbers(m), y \in Numbers(n) :
    Compared("le", m, x, n, y, NotLess(n, y, m, x))
Lt == \E m, n \in Lengths : \E x \in Numbers(m), y \in Numbers(n) :
    Compared("lt", m, x, n, y, 1 - NotLess(m, x, n, y))
-----------------------------------------------------------------------------
OfWord == \E k \in Lengths, n \in 0..(B - 1) :
    LET mem == [z |-> Words(0, 0)]
        Clear(b, i) == IF i = 0 THEN b ELSE Store(b, "z", i, 0)
    IN  Call("of_word", << k, n >>,
             << Left(mem, IF k = 0 THEN mem ELSE Down(k, Clear, Store(mem, "z", 0, n)), "z", k) >>)

Pow2 == \E k \in Lengths, n \in 0..LongBits :
    LET mem == [z |-> Words(0, 0)]
        Set(b, i) == Store(b, "z", i, IF i = n \div WordBits THEN 2^(n % WordBits) ELSE 0)
    IN  Call("pow2", << k, n >>, << Left(mem, Up(k, Set, mem), "z", k) >>)

\* k - 1 times a shift by a word unless the top word is not zero, then a
\* shift by the zeros above its highest one.
Normalize == \E k \in Lengths : \E x \in Numbers(k) :
    LET mem == [z |-> Words(x, k)]
        Round(s, j) ==
            LET still == s.mem["z"][k - 1] = 0
                Shuffle(b, i) ==
                    [mem |-> Store(b.mem, "z", i, IF still THEN b.before ELSE b.mem["z"][i]),
                     before |-> b.mem["z"][i]]
            IN  [mem |-> Up(k, Shuffle, [mem |-> s.mem, before |-> 0]).mem,
                 r |-> s.r + Flag(still)]
        s == Up(IF k = 0 THEN 0 ELSE k - 1, Round, [mem |-> mem, r |-> 0])
        c == Clz(s.mem["z"][k - 1])
        Shift(b, i) ==
            LET w == b.mem["z"][i]
            IN  [mem |-> Store(b.mem, "z", i, ((w * 2^(c % WordBits)) % B) + b.carry),
                 carry |-> IF c % WordBits = 0 THEN 0 ELSE w \div 2^(WordBits - c)]
    IN  Call("normalize", << k, x >>,
             IF k = 0 THEN << 0, 0 >>
             ELSE << Left(mem, Up(k, Shift, [mem |-> s.mem, carry |-> 0]).mem, "z", k),
                     WordBits * s.r + c >>)

ScansNext ==
    \/ Cld \/ Digitsize \/ Clz_ \/ Bitsize \/ Ctd \/ Ctz \/ Digit \/ Bitfield
    \/ Even \/ Odd \/ Iszero \/ Nonzero \/ Eq \/ Ge \/ Gt \/ Le \/ Lt
    \/ OfWord \/ Pow2 \/ Normalize
=============================================================================
