------------------------- MODULE MultiplyAccumulate -------------------------
(***************************************************************************)
(* Multiplication of a number by a word, with addition to or subtraction   *)
(* from another, shifts by less than a word, and copies.  Source and       *)
(* result have lengths of their own: the source is cut to the length of    *)
(* the result, and a longer result gets the carry and then zeros, or the   *)
(* ripple of the carry.                                                    *)
(***************************************************************************)
EXTENDS WordLoops

CONSTANT SmallWords     \* longest buffer where a product is added

Smaller(i, j) == IF i < j THEN i ELSE j
\* The buffers for x and z; x is where z is to be stored in place.
Pair(n, x, p, z) == [x |-> Words(x, n), z |-> Words(z, p)]

\* Words lo..hi - 1 of z become what the step says.
Over(lo, hi, Step(_, _), start) ==
    LET Offset(s, i) == Step(s, lo + i)
    IN  Up(IF hi > lo THEN hi - lo ELSE 0, Offset, start)

\* Words m..p - 1 of z: one that is given, then zeros
Padded(mem, z, m, p, first) ==
    LET Pad(b, i) == Store(b, z, i, IF i = m THEN first ELSE 0) IN Over(m, p, Pad, mem)

Multiplied(mem, z, m, c) ==
    LET Multiply(s, i) ==
            LET t == c * X(s.mem, i) + s.high
            IN  [mem |-> Store(s.mem, z, i, t % B), high |-> t \div B]
    IN  Up(m, Multiply, [mem |-> mem, high |-> 0])

Cmul == \E p, n \in Lengths : \E x \in Numbers(n), c \in 0..(B - 1), z \in { "x", "z" } :
    LET mem == Pair(n, x, p, 0)
        m == Smaller(n, p)
        s == Multiplied(mem, z, m, c)
    IN  Call("cmul", << p, x, c >>,
             << Left(mem, Padded(s.mem, z, m, p, s.high), z, p), IF p > m THEN 0 ELSE s.high >>)

\* Adds c times x, or its complement.  The carry flag and the high word are
\* added in two steps.
MultiplyAdd(mem, m, c, complement, start) ==
    LET Product(b, i) == c * (IF complement THEN B - 1 - X(b, i) ELSE X(b, i))
        AddWord(s, i) ==
            LET t == s.mem["z"][i] + s.high + s.carry
                u == (t % B) + (Product(s.mem, i) % B)
            IN  [mem |-> Store(s.mem, "z", i, u % B),
                 high |-> (Product(s.mem, i) \div B) + (t \div B), carry |-> u \div B]
    IN  Up(m, AddWord, [mem |-> mem, high |-> start, carry |-> 0])

\* Mutant of Cmadd: the carry flag does not enter the words above the source.
CmaddCut == \E p, n \in 0..SmallWords : \E x \in Numbers(n), y \in Numbers(p), c \in 0..(B - 1) :
    LET mem == Pair(n, x, p, y)
        m == Smaller(n, p)
        s == MultiplyAdd(mem, m, c, FALSE, 0)
    IN  Call("cmadd", << p, y, c, x >>, << Left(mem, s.mem, "z", p), s.high + s.carry >>)

\* The high word and the carry enter the words from m on.
Carried(s, m, p) ==
    LET Ripple(r, i) ==
            LET t == r.mem["z"][i] + r.high + r.carry
            IN  [mem |-> Store(r.mem, "z", i, t % B), high |-> 0, carry |-> t \div B]
    IN  Over(m, p, Ripple, s)

Cmadd == \E p, n \in 0..SmallWords : \E x \in Numbers(n), y \in Numbers(p), c \in 0..(B - 1) :
    LET mem == Pair(n, x, p, y)
        m == Smaller(n, p)
        s == MultiplyAdd(mem, m, c, FALSE, 0)
        r == IF m = 0 THEN s ELSE Carried(s, m, p)
    IN  Call("cmadd", << p, y, c, x >>, << Left(mem, r.mem, "z", p), (r.high + r.carry) % B >>)

\* A word is borrowed from those from m on.
Borrowed(mem, m, p, borrow) ==
    LET Ripple(r, i) ==
            LET t == r.mem["z"][i] - r.borrow
            IN  [mem |-> Store(r.mem, "z", i, t % B), borrow |-> Flag(t < 0)]
    IN  Over(m, p, Ripple, [mem |-> mem, borrow |-> borrow])

\* Adds c times the complement of x, and c: the negative carry is c less the
\* high word.
Cmnegadd == \E p, n \in 0..SmallWords : \E x \in Numbers(n), y \in Numbers(p), c \in 0..(B - 1) :
    LET mem == Pair(n, x, p, y)
        m == Smaller(n, p)
        s == MultiplyAdd(mem, m, c, TRUE, c)
        r == Borrowed(s.mem, m, p, (c - s.high - s.carry) % B)
    IN  Call("cmnegadd", << p, y, c, x >>,
             IF m = 0 THEN << Left(mem, mem, "z", p), 0 >>
                      ELSE << Left(mem, r.mem, "z", p), r.borrow >>)

Moved(mem, z, m) == LET Move(b, i) == Store(b, z, i, X(b, i)) IN Up(m, Move, mem)

Copy == \E k, n \in Lengths : \E x \in Numbers(n), z \in { "x", "z" } :
    LET mem == Pair(n, x, k, 0)
        m == Smaller(k, n)
    IN  Call("copy", << k, x >>, << Left(mem, Padded(Moved(mem, z, m), z, m, k, 0), z, k) >>)

\* Shift counts are taken modulo the word's size; what is shifted by a whole
\* word in the case of no shift is masked.
Shifted(mem, z, m, c) ==
    LET ShiftWord(s, i) ==
            LET t == X(s.mem, i)
            IN  [mem |-> Store(s.mem, z, i, ((t * 2^c) % B) + s.high),
                 high |-> IF c = 0 THEN 0 ELSE t \div 2^(WordBits - c)]
    IN  Up(m, ShiftWord, [mem |-> mem, high |-> 0])

ShlSmall == \E p, n \in Lengths : \E x \in Numbers(n), c \in 0..(WordBits - 1), z \in { "x", "z" } :
    LET mem == Pair(n, x, p, 0)
        m == Smaller(n, p)
        s == Shifted(mem, z, m, c)
    IN  Call("shl_small", << p, x, c >>,
             << Left(mem, Padded(s.mem, z, m, p, s.high), z, p), IF p > m THEN 0 ELSE s.high >>)

\* The low bits of a word, to come into the one below
Kept(w, c) == IF c = 0 THEN 0 ELSE (w * 2^(WordBits - c)) % B
ShiftedDown(mem, z, m, c, high) ==
    LET ShiftWord(s, i) ==
            LET t == X(s.mem, i)
            IN  [mem |-> Store(s.mem, z, i, (t \div 2^c) + s.high), high |-> Kept(t, c)]
    IN  Down(m, ShiftWord, [mem |-> mem, high |-> high])

\* A source longer than the result has the word above it shifted in.
ShrSmall == \E p, n \in Lengths : \E x \in Numbers(n), c \in 0..(WordBits - 1), z \in { "x", "z" } :
    LET mem == Pair(n, x, p, 0)
        m == Smaller(n, p)
        s == ShiftedDown(Padded(mem, z, m, p, 0), z, m, c, IF p < n THEN Kept(X(mem, p), c) ELSE 0)
    IN  Call("shr_small", << p, x, c >>,
             << Left(mem, s.mem, z, p), s.high \div (IF c = 0 THEN 1 ELSE 2^(WordBits - c)) >>)

-----------------------------------------------------------------------------
(* Products by columns, in an accumulator of three words                   *)
Larger(i, j) == IF i > j THEN i ELSE j

\* The products x[i] * y[col - i] of a column for the i from lo up
Column(x, y, col, lo, hi, start) ==
    LET AddProduct(v, i) == (v + (x[i] * y[col - i])) % (B * B * B)
    IN  Over(lo, hi, AddProduct, start)

Madd == \E p, m, n \in 0..SmallWords :
    \E x \in Numbers(m), y \in Numbers(n), z \in Numbers(p) :
        LET mem == [x |-> Words(x, m), y |-> Words(y, n), z |-> Words(z, p)]
            AddColumn(s, col) ==
                LET v == Column(s.mem["x"], s.mem["y"], col,
                                Larger(0, col + 1 - n), Smaller(col + 1, m), s.high + s.mem["z"][col])
                IN  [mem |-> Store(s.mem, "z", col, v % B), high |-> v \div B]
            s == Up(p, AddColumn, [mem |-> mem, high |-> 0])
        IN  Call("madd", << p, z, y, x, m + n >>, << Left(mem, s.mem, "z", p), s.high % B >>)

\* A column's products that occur twice are added up once and doubled; the
\* square in the middle is added to what the column before has left.
Sqr == \E p \in Lengths, n \in 0..SmallWords : \E x \in Numbers(n) :
    LET mem == [x |-> Words(x, n), z |-> Words(0, p)]
        AddColumn(s, col) ==
            LET bottom == Larger(0, col + 1 - n)
                top == Smaller((col + 1) \div 2, n)
                middle == Larger(bottom, top)
                square == IF col % 2 = 0 /\ middle < n THEN s.mem["x"][middle] * s.mem["x"][middle] ELSE 0
                doubled == (2 * Column(s.mem["x"], s.mem["x"], col, bottom, top, 0)) % (B * B * B)
                v == (doubled + s.high + square) % (B * B * B)
            IN  [mem |-> Store(s.mem, "z", col, v % B), high |-> v \div B]
        s == Up(p, AddColumn, [mem |-> mem, high |-> 0])
    IN  Call("sqr", << p, x >>, << Left(mem, s.mem, "z", p) >>)

MultiplyNext == Cmul \/ Cmadd \/ Cmnegadd \/ Copy \/ ShlSmall \/ ShrSmall \/ Madd \/ Sqr
=============================================================================
