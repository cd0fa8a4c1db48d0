---------------------------- MODULE MemoryLayout ----------------------------
(***************************************************************************)
(* The functions that move what is in memory without looking at it: byte   *)
(* order of the numbers of P-256, P-384 and P-521, and the choice of a row *)
(* of a table.  A word is the tuple of its bytes, least significant first, *)
(* and a byte is where it was when the function was called: memory maps an *)
(* address to a byte.                                                      *)
(***************************************************************************)
EXTENDS Calls, FiniteSets

CONSTANT RowWidths      \* to be tried; multiples of 8 where the code wants it

Addresses == 0..199
Before == [a \in Addresses |-> << "at", a >>]
Zero == << "zero", 0 >>

\* Store of the bytes of a word, or of some bytes of a register
Stored(mem, a, bytes) ==
    [b \in Addresses |-> IF b \in a..(a + Len(bytes) - 1) THEN bytes[b - a + 1] ELSE mem[b]]

\* extr: the byte d enters at the top, and what was lowest is shifted out.
Entered(a, d) == Append(Tail(a), d)

\* Bytes at the addresses that At gives for 0..7 are entered one by one.
Gathered(mem, At(_)) ==
    LET a[i \in 0..8] ==
            IF i = 0 THEN [j \in 1..8 |-> Zero] ELSE Entered(a[i - 1], mem[At(i - 1)])
    IN  a[8]
Loaded(mem, a) == LET Upwards(i) == a + i IN Gathered(mem, Upwards)
Reversed(mem, a) == LET Downwards(i) == a + 7 - i IN Gathered(mem, Downwards)

Run(mem, n, Part(_, _)) ==
    LET m[i \in 0..n] == IF i = 0 THEN mem ELSE Part(m[i - 1], i - 1)
    IN  m[n]

\* Mutant of BigendianPair: the first word is stored before the second is read.
BigendianPairEarly(mem, k, i, x, z) ==
    LET j == k - 1 - i
        first == Stored(mem, z + 8 * j, Reversed(mem, x + 8 * i))
    IN  Stored(first, z + 8 * i, Reversed(first, x + 8 * j))

\* Two words in mirror-image places are read before either is stored, for z
\* may be where x is.
BigendianPair(mem, k, i, x, z) ==
    LET j == k - 1 - i
        a == Reversed(mem, x + 8 * i)
        c == Reversed(mem, x + 8 * j)
    IN  Stored(Stored(mem, z + 8 * j, a), z + 8 * i, c)

\* The two buffers are the same or do not overlap.
Places == { << 0, 0 >>, << 0, 100 >>, << 100, 0 >> }
Moved(f, k, place, mem) == Call(f, << k, place[1], place[2] >>, << mem >>)

\* As many words as the number has: tobebytes and frombebytes are this function.
Bigendian == \E k \in { 4, 6 }, place \in Places :
    LET Pair(mem, i) == BigendianPair(mem, k, i, place[1], place[2])
    IN  Moved("bigendian", k, place, Run(Before, k \div 2, Pair))

Littleendian == \E k \in { 4, 6 }, place \in Places :
    LET Word(mem, i) == Stored(mem, place[2] + 8 * i, Loaded(mem, place[1] + 8 * i))
    IN  Moved("littleendian", k, place, Run(Before, k, Word))

\* The ninth word has two bytes: the first enters at the top, and the second
\* takes it down by seven places.
FromlebytesP521 == \E place \in Places :
    LET x == place[1]
        Word(mem, i) == Stored(mem, place[2] + 8 * i, Loaded(mem, x + 8 * i))
        mem == Run(Before, 8, Word)
        top == << mem[x + 64], mem[x + 65], Zero, Zero, Zero, Zero, Zero, Zero >>
    IN  Moved("fromlebytes_p521", 9, place, Stored(mem, place[2] + 64, top))

TolebytesP521 == \E place \in Places :
    LET Word(mem, i) == Stored(mem, place[2] + 8 * i, Loaded(mem, place[1] + 8 * i))
        mem == Run(Before, 8, Word)
    IN  Moved("tolebytes_p521", 9, place,
              Stored(mem, place[2] + 64, SubSeq(Loaded(mem, place[1] + 64), 1, 2)))
-----------------------------------------------------------------------------
(* Rows of a table.  A word is the set of its bits that are one.           *)
Bits == { 1, 2 }
None == {}

Table(height, width) ==
    [i \in 0..(height - 1), j \in 0..(width - 1) |->
        { b \in Bits : ((i * width + j + 1) \div b) % 2 = 1 }]

\* Every row is read; the mask lets one of them through.
Masked(i, idx) == IF i = idx THEN Bits ELSE None

Selected(start, table, height, idx) ==
    LET Row(z, i) == [j \in DOMAIN z |-> z[j] \cup (table[i, j] \cap Masked(i, idx))]
    IN  Run(start, height, Row)

\* bit instead of and and orr
Inserted(start, table, height, idx) ==
    LET Row(z, i) ==
            [j \in DOMAIN z |-> (z[j] \ Masked(i, idx)) \cup (table[i, j] \cap Masked(i, idx))]
    IN  Run(start, height, Row)

Zeros(width) == [j \in 0..(width - 1) |-> None]

\* Mutant of CopyRow: z is not cleared before the rows are or-ed into it.
CopyRowUncleared == \E height \in 1..4, width \in RowWidths : \E idx \in 0..(height - 1) :
    LET start == [j \in 0..(width - 1) |-> Bits]
    IN  Call("copy_row", << height, width, idx, Table(height, width) >>,
             << Selected(start, Table(height, width), height, idx) >>)

\* Nothing is stored if there are no rows or columns.
CopyRow == \E height \in 1..4, width \in RowWidths : \E idx \in 0..(height - 1) :
    Call("copy_row", << height, width, idx, Table(height, width) >>,
         << Selected(Zeros(width), Table(height, width), height, idx) >>)

\* For widths that are multiples of 8, and those of 16 and 32 words
CopyRowVector ==
    \E height \in 1..4, width \in { w \in RowWidths : w % 8 = 0 } : \E idx \in 0..(height - 1) :
        Call("copy_row", << height, width, idx, Table(height, width) >>,
             << Inserted(Zeros(width), Table(height, width), height, idx) >>)

LayoutNext ==
    \/ Bigendian \/ Littleendian \/ FromlebytesP521 \/ TolebytesP521
    \/ CopyRow \/ CopyRowVector
=============================================================================
