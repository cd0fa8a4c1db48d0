--------------------------- MODULE WordOperations ---------------------------
(***************************************************************************)
(* The functions of one word that are not single instructions.  A byte is  *)
(* an eighth of a word where bytes are reversed, and eight bits, of which  *)
(* the word may have fewer, where ones are counted.                        *)
(***************************************************************************)
EXTENDS Calls, FiniteSetsExt

CONSTANTS WordBits,         \* 64
          Tried, Others     \* words to be tried

B == 2^WordBits
Bit(w, i) == (w \div 2^i) % 2

\* The word and-ed with a mask that has the bits that satisfy Keep
Kept(w, Keep(_)) ==
    MapThenSumSet(LAMBDA i : IF Keep(i) THEN 2^i * Bit(w, i) ELSE 0, 0..(WordBits - 1))

Ror(w, n) == (w \div 2^n) + (w % 2^n) * 2^(WordBits - n)
Clz(w) == Max({ n \in 0..WordBits : w < 2^(WordBits - n) })

\* Pairs of bytes change places, then the bytes of each pair.
Bytereverse == \E w \in Tried :
    LET byte == WordBits \div 8
        OddPair(i) == (i \div (2 * byte)) % 2 = 1
        EvenPair(i) == ~OddPair(i)
        OddByte(i) == (i \div byte) % 2 = 1
        EvenByte(i) == ~OddByte(i)
        pairs == Ror(Kept(w, OddPair), 4 * byte) + Kept(w, EvenPair)
    IN  Call("word_bytereverse", << w >>,
             << Ror(Kept(pairs, OddByte), 3 * byte) + Ror(Kept(pairs, EvenByte), byte) >>)

Clz_ == \E w \in Tried : Call("word_clz", << w >>, << Clz(w) >>)

\* ~w & (w - 1) has ones where w has zeros below its lowest one.
Ctz == \E w \in Tried :
    LET below == (w - 1) % B
        ZeroInW(i) == Bit(w, i) = 0
    IN  Call("word_ctz", << w >>, << WordBits - Clz(Kept(below, ZeroInW)) >>)

Larger == \E a \in Tried, b \in Others :
    Call("word_max", << a, b >>, << IF a >= b THEN a ELSE b >>)
Smaller == \E a \in Tried, b \in Others :
    Call("word_min", << a, b >>, << IF a < b THEN a ELSE b >>)

\* Mutant of Pairs: the ones of a pair are not counted, but read as a number.
PairsRaw(w) == w

\* The number of ones in each pair of bits
Pairs(w) ==
    LET OddBit(i) == i % 2 = 1
    IN  w - (Kept(w, OddBit) \div 2)

\* In each four, in each byte, and in all bytes
Popcount == \E w \in Tried :
    LET LowPair(i) == (i % 4) < 2
        HighPair(i) == ~LowPair(i)
        LowFour(i) == (i % 8) < 4
        fours == Kept(Pairs(w), LowPair) + (Kept(Pairs(w), HighPair) \div 4)
        bytes == Kept((fours + (fours \div 16)) % B, LowFour)
        ones == (B - 1) \div 255
    IN  Call("word_popcount", << w >>, << ((bytes * ones) % B) \div 2^(WordBits - 8) >>)

BitsNext == Bytereverse \/ Clz_ \/ Ctz \/ Larger \/ Smaller \/ Popcount
-----------------------------------------------------------------------------
\* Each approximation of -1/a is good to twice as many bits; the residues
\* e1, e2, e4, e8 are the powers of the first.
Negmodinv == \E a \in { w \in Tried : w % 2 = 1 } :
    LET start == (a - 4 * a) % B
        x0 == IF Bit(start, 1) = 1 THEN start - 2 ELSE start + 2
        e1 == (a * x0 + 1) % B
        e2 == (e1 * e1) % B
        e4 == (e2 * e2) % B
        e8 == (e4 * e4) % B
        x1 == (e1 * x0 + x0) % B
        x2 == (e2 * x1 + x1) % B
        x4 == (e4 * x2 + x2) % B
    IN  Call("word_negmodinv", << a >>, << (e8 * x4 + x4) % B >>)
=============================================================================
