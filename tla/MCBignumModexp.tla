--------------------------- MODULE MCBignumModexp ---------------------------
\* Instances of BignumModexp with words of two bits.
EXTENDS BignumModexp

\* No words, one word and two; the trivial modulus, ones that leave a residue
\* two or three numbers of k words, a square, and the largest.
MCProblems == {<<0, 0>>, <<1, 1>>, <<1, 3>>, <<2, 7>>, <<2, 9>>, <<2, 15>>}
=============================================================================
