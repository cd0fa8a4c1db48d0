---------------------------- MODULE PowerOrders ----------------------------
(***************************************************************************)
(* Reduction modulo an order just above or just below a power of two: the  *)
(* orders of the group of curve25519 and of its base point, Power + C, and *)
(* that of P-521, Power - C.  The quotient by the power is the estimate    *)
(* for the quotient by the order.                                          *)
(***************************************************************************)
EXTENDS Calls

CONSTANTS Power, C,         \* 2^255, 2^252 or 2^521, and two or more words less than a half
          B, K,             \* word, words of a number
          MaxWords          \* of an argument

R == B^K
Digit(v, i) == (v \div B^i) % B
TopBit == Power \div B^(K - 1)      \* of the order, in its top word

\* C in the low words and one bit in the top word, for which the bit of a
\* word w of C is taken that is in the same place
AddedBack(borrow, w) ==
    IF borrow THEN C + (IF (w \div TopBit) % 2 = 1 THEN Power ELSE 0) ELSE 0

\* One subtraction, not made if it borrows
OrderCorrected(x) == IF x < Power + C THEN x ELSE x - (Power + C)

\* The quotient by the power is at most one too large.
FirstReduced(x) ==
    LET q == x \div Power
        d == (x % Power) - q * C
    IN  (d + AddedBack(d < 0, C % B)) % R

\* Mutant of Quotient: the top bit of the window is not taken off.
QuotientWraps(m) == ((m * B) \div Power) % B

\* The quotient of [m; d] by the power, but no more than a word of ones: a
\* reduced m may be as much as the power itself.
Quotient(m) == ((((m * B) \div Power) % B) - (m \div Power)) % B

\* [m; d] |-> [m; d] mod Power + C for a reduced m.  The bits of m that the
\* quotient has used up are cleared, except the highest, which is put back
\* at the place of the power.
OrderStep(m, d) ==
    LET q == Quotient(m)
        rest == ((m * B + d) % Power) + (m \div Power) * Power
        s == rest - q * C
    IN  ((s % R) + AddedBack(s < 0, Digit(C, 1))) % R

ModPowerOrder(First(_)) == \E k \in (K - 1)..MaxWords : \E x \in 0..(B^k - 1) :
    LET m[i \in 0..(k - K)] ==
            IF i = 0 THEN First(x \div B^(k - K)) ELSE OrderStep(m[i - 1], Digit(x, k - K - i))
    IN  Call("mod_n", << x >>, << IF k < K THEN x ELSE m[k - K] >>)

\* The order of the group is above half of the words, that of the base point
\* is not: their first steps differ.
ModM25519 == ModPowerOrder(OrderCorrected)
ModN25519 == ModPowerOrder(FirstReduced)

\* Ones are put above the power, so that the carry out of the words says that
\* nothing was borrowed.
ModN521 == \E x \in 0..(R - 1) :
    LET q == x \div Power + 1
        r == q * C + (x % Power) + (R - Power)
        s == (r % R) - (IF r < R THEN C ELSE 0)
    IN  Call("mod_n", << x >>, << s % Power >>)
=============================================================================
