-------------------------- MODULE FieldCurve25519 --------------------------
(***************************************************************************)
(* The functions of the field of curve25519, whose characteristic is a     *)
(* little less than half of R: P = R / 2 - C.  A subtraction of P is an    *)
(* addition of R / 2 + C whose carry is the comparison, or an addition of  *)
(* C under a mask that takes the top bit off.                              *)
(***************************************************************************)
EXTENDS Calls

CONSTANTS B, K,               \* 2^64 and 4
          C,                  \* 19
          Firsts, Seconds     \* operands to be tried

R == B^K
Half == R \div 2
P == Half - C

Words == { x \in Firsts : x < R }
Reduced == { x \in Firsts : x < P }

Digit(v, i) == (v \div B^i) % B

Corrected(s) == IF s + Half + C >= R THEN (s + Half + C) % R ELSE s

Add == \E x \in Reduced, y \in Seconds \cap Reduced :
    Call("add_p", << x, y >>, << Corrected(x + y) >>)

Double == \E x \in Reduced : Call("double_p", << x >>, << Corrected(2 * x) >>)

Sub == \E x \in Reduced, y \in Seconds \cap Reduced :
    LET c == IF x < y THEN C ELSE 0
    IN  Call("sub_p", << x, y >>, << (x - y - c) % Half >>)

Neg == \E x \in Reduced : Call("neg_p", << x >>, << IF x # 0 THEN P - x ELSE 0 >>)

Optneg == \E x \in Reduced, p \in { 0, 1, 2 } :
    Call("optneg_p", << x, p >>, << IF p # 0 /\ x # 0 THEN P - x ELSE x >>)

\* What is left of h * Half + l, to which Half has been added, after adding
\* C times the estimate: a carry out of the words says it was right.
Settled(r) == (r - (IF r < R THEN C ELSE 0)) % Half

\* Mutant of Estimated: the estimate is one less.
EstimatedLess(v) == Settled((v % Half) + Half + (v \div Half) * C)

\* The estimate of v \div P is at most one too big.
Estimated(v) == Settled((v % Half) + Half + ((v \div Half) + 1) * C)

Mod == \E x \in Words : Call("mod_p", << x >>, << Estimated(x) >>)

Cmul == \E x \in Reduced, c \in 0..(B - 1) : Call("cmul_p", << x, c >>, << Estimated(c * x) >>)

\* 2 C times the upper half of the product is added to the lower one.  The
\* high words of that, except the two uppermost, are added only after the
\* quotient has been estimated.
Product(v) ==
    LET high == v \div R
        low[i \in 0..K] ==
            IF i = 0 THEN 0 ELSE low[i - 1] + ((2 * C * Digit(high, i - 1)) % B) * B^(i - 1)
        carry[i \in 0..K] ==
            IF i = 0 THEN 0 ELSE carry[i - 1] + ((2 * C * Digit(high, i - 1)) \div B) * B^i
        deferred == carry[K - 2]
        s == (v % R) + low[K] + (carry[K] - deferred)
    IN  Settled((s % Half) + Half + ((s \div Half) + 1) * C + deferred)

Mul == \E x \in Words, y \in Seconds : Call("mul_p", << x, y >>, << Product(x * y) >>)
Sqr == \E x \in Words : Call("sqr_p", << x >>, << Product(x * x) >>)

Curve25519Next == Add \/ Double \/ Sub \/ Neg \/ Optneg \/ Mod \/ Cmul \/ Mul \/ Sqr
=============================================================================
