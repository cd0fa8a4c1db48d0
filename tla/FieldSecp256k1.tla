--------------------------- MODULE FieldSecp256k1 --------------------------
(***************************************************************************)
(* The functions of the field of secp256k1, whose characteristic P is      *)
(* R - C for a C a little longer than half a word.  A subtraction of P is  *)
(* an addition of C; a comparison with P looks for a carry out of the      *)
(* lowest word and for ones in all the others.                             *)
(***************************************************************************)
EXTENDS Calls

CONSTANTS B, K,               \* 2^64 and 4
          C,                  \* 2^32 + 977
          W,                  \* P * W = -1 modulo a word
          MaxWords,           \* of an argument of mod_p
          Firsts, Seconds     \* operands to be tried

R == B^K
P == R - C

Words == { x \in Firsts : x < R }
Reduced == { x \in Firsts : x < P }

Digit(v, i) == (v \div B^i) % B
\* c if the condition holds: a constant under a mask
If(b, c) == IF b THEN c ELSE 0

\* Mutant of AboveP: the sum above the words is not looked at.
AbovePLow(s) == Digit(s, 0) + C >= B /\ \A i \in 1..(K - 1) : Digit(s, i) = B - 1

\* s >= P, from the carry above the words or the condensed chain
AboveP(s) == s >= R \/ (Digit(s, 0) + C >= B /\ \A i \in 1..(K - 1) : Digit(s, i) = B - 1)

Corrected(s) == ((s % R) + If(AboveP(s), C)) % R

Add == \E x \in Reduced, y \in Seconds \cap Reduced :
    Call("add_p", << x, y >>, << Corrected(x + y) >>)

Double == \E x \in Reduced : Call("double_p", << x >>, << Corrected(2 * x) >>)

\* The new words are 0 but for the lowest.
Mod4 == \E x \in Words :
    Call("mod_p", << x >>, << IF AboveP(x) THEN (Digit(x, 0) + C) % B ELSE x >>)

\* The word above the number is c too, odd if x is.
HalfP == \E x \in Reduced :
    LET c == If(x % 2 = 1, C)
    IN  Call("half_p", << x >>, << ((R * c + x - c) \div 2) % R >>)

Neg == \E x \in Reduced : Call("neg_p", << x >>, << (If(x # 0, R - C) - x) % R >>)

Optneg == \E x \in Reduced, p \in { 0, 1, 2 } :
    LET m == p # 0 /\ x # 0
        v == IF m THEN R - 1 - x ELSE x
    IN  Call("optneg_p", << x, p >>, << (v - If(m, C - 1)) % R >>)

Sub == \E x \in Reduced, y \in Seconds \cap Reduced :
    Call("sub_p", << x, y >>, << (x - y - If(x < y, C)) % R >>)

\* v - q * P for an estimate q of v \div P at most one too big
Estimated(v) ==
    LET r == (v % R) + ((v \div R) + 1) * C
    IN  (r - If(r < R, C)) % R

Triple == \E x \in Words : Call("triple_p", << x >>, << Estimated(3 * x) >>)
Cmul == \E x \in Reduced, c \in 0..(B - 1) : Call("cmul_p", << x, c >>, << Estimated(c * x) >>)
Tomont == \E x \in Words : Call("tomont_p", << x >>, << Estimated(C * x) >>)

Product(v) == Estimated(C * (v \div R) + (v % R))
Mul == \E x \in Words, y \in Seconds : Call("mul_p", << x, y >>, << Product(x * y) >>)
Sqr == \E x \in Words : Call("sqr_p", << x >>, << Product(x * x) >>)

\* One word more; the estimate saturates and the top word becomes a mask.
Step(m, d) ==
    LET h == m \div B^(K - 1)
        q == IF h + 1 < B THEN h + 1 ELSE B - 1
        t == ((h - q) * R + (m % B^(K - 1)) * B + d + q * C) % (R * B)
    IN  ((t % R) - If(t \div R = B - 1, C)) % R

Mod == \E k \in (K - 1)..MaxWords : \E x \in 0..(B^k - 1) :
    LET top == x \div B^(k - K)
        m[i \in 0..(k - K)] ==
            IF i = 0 THEN (IF top + C < R THEN top ELSE (top + C) % R)
                     ELSE Step(m[i - 1], Digit(x, k - K - i))
    IN  Call("mod_p", << x >>, << IF k < K THEN x ELSE m[k - K] >>)

-----------------------------------------------------------------------------
(* Montgomery reduction of K words.  Each word becomes a word of the       *)
(* cofactor, whose product with C is taken off the words above; what it    *)
(* adds at the top are the words of the cofactor themselves.               *)
Cofactor(v) ==
    LET s[i \in 0..(K - 1)] ==
            LET below == IF i = 0 THEN 0 ELSE (s[i - 1].q * C) \div B + s[i - 1].borrow
                d == Digit(v, i) - below
            IN  [q |-> (W * (d % B)) % B, borrow |-> If(d < 0, 1)]
        value[i \in 0..K] == IF i = 0 THEN 0 ELSE value[i - 1] + s[i - 1].q * B^(i - 1)
    IN  [q |-> value[K], carried |-> (s[K - 1].q * C) \div B + s[K - 1].borrow]

ReducedOnce(f) == (f.q - f.carried) % R

Demont == \E x \in Reduced : Call("demont_p", << x >>, << ReducedOnce(Cofactor(x)) >>)

\* Mutant of Deamont: without the case of the cofactor of ones.
DeamontPlain == \E x \in Words : Call("deamont_p", << x >>, << ReducedOnce(Cofactor(x)) >>)

\* A cofactor of ones is the one case that is not reduced: only x = P has it.
Deamont == \E x \in Words :
    LET f == Cofactor(x)
        z == ReducedOnce(f)
    IN  Call("deamont_p", << x >>, << IF f.q = R - 1 THEN (Digit(z, 0) + C) % B ELSE z >>)

MontgomeryProduct(v) == Corrected(ReducedOnce(Cofactor(v % R)) + (v \div R))

Montmul == \E x \in Words, y \in Seconds :
    /\ x * y <= R * P
    /\ Call("montmul_p", << x, y >>, << MontgomeryProduct(x * y) >>)
Montsqr == \E x \in Words :
    /\ x * x <= R * P
    /\ Call("montsqr_p", << x >>, << MontgomeryProduct(x * x) >>)

Secp256k1Next ==
    \/ Add \/ Double \/ Mod4 \/ HalfP \/ Neg \/ Optneg \/ Sub \/ Triple \/ Cmul \/ Tomont
    \/ Mul \/ Sqr \/ Mod \/ Demont \/ Deamont \/ Montmul \/ Montsqr
=============================================================================
