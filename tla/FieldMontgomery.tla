-------------------------- MODULE FieldMontgomery --------------------------
(***************************************************************************)
(* The fields of P-256, SM2 and P-384.                                     *)
(*                                                                         *)
(* Their one-step functions differ in the words of the characteristic      *)
(* only: a sum or a difference with its carry, then one correction by the  *)
(* characteristic, selected or masked by that carry.  A number of the      *)
(* field's words is kept modulo R.                                         *)
(*                                                                         *)
(* The others estimate a quotient or take Montgomery steps.  Words are     *)
(* B = H * H, as the program's are 2^32 squared, and a number of the field *)
(* has K of them.  A reduction step subtracts its estimate times P from a  *)
(* window of K + 1 words and uses the word above as a mask, which is right *)
(* only if that word has become 0 or all ones.                             *)
(***************************************************************************)
EXTENDS Calls

CONSTANTS P, R,               \* characteristic, 2^(64 k)
          Firsts, Seconds,    \* operands to be tried
          Curve, H, K,        \* "p256", "sm2" or "p384"; half a word; words
          MaxWords            \* of an argument of mod_p

FieldOK == P \in Nat /\ R \in Nat /\ P % 2 = 1 /\ P < R /\ R <= 2 * P

Words == { x \in Firsts : x < R }
Reduced == { x \in Firsts : x < P }

\* Mutant of Corrected: the carry above the words is left out of the test.
CorrectedLow(s) == IF s % R < P THEN s % R ELSE (s - P) % R

\* s - P if that does not borrow from the word above
Corrected(s) == IF s < P THEN s % R ELSE (s - P) % R

Add == \E x \in Reduced, y \in Seconds \cap Reduced :
    Call("add_p", << x, y >>, << Corrected(x + y) >>)

Double == \E x \in Reduced : Call("double_p", << x >>, << Corrected(2 * x) >>)

\* Any k words; the whole of bignum_mod_p256_4 and its like.
ModOnce == \E x \in Words : Call("mod_p", << x >>, << Corrected(x) >>)

Sub == \E x \in Reduced, y \in Seconds \cap Reduced :
    LET mask == IF x < y THEN P ELSE 0
    IN  Call("sub_p", << x, y >>, << (((x - y) % R) + mask) % R >>)

\* Mutant of Neg: no mask for the input zero.
NegNoMask == \E x \in Reduced : Call("neg_p", << x >>, << (P - x) % R >>)

Neg == \E x \in Reduced :
    LET p == IF x # 0 THEN P ELSE 0
    IN  Call("neg_p", << x >>, << (p - x) % R >>)

Optneg == \E x \in Reduced, p \in { 0, 1, 2 } :
    LET q == IF x = 0 THEN 0 ELSE p
    IN  Call("optneg_p", << x, p >>, << IF q # 0 THEN (P - x) % R ELSE x >>)

\* The sum keeps its carry in a word of its own for the shift.
Half == \E x \in Reduced :
    LET m == IF x % 2 = 1 THEN P ELSE 0
    IN  Call("half_p", << x >>, << ((x + m) \div 2) % R >>)

Arithmetic == Add \/ Double \/ ModOnce \/ Sub \/ Neg \/ Optneg \/ Half
-----------------------------------------------------------------------------
B == H * H

Digit(v, i) == (v \div B^i) % B
Ones == (R - 1) \div (B - 1)          \* 1 in every word
\* P and-ed with c in every word.  Of a word that is neither 0 nor all ones
\* it would keep some bits, for which the word itself stands.
Masked(c) == IF c = B - 1 THEN P ELSE c * Ones

-----------------------------------------------------------------------------
(* Estimates of z \div P.  The word that the program adds to one too many  *)
(* is taken back where the estimate may not fit a word.                    *)
Saturated(q) == IF q < B THEN q ELSE B - 1

EstimateP256(z) ==
    LET hl == z \div B^(K - 1)
    IN  (hl + hl \div H + 1) \div B

EstimateSM2(z) ==
    LET h == Digit(z, K)
        t == Digit(z, K - 1) + h
    IN  ((h + 1 + t \div B) % B) + ((h + (t % B) \div H) % B) \div H

EstimateP384(z) == z \div R + 1

Estimate(z) ==
    CASE Curve = "p256" -> EstimateP256(z)
      [] Curve = "sm2" -> EstimateSM2(z)
      [] Curve = "p384" -> EstimateP384(z)

\* z - q * P in K + 1 words, the top one of which is the mask
Reduce(z, q) ==
    LET d == (z - q * P) % (R * B)
    IN  ((d % R) + Masked(d \div R)) % R

\* Mutant of Step: the estimate may wrap to zero.
StepWraps(m, d) == Reduce(m * B + d, Estimate(m * B + d) % B)

\* [m; d] |-> [m; d] mod P for m < P
Step(m, d) == Reduce(m * B + d, Saturated(Estimate(m * B + d)))

\* Fewer than K words are copied; the top K of more are reduced once, and
\* the others enter the window one by one.
Windowed(k, x) ==
    LET m[i \in 0..(k - K)] ==
            IF i = 0 THEN Corrected(x \div B^(k - K)) ELSE Step(m[i - 1], Digit(x, k - K - i))
    IN  IF k < K THEN x ELSE m[k - K]

\* One Montgomery step; P * NegInverse = -1 modulo a word.
NegInverse == IF Curve = "p384" THEN H + 1 ELSE 1
MontgomeryStep(d) == ((d + (((d % B) * NegInverse) % B) * P) \div B) % R

MontgomerySteps(d) ==
    LET s[i \in 0..K] == IF i = 0 THEN d ELSE MontgomeryStep(s[i - 1])
    IN  s[K]
-----------------------------------------------------------------------------
Triple == \E x \in Words :
    Call("triple_p", << x >>, << Reduce(3 * x, (3 * x) \div R + 1) >>)

Cmul == \E x \in Reduced, c \in 0..(B - 1) :
    Call("cmul_p", << x, c >>, << Reduce(c * x, Estimate(c * x) % B) >>)

Mod == \E k \in (K - 1)..MaxWords : \E x \in 0..(B^k - 1) :
    Call("mod_p", << x >>, << Windowed(k, x) >>)

Tomont == \E x \in Words :
    LET m[i \in 0..K] == IF i = 0 THEN Corrected(x) ELSE Step(m[i - 1], 0)
    IN  Call("tomont_p", << x >>, << m[K] >>)

\* No correction: a reduced number stays one.
Demont == \E x \in Reduced : Call("demont_p", << x >>, << MontgomerySteps(x) >>)

Deamont == \E x \in Words :
    Call("deamont_p", << x >>, << Corrected(MontgomerySteps(x)) >>)

\* The steps rotate the low half of the product, then the high half is added.
MontgomeryProduct(v) == Corrected(MontgomerySteps(v % R) + (v \div R))

Montmul == \E x \in Words, y \in Seconds :
    /\ x * y <= R * P
    /\ Call("montmul_p", << x, y >>, << MontgomeryProduct(x * y) >>)

Montsqr == \E x \in Words :
    /\ x * x <= R * P
    /\ Call("montsqr_p", << x >>, << MontgomeryProduct(x * x) >>)

-----------------------------------------------------------------------------
(* Reduction modulo the order P of the group.  The words of these orders   *)
(* begin like those of the field's characteristic, so that the estimate of *)
(* a quotient is the same; that of secp256k1 is P-384's.                   *)
ModN == \E k \in (K - 1)..MaxWords : \E x \in 0..(B^k - 1) :
    Call("mod_n", << x >>, << Windowed(k, x) >>)

\* Any K words: bignum_mod_n256_4 and its like.
ModNOnce == \E x \in Words : Call("mod_n", << x >>, << Corrected(x) >>)

OrderNext == ModN \/ ModNOnce
-----------------------------------------------------------------------------
\* All but Triple, whose estimate needs longer words in one field.
MontgomeryNext ==
    Arithmetic \/ Cmul \/ Mod \/ Tomont \/ Demont \/ Deamont \/ Montmul \/ Montsqr
=============================================================================
