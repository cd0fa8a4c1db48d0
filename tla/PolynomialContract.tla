------------------------ MODULE PolynomialContract ------------------------
(***************************************************************************)
(* What include/s2n-bignum.h and the theorems of arm/proofs promise of the *)
(* functions of ML-KEM and ML-DSA on the coefficients of a polynomial.     *)
(***************************************************************************)
EXTENDS Calls

VARIABLE polynomial

Is(f) == call.function = f
x == call.of[1]
y == call.of[2]
result == call.result[1]

\* As many of the accepted as there are entries, in their order, and nothing
\* stored outside of the scratch area and the entries
Sampled(Mapped(_)) ==
    LET Below(v) == v < y
        accepted == SelectSeq(x, Below)
        many == Len(accepted)
    IN  /\ result = IF many < polynomial.entries THEN many ELSE polynomial.entries
        /\ \A i \in 0..(result - 1) : call.result[2][i] = Mapped(accepted[i + 1])
        /\ \A i \in DOMAIN call.result[3] : call.result[3][i] = -1
RejUniform == Is("rej_uniform") /\ LET Same(v) == v IN Sampled(Same)
RejUniformEta2 == Is("rej_uniform_eta2") /\ LET Mapped(v) == 2 - (v % 5) IN Sampled(Mapped)
RejUniformEta4 == Is("rej_uniform_eta4") /\ LET Mapped(v) == 4 - v IN Sampled(Mapped)

Reduce == Is("reduce") /\ \A i \in DOMAIN x : result[i] = x[i] % 3329
Tomont ==
    /\ Is("tomont")
    /\ \A i \in DOMAIN x :
        /\ (result[i] - (65536 % 3329) * x[i]) % 3329 = 0
        /\ result[i] \in -3328..3328
Tobytes == Is("tobytes") /\ result[1] + 256 * result[2] + 65536 * result[3] = (x % 4096) + 4096 * (y % 4096)

Q == 8380417
Caddq == Is("caddq") /\ result = x % Q

\* FIPS 204: the centred remainder modulo twice GAMMA2, and the quotient
Remainder == IF 2 * (x % y) <= y THEN x % y ELSE (x % y) - y
Parts ==
    IF x - Remainder = Q - 1 THEN << 0, Remainder - 1 >>
                             ELSE << (x - Remainder) \div y, Remainder >>
Decompose == Is("decompose") /\ result = Parts
UseHint ==
    /\ Is("use_hint")
    /\ result = IF call.of[3] = 0 THEN Parts[1]
                ELSE (Parts[1] + IF Parts[2] > 0 THEN 1 ELSE -1) % ((Q - 1) \div y)

Promise ==
    \/ RejUniform \/ RejUniformEta2 \/ RejUniformEta4
    \/ Reduce \/ Tomont \/ Tobytes \/ Caddq \/ Decompose \/ UseHint
=============================================================================
