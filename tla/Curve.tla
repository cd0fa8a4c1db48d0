------------------------------- MODULE Curve -------------------------------
(***************************************************************************)
(* An elliptic curve of prime order n over the integers modulo p, and how  *)
(* the library stores its points: a coordinate v is kept as v * r mod p,   *)
(* where r is 2^(64 k) for the curves in Montgomery form and 1 for the     *)
(* others.  The points are the multiples of one of them, the first of      *)
(* multiples; the identity is its zeroth multiple.                         *)
(***************************************************************************)
EXTENDS Calls

VARIABLE curve

p == curve.p
n == curve.n

\* The curve y^2 = x^3 + a x + b through the point g, by the textbook's law.
CurveOf(prime, a, order, g, r) ==
    LET Inverse(v) == CHOOSE w \in 1..(prime - 1) : (v * w) % prime = 1
        Slope(s, t) ==
            IF s = t THEN (3 * s[1] * s[1] + a) * Inverse((2 * s[2]) % prime)
                     ELSE (t[2] - s[2]) * Inverse((t[1] - s[1]) % prime)
        Plus(s, t) ==
            LET l == Slope(s, t) % prime
                x == (l * l - s[1] - t[1]) % prime
            IN  << x, (l * (s[1] - x) - s[2]) % prime >>
        first[k \in Nat] ==
            IF k = 1 THEN << g >>
            ELSE LET half == first[(k + 1) \div 2]
                     m == (k + 1) \div 2
                 IN  half \o [i \in 1..(k - m) |-> Plus(half[m], half[i])]
    IN  [p |-> prime, a |-> a, n |-> order, r |-> r % prime, u |-> Inverse(r % prime),
         multiples |-> first[order - 1]]

\* montmul, or mul where r is 1
Mul(v, w) == (((v * w) % p) * curve.u) % p
Sqr(v) == Mul(v, v)
Stored(v) == (v * curve.r) % p
Negated(v) == IF v = 0 THEN 0 ELSE p - v

Infinity == << 0, 0, 0 >>

\* The affine point as it is stored, and with a third coordinate z
Affine(k) == << Stored(curve.multiples[k][1]), Stored(curve.multiples[k][2]) >>
Scaled(q, z) == << Mul(q[1], Sqr(z)), Mul(q[2], Mul(z, Sqr(z))), z >>

\* Any third coordinate zero stands for the identity.
Represents(q, k) ==
    /\ \A i \in 1..3 : q[i] \in 0..(p - 1)
    /\ IF k % n = 0 THEN q[3] = 0 ELSE q[3] # 0 /\ q = Scaled(Affine(k % n), q[3])
=============================================================================
