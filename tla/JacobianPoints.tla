--------------------------- MODULE JacobianPoints ---------------------------
(***************************************************************************)
(* Addition, doubling and mixed addition of points in Jacobian             *)
(* coordinates: the straight-line formulas of the five curves, with the    *)
(* field operations as numbers modulo p.  How far a field routine leaves a *)
(* temporary unreduced is not modelled.                                    *)
(*                                                                         *)
(* Scalar multiplication: the scalar is cut into windows whose digits are  *)
(* made signed by adding a constant beforehand, and a table of small       *)
(* multiples is added between doublings.  The addition formulas fail for   *)
(* two equal points, and nothing in the loop looks for that: it must not   *)
(* happen.                                                                 *)
(***************************************************************************)
EXTENDS Curve

CONSTANTS Scales,       \* third coordinates to be tried
          Window,       \* bits of a digit: 4, or 5 for P-384 and P-521
          Bits,         \* of the group order
          Digits,       \* below the top one, which is not recoded
          MaxScalar,    \* largest scalar that the words hold
          Bases         \* multiples to be multiplied

SumFormula(q, s) ==
    LET z1sq == Sqr(q[3])
        z2sq == Sqr(s[3])
        y1a == Mul(z2sq, Mul(s[3], q[2]))
        y2a == Mul(z1sq, Mul(q[3], s[2]))
        x1a == Mul(z2sq, q[1])
        x2a == Mul(z1sq, s[1])
        xd == (x2a - x1a) % p
        yd == (y2a - y1a) % p
        zz == Sqr(xd)
        zzx1 == Mul(zz, x1a)
        zzx2 == Mul(zz, x2a)
        x3 == (Sqr(yd) - zzx1 - zzx2) % p
        y3 == (Mul(yd, (zzx1 - x3) % p) - Mul((zzx2 - zzx1) % p, y1a)) % p
    IN  << x3, y3, Mul(Mul(xd, q[3]), s[3]) >>

\* Mutant of Sum: the identity is selected instead of the other operand.
SumSwapped(q, s) ==
    CASE q[3] = 0 /\ s[3] # 0 -> q
      [] q[3] # 0 /\ s[3] = 0 -> s
      [] OTHER -> SumFormula(q, s)

\* An operand that is the identity has no say: the other one is selected.
Sum(q, s) ==
    CASE q[3] = 0 /\ s[3] # 0 -> s
      [] q[3] # 0 /\ s[3] = 0 -> q
      [] OTHER -> SumFormula(q, s)

\* The affine addend gets the stored form of one as its third coordinate.
MixedSum(q, s) ==
    LET z1sq == Sqr(q[3])
        x2a == Mul(z1sq, s[1])
        xd == (x2a - q[1]) % p
        yd == (Mul(z1sq, Mul(q[3], s[2])) - q[2]) % p
        zz == Sqr(xd)
        zzx1 == Mul(zz, q[1])
        zzx2 == Mul(zz, x2a)
        x3 == (Sqr(yd) - zzx1 - zzx2) % p
        y3 == (Mul(yd, (zzx1 - x3) % p) - Mul((zzx2 - zzx1) % p, q[2])) % p
    IN  IF q[3] = 0 THEN << s[1], s[2], Stored(1) >> ELSE << x3, y3, Mul(xd, q[3]) >>

\* For the curves with a = -3
DoubledMinus3(q) ==
    LET z2 == Sqr(q[3])
        y2 == Sqr(q[2])
        x2p == Mul((q[1] + z2) % p, (q[1] - z2) % p)
        t1 == (Sqr((q[2] + q[3]) % p) - z2) % p
        xy2 == Mul(q[1], y2)
        d == (12 * xy2 - 9 * Sqr(x2p)) % p
    IN  << (4 * xy2 - d) % p, (3 * Mul(d, x2p) - 8 * Sqr(y2)) % p, (t1 - y2) % p >>

\* For secp256k1
DoubledZero(q) ==
    LET y2 == Sqr(q[2])
        x2 == Sqr(q[1])
        xy2 == Mul(q[1], y2)
        d == (12 * xy2 - 9 * Sqr(x2)) % p
    IN  << (4 * xy2 - d) % p, (3 * Mul(d, x2) - 8 * Sqr(y2)) % p, (2 * Mul(q[2], q[3])) % p >>

Doubled(q) == IF curve.a = 0 THEN DoubledZero(q) ELSE DoubledMinus3(q)
-----------------------------------------------------------------------------
Multiple == 0..(n - 1)

\* Stored forms of a multiple
Forms(k) ==
    IF k = 0 THEN { << v, w, 0 >> : v \in { 0, 1 }, w \in { 0, 2 } }
             ELSE { Scaled(Affine(k), z) : z \in Scales }

Jadd == \E j, k \in Multiple : \E q \in Forms(j), s \in Forms(k) :
    /\ j = k => k = 0
    /\ Call("jadd", << j, k >>, << Sum(q, s) >>)

Jmixadd == \E j \in Multiple, k \in Multiple \ { 0 } : \E q \in Forms(j) :
    /\ j # k
    /\ Call("jmixadd", << j, k >>, << MixedSum(q, Affine(k)) >>)

Jdouble == \E k \in Multiple : \E q \in Forms(k) :
    Call("jdouble", << k >>, << Doubled(q) >>)

PointsNext == Jadd \/ Jmixadd \/ Jdouble
-----------------------------------------------------------------------------
(* Multiples of a point                                                   *)
Half == 2^(Window - 1)
Base == 2^Window

Reduced(k) == k % n

\* Mutant of Sign: scalars are never negated.
SignPlus(k) == 1

\* The scalar is negated if its top bit is set, except by P-384.
Sign(k) == IF curve.name # "p384" /\ k >= 2^(Bits - 1) THEN -1 ELSE 1

Opposite(q) == << q[1], Negated(q[2]), q[3] >>
Signed(s, q) == IF s < 0 THEN Opposite(q) ELSE q

\* The multiples 1..Half of q; P-256 has it affine for the mixed addition.
Table(q) ==
    LET t[i \in 1..Half] ==
            IF i = 1 THEN q
            ELSE IF i % 2 = 0 THEN Doubled(t[i \div 2])
            ELSE IF curve.name = "p256" /\ q[3] = Stored(1)
                 THEN MixedSum(t[i - 1], << q[1], q[2] >>)
                 ELSE Sum(t[i - 1], q)
    IN  [i \in 1..Half |-> t[i]]

\* Constant-time lookup: an index beyond the table finds zeros.
Entry(table, i) == IF i \in DOMAIN table THEN table[i] ELSE Infinity

RecodingConstant ==
    LET c[i \in 0..Digits] == IF i = 0 THEN 0 ELSE c[i - 1] * Base + Half
    IN  c[Digits]

DoubledWindow(q) ==
    LET t[i \in 0..Window] == IF i = 0 THEN q ELSE Doubled(t[i - 1])
    IN  t[Window]

Multiplied(k, q) ==
    LET reduced == Reduced(k)
        sign == Sign(reduced)
        scalar == (IF sign < 0 THEN n - reduced ELSE reduced) + RecodingConstant
        table == Table(Signed(sign, q))
        Digit(i) == ((scalar \div Base^i) % Base) - Half
        acc[i \in 0..Digits] ==
            IF i = Digits THEN Entry(table, scalar \div Base^Digits)
            ELSE LET d == Digit(i)
                     e == Signed(d, Entry(table, IF d < 0 THEN -d ELSE d))
                 IN  Sum(DoubledWindow(acc[i + 1]), e)
    IN  acc[0]

\* Back to affine coordinates out of Montgomery form, by one inversion that
\* takes zero to zero
ToAffine(q) ==
    LET z3 == Mul(Mul(q[3], Sqr(q[3])), 1)
        inverse == IF z3 = 0 THEN 0 ELSE CHOOSE w \in 1..(p - 1) : (w * z3) % p = 1
        z2 == Mul(q[3], inverse)
    IN  << Mul(q[1], z2), Mul(q[2], inverse) >>

Jscalarmul == \E k \in 0..MaxScalar, m \in Bases \cup { 0 } : \E q \in Forms(m) :
    Call("jscalarmul", << k, m >>, << Multiplied(k, q) >>)

Scalarmul == \E k \in 0..MaxScalar, m \in Bases :
    LET q == << Affine(m)[1], Affine(m)[2], Stored(1) >>
    IN  Call("scalarmul", << k, m >>, << ToAffine(Multiplied(k, q)) >>)
-----------------------------------------------------------------------------
(* Multiplication of a fixed point whose multiples 2^(block i) * j, for    *)
(* j in 1..2^(block - 1), are in a table the caller has made.              *)

\* A digit above half the base is taken negative, with a carry for the next.
FixedStep(s, block, i) ==
    LET b == 2^(block - 1)
        raw == (s.scalar % (2 * b)) + s.carry
        carry == IF raw > b THEN 1 ELSE 0
        j == IF raw > b THEN 2 * b - raw ELSE raw
        entry == Affine((2^(block * i) * j) % n)
        new == MixedSum(s.acc, IF carry = 1 THEN << entry[1], Negated(entry[2]) >> ELSE entry)
    IN  [scalar |-> s.scalar \div (2 * b), carry |-> carry,
         acc |-> IF j = 0 THEN s.acc ELSE new]

\* As many blocks as it takes to consume the carry out of the last bit
MultipliedFixed(k, block) ==
    LET s[i \in 0..(Bits \div block + 1)] ==
            IF i = 0 THEN [scalar |-> Reduced(k), carry |-> 0, acc |-> Infinity]
                     ELSE FixedStep(s[i - 1], block, i - 1)
    IN  s[Bits \div block + 1].acc

Scalarmulbase == \E k \in 0..MaxScalar, block \in 2..5 :
    Call("scalarmulbase", << k, block >>, << ToAffine(MultipliedFixed(k, block)) >>)
=============================================================================
