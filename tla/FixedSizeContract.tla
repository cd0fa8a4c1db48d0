------------------------- MODULE FixedSizeContract -------------------------
(***************************************************************************)
(* What include/s2n-bignum.h promises of the functions of one prime field, *)
(* and declares for the points of the curves; the meaning of those is what *)
(* the proofs under arm/proofs give them.  The record curve names either:  *)
(* of a field it has the characteristic p and r = 2^(64 k), the first      *)
(* number that k words do not hold.                                        *)
(***************************************************************************)
EXTENDS Curve

Is(f) == call.function = f
x == call.of[1]
y == call.of[2]
z == call.result[1]
-----------------------------------------------------------------------------
(* Fields.  Some functions take any k words in most of the fields and only *)
(* reduced numbers in one: their operands are below limit.  Each           *)
(* definition stands for a function in every field that has it.            *)

r == curve.r
limit == curve.limit
Reduced(v) == v \in 0..(p - 1)
Words(v) == v \in 0..(r - 1)
Operand(v) == v \in 0..(limit - 1)
Residue(v) == z = v % p
\* z is v divided by d in the field
Quotient(v, d) == Reduced(z) /\ (d * z - v) % p = 0

Add_p == Is("add_p") /\ Reduced(x) /\ Reduced(y) /\ Residue(x + y)
Sub_p == Is("sub_p") /\ Reduced(x) /\ Reduced(y) /\ Residue(x - y)
Neg_p == Is("neg_p") /\ Reduced(x) /\ Residue(-x)
Optneg_p == Is("optneg_p") /\ Reduced(x) /\ Residue(IF y # 0 THEN -x ELSE x)
Double_p == Is("double_p") /\ Reduced(x) /\ Residue(2 * x)
Half_p == Is("half_p") /\ Reduced(x) /\ Quotient(x, 2)
Triple_p == Is("triple_p") /\ Operand(x) /\ Residue(3 * x)
Cmul_p == Is("cmul_p") /\ Reduced(x) /\ Residue(y * x)
\* The number may have any number of words.
Mod_p == Is("mod_p") /\ Residue(x)
\* p is the order of a group here; any number of words.
Mod_n == Is("mod_n") /\ Residue(x)
Tomont_p == Is("tomont_p") /\ Words(x) /\ Residue(r * x)
Demont_p == Is("demont_p") /\ Reduced(x) /\ Quotient(x, r)
Deamont_p == Is("deamont_p") /\ Words(x) /\ Quotient(x, r)
Montmul_p == Is("montmul_p") /\ Operand(x) /\ Operand(y) /\ x * y <= r * p /\ Quotient(x * y, r)
Montsqr_p == Is("montsqr_p") /\ Operand(x) /\ x * x <= r * p /\ Quotient(x * x, r)
Sqr_p == Is("sqr_p") /\ Operand(x) /\ Residue(x * x)
Mul_p == Is("mul_p") /\ Operand(x) /\ Operand(y) /\ Residue(x * y)

FieldPromise ==
    \/ Add_p \/ Sub_p \/ Neg_p \/ Optneg_p \/ Double_p \/ Half_p \/ Triple_p \/ Cmul_p
    \/ Mod_p \/ Mod_n \/ Tomont_p \/ Demont_p \/ Deamont_p
    \/ Montmul_p \/ Montsqr_p \/ Mul_p \/ Sqr_p
-----------------------------------------------------------------------------
(* Points.  An operand is the multiple that it represents, in whatever     *)
(* form the caller gave it.                                                *)

P256Functions == { "jadd", "jdouble", "jmixadd", "jscalarmul", "scalarmul", "scalarmulbase" }
P384Functions == { "jadd", "jdouble", "jmixadd", "jscalarmul" }
P521Functions == { "jadd", "jdouble", "jmixadd", "jscalarmul" }
Secp256k1Functions == { "jadd", "jdouble", "jmixadd" }
SM2Functions == { "jadd", "jdouble", "jmixadd", "jscalarmul" }

FunctionsOf(c) ==
    CASE c = "p256" -> P256Functions
      [] c = "p384" -> P384Functions
      [] c = "p521" -> P521Functions
      [] c = "secp256k1" -> Secp256k1Functions
      [] c = "sm2" -> SM2Functions

\* The two addends must not be the same point, unless it is the identity.
Jadd == Is("jadd") /\ (x = y => y = 0) /\ Represents(z, x + y)
\* The second addend is affine, hence not the identity.
Jmixadd == Is("jmixadd") /\ x # y /\ y # 0 /\ Represents(z, x + y)
Jdouble == Is("jdouble") /\ Represents(z, 2 * x)
\* For every scalar that the words hold, and every point.
Jscalarmul == Is("jscalarmul") /\ Represents(z, x * y)
\* The identity, which no pair of coordinates represents, is returned as zeros.
PlainAffine(k) == IF k % n = 0 THEN << 0, 0 >> ELSE curve.multiples[k % n]
Scalarmul == Is("scalarmul") /\ z = PlainAffine(x * y)
Scalarmulbase == Is("scalarmulbase") /\ z = PlainAffine(x)

PointPromise ==
    /\ call.function \in FunctionsOf(curve.name)
    /\ Jadd \/ Jmixadd \/ Jdouble \/ Jscalarmul \/ Scalarmul \/ Scalarmulbase
=============================================================================
