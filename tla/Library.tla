------------------------------ MODULE Library ------------------------------
(***************************************************************************)
(* The library as a caller sees it: it picks a family of functions and     *)
(* makes one call, whose result the promises of the header are held        *)
(* against.  A family is one of the program's fields, groups, curves or    *)
(* word sizes, made so small that nearly every operand can be tried, with  *)
(* the relations between its parameters on which the code relies.          *)
(***************************************************************************)
EXTENDS Calls, TLC

VARIABLE library        \* the family that is called

FixedSize == INSTANCE FixedSizeContract WITH curve <- library
NumberPromises == INSTANCE GenericContract WITH words <- library
PolynomialPromises == INSTANCE PolynomialContract WITH polynomial <- library
-----------------------------------------------------------------------------
(* Fields.  Where both operands cannot run over everything, the second one *)
(* is near a boundary.                                                     *)
Near(p, r) == { 0, 1, 2, p \div 2, p - 2, p - 1, p, r - 1 }

P256 == INSTANCE FieldMontgomery WITH
    Curve <- "p256", P <- 199, R <- 256, H <- 2, K <- 4, MaxWords <- 6,
    Firsts <- 0..255, Seconds <- 0..255
SM2 == INSTANCE FieldMontgomery WITH
    Curve <- "sm2", P <- 4355, R <- 6561, H <- 3, K <- 4, MaxWords <- 5,
    Firsts <- 0..6560, Seconds <- Near(4355, 6561)
\* Three times a number has a quotient that half words of 3 are too small for.
SM2Wide == INSTANCE FieldMontgomery WITH
    Curve <- "sm2", P <- 312399, R <- 390625, H <- 5, K <- 4, MaxWords <- 5,
    Firsts <- { (k \div 3) + d : k \in { 30, 312399, 390625, 624798, 781250, 937197, 1171860 }, d \in -3..3 },
    Seconds <- {}
P384 == INSTANCE FieldMontgomery WITH
    Curve <- "p384", P <- 4073, R <- 4096, H <- 2, K <- 6, MaxWords <- 7,
    Firsts <- 0..4095, Seconds <- Near(4073, 4096)
P521 == INSTANCE FieldMersenne WITH
    N <- 1024, B <- 8, K <- 4, Firsts <- 0..4095,
    Seconds <- Near(1023, 1024) \cup { 7, 8, 510, 512, 513, 1015 }
Curve25519 == INSTANCE FieldCurve25519 WITH
    B <- 8, K <- 4, C <- 1, Firsts <- 0..4095,
    Seconds <- Near(2047, 4096) \cup { 7, 8, 2040, 2048, 4087, 4094 }
\* The same with few large words
Curve25519Wide == INSTANCE FieldCurve25519 WITH
    B <- 64, K <- 2, C <- 3, Seconds <- 0..4095,
    Firsts <- { 0, 1, 63, 64, 65, 4094, 4095 } \cup 2042..2049
Secp256k1 == INSTANCE FieldSecp256k1 WITH
    B <- 16, K <- 3, C <- 5, W <- 13, MaxWords <- 4, Firsts <- 0..4095,
    Seconds <- Near(4091, 4096) \cup { 7, 8, 15, 16, 17, 255, 256, 4080, 4092, 4094 }

Field(name, p, r, limit) ==
    [kind |-> "field", name |-> name, p |-> p, r |-> r, limit |-> limit]

Fields == {
    Field("p256", 199, 256, 256), Field("sm2", 4355, 6561, 6561),
    Field("sm2wide", 312399, 390625, 390625), Field("p384", 4073, 4096, 4096),
    Field("p521", 1023, 4096, 1023), Field("curve25519", 2047, 4096, 4096),
    Field("curve25519wide", 2045, 4096, 4096), Field("secp256k1", 4091, 4096, 4096) }

FieldsNext ==
    \/ library.name = "p256" /\ (P256!MontgomeryNext \/ P256!Triple)
    \/ library.name = "sm2" /\ SM2!MontgomeryNext
    \/ library.name = "sm2wide" /\ SM2Wide!Triple
    \/ library.name = "p384" /\ (P384!MontgomeryNext \/ P384!Triple)
    \/ library.name = "p521" /\ P521!MersenneNext
    \/ library.name = "curve25519" /\ Curve25519!Curve25519Next
    \/ library.name = "curve25519wide" /\ Curve25519Wide!Curve25519Next
    \/ library.name = "secp256k1" /\ Secp256k1!Secp256k1Next
-----------------------------------------------------------------------------
(* Orders of groups                                                        *)
N256 == INSTANCE FieldMontgomery WITH
    Curve <- "p256", P <- 183, R <- 256, H <- 2, K <- 4, MaxWords <- 6,
    Firsts <- 0..255, Seconds <- {}
NSM2 == INSTANCE FieldMontgomery WITH
    Curve <- "sm2", P <- 4334, R <- 6561, H <- 3, K <- 4, MaxWords <- 5,
    Firsts <- 0..6560, Seconds <- {}
N384 == INSTANCE FieldMontgomery WITH
    Curve <- "p384", P <- 4057, R <- 4096, H <- 2, K <- 6, MaxWords <- 7,
    Firsts <- 0..4095, Seconds <- {}
N256k1 == INSTANCE FieldMontgomery WITH
    Curve <- "p384", P <- 6475, R <- 6561, H <- 3, K <- 4, MaxWords <- 5,
    Firsts <- 0..6560, Seconds <- {}
M25519 == INSTANCE PowerOrders WITH Power <- 2048, C <- 35, B <- 8, K <- 4, MaxWords <- 5
N25519 == INSTANCE PowerOrders WITH Power <- 1024, C <- 22, B <- 8, K <- 4, MaxWords <- 5
N521 == INSTANCE PowerOrders WITH Power <- 1024, C <- 37, B <- 8, K <- 4, MaxWords <- 5

Order(name, p) == [kind |-> "order", name |-> name, p |-> p]

Orders == {
    Order("n256", 183), Order("nsm2", 4334), Order("n384", 4057), Order("n256k1", 6475),
    Order("m25519", 2048 + 35), Order("n25519", 1024 + 22), Order("n521", 1024 - 37) }

OrdersNext ==
    \/ library.name = "n256" /\ N256!OrderNext
    \/ library.name = "nsm2" /\ NSM2!OrderNext
    \/ library.name = "n384" /\ N384!OrderNext
    \/ library.name = "n256k1" /\ N256k1!OrderNext
    \/ library.name = "m25519" /\ M25519!ModM25519
    \/ library.name = "n25519" /\ N25519!ModN25519
    \/ library.name = "n521" /\ N521!ModN521
-----------------------------------------------------------------------------
(* Curves: small ones for every pair of points, larger ones for every      *)
(* scalar.  The order of a larger one fills its bits as the real one does; *)
(* that of P-384, which never negates a scalar, is above half of a digit's *)
(* base modulo that base, and that of P-256 for a fixed base is so close   *)
(* to a power of two that no block of its digits ends in a carry too many. *)
FourBit == INSTANCE JacobianPoints WITH curve <- library,
    Scales <- { 1, 3 }, Window <- 3, Bits <- 9, Digits <- 2, MaxScalar <- 511, Bases <- { 1 }
FiveBit384 == INSTANCE JacobianPoints WITH curve <- library,
    Scales <- { 1, 3 }, Window <- 3, Bits <- 8, Digits <- 2, MaxScalar <- 255, Bases <- { 1 }
FiveBit521 == INSTANCE JacobianPoints WITH curve <- library,
    Scales <- { 1, 3 }, Window <- 3, Bits <- 7, Digits <- 2, MaxScalar <- 255, Bases <- { 1 }

CurveNamed(name, use, p, a, order, g, r) ==
    [kind |-> "curve", name |-> name, use |-> use]
        @@ FixedSize!CurveOf(p, a, order, g, r)

Curves == {
    CurveNamed("p256", "points", 31, -3, 29, << 3, 8 >>, 32),
    CurveNamed("sm2", "points", 31, -3, 37, << 0, 10 >>, 32),
    CurveNamed("p384", "points", 23, -3, 31, << 0, 10 >>, 32),
    CurveNamed("p521", "points", 17, -3, 23, << 1, 1 >>, 1),
    CurveNamed("secp256k1", "points", 37, 0, 37, << 6, 6 >>, 1),
    CurveNamed("p256", "scalars", 421, -3, 457, << 1, 22 >>, 512),
    CurveNamed("p256", "base", 467, -3, 509, << 0, 152 >>, 512),
    CurveNamed("sm2", "scalars", 463, -3, 499, << 1, 106 >>, 512),
    CurveNamed("p384", "scalars", 223, -3, 239, << 0, 38 >>, 256),
    CurveNamed("p521", "scalars", 101, -3, 107, << 2, 32 >>, 1) }

CurvesNext ==
    \/ library.use = "points" /\ FourBit!PointsNext
    \/ library.use = "base" /\ FourBit!Scalarmulbase
    \/ library.use = "scalars" /\ library.name \in { "p256", "sm2" } /\ FourBit!Jscalarmul
    \/ library.use = "scalars" /\ library.name = "p256" /\ FourBit!Scalarmul
    \/ library.use = "scalars" /\ library.name = "p384" /\ FiveBit384!Jscalarmul
    \/ library.use = "scalars" /\ library.name = "p521" /\ FiveBit521!Jscalarmul
-----------------------------------------------------------------------------
(* Functions for numbers of any length, and of one word                    *)
Two == INSTANCE OptionalOperations WITH WordBits <- 2, MaxWords <- 2
Accumulating == INSTANCE MultiplyAccumulate WITH WordBits <- 2, MaxWords <- 3, SmallWords <- 2
Scanning == INSTANCE Scans WITH WordBits <- 2, MaxWords <- 3, LongBits <- 9
\* A decimal digit must fit into the part of a word that a step divides.
Decimal == INSTANCE WordDivision WITH WordBits <- 12, MaxWords <- 2, Split <- 8,
    Longs <- { 0, 1, 9, 4095, 4096, 4097, 40959, 40960, 45055, 9999999, 16777214, 16777215 }
Dividing == INSTANCE WordDivision WITH WordBits <- 3, MaxWords <- 3, Split <- 1, Longs <- {}
\* One word, and two; the largest and the smallest, powers of two less one
Montgomery == INSTANCE MontgomeryNumbers WITH WordBits <- 3,
    Moduli <- { << 1, m >> : m \in { 1, 3, 5, 7 } } \cup { << 2, m >> : m \in { 1, 3, 7, 9, 31, 33, 45, 63 } }
Bits16 == INSTANCE WordOperations WITH WordBits <- 16,
    Tried <- { 13 * i : i \in 0..5041 } \cup { 2^i : i \in 0..15 } \cup { 2^i - 1 : i \in 1..16 },
    Others <- { 0, 1, 255, 256, 32767, 32768, 65535 }
Bits12 == INSTANCE WordOperations WITH WordBits <- 12, Tried <- 0..4095, Others <- {}
Odds(n) == { f \in -n..n : f % 2 = 1 }
Steps5 == INSTANCE Inverses WITH Block <- 2, Operands <- {},
    Ds <- Odds(7), Fs <- Odds(15) \cup { -511, 511 }, Gs <- -32..31
Steps8 == INSTANCE Inverses WITH Block <- 3, Operands <- {},
    Ds <- Odds(3), Fs <- Odds(15) \cup { -4095, 4095 }, Gs <- -128..127
\* All pairs of small numbers in two words, and pairs near the ends of one
\* word and of two
Edges == (0..3) \cup (510..513) \cup (1021..1026) \cup (1048570..1048575)
Inverting == INSTANCE Inverses WITH Block <- 2, Ds <- {}, Fs <- {}, Gs <- {},
    Operands <- { << 0, 0, 0, 0 >>, << 0, 1, 0, 0 >>, << 0, 1, 0, 1 >>, << 2, 0, 1, 0 >> }
        \cup { << 1, 1, 93 * i + 1, j >> : i \in 0..10, j \in 0..1023 }
        \cup { << 2, 2, i, j >> : i, j \in Edges } \cup { << 1, 2, i, j >> : i \in 0..15, j \in Edges }
        \cup { << 2, 2, 26213 * i + 1, 32767 * j + 3 >> : i \in 0..39, j \in 0..31 }
Moving == INSTANCE MemoryLayout WITH RowWidths <- { 1, 2, 3, 8, 16, 32 }

WordsOf(bits) == [kind |-> "words", bits |-> bits]
WordSizes == { WordsOf(bits) : bits \in { 2, 3, 10, 12, 13, 16 } }

NumbersNext ==
    \/ library.bits = 2 /\ (Two!OptionalNext \/ Accumulating!MultiplyNext \/ Scanning!ScansNext)
    \/ library.bits = 12 /\ (Decimal!DecimalNext \/ Bits12!Negmodinv)
    \/ library.bits = 16 /\ (Bits16!BitsNext \/ Moving!LayoutNext)
    \/ library.bits = 3 /\ (Dividing!DivisionNext \/ Montgomery!MontgomeryNext)
    \/ library.bits = 10 /\ (Steps5!Divstep59 \/ Inverting!InversesNext)
    \/ library.bits = 13 /\ Steps8!Divstep59
-----------------------------------------------------------------------------
(* Polynomials                                                             *)
Pairs8 == INSTANCE Polynomials WITH Entries <- 4, Lanes <- 2, MaxPairs <- 4
PolynomialKinds == { [kind |-> "polynomial", entries |-> 4] }

PolynomialsNext == Pairs8!SamplersNext \/ Pairs8!CoefficientsNext
-----------------------------------------------------------------------------
Init ==
    /\ library \in Fields \cup Orders \cup Curves \cup WordSizes \cup PolynomialKinds
    /\ call = NoCall

Next ==
    /\ call = NoCall
    /\ \/ library.kind = "field" /\ FieldsNext
       \/ library.kind = "order" /\ OrdersNext
       \/ library.kind = "curve" /\ CurvesNext
       \/ library.kind = "words" /\ NumbersNext
       \/ library.kind = "polynomial" /\ PolynomialsNext
    /\ UNCHANGED library

Spec == Init /\ [][Next]_<< library, call >>

Returned == call # NoCall

\* What the header promises of the arithmetic of a field or modulo an order
\* holds whichever operands, in the range that it allows, the caller chose:
\* no carry above the words is lost, no estimate of a quotient is too far
\* off, and zero stays zero.
FieldsKeepPromise ==
    Returned /\ library.kind \in { "field", "order" } => FixedSize!FieldPromise

\* Sums and multiples of points are what the group says, the identity
\* included, for every scalar: the additions inside of a multiplication meet
\* two equal points in no case.
PointsKeepPromise == Returned /\ library.kind = "curve" => FixedSize!PointPromise

\* The functions on numbers of any length, zero included, and on words return
\* what the header says (bignum_optneg: what the library's theorem says of its
\* carry), with the result over an operand or not, whether the lengths agree
\* or not, and store nothing behind the result's length.
NumbersKeepPromise == Returned /\ library.kind = "words" => NumberPromises!Promise

\* A sampler returns the first candidates that it accepts, however they lie in
\* the buffer, and stays inside of its scratch area; reductions are exact for
\* each coefficient although they only estimate a quotient.
PolynomialsKeepPromise == Returned /\ library.kind = "polynomial" => PolynomialPromises!Promise
=============================================================================
