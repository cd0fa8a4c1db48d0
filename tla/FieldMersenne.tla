--------------------------- MODULE FieldMersenne ---------------------------
(***************************************************************************)
(* The functions of the field of P-521, whose characteristic is N - 1 for  *)
(* a power N of two: what is above N is added at the bottom, a             *)
(* multiplication or division by a power of two is a rotation, and a sum   *)
(* reaches the characteristic just when the sum plus one carries out of N. *)
(* The K words have some bits to spare, R = N * Spare.                     *)
(***************************************************************************)
EXTENDS Calls

CONSTANTS N,                  \* 2^521
          B, K,               \* 2^64 and 9
          Firsts, Seconds     \* operands to be tried

P == N - 1
R == B^K
Spare == R \div N             \* 2^55
Top == N \div B^(K - 1)       \* 2^9, of which the top word has the bits

Words == { x \in Firsts : x < R }
Reduced == { x \in Firsts : x < P }

Digit(v, i) == (v \div B^i) % B
AllOnes(v, i) == Digit(v, i) = B - 1
If(b) == IF b THEN 1 ELSE 0

RotateRight(v, s) == (v \div s) + (v % s) * (N \div s)
RotateLeft(v, s) == RotateRight(v, N \div s)

\* Of x + y + 1
LessOne(s) == IF s >= N THEN s - N ELSE s - 1

Add == \E x \in Reduced, y \in Seconds \cap Reduced :
    Call("add_p", << x, y >>, << LessOne(x + y + 1) >>)

\* Reads the top word only.
Double == \E x \in Reduced :
    Call("double_p", << x >>, << (2 * x + If(Digit(x, K - 1) >= Top \div 2)) % N >>)

Triple == \E x \in Reduced :
    Call("triple_p", << x >>, << LessOne(x + RotateLeft(x, 2) + 1) >>)

Half == \E x \in Reduced : Call("half_p", << x >>, << RotateRight(x, 2) >>)

Sub == \E x \in Reduced, y \in Seconds \cap Reduced :
    Call("sub_p", << x, y >>, << (x - y - If(x < y)) % N >>)

\* The characteristic is all ones: an exclusive or.
Negated(x) == IF x # 0 THEN P - x ELSE x

Neg == \E x \in Reduced : Call("neg_p", << x >>, << Negated(x) >>)

Optneg == \E x \in Reduced, p \in { 0, 1, 2 } :
    Call("optneg_p", << x, p >>, << IF p # 0 THEN Negated(x) ELSE x >>)

\* Mutant of Carries: the words between are not looked at.
CarriesShort(l, h) == Digit(l, 0) + h + 1 >= B /\ Digit(l, K - 1) = Top - 1

\* Does l + h + 1 reach N, for a word h?  Above the bottom word the carry can
\* only go through words of ones, which are and-ed into one.
Carries(l, h) ==
    /\ Digit(l, 0) + h + 1 >= B
    /\ \A i \in 1..(K - 2) : AllOnes(l, i)
    /\ Digit(l, K - 1) = Top - 1

\* Of any number whose part above N is a word
Folded(v) ==
    LET h == v \div N
        l == v % N
    IN  (h + l + If(Carries(l, h))) % N

Mod == \E x \in Words : Call("mod_p", << x >>, << Folded(x) >>)

Cmul == \E x \in Reduced, c \in 0..(B - 1) : Call("cmul_p", << x, c >>, << Folded(c * x) >>)

Tomont == \E x \in Words : Call("tomont_p", << x >>, << RotateLeft(Folded(x), Spare) >>)

Demont == \E x \in Reduced : Call("demont_p", << x >>, << RotateRight(x, Spare) >>)

\* The part l that is rotated out reaches the two top words of h only.
Deamont == \E x \in Words :
    LET h == x \div Spare
        l == (x % Spare) * (N \div Spare)
        low == B^(K - 2)
        ones == \A i \in 0..(K - 3) : AllOnes(h, i)
        carry == (h \div low) + (l \div low) + If(ones) >= N \div low
    IN  Call("deamont_p", << x >>, << (h + l + If(carry)) % N >>)

\* The full product
Product(v) ==
    LET s == (v \div N) + (v % N) + 1
    IN  (s - If(s < N)) % N

Mul == \E x \in Reduced, y \in Seconds \cap Reduced :
    Call("mul_p", << x, y >>, << Product(x * y) >>)
Sqr == \E x \in Reduced : Call("sqr_p", << x >>, << Product(x * x) >>)
Montmul == \E x \in Reduced, y \in Seconds \cap Reduced :
    Call("montmul_p", << x, y >>, << RotateRight(Product(x * y), Spare) >>)
Montsqr == \E x \in Reduced :
    Call("montsqr_p", << x >>, << RotateRight(Product(x * x), Spare) >>)

MersenneNext ==
    \/ Add \/ Double \/ Triple \/ Half \/ Sub \/ Neg \/ Optneg \/ Mod \/ Cmul
    \/ Tomont \/ Demont \/ Deamont \/ Mul \/ Sqr \/ Montmul \/ Montsqr
=============================================================================
