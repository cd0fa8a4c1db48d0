-------------------------- MODULE GenericContract --------------------------
(***************************************************************************)
(* What include/s2n-bignum.h promises of the functions for numbers of any  *)
(* length, whose words have the bits that the record names.  An argument   *)
(* that is a number follows its length.  Where the header's comment and    *)
(* the library's own theorem disagree, the promise is the theorem's.       *)
(***************************************************************************)
EXTENDS Calls, FiniteSets

VARIABLE words

bits == words.bits
B == 2^bits
Is(f) == call.function = f
k == call.of[1]
x == call.of[2]
y == call.of[3]
result == call.result[1]
carry == call.result[2]
If(b) == IF b THEN 1 ELSE 0
Pow(n) == LET pow[i \in 0..n] == IF i = 0 THEN 1 ELSE B * pow[i - 1] IN pow[n]
R == Pow(k)

\* The number of words and of bits up to the highest, and below the lowest, that
\* is not zero
Words(v) == CHOOSE i \in 0..k : v < Pow(i) /\ (i > 0 => v >= Pow(i - 1))
Bits(v) == CHOOSE i \in 0..(bits * k) : v < 2^i /\ (i > 0 => v >= 2^(i - 1))
WordsBelow(v) == CHOOSE i \in 0..k : (v % Pow(i)) = 0 /\ (v % Pow(i + 1)) # 0
BitsBelow(v) == CHOOSE i \in 0..(bits * k) : (v % 2^i) = 0 /\ (v % 2^(i + 1)) # 0

\* Modular arithmetic of reduced numbers
Modadd == Is("modadd") /\ result = (x + y) % call.of[4]
Moddouble == Is("moddouble") /\ result = (2 * x) % y
Modsub == Is("modsub") /\ result = (x - y) % call.of[4]
Modoptneg == Is("modoptneg") /\ result = IF k = 0 THEN 0 ELSE (IF y # 0 THEN -x ELSE x) % call.of[4]

\* Optional operations; y is the flag.
Optadd == Is("optadd") /\ result + R * carry = x + IF y # 0 THEN call.of[4] ELSE 0
Optsub == Is("optsub") /\ result - R * carry = x - IF y # 0 THEN call.of[4] ELSE 0
\* BIGNUM_OPTNEG_CORRECT: the carry is 1 where both the flag and the number are
\* not zero; the header's comment, which speaks of the number alone, is false.
Optneg == Is("optneg") /\ result - R * carry = IF y # 0 THEN -x ELSE x
\* The flag is a signed word.
Optsubadd ==
    /\ Is("optsubadd")
    /\ IF y = 0 THEN result = x /\ carry = 0
       ELSE IF y < B \div 2 THEN result + R * carry = x + call.of[4]
       ELSE result - R * carry = x - call.of[4]
Mux == Is("mux") /\ result = IF x # 0 THEN y ELSE call.of[4]
Mux16 == Is("mux16") /\ result = x

\* The source counts as far as the result is long.
Cmul == Is("cmul") /\ result + R * carry = y * (x % R)
Cmadd == Is("cmadd") /\ result + R * carry = x + y * (call.of[4] % R)
Cmnegadd == Is("cmnegadd") /\ result - R * carry = x - y * (call.of[4] % R)
\* The returned word is what is above the result's words if x y fits into them.
Madd ==
    /\ Is("madd")
    /\ result = (x + y * call.of[4]) % R
    /\ call.of[5] <= k => result + R * carry = x + y * call.of[4]
Sqr == Is("sqr") /\ result = (x * x) % R
Copy == Is("copy") /\ result = x % R
ShlSmall == Is("shl_small") /\ result + R * carry = (x % R) * 2^y
ShrSmall == Is("shr_small") /\ result = (x \div 2^y) % R /\ carry = x % 2^y
Muladd10 == Is("muladd10") /\ result + R * carry = 10 * x + y
Divmod10 == Is("divmod10") /\ result = x \div 10 /\ carry = x % 10
Cdiv == Is("cdiv") /\ result = (x \div y) % R /\ carry = x % y
CdivExact == Is("cdiv_exact") /\ result = (x \div y) % R
Cmod == Is("cmod") /\ result = x % y

\* Montgomery arithmetic modulo y, or modulo x where there is no other number.
\* What is almost reduced may be any number of k words.
Almost(v, u, m) == result \in 0..(R - 1) /\ ((v * result) - u) % m = 0
Demont == Is("demont") /\ Almost(R, x, y) /\ result < y
Amontredc == Is("amontredc") /\ Almost(Pow(call.of[4]), x % (R * Pow(call.of[4])), y)
Emontredc ==
    /\ Is("emontredc")
    /\ result \in 0..(R - 1) /\ carry \in 0..1
    /\ x + (call.result[3] * y) = R * (R * carry + result)
Amontmul == Is("amontmul") /\ Almost(R, x * call.of[4], y)
Montmul == Is("montmul") /\ Almost(R, x * call.of[4], y) /\ result < y
Negmodinv == Is("negmodinv") /\ result \in 0..(R - 1) /\ ((x * result) + 1) % R = 0
Amontifier == Is("amontifier") /\ Almost(1, R * R, x)
Modifier == Is("modifier") /\ result = R % x
Montifier == Is("montifier") /\ result = (R * R) % x

\* The product of two words after the other, to stay inside of 32 bits here
Modinv ==
    /\ Is("modinv")
    /\ result < y
    /\ ((((((x % y) * (result \div B)) % y) * B) % y) + (((x % y) * (result % B)) % y)) % y = 1
Coprime ==
    /\ Is("coprime")
    /\ LET gcd[i, j \in Nat] == IF j = 0 THEN i ELSE gcd[j, i % j]
       IN  result = If(gcd[x, y] = 1)

\* Counts.  A number that is zero has all its words and bits leading, and
\* trailing.
Cld == Is("cld") /\ result = k - Words(x)
Clz == Is("clz") /\ result = bits * k - Bits(x)
Ctd == Is("ctd") /\ result = IF x = 0 THEN k ELSE WordsBelow(x)
Ctz == Is("ctz") /\ result = IF x = 0 THEN bits * k ELSE BitsBelow(x)
Digitsize == Is("digitsize") /\ result = Words(x)
Bitsize == Is("bitsize") /\ result = Bits(x)
Digit == Is("digit") /\ result = (x \div Pow(y)) % B
Bitfield == Is("bitfield") /\ result = (x \div 2^y) % 2^call.of[4]

\* Tests; the second number is the fourth argument.
Eq == Is("eq") /\ result = If(x = call.of[4])
Ge == Is("ge") /\ result = If(x >= call.of[4])
Gt == Is("gt") /\ result = If(x > call.of[4])
Le == Is("le") /\ result = If(x <= call.of[4])
Lt == Is("lt") /\ result = If(x < call.of[4])
Even == Is("even") /\ result = If(x % 2 = 0)
Odd == Is("odd") /\ result = x % 2
Iszero == Is("iszero") /\ result = If(x = 0)
Nonzero == Is("nonzero") /\ result = If(x # 0)

Normalize ==
    /\ Is("normalize")
    /\ carry = bits * k - Bits(x)
    /\ result = x * 2^carry
OfWord == Is("of_word") /\ result = x % R
Pow2 == Is("pow2") /\ result = 2^x % R

\* Functions of one word
w == call.of[1]
BitOf(v, i) == (v \div 2^i) % 2
Bytereverse ==
    /\ Is("word_bytereverse")
    /\ LET base == 2^(bits \div 8)
           Byte(v, i) == (v \div base^i) % base
       IN  \A i \in 0..7 : Byte(result, i) = Byte(w, 7 - i)
WordClz == Is("word_clz") /\ w < 2^(bits - result) /\ (result < bits => 2 * w >= 2^(bits - result))
WordCtz == Is("word_ctz") /\ (w % 2^result) = 0 /\ (result < bits => BitOf(w, result) = 1)
WordMax == Is("word_max") /\ result \in { w, x } /\ result >= w /\ result >= x
WordMin == Is("word_min") /\ result \in { w, x } /\ result <= w /\ result <= x
WordPopcount == Is("word_popcount") /\ result = Cardinality({ i \in 0..(bits - 1) : BitOf(w, i) = 1 })
WordNegmodinv == Is("word_negmodinv") /\ ((w * result + 1) % B) = 0

\* The steps one by one, with the matrix by which 2^i times f and g have been
\* multiplied: 59 of them for a word of 64 bits.
Stepped(s) ==
    LET m == s.m
        Doubled(v) == << 2 * v[1], 2 * v[2] >>
        Less(u, v) == << u[1] - v[1], u[2] - v[2] >>
        Plus(u, v) == << u[1] + v[1], u[2] + v[2] >>
    IN  CASE s.g % 2 = 1 /\ s.d > 0 ->
                [d |-> 2 - s.d, f |-> s.g, g |-> (s.g - s.f) \div 2,
                 m |-> << Doubled(m[2]), Less(m[2], m[1]) >>]
          [] s.g % 2 = 1 /\ s.d <= 0 ->
                [d |-> 2 + s.d, f |-> s.f, g |-> (s.g + s.f) \div 2,
                 m |-> << Doubled(m[1]), Plus(m[1], m[2]) >>]
          [] OTHER ->
                [d |-> 2 + s.d, f |-> s.f, g |-> s.g \div 2, m |-> << Doubled(m[1]), m[2] >>]
Divsteps(n) ==
    LET s[i \in 0..n] ==
            IF i = 0 THEN [d |-> w, f |-> x, g |-> y, m |-> << << 1, 0 >>, << 0, 1 >> >>]
                     ELSE Stepped(s[i - 1])
    IN  s[n]
Divstep59 ==
    /\ Is("word_divstep59")
    /\ LET s == Divsteps(bits - 5) IN result = s.d /\ call.result[2] = s.m

\* Moves of bytes: the first bytes of the number, and memory at its place
\* after the call, where a byte is its address before.
Moves(n, From(_)) ==
    /\ \A i \in 0..(n - 1) : result[y + i] = << "at", x + From(i) >>
    /\ \A a \in DOMAIN result :
           a \notin y..(y + 8 * k - 1) => result[a] = << "at", a >>
Bigendian == Is("bigendian") /\ LET Mirrored(i) == 8 * k - 1 - i IN Moves(8 * k, Mirrored)
Littleendian == Is("littleendian") /\ LET Same(i) == i IN Moves(8 * k, Same)
\* The ninth word is filled with zeros.
FromlebytesP521 ==
    /\ Is("fromlebytes_p521")
    /\ LET Same(i) == i IN Moves(66, Same)
    /\ \A i \in 66..71 : result[y + i] = << "zero", 0 >>
\* Only 66 bytes are stored.
TolebytesP521 ==
    /\ Is("tolebytes_p521")
    /\ LET Same(i) == i IN Moves(66, Same)
    /\ \A i \in 66..71 : result[y + i] = << "at", y + i >>
\* The row y of a table with k rows of x words
CopyRow ==
    /\ Is("copy_row")
    /\ result = [j \in 0..(x - 1) |-> call.of[4][y, j]]

Promise ==
    \/ Modadd \/ Moddouble \/ Modsub \/ Modoptneg \/ Optadd \/ Optsub \/ Optneg \/ Optsubadd
    \/ Cdiv \/ CdivExact \/ Cmod \/ Modinv \/ Coprime \/ Madd \/ Sqr
    \/ Demont \/ Amontredc \/ Emontredc \/ Amontmul \/ Montmul \/ Negmodinv
    \/ Amontifier \/ Modifier \/ Montifier
    \/ Mux \/ Mux16 \/ Cmul \/ Cmadd \/ Cmnegadd \/ Copy \/ ShlSmall \/ ShrSmall
    \/ Muladd10 \/ Divmod10 \/ Cld \/ Clz \/ Ctd \/ Ctz \/ Digitsize \/ Bitsize
    \/ Digit \/ Bitfield \/ Eq \/ Ge \/ Gt \/ Le \/ Lt \/ Even \/ Odd \/ Iszero \/ Nonzero
    \/ Normalize \/ OfWord \/ Pow2
    \/ Bytereverse \/ WordClz \/ WordCtz \/ WordMax \/ WordMin \/ WordPopcount \/ WordNegmodinv
    \/ Divstep59
    \/ Bigendian \/ Littleendian \/ FromlebytesP521 \/ TolebytesP521 \/ CopyRow
=============================================================================
