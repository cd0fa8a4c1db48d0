------------------------------- MODULE Bignum -------------------------------
(***************************************************************************)
(* Bignums as s2n-bignum stores them: little-endian arrays of words in one *)
(* flat memory.  The word size is a parameter: B is 2^64 in the library    *)
(* and a small number in the model-checked instances.  Addresses count     *)
(* words, not bytes, because the routines modelled here move whole words   *)
(* at word strides ("[x, i, lsl #3]").                                     *)
(***************************************************************************)
EXTENDS Integers

CONSTANTS B,          \* one more than the largest word
          MemSize,    \* number of words in memory
          MaxSize     \* largest number of words in an argument

ASSUME BaseAssumption == B \in Nat /\ B > 1
ASSUME SizeAssumption == MemSize \in Nat /\ MaxSize \in Nat

Word == 0..(B - 1)
Addr == 0..(MemSize - 1)
Size == 0..MaxSize
Memory == [Addr -> Word]

Lesser(s, t) == IF s < t THEN s ELSE t

\* The weight B^k of the digit with index k.
Pow[k \in Nat] == IF k = 0 THEN 1 ELSE B * Pow[k - 1]

\* The sum of h[0] to h[t - 1].
Sigma(h, t) ==
  LET sum[j \in Nat] == IF j = 0 THEN 0 ELSE sum[j - 1] + h[j - 1]
  IN  sum[t]

\* The value of the k-digit bignum that mem holds at address a.
BignumFromMemory(mem, a, k) ==
  LET val[j \in Nat] == IF j = 0 THEN 0
                        ELSE val[j - 1] + Pow[j - 1] * mem[a + j - 1]
  IN  val[k]

\* Digit k of the m-word bignum at a, and the value of its first k words: an
\* operand is extended by zeros beyond its m words.
Digit(mem, a, m, k) == IF k < m THEN mem[a + k] ELSE 0
Prefix(mem, a, m, k) == BignumFromMemory(mem, a, Lesser(k, m))

LowDigits(v, k) == v % Pow[k]

\* The addresses of a bignum of k words at address a.
Block(a, k) == a..(a + k - 1)

InMemory(a, k) == Block(a, k) \subseteq Addr

Nonoverlapping(a, k, b, l) == Block(a, k) \cap Block(b, l) = {}

\* The aliasing a routine that works in place allows: a source of k words at a
\* starts where the destination of l words at b does, or is disjoint from it.
SameOrDisjoint(a, k, b, l) == a = b \/ Nonoverlapping(a, k, b, l)

\* The memories new and old agree outside the addresses of blk.
MayChange(old, new, blk) == \A w \in Addr \ blk : new[w] = old[w]
=============================================================================
