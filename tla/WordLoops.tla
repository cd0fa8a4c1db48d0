----------------------------- MODULE WordLoops -----------------------------
(***************************************************************************)
(* The loops that the functions under arm/generic are made of, over        *)
(* buffers of words.  The result z may be stored over an operand: a buffer *)
(* is named, and z names the same buffer as x then.  What is in a buffer   *)
(* behind the length the caller gave is not the function's business; it is *)
(* kept at ones, to be noticed where it is read and missed where it is     *)
(* written.                                                                *)
(***************************************************************************)
EXTENDS Calls, FiniteSets

CONSTANTS WordBits,     \* 64
          MaxWords      \* longest buffer

B == 2^WordBits
Lengths == 0..MaxWords
\* B^n, the weight of the word with index n
Pow(n) == LET pow[i \in 0..n] == IF i = 0 THEN 1 ELSE B * pow[i - 1] IN pow[n]
Numbers(k) == 0..(Pow(k) - 1)

Words(v, k) == [i \in 0..MaxWords |-> IF i < k THEN (v \div Pow(i)) % B ELSE B - 1]

Value(w, k) ==
    LET v[i \in 0..k] == IF i = 0 THEN 0 ELSE v[i - 1] + Pow(i - 1) * w[i - 1]
    IN  v[k]

\* For an index that counts up or down; the second argument of Step is the index.
Up(k, Step(_, _), start) ==
    LET s[i \in 0..k] == IF i = 0 THEN start ELSE Step(s[i - 1], i - 1)
    IN  s[k]

Down(k, Step(_, _), start) == LET Mirrored(s, i) == Step(s, k - 1 - i) IN Up(k, Mirrored, start)

\* A comparison stores its words nowhere.
Store(mem, z, i, w) == IF z \in DOMAIN mem THEN [mem EXCEPT ![z][i] = w] ELSE mem

X(mem, i) == mem["x"][i]
Y(mem, i) == mem["y"][i]
M(mem, i) == mem["m"][i]

\* adcs over k words, with the carry flag in and out
Added(mem, k, z, U(_, _), V(_, _), carry) ==
    LET AddWord(s, i) ==
            LET t == U(s.mem, i) + V(s.mem, i) + s.carry
            IN  [mem |-> Store(s.mem, z, i, t % B), carry |-> t \div B]
    IN  Up(k, AddWord, [mem |-> mem, carry |-> carry])

\* sbcs, whose carry flag says that nothing was borrowed
Subtracted(mem, k, z, U(_, _), V(_, _), carry) ==
    LET Complement(b, i) == B - 1 - V(b, i)
    IN  Added(mem, k, z, U, Complement, carry)

Flag(b) == IF b THEN 1 ELSE 0

\* The number that a function leaves in the k words of z: none if it has
\* stored anything behind them.
Left(before, after, z, k) ==
    IF \A i \in k..MaxWords : after[z][i] = before[z][i] THEN Value(after[z], k) ELSE -1
=============================================================================
