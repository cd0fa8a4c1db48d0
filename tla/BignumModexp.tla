---------------------------- MODULE BignumModexp ----------------------------
(***************************************************************************)
(* arm/generic/bignum_modexp.S: z := a^p mod m for k-word numbers and an   *)
(* odd m, by the subroutines bignum_amontifier, bignum_amontmul,           *)
(* bignum_demont and bignum_mux, each known here from its contract alone.  *)
(* The Montgomery products are only almost reduced: any k-word number of   *)
(* the right residue may come back, so the routine has to work with them   *)
(* all.  Memory is one number for each of the routine's buffers.           *)
(***************************************************************************)
EXTENDS Integers

CONSTANTS WordBits,   \* bits of a word, 64 in the library
          Problems    \* the sizes and moduli, pairs <<k, m>>

\* Powers of two, as a function for which facts can be proved
Two[n \in Nat] == IF n = 0 THEN 1 ELSE 2 * Two[n - 1]

\* The weight of word k: numbers of k words are those below R(k).
R(k) == Two[WordBits * k]
Number(k) == 0..(R(k) - 1)

\* The modulus is odd; a size of zero words leaves none.
ASSUME ProblemAssumption ==
  /\ WordBits \in Nat \ {0}
  /\ \A q \in Problems : /\ q[1] \in Nat /\ q[2] \in Number(q[1])
                         /\ q[1] > 0 => q[2] % 2 = 1

\* The three parts of the temporary buffer, and the four arguments.
Scratch == {"x", "y", "z"}
Arguments == {"res", "a", "p", "m"}
Buffers == Scratch \cup Arguments

VARIABLES pc, i,
          mem,    \* the number that each buffer holds
          call    \* the size, the operands at entry and the result's buffer

vars == <<pc, i, mem, call>>

\* The result may go exactly where an operand is; the temporary buffer overlaps
\* none of them.
Init ==
  /\ \E q \in Problems :
       call \in [k : {q[1]}, a : Number(q[1]), p : Number(q[1]), m : {q[2]},
                 res : Arguments]
  /\ \E junk \in {0, R(call.k) - 1} :
       mem = [b \in Buffers |-> IF b \in {"a", "p", "m"} THEN call[b] ELSE junk]
  /\ i = 0 /\ pc = "entry"

Same(u, v, m) == (u - v) % m = 0

\* What each subroutine may leave in a destination of k words, by its contract:
\* nothing is promised when a buffer overlaps one it must be disjoint from.
Amontifier(dst, m, t) ==
  {v \in Number(call.k) : dst \notin {m, t} /\ t # m => Same(v, R(call.k) * R(call.k), mem[m])}

Amontmul(dst, s, t, m) ==
  {v \in Number(call.k) : dst \notin {s, t, m} => Same(v * R(call.k), mem[s] * mem[t], mem[m])}

Demont(dst, s, m) ==
  {v \in Number(call.k) : dst # m => v < mem[m] /\ Same(v * R(call.k), mem[s], mem[m])}

Mux(b, s, t) == IF b # 0 THEN mem[s] ELSE mem[t]

\* Bit j of the exponent, fetched from its word.
Bit(v, j) == LET word == (v \div R(j \div WordBits)) % R(1)
             IN  (word \div Two[j % WordBits]) % 2

Entry ==
  /\ pc = "entry"
  /\ pc' = IF call.k = 0 THEN "end" ELSE "amontifier"
  /\ UNCHANGED <<i, mem, call>>

\* z is R^2 in effect, with y as the temporary buffer.
Montifier ==
  /\ pc = "amontifier" /\ pc' = "tomont"
  /\ \E v \in Amontifier("z", "m", "y"), t \in Number(call.k) :
       mem' = [mem EXCEPT !["z"] = v, !["y"] = t]
  /\ UNCHANGED <<i, call>>

\* x becomes the base and z the number 1, both in Montgomery form.
ToMont ==
  /\ pc = "tomont" /\ pc' = "one"
  /\ \E v \in Amontmul("x", "z", "a", "m") : mem' = [mem EXCEPT !["x"] = v]
  /\ UNCHANGED <<i, call>>

One ==
  /\ pc = "one" /\ pc' = "loop"
  /\ \E v \in Demont("z", "z", "m") : mem' = [mem EXCEPT !["z"] = v]
  /\ i' = WordBits * call.k
  /\ UNCHANGED call

\* Mutant of Square: the bit counter is not decremented.
SquareStuck ==
  /\ pc = "loop" /\ pc' = "multiply"
  /\ \E v \in Amontmul("y", "z", "z", "m") : mem' = [mem EXCEPT !["y"] = v]
  /\ UNCHANGED <<i, call>>

Square ==
  /\ pc = "loop" /\ pc' = "multiply"
  /\ i' = i - 1
  /\ \E v \in Amontmul("y", "z", "z", "m") : mem' = [mem EXCEPT !["y"] = v]
  /\ UNCHANGED call

\* Mutant of Multiply: the product is made in place.
MultiplyInPlace ==
  /\ pc = "multiply" /\ pc' = "select"
  /\ \E v \in Amontmul("z", "z", "x", "m") : mem' = [mem EXCEPT !["z"] = v]
  /\ UNCHANGED <<i, call>>

Multiply ==
  /\ pc = "multiply" /\ pc' = "select"
  /\ \E v \in Amontmul("z", "x", "y", "m") : mem' = [mem EXCEPT !["z"] = v]
  /\ UNCHANGED <<i, call>>

\* Mutant of Select: the loop is left only below zero.
SelectOnceMore ==
  /\ pc = "select"
  /\ mem' = [mem EXCEPT !["z"] = Mux(Bit(mem["p"], i), "z", "y")]
  /\ pc' = IF i >= 0 THEN "loop" ELSE "reduce"
  /\ UNCHANGED <<i, call>>

Select ==
  /\ pc = "select"
  /\ mem' = [mem EXCEPT !["z"] = Mux(Bit(mem["p"], i), "z", "y")]
  /\ pc' = IF i # 0 THEN "loop" ELSE "reduce"
  /\ UNCHANGED <<i, call>>

\* Mutant of Reduce: one more almost-reduced product converts back.
ReduceAlmost ==
  /\ pc = "reduce" /\ pc' = "copyout"
  /\ \E v \in Number(call.k) :
       /\ Same(v * R(call.k), mem["z"], mem["m"])
       /\ mem' = [mem EXCEPT !["z"] = v]
  /\ UNCHANGED <<i, call>>

\* Out of Montgomery form, and fully reduced.
Reduce ==
  /\ pc = "reduce" /\ pc' = "copyout"
  /\ \E v \in Demont("z", "z", "m") : mem' = [mem EXCEPT !["z"] = v]
  /\ UNCHANGED <<i, call>>

CopyOut ==
  /\ pc = "copyout" /\ pc' = "end"
  /\ mem' = [mem EXCEPT ![call.res] = Mux(0, "z", "z")]
  /\ UNCHANGED <<i, call>>

Done == pc = "end" /\ UNCHANGED vars

Next == \/ Entry \/ Montifier \/ ToMont \/ One
        \/ Square \/ Multiply \/ Select
        \/ Reduce \/ CopyOut \/ Done

\* The processor keeps executing, and every subroutine returns.
Spec == Init /\ [][Next]_vars /\ WF_vars(Next)
-----------------------------------------------------------------------------
\* Every buffer holds a number of k words, and the exponent bit is one of them.
TypeOK ==
  /\ mem \in [Buffers -> Number(call.k)]
  /\ i \in 0..(WordBits * call.k)
  /\ pc = "loop" => i > 0

\* The power b^e modulo m.
ModPower(b, e, m) ==
  LET f[n \in Nat] == IF n = 0 THEN 1 % m ELSE (b * f[n - 1]) % m
  IN  f[e]

\* Between iterations z is, in Montgomery form and up to the modulus, the base
\* to the exponent bits consumed, whichever almost-reduced numbers came back.
PowerSoFar ==
  pc \in {"loop", "reduce"} =>
    Same(mem["z"], R(call.k) * ModPower(call.a, call.p \div Two[i], call.m), call.m)

\* BIGNUM_MODEXP_SUBROUTINE_CORRECT: the residue itself is returned, also when
\* the result takes the place of the base, the exponent or the modulus.
Result ==
  pc = "end" /\ call.k > 0 => mem[call.res] = ModPower(call.a, call.p, call.m)

\* Every call returns.
Terminates == <>(pc = "end")
=============================================================================
