--------------------------- MODULE BignumMontredc ---------------------------
(***************************************************************************)
(* arm/generic/bignum_montredc.S: p-fold Montgomery reduction of the n     *)
(* words at x with respect to the k-word modulus at m, into the k words at *)
(* z.  z with the carry c on top is a window that slides up x one word per *)
(* iteration of the outer loop: a multiple d of the modulus clears its     *)
(* lowest word, the rest moves down a word and the next word of x enters.  *)
(***************************************************************************)
EXTENDS Bignum

Binary == INSTANCE Bignum WITH B <- 2, MemSize <- 0, MaxSize <- 0

\* The word-level inverse is computed with shifts and exclusive or, and doubles
\* its five correct bits four times.
ASSUME BinaryAssumption == \E n \in 1..80 : B = Binary!Pow[n]

VARIABLES pc, mem, i, j,
          w,        \* negated inverse of the lowest word of the modulus
          d,        \* Montgomery multiplier of the current iteration
          h, c,     \* high word of the current term; top carry of the window
          cf,       \* the carry flag, where a later instruction reads it
          call      \* the arguments and the memory at entry

vars == <<pc, mem, i, j, w, d, h, c, cf, call>>

\* z is disjoint from the modulus, and from x unless the two are the same.
Init ==
  /\ mem \in Memory
  /\ call \in [k : Size, z : Addr, n : Size, x : Addr, m : Addr, p : Size,
               mem : {mem}]
  /\ InMemory(call.z, call.k) /\ InMemory(call.x, call.n) /\ InMemory(call.m, call.k)
  /\ Nonoverlapping(call.m, call.k, call.z, call.k)
  /\ SameOrDisjoint(call.x, call.n, call.z, call.k)
  /\ i = 0 /\ j = 0 /\ w = 0 /\ d = 0 /\ h = 0 /\ c = 0 /\ cf \in {0, 1}
  /\ pc = "entry"

\* Exclusive or with 2, and word_negmodinv's sequence of multiplications.
EorTwo(v) == IF (v \div 2) % 2 = 0 THEN v + 2 ELSE v - 2

\* Mutant of NegModInv: the first error is taken without its "+ 1".
NegModInvNoOne(a) ==
  LET w1 == EorTwo((a - 4 * a) % B)
      e1 == (a * w1) % B
      e2 == (e1 * e1) % B
      w2 == (e1 * w1 + w1) % B
      e4 == (e2 * e2) % B
      w3 == (e2 * w2 + w2) % B
      e8 == (e4 * e4) % B
      w4 == (e4 * w3 + w3) % B
  IN  (e8 * w4 + w4) % B

NegModInv(a) ==
  LET w1 == EorTwo((a - 4 * a) % B)
      e1 == (a * w1 + 1) % B
      e2 == (e1 * e1) % B
      w2 == (e1 * w1 + w1) % B
      e4 == (e2 * e2) % B
      w3 == (e2 * w2 + w2) % B
      e8 == (e4 * e4) % B
      w4 == (e4 * w3 + w3) % B
  IN  (e8 * w4 + w4) % B

\* Mutant of Entry: the words to copy are not limited to k.
EntryUnclamped ==
  /\ pc = "entry"
  /\ IF call.k = 0
       THEN pc' = "end" /\ UNCHANGED <<w, i, j>>
       ELSE /\ w' = NegModInv(mem[call.m])
            /\ j' = call.n
            /\ i' = 0
            /\ pc' = IF j' = 0 THEN "padloop" ELSE "copyloop"
  /\ UNCHANGED <<mem, d, h, c, cf, call>>

Entry ==
  /\ pc = "entry"
  /\ IF call.k = 0
       THEN pc' = "end" /\ UNCHANGED <<w, i, j>>
       ELSE /\ w' = NegModInv(mem[call.m])
            /\ j' = Lesser(call.n, call.k)
            /\ i' = 0
            /\ pc' = IF j' = 0 THEN "padloop" ELSE "copyloop"
  /\ UNCHANGED <<mem, d, h, c, cf, call>>

\* Mutant of CopyLoop: the index is not advanced.
CopyLoopStuck ==
  /\ pc = "copyloop"
  /\ mem' = [mem EXCEPT ![call.z + i] = mem[call.x + i]]
  /\ pc' = IF i < j THEN "copyloop"
           ELSE IF i < call.k THEN "padloop" ELSE "initialized"
  /\ UNCHANGED <<i, j, w, d, h, c, cf, call>>

CopyLoop ==
  /\ pc = "copyloop"
  /\ mem' = [mem EXCEPT ![call.z + i] = mem[call.x + i]]
  /\ i' = i + 1
  /\ pc' = IF i' < j THEN "copyloop"
           ELSE IF i' < call.k THEN "padloop" ELSE "initialized"
  /\ UNCHANGED <<j, w, d, h, c, cf, call>>

PadLoop ==
  /\ pc = "padloop"
  /\ mem' = [mem EXCEPT ![call.z + i] = 0]
  /\ i' = i + 1
  /\ pc' = IF i' < call.k THEN "padloop" ELSE "initialized"
  /\ UNCHANGED <<j, w, d, h, c, cf, call>>

Initialized ==
  /\ pc = "initialized"
  /\ c' = 0
  /\ IF call.p = 0 THEN pc' = "corrective" /\ UNCHANGED i
                   ELSE pc' = "outerloop" /\ i' = 0
  /\ UNCHANGED <<mem, j, w, d, h, cf, call>>

\* Mutant of OuterLoop: the cleared word leaves no carry.
OuterLoopNoCarry ==
  /\ pc = "outerloop"
  /\ d' = (mem[call.z] * w) % B
  /\ h' = (d' * mem[call.m]) \div B
  /\ cf' = 0
  /\ j' = 1
  /\ pc' = IF call.k = 1 THEN "montend" ELSE "montloop"
  /\ UNCHANGED <<mem, i, w, c, call>>

OuterLoop ==
  /\ pc = "outerloop"
  /\ d' = (mem[call.z] * w) % B
  /\ h' = (d' * mem[call.m]) \div B
  /\ cf' = (mem[call.z] + ((d' * mem[call.m]) % B)) \div B
  /\ j' = 1
  /\ pc' = IF call.k = 1 THEN "montend" ELSE "montloop"
  /\ UNCHANGED <<mem, i, w, c, call>>

\* The flag survives from one iteration to the next; the word goes to j - 1.
MontLoop ==
  LET prod == d * mem[call.m + j]
      e1   == mem[call.z + j] + h + cf
      e2   == (e1 % B) + (prod % B)
  IN  /\ pc = "montloop"
      /\ h' = ((prod \div B) + (e1 \div B)) % B
      /\ cf' = e2 \div B
      /\ mem' = [mem EXCEPT ![call.z + j - 1] = e2 % B]
      /\ j' = j + 1
      /\ pc' = IF j' # call.k THEN "montloop" ELSE "montend"
      /\ UNCHANGED <<i, w, d, c, call>>

\* Mutant of More: the word behind the last one counts as one of x.
MoreOffTheEnd == call.k + i <= call.n

\* Whether there is a word of x left to enter the window.
More == call.k + i < call.n

\* Mutant of MontEnd: the old top carry stays in the new one.
MontEndKeepsCarry ==
  LET h1   == h + c + cf
      h2   == (h1 % B) + (IF More THEN mem[call.x + call.k + i] ELSE 0)
  IN  /\ pc = "montend"
      /\ h' = h2 % B
      /\ c' = (c + (h1 \div B) + (h2 \div B)) % B
      /\ mem' = [mem EXCEPT ![call.z + call.k - 1] = h2 % B]
      /\ j' = call.k - 1
      /\ i' = i + 1
      /\ pc' = IF i' < call.p THEN "outerloop" ELSE "corrective"
      /\ UNCHANGED <<w, d, cf, call>>

\* The next word of x, or none off its end, enters the window.
MontEnd ==
  LET h1   == h + c + cf
      h2   == (h1 % B) + (IF More THEN mem[call.x + call.k + i] ELSE 0)
  IN  /\ pc = "montend"
      /\ h' = h2 % B
      /\ c' = ((h1 \div B) + (h2 \div B)) % B
      /\ mem' = [mem EXCEPT ![call.z + call.k - 1] = h2 % B]
      /\ j' = call.k - 1
      /\ i' = i + 1
      /\ pc' = IF i' < call.p THEN "outerloop" ELSE "corrective"
      /\ UNCHANGED <<w, d, cf, call>>

Corrective ==
  /\ pc = "corrective" /\ pc' = "cmploop"
  /\ j' = 0 /\ cf' = 1
  /\ UNCHANGED <<mem, i, w, d, h, c, call>>

CmpLoop ==
  /\ pc = "cmploop"
  /\ cf' = IF mem[call.z + j] >= mem[call.m + j] + (1 - cf) THEN 1 ELSE 0
  /\ j' = j + 1
  /\ pc' = IF j' # call.k THEN "cmploop" ELSE "mask"
  /\ UNCHANGED <<mem, i, w, d, h, c, call>>

\* Mutant of Mask: the comparison ends below the top carry.
MaskIgnoresTop ==
  /\ pc = "mask" /\ pc' = "corrloop"
  /\ c' = IF cf = 1 THEN B - 1 ELSE 0
  /\ j' = 0 /\ cf' = 1
  /\ UNCHANGED <<mem, i, w, d, h, call>>

\* sbcs xzr, c, xzr; csetm c, cs
Mask ==
  /\ pc = "mask" /\ pc' = "corrloop"
  /\ c' = IF c >= 1 - cf THEN B - 1 ELSE 0
  /\ j' = 0 /\ cf' = 1
  /\ UNCHANGED <<mem, i, w, d, h, call>>

CorrLoop ==
  LET e == IF c = 0 THEN 0 ELSE mem[call.m + j]
  IN  /\ pc = "corrloop"
      /\ mem' = [mem EXCEPT ![call.z + j] = (mem[call.z + j] - e - (1 - cf)) % B]
      /\ cf' = IF mem[call.z + j] >= e + (1 - cf) THEN 1 ELSE 0
      /\ j' = j + 1
      /\ pc' = IF j' # call.k THEN "corrloop" ELSE "end"
      /\ UNCHANGED <<i, w, d, h, c, call>>

Done == pc = "end" /\ UNCHANGED vars

Next == \/ Entry \/ CopyLoop \/ PadLoop \/ Initialized
        \/ OuterLoop \/ MontLoop \/ MontEnd
        \/ Corrective \/ CmpLoop \/ Mask \/ CorrLoop \/ Done

Spec == Init /\ [][Next]_vars

\* The processor keeps executing the routine.
FairSpec == Spec /\ WF_vars(Next)
-----------------------------------------------------------------------------
Zval == BignumFromMemory(mem, call.z, call.k)
Modulus == BignumFromMemory(call.mem, call.m, call.k)
Xval == BignumFromMemory(call.mem, call.x, call.n)

\* The indices into x of the words that the next step loads.
XLoads == IF pc = "copyloop" THEN {i}
          ELSE IF pc = "montend" /\ More THEN {call.k + i} ELSE {}

\* Words in every register and in memory; loops index z and m inside their k words,
\* and every load from x is one of its n words and of its lowest k + p.
TypeOK ==
  /\ mem \in Memory
  /\ i \in Nat /\ j \in Nat
  /\ w \in Word /\ d \in Word /\ h \in Word /\ c \in Word /\ cf \in {0, 1}
  /\ pc \in {"copyloop", "padloop"} => i < call.k
  /\ pc \in {"montloop", "cmploop", "corrloop"} => j < call.k
  /\ pc = "montloop" => j > 0
  /\ \A t \in XLoads : t < call.n /\ t < call.k + call.p

\* The inverse is one: the lowest word of the window really is cleared.
InverseOK ==
  pc \notin {"entry", "end"} /\ Modulus % 2 = 1 => (w * mem[call.m] + 1) % B = 0

\* The top carry stays a bit, although two carries are added to it in each
\* iteration, until the correction turns it into a mask.
TopCarryIsBit ==
  pc \in {"outerloop", "montloop", "montend", "corrective", "cmploop", "mask"} => c \in {0, 1}

Iterations == IF pc = "corrective" THEN call.p ELSE i

\* The inverse clears the lowest word of the window, whose top carry is a bit.
\* The window with that carry, shifted up by a word for each
\* iteration so far, is the part of x it has passed over plus a multiple of the
\* modulus.
Window ==
  /\ InverseOK
  /\ TopCarryIsBit
  /\ pc \in {"outerloop", "corrective"} /\ Modulus % 2 = 1 =>
       \E q \in 0..(Pow[Iterations] - 1) :
         Pow[Iterations] * (Zval + Pow[call.k] * c)
           = LowDigits(Xval, call.k + Iterations) + q * Modulus

\* BIGNUM_MONTREDC_SUBROUTINE_CORRECT: for an odd modulus, and x small enough,
\* the residue of x / B^p.
MontredcPost(cl, newmem, ret) ==
  LET n == BignumFromMemory(cl.mem, cl.m, cl.k)
      a == LowDigits(BignumFromMemory(cl.mem, cl.x, cl.n), cl.k + cl.p)
      z == BignumFromMemory(newmem, cl.z, cl.k)
  IN  n % 2 = 1 /\ a <= Pow[cl.p] * n =>
        z < n /\ (Pow[cl.p] * z - a) % n = 0

MontredcFrame(cl) == Block(cl.z, cl.k)

Contract == INSTANCE Ensures
              WITH status <- IF pc = "end" THEN "returned" ELSE "running",
                   ret <- 0, Post <- MontredcPost, Frame <- MontredcFrame

\* The routine changes no word outside z and returns only with the residue.
Implements == Contract!Spec

\* Every call returns.
Terminates == Contract!Returns
=============================================================================
