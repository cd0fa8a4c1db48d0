----------------------------- MODULE BignumSub ------------------------------
(***************************************************************************)
(* arm/generic/bignum_sub.S: z := x - y for x of m and y of n words,       *)
(* truncated to p words, returning the borrow out of word p - 1.  The      *)
(* carry flag of ARM is the negation of a borrow.  Labels, actions and the *)
(* record of the call are as in BignumAdd; the mask that fills the tail is *)
(* made once, in register a, because the counter updates the flags.        *)
(***************************************************************************)
EXTENDS Bignum

VARIABLES pc, mem, p, m, n, i,
          a,      \* register a, live in the tail only
          cf,     \* the carry flag: 0 is a borrow
          call    \* the arguments and the memory at entry

vars == <<pc, mem, p, m, n, i, a, cf, call>>

\* Every call the specification admits: each source is disjoint from the
\* destination or starts exactly where it does.  The flags may hold anything.
Init ==
  /\ mem \in Memory
  /\ call \in [p : Size, z : Addr, m : Size, x : Addr, n : Size, y : Addr,
               mem : {mem}]
  /\ InMemory(call.z, call.p) /\ InMemory(call.x, call.m) /\ InMemory(call.y, call.n)
  /\ SameOrDisjoint(call.x, call.m, call.z, call.p)
  /\ SameOrDisjoint(call.y, call.n, call.z, call.p)
  /\ p = call.p /\ m = call.m /\ n = call.n
  /\ i = 0 /\ a = 0 /\ cf \in {0, 1}
  /\ pc = "entry"

\* Where control goes when no word is left that one source alone holds.
TopSkip == IF p' # 0 THEN "tails" ELSE "return"

XMainSkip == IF m' # 0 THEN "xtoploop" ELSE TopSkip

\* Mutant of XLonger: the words left for the tail counted with m unclamped.
XLongerUnclamped ==
  /\ pc = "entry"
  /\ Lesser(m, p) >= Lesser(n, p)
  /\ p' = p - m
  /\ m' = Lesser(m, p) - Lesser(n, p)
  /\ n' = Lesser(n, p)
  /\ i' = 0 /\ cf' = 1
  /\ pc' = IF n' # 0 THEN "xmainloop" ELSE XMainSkip
  /\ UNCHANGED <<mem, a, call>>

\* Mutant of XLonger: the flag is cleared as for an addition, which to a
\* subtraction is a borrow.
XLongerBorrow ==
  /\ pc = "entry"
  /\ Lesser(m, p) >= Lesser(n, p)
  /\ p' = p - Lesser(m, p)
  /\ m' = Lesser(m, p) - Lesser(n, p)
  /\ n' = Lesser(n, p)
  /\ i' = 0 /\ cf' = 0
  /\ pc' = IF n' # 0 THEN "xmainloop" ELSE XMainSkip
  /\ UNCHANGED <<mem, a, call>>

XLonger ==
  /\ pc = "entry"
  /\ Lesser(m, p) >= Lesser(n, p)
  /\ p' = p - Lesser(m, p)
  /\ m' = Lesser(m, p) - Lesser(n, p)
  /\ n' = Lesser(n, p)
  /\ i' = 0 /\ cf' = 1
  /\ pc' = IF n' # 0 THEN "xmainloop" ELSE XMainSkip
  /\ UNCHANGED <<mem, a, call>>

YLonger ==
  /\ pc = "entry"
  /\ Lesser(m, p) < Lesser(n, p)
  /\ p' = p - Lesser(n, p)
  /\ n' = Lesser(n, p) - Lesser(m, p)
  /\ m' = Lesser(m, p)
  /\ i' = 0 /\ cf' = 1
  /\ pc' = IF m' # 0 THEN "ymainloop" ELSE "ytoploop"
  /\ UNCHANGED <<mem, a, call>>

\* Mutant of SubWords: the index is advanced before the store.
SubWordsLate(s, t) ==
  /\ mem' = [mem EXCEPT ![call.z + i + 1] = (s - t - (1 - cf)) % B]
  /\ cf' = IF s >= t + (1 - cf) THEN 1 ELSE 0
  /\ i' = i + 1
  /\ UNCHANGED <<a, call>>

\* sbcs a, s, t; str a, [z, i, lsl #3]; add i, i, #1
SubWords(s, t) ==
  /\ mem' = [mem EXCEPT ![call.z + i] = (s - t - (1 - cf)) % B]
  /\ cf' = IF s >= t + (1 - cf) THEN 1 ELSE 0
  /\ i' = i + 1
  /\ UNCHANGED <<a, call>>

XMainLoop ==
  /\ pc = "xmainloop"
  /\ SubWords(mem[call.x + i], mem[call.y + i])
  /\ n' = n - 1 /\ UNCHANGED <<p, m>>
  /\ pc' = IF n' # 0 THEN "xmainloop" ELSE XMainSkip

XTopLoop ==
  /\ pc = "xtoploop"
  /\ SubWords(mem[call.x + i], 0)
  /\ m' = m - 1 /\ UNCHANGED <<p, n>>
  /\ pc' = IF m' # 0 THEN "xtoploop" ELSE TopSkip

\* Mutant of YMainLoop: the branch back is taken before the counters move.
YMainLoopStuck ==
  /\ pc = "ymainloop"
  /\ mem' = [mem EXCEPT ![call.z + i] = (mem[call.x + i] - mem[call.y + i] - (1 - cf)) % B]
  /\ cf' = IF mem[call.x + i] >= mem[call.y + i] + (1 - cf) THEN 1 ELSE 0
  /\ UNCHANGED <<pc, p, m, n, i, a, call>>

YMainLoop ==
  /\ pc = "ymainloop"
  /\ SubWords(mem[call.x + i], mem[call.y + i])
  /\ m' = m - 1 /\ UNCHANGED <<p, n>>
  /\ pc' = IF m' # 0 THEN "ymainloop" ELSE "ytoploop"

YTopLoop ==
  /\ pc = "ytoploop"
  /\ SubWords(0, mem[call.y + i])
  /\ n' = n - 1 /\ UNCHANGED <<p, m>>
  /\ pc' = IF n' # 0 THEN "ytoploop" ELSE TopSkip

\* cset x0, cc; ret
Return ==
  /\ pc = "return" /\ pc' = "done"
  /\ p' = 1 - cf
  /\ UNCHANGED <<mem, m, n, i, a, cf, call>>

\* csetm a, cc
Tails ==
  /\ pc = "tails" /\ pc' = "tailloop"
  /\ a' = IF cf = 0 THEN B - 1 ELSE 0
  /\ UNCHANGED <<mem, p, m, n, i, cf, call>>

\* Mutant of TailLoop: the mask itself is returned, not its negation.
TailLoopMask ==
  /\ pc = "tailloop"
  /\ mem' = [mem EXCEPT ![call.z + i] = a]
  /\ i' = i + 1
  /\ cf' = 1
  /\ IF p # 1 THEN p' = p - 1 /\ pc' = "tailloop"
              ELSE p' = a /\ pc' = "done"
  /\ UNCHANGED <<m, n, a, call>>

\* The counter's subs leaves its own carry in the flag; at the end neg x0, a
\* turns the mask into the borrow.
TailLoop ==
  /\ pc = "tailloop"
  /\ mem' = [mem EXCEPT ![call.z + i] = a]
  /\ i' = i + 1
  /\ cf' = 1
  /\ IF p # 1 THEN p' = p - 1 /\ pc' = "tailloop"
              ELSE p' = (B - a) % B /\ pc' = "done"
  /\ UNCHANGED <<m, n, a, call>>

Done == pc = "done" /\ UNCHANGED vars

Next == \/ XLonger \/ XMainLoop \/ XTopLoop
        \/ YLonger \/ YMainLoop \/ YTopLoop
        \/ Return \/ Tails \/ TailLoop \/ Done

Spec == Init /\ [][Next]_vars

\* The processor keeps executing the routine.
FairSpec == Spec /\ WF_vars(Next)
-----------------------------------------------------------------------------
Labels == {"entry", "xmainloop", "xtoploop", "ymainloop", "ytoploop",
           "return", "tails", "tailloop", "done"}

\* The registers hold words or sizes, the flag a bit, the memory words.
TypeOK ==
  /\ pc \in Labels
  /\ mem \in Memory
  /\ p \in Nat /\ m \in Nat /\ n \in Nat /\ i \in Nat
  /\ cf \in {0, 1} /\ a \in Word

\* The digits of x and y that are still to be read are those the caller put
\* there, also when z is x or y and the earlier words have been overwritten.
SourcesIntact ==
  pc \in {"xmainloop", "xtoploop", "ymainloop", "ytoploop"} =>
    \A j \in i..(call.p - 1) :
      /\ Digit(mem, call.x, call.m, j) = Digit(call.mem, call.x, call.m, j)
      /\ Digit(mem, call.y, call.n, j) = Digit(call.mem, call.y, call.n, j)

\* The borrow the program holds: in the flag, or as the mask of the tail, or
\* in the return register.
Borrow == CASE pc = "tailloop" -> IF a = 0 THEN 0 ELSE 1
            [] pc = "done" -> p
            [] OTHER -> 1 - cf

\* The words written so far, less the borrow, are the difference of the words
\* read.
PartialDifference ==
  pc # "entry" =>
    BignumFromMemory(mem, call.z, i) + Prefix(call.mem, call.y, call.n, i)
      = Prefix(call.mem, call.x, call.m, i) + Borrow * Pow[i]

\* BIGNUM_SUB_SUBROUTINE_CORRECT: the difference modulo B^p in z, and with the
\* returned borrow the exact difference of the operands cut to p words.
SubPost(c, newmem, ret) ==
  LET xval == BignumFromMemory(c.mem, c.x, c.m)
      yval == BignumFromMemory(c.mem, c.y, c.n)
      zval == BignumFromMemory(newmem, c.z, c.p)
  IN  /\ zval = (xval - yval) % Pow[c.p]
      /\ Pow[c.p] * ret + LowDigits(xval, c.p) = zval + LowDigits(yval, c.p)

SubFrame(c) == Block(c.z, c.p)

Contract == INSTANCE Ensures
              WITH status <- IF pc = "done" THEN "returned" ELSE "running",
                   ret <- p, Post <- SubPost, Frame <- SubFrame

\* The routine changes no word outside z and returns only with the difference.
Implements == Contract!Spec

\* Every call returns.
Terminates == Contract!Returns
=============================================================================
