----------------------------- MODULE BignumAdd ------------------------------
(***************************************************************************)
(* arm/generic/bignum_add.S: z := x + y for x of m and y of n words,       *)
(* truncated to p words, returning the carry out of word p - 1.  The       *)
(* program counter takes the names of the source's labels; one action is   *)
(* one basic block.  z, x and y keep their values, so they are read from   *)
(* the record of the call; p is the register x0 and so the result as well. *)
(***************************************************************************)
EXTENDS Bignum

VARIABLES pc, mem, p, m, n, i,
          cf,     \* the carry flag
          call    \* the arguments and the memory at entry

vars == <<pc, mem, p, m, n, i, cf, call>>

\* Every call the specification admits: each source is disjoint from the
\* destination or starts exactly where it does.  The flags may hold anything.
Init ==
  /\ mem \in Memory
  /\ call \in [p : Size, z : Addr, m : Size, x : Addr, n : Size, y : Addr,
               mem : {mem}]
  /\ InMemory(call.z, call.p) /\ InMemory(call.x, call.m) /\ InMemory(call.y, call.n)
  /\ SameOrDisjoint(call.x, call.m, call.z, call.p)
  /\ SameOrDisjoint(call.y, call.n, call.z, call.p)
  /\ p = call.p /\ m = call.m /\ n = call.n
  /\ i = 0 /\ cf \in {0, 1}
  /\ pc = "entry"

\* Where control goes when no word is left that one source alone holds.
TopSkip == IF p' # 0 THEN "tails" ELSE "return"

XMainSkip == IF m' # 0 THEN "xtoploop" ELSE TopSkip

\* Mutant of XLonger: the words left for the tail counted with m unclamped.
XLongerUnclamped ==
  /\ pc = "entry"
  /\ Lesser(m, p) >= Lesser(n, p)
  /\ p' = p - m
  /\ m' = Lesser(m, p) - Lesser(n, p)
  /\ n' = Lesser(n, p)
  /\ i' = 0 /\ cf' = 0
  /\ pc' = IF n' # 0 THEN "xmainloop" ELSE XMainSkip
  /\ UNCHANGED <<mem, call>>

XLonger ==
  /\ pc = "entry"
  /\ Lesser(m, p) >= Lesser(n, p)
  /\ p' = p - Lesser(m, p)
  /\ m' = Lesser(m, p) - Lesser(n, p)
  /\ n' = Lesser(n, p)
  /\ i' = 0 /\ cf' = 0
  /\ pc' = IF n' # 0 THEN "xmainloop" ELSE XMainSkip
  /\ UNCHANGED <<mem, call>>

YLonger ==
  /\ pc = "entry"
  /\ Lesser(m, p) < Lesser(n, p)
  /\ p' = p - Lesser(n, p)
  /\ n' = Lesser(n, p) - Lesser(m, p)
  /\ m' = Lesser(m, p)
  /\ i' = 0 /\ cf' = 0
  /\ pc' = IF m' # 0 THEN "ymainloop" ELSE "ytoploop"
  /\ UNCHANGED <<mem, call>>

\* Mutant of AddWords: the index is advanced before the store.
AddWordsLate(a, d) ==
  /\ mem' = [mem EXCEPT ![call.z + i + 1] = (a + d + cf) % B]
  /\ cf' = (a + d + cf) \div B
  /\ i' = i + 1
  /\ UNCHANGED call

\* adcs a, a, d; str a, [z, i, lsl #3]; add i, i, #1
AddWords(a, d) ==
  /\ mem' = [mem EXCEPT ![call.z + i] = (a + d + cf) % B]
  /\ cf' = (a + d + cf) \div B
  /\ i' = i + 1
  /\ UNCHANGED call

\* Mutant of XMainLoop: the branch back is taken before the counters move.
XMainLoopStuck ==
  /\ pc = "xmainloop"
  /\ mem' = [mem EXCEPT ![call.z + i] = (mem[call.x + i] + mem[call.y + i] + cf) % B]
  /\ cf' = (mem[call.x + i] + mem[call.y + i] + cf) \div B
  /\ UNCHANGED <<pc, p, m, n, i, call>>

XMainLoop ==
  /\ pc = "xmainloop"
  /\ AddWords(mem[call.x + i], mem[call.y + i])
  /\ n' = n - 1 /\ UNCHANGED <<p, m>>
  /\ pc' = IF n' # 0 THEN "xmainloop" ELSE XMainSkip

\* Mutant of XTopLoop: an early exit once no carry is left to propagate.
XTopLoopEarlyExit ==
  /\ pc = "xtoploop"
  /\ AddWords(mem[call.x + i], 0)
  /\ m' = m - 1 /\ UNCHANGED <<p, n>>
  /\ pc' = IF m' # 0 /\ cf' # 0 THEN "xtoploop" ELSE TopSkip

XTopLoop ==
  /\ pc = "xtoploop"
  /\ AddWords(mem[call.x + i], 0)
  /\ m' = m - 1 /\ UNCHANGED <<p, n>>
  /\ pc' = IF m' # 0 THEN "xtoploop" ELSE TopSkip

YMainLoop ==
  /\ pc = "ymainloop"
  /\ AddWords(mem[call.x + i], mem[call.y + i])
  /\ m' = m - 1 /\ UNCHANGED <<p, n>>
  /\ pc' = IF m' # 0 THEN "ymainloop" ELSE "ytoploop"

\* Mutant of YTopLoop: the counter is decremented with subs, so its carry takes
\* the place of the addition's.
YTopLoopFlags ==
  /\ pc = "ytoploop"
  /\ mem' = [mem EXCEPT ![call.z + i] = (mem[call.y + i] + cf) % B]
  /\ cf' = 1 /\ i' = i + 1
  /\ n' = n - 1 /\ UNCHANGED <<p, m, call>>
  /\ pc' = IF n' # 0 THEN "ytoploop" ELSE TopSkip

YTopLoop ==
  /\ pc = "ytoploop"
  /\ AddWords(0, mem[call.y + i])
  /\ n' = n - 1 /\ UNCHANGED <<p, m>>
  /\ pc' = IF n' # 0 THEN "ytoploop" ELSE TopSkip

\* cset x0, cs; ret
Return ==
  /\ pc = "return" /\ pc' = "done"
  /\ p' = cf
  /\ UNCHANGED <<mem, m, n, i, cf, call>>

\* Mutant of Tails: every word of the tail takes the carry.
TailsAllCarry ==
  /\ pc \in {"tails", "tailloop"}
  /\ mem' = [mem EXCEPT ![call.z + i] = cf]
  /\ i' = i + 1
  /\ p' = p - 1
  /\ pc' = IF p' # 0 THEN "tailloop" ELSE "done"
  /\ UNCHANGED <<m, n, cf, call>>

\* The first word of the tail takes the carry, the others are cleared.
Tails ==
  /\ pc \in {"tails", "tailloop"}
  /\ mem' = [mem EXCEPT ![call.z + i] = IF pc = "tails" THEN cf ELSE 0]
  /\ i' = i + 1
  /\ p' = p - 1
  /\ pc' = IF p' # 0 THEN "tailloop" ELSE "done"
  /\ UNCHANGED <<m, n, cf, call>>

Done == pc = "done" /\ UNCHANGED vars

Next == \/ XLonger \/ XMainLoop \/ XTopLoop
        \/ YLonger \/ YMainLoop \/ YTopLoop
        \/ Return \/ Tails \/ Done

Spec == Init /\ [][Next]_vars

\* The processor keeps executing the routine.
FairSpec == Spec /\ WF_vars(Next)
-----------------------------------------------------------------------------
Labels == {"entry", "xmainloop", "xtoploop", "ymainloop", "ytoploop",
           "return", "tails", "tailloop", "done"}

\* The registers hold words or sizes, the flag a bit, the memory words.
TypeOK ==
  /\ pc \in Labels
  /\ mem \in Memory
  /\ p \in Nat /\ m \in Nat /\ n \in Nat /\ i \in Nat
  /\ cf \in {0, 1}

\* The digits of x and y that are still to be read are those the caller put
\* there, also when z is x or y and the earlier words have been overwritten.
SourcesIntact ==
  pc \in {"xmainloop", "xtoploop", "ymainloop", "ytoploop"} =>
    \A j \in i..(call.p - 1) :
      /\ Digit(mem, call.x, call.m, j) = Digit(call.mem, call.x, call.m, j)
      /\ Digit(mem, call.y, call.n, j) = Digit(call.mem, call.y, call.n, j)

\* What the program still carries: the flag, until the tail's first word has
\* absorbed it or the return register has received it.
Carried == CASE pc = "tailloop" -> 0 [] pc = "done" -> p [] OTHER -> cf

Sum(k) == Prefix(call.mem, call.x, call.m, k) + Prefix(call.mem, call.y, call.n, k)

\* The words written so far, with the carry, are the sum of the words read.
PartialSum ==
  pc # "entry" => BignumFromMemory(mem, call.z, i) + Carried * Pow[i] = Sum(i)

\* BIGNUM_ADD_SUBROUTINE_CORRECT: the sum modulo B^p in z, and with the
\* returned carry the exact sum of the two operands cut to p words.
AddPost(c, newmem, ret) ==
  LET a == BignumFromMemory(c.mem, c.x, c.m)
      b == BignumFromMemory(c.mem, c.y, c.n)
      z == BignumFromMemory(newmem, c.z, c.p)
  IN  /\ z = (a + b) % Pow[c.p]
      /\ Pow[c.p] * ret + z = LowDigits(a, c.p) + LowDigits(b, c.p)

AddFrame(c) == Block(c.z, c.p)

Contract == INSTANCE Ensures
              WITH status <- IF pc = "done" THEN "returned" ELSE "running",
                   ret <- p, Post <- AddPost, Frame <- AddFrame

\* The routine changes no word outside z and returns only with the sum.
Implements == Contract!Spec

\* Every call returns.
Terminates == Contract!Returns
=============================================================================
