----------------------------- MODULE BignumMul ------------------------------
(***************************************************************************)
(* arm/generic/bignum_mul.S: z := x * y for x of m and y of n words,       *)
(* truncated to p words.  The product is made column by column: digit k of *)
(* z is what the terms x[j] * y[k-j] leave in an accumulator of three      *)
(* words, (c,h,l), which is then shifted down by a word.  p, m, n and the  *)
(* pointers keep their values and are read from the record of the call.    *)
(***************************************************************************)
EXTENDS Bignum

\* Sizes are words, so MaxSize is at most B - 1 in the library; a column of up
\* to B + 1 terms is what three words can hold.
ASSUME ColumnAssumption == MaxSize <= B + 1

VARIABLES pc, mem,
          k,         \* the column, and the digit of z it yields
          i,         \* the terms of the column still to be added
          xx, yy,    \* where the column's words of x and y are read
          l, h, c,   \* the accumulator
          call       \* the arguments and the memory at entry

vars == <<pc, mem, k, i, xx, yy, l, h, c, call>>

\* z may overlap neither source; x and y may overlap in any way.
Init ==
  /\ mem \in Memory
  /\ call \in [p : Size, z : Addr, m : Size, x : Addr, n : Size, y : Addr,
               mem : {mem}]
  /\ InMemory(call.z, call.p) /\ InMemory(call.x, call.m) /\ InMemory(call.y, call.n)
  /\ Nonoverlapping(call.x, call.m, call.z, call.p)
  /\ Nonoverlapping(call.y, call.n, call.z, call.p)
  /\ k = 0 /\ i = 0 /\ xx = 0 /\ yy = 0 /\ l = 0 /\ h = 0 /\ c = 0
  /\ pc = "entry"

Entry ==
  /\ pc = "entry"
  /\ l' = 0 /\ h' = 0 /\ k' = 0
  /\ pc' = IF call.p = 0 THEN "end" ELSE "outerloop"
  /\ UNCHANGED <<mem, i, xx, yy, c, call>>

\* Mutant of Last: the column is not cut at the end of x.
LastUncut(col) == col + 1

\* Mutant of Last: the column stops one term early when it ends inside x.
LastShort(col) == Lesser(col, call.m)

\* Column k adds x[j] * y[k-j] for First(k) <= j < Last(k).
First(col) == IF col + 1 >= call.n THEN col + 1 - call.n ELSE 0
Last(col) == Lesser(col + 1, call.m)

\* i, xx and yy are not read when the column is empty.
OuterLoop ==
  /\ pc = "outerloop"
  /\ c' = 0
  /\ IF First(k) < Last(k)
       THEN /\ i' = Last(k) - First(k)
            /\ xx' = call.x + First(k)
            /\ yy' = call.y + k - Last(k)
            /\ pc' = "innerloop"
       ELSE pc' = "innerend" /\ UNCHANGED <<i, xx, yy>>
  /\ UNCHANGED <<mem, k, l, h, call>>

\* mul and umulh, then adds, adcs and adc into the accumulator.
InnerLoop ==
  LET prod == mem[xx] * mem[yy + i]
      low  == l + (prod % B)
      mid  == h + (prod \div B) + (low \div B)
  IN  /\ pc = "innerloop"
      /\ l' = low % B
      /\ h' = mid % B
      /\ c' = (c + (mid \div B)) % B
      /\ xx' = xx + 1
      /\ i' = i - 1
      /\ pc' = IF i' # 0 THEN "innerloop" ELSE "innerend"
      /\ UNCHANGED <<mem, k, yy, call>>

\* Mutant of InnerEnd: the column's top word is not passed on.
InnerEndDropsTop ==
  /\ pc = "innerend"
  /\ mem' = [mem EXCEPT ![call.z + k] = l]
  /\ l' = h /\ h' = 0
  /\ k' = k + 1
  /\ pc' = IF k' < call.p THEN "outerloop" ELSE "end"
  /\ UNCHANGED <<i, xx, yy, c, call>>

\* Mutant of InnerEnd: the column number stays.
InnerEndStuck ==
  /\ pc = "innerend"
  /\ mem' = [mem EXCEPT ![call.z + k] = l]
  /\ l' = h /\ h' = c
  /\ pc' = IF k < call.p THEN "outerloop" ELSE "end"
  /\ UNCHANGED <<k, i, xx, yy, c, call>>

InnerEnd ==
  /\ pc = "innerend"
  /\ mem' = [mem EXCEPT ![call.z + k] = l]
  /\ l' = h /\ h' = c
  /\ k' = k + 1
  /\ pc' = IF k' < call.p THEN "outerloop" ELSE "end"
  /\ UNCHANGED <<i, xx, yy, c, call>>

Done == pc = "end" /\ UNCHANGED vars

Next == Entry \/ OuterLoop \/ InnerLoop \/ InnerEnd \/ Done

Spec == Init /\ [][Next]_vars

\* The processor keeps executing the routine.
FairSpec == Spec /\ WF_vars(Next)
-----------------------------------------------------------------------------
\* Words in the accumulator and in memory, a column of z still to be written
\* wherever one is being made, and reads that stay inside x and y.
TypeOK ==
  /\ pc \in {"entry", "outerloop", "innerloop", "innerend", "end"}
  /\ mem \in Memory
  /\ l \in Word /\ h \in Word /\ c \in Word
  /\ k \in 0..call.p
  /\ pc \in {"outerloop", "innerloop", "innerend"} => k < call.p
  /\ pc = "innerloop" => /\ xx \in Block(call.x, call.m)
                         /\ yy + i \in Block(call.y, call.n)

\* Digits of x and y as they were at entry, the first len of those of y as a
\* number, and the sum of the first t terms of column col of the product.
XDigit(cl, j) == Digit(cl.mem, cl.x, cl.m, j)
YDigit(cl, j) == Digit(cl.mem, cl.y, cl.n, j)
YPrefix(cl, len) == Prefix(cl.mem, cl.y, cl.n, len)

Terms(cl, col, t) == Sigma([j \in Nat |-> XDigit(cl, j) * YDigit(cl, col - j)], t)

\* The same terms by rows: the first r words of x, each times the digits of y
\* that meet it before column col; all the columns before col are then Columns.
Rows(cl, col, r) ==
  Sigma([j \in Nat |-> Pow[j] * XDigit(cl, j) * YPrefix(cl, col - j)], r)

Columns(cl, col) == Rows(cl, col, col)

\* c is live only while a column is being added up.
Top == IF pc \in {"innerloop", "innerend"} THEN c ELSE 0

\* The columns complete at each label, and the terms of column k added to them.
Added == CASE pc = "innerloop" -> Terms(call, k, Last(k) - i)
           [] pc = "innerend" -> Terms(call, k, k + 1)
           [] OTHER -> 0

\* The digits written, with the accumulator on top, are exactly the terms added
\* so far: no carry out of the three words is ever lost, whatever the sizes.
PartialProduct ==
  pc # "entry" =>
    BignumFromMemory(mem, call.z, k) + Pow[k] * (l + B * h + B * B * Top)
      = Columns(call, k) + Pow[k] * Added

\* BIGNUM_MUL_SUBROUTINE_CORRECT: the product modulo B^p.
MulPost(cl, newmem, ret) ==
  BignumFromMemory(newmem, cl.z, cl.p)
    = LowDigits(BignumFromMemory(cl.mem, cl.x, cl.m)
                  * BignumFromMemory(cl.mem, cl.y, cl.n), cl.p)

MulFrame(cl) == Block(cl.z, cl.p)

Contract == INSTANCE Ensures
              WITH status <- IF pc = "end" THEN "returned" ELSE "running",
                   ret <- 0, Post <- MulPost, Frame <- MulFrame

\* The routine changes no word outside z and returns only with the product.
Implements == Contract!Spec

\* Every call returns.
Terminates == Contract!Returns
=============================================================================
