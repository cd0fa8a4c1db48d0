----------------------- MODULE BignumAddConstantTime ------------------------
(***************************************************************************)
(* bignum_add is constant-time: its control flow and the addresses it      *)
(* touches depend on the sizes and pointers only, never on the words.  Two *)
(* runs of the routine with the same sizes and pointers but independent    *)
(* memories and flags take their steps together; an observer of branches   *)
(* and addresses must not be able to tell them apart.                      *)
(***************************************************************************)
EXTENDS Bignum

VARIABLES pc1, mem1, p1, m1, n1, i1, cf1, call1,
          pc2, mem2, p2, m2, n2, i2, cf2, call2

lockstep == <<pc1, mem1, p1, m1, n1, i1, cf1, call1,
              pc2, mem2, p2, m2, n2, i2, cf2, call2>>

Run1 == INSTANCE BignumAdd
          WITH pc <- pc1, mem <- mem1, p <- p1, m <- m1, n <- n1, i <- i1,
               cf <- cf1, call <- call1
Run2 == INSTANCE BignumAdd
          WITH pc <- pc2, mem <- mem2, p <- p2, m <- m2, n <- n2, i <- i2,
               cf <- cf2, call <- call2

\* The arguments, all but the contents of memory, are the same.
LockstepInit ==
  /\ Run1!Init
  /\ mem2 \in Memory /\ call2 = [call1 EXCEPT !.mem = mem2]
  /\ Run2!Init

LockstepNext == Run1!Next /\ Run2!Next

LockstepSpec == LockstepInit /\ [][LockstepNext]_lockstep

\* What an observer sees of a step to come: the block about to execute and the
\* addresses it loads from and stores to.
Observation(label, k, c) ==
  CASE label \in {"xmainloop", "ymainloop"} -> <<label, c.x + k, c.y + k, c.z + k>>
    [] label = "xtoploop" -> <<label, c.x + k, c.z + k>>
    [] label = "ytoploop" -> <<label, c.y + k, c.z + k>>
    [] label \in {"tails", "tailloop"} -> <<label, c.z + k>>
    [] OTHER -> <<label>>

\* The two runs are indistinguishable at every step.
ConstantTime == Observation(pc1, i1, call1) = Observation(pc2, i2, call2)
=============================================================================
