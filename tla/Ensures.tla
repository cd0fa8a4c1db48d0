------------------------------ MODULE Ensures -------------------------------
(***************************************************************************)
(* The contract of a subroutine, as the library's own proofs state it with *)
(* "ensures": from a state that satisfies the precondition the program     *)
(* always reaches its return, where the postcondition holds and nothing    *)
(* outside the frame has changed.  The contract here is stronger in one    *)
(* respect: the frame is respected at every step, not only at the return.  *)
(***************************************************************************)
EXTENDS Bignum

CONSTANTS Post(_, _, _),   \* Post(call, memory at return, value returned)
          Frame(_)         \* Frame(call), the addresses that may change

VARIABLES status,   \* "running" or "returned"
          mem,
          ret,      \* the return register
          call      \* the arguments and the memory at entry

vars == <<status, mem, ret, call>>

Init == status = "running" /\ mem = call.mem

Run ==
  /\ status = "running" /\ status' = "running"
  /\ MayChange(call.mem, mem', Frame(call))
  /\ UNCHANGED call

Return ==
  /\ status = "running" /\ status' = "returned"
  /\ MayChange(call.mem, mem', Frame(call))
  /\ Post(call, mem', ret')
  /\ UNCHANGED call

Next == Run \/ Return

\* The safety part of the contract, and the promise that the routine returns.
Spec == Init /\ [][Next]_vars
Returns == <>(status = "returned")
=============================================================================
