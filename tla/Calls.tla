------------------------------- MODULE Calls -------------------------------
(***************************************************************************)
(* A call of a library function as its caller sees it: the function, the   *)
(* numbers it was given and the numbers it gave back.  Every behaviour is  *)
(* one call; a function that has not returned yet has no call.             *)
(***************************************************************************)
EXTENDS Integers, Sequences

VARIABLE call

NoCall == [function |-> "none", of |-> << >>, result |-> << >>]

Call(f, args, res) == call' = [function |-> f, of |-> args, result |-> res]
=============================================================================
