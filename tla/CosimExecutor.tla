--------------------------- MODULE CosimExecutor ---------------------------
(***************************************************************************)
(* What an instruction executor promises the HOL client, whichever program *)
(* stands behind the pipe (common/cosim.ml, lines 42-59): it greets once,  *)
(* then answers every request with one line, in order, and what it answers *)
(* depends on that request alone and on nothing an earlier request left    *)
(* behind.  Some requests end the session instead of being answered.       *)
(***************************************************************************)
CONSTANTS
    Requests,        \* the lines a client may send, and the end of the input
    Answers(_),      \* the answers a request allows
    Stops(_),        \* the requests that end the session without an answer
    Silence,         \* no answer yet
    Ready,           \* the greeting
    Mortal(_)        \* the requests during which the program may be killed from outside

VARIABLES phase, request, answer
vars == << phase, request, answer >>

Init == phase = "starting" /\ request \in Requests /\ answer = Silence

Greet ==
    /\ phase = "starting"
    /\ phase' = "idle"
    /\ answer' = Ready
    /\ UNCHANGED request

Take ==
    /\ phase = "idle"
    /\ request' \in Requests
    /\ phase' = "busy"
    /\ answer' = Silence

Reply ==
    /\ phase = "busy"
    /\ answer' \in Answers(request)
    /\ phase' = "idle"
    /\ UNCHANGED request

Stop ==
    /\ phase = "busy"
    /\ Stops(request)
    /\ phase' = "stopped"
    /\ UNCHANGED << request, answer >>

\* From outside, at any time: a signal, or the death of the machine.
Die ==
    /\ Mortal(request)
    /\ phase # "stopped"
    /\ phase' = "stopped"
    /\ UNCHANGED << request, answer >>

Next == Greet \/ Take \/ Reply \/ Stop \/ Die

\* An executor that has been asked is not idle for ever; the client may be.
Fairness == WF_vars(Greet) /\ WF_vars(Reply \/ Stop)

SafetySpec == Init /\ [][Next]_vars
Spec == SafetySpec /\ Fairness
=============================================================================
