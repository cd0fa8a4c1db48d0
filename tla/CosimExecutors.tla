-------------------------- MODULE CosimExecutors --------------------------
(***************************************************************************)
(* The executor behind a session of common/cosim.ml: the RV32IM monitor    *)
(* for one architecture, the server script for the other two.  Which one   *)
(* the environment names is fixed when the session starts; either has to   *)
(* keep the promise of CosimExecutor.                                      *)
(***************************************************************************)
EXTENDS CosimRunner

CONSTANTS
    ScriptTokens, ScriptMaxWord, StateWords, UnitBytes, Names   \* of the script

ScriptTokenType == [text : STRING, bytes : Seq(STRING), value : 0..ScriptMaxWord]

ASSUME ScriptAssumption ==
    /\ ScriptTokens \subseteq Seq(ScriptTokenType)
    /\ ScriptMaxWord \in Nat
    /\ StateWords \in Nat /\ StateWords > 1
    /\ UnitBytes \in Nat \ {0}
    /\ 0 \notin Names

VARIABLES
    backend,                                   \* "monitor" or "script"
    server_pc, exiting, server_line, units, file, files, output, child, made, regs, products,
    status, signal, handled, lost, server_answer

Script == INSTANCE SimulatePersistent
    WITH Tokens <- ScriptTokens, MaxWord <- ScriptMaxWord,
         pc <- server_pc, line <- server_line, answer <- server_answer

svars == << server_pc, exiting, server_line, units, file, files, output, child, made, regs,
            products, status, signal, handled, lost, server_answer >>
session == << backend, vars, svars >>

SessionInit == backend \in { "monitor", "script" } /\ Init /\ Script!Init

OfMonitor(A) == backend = "monitor" /\ A /\ UNCHANGED << backend, svars >>
OfScript(A) == backend = "script" /\ A /\ UNCHANGED << backend, vars >>

SessionNext == OfMonitor(Next) \/ OfScript(Script!Next)

\* Both programs run until they wait for a line; the client need not send one.
SessionSpec ==
    /\ SessionInit /\ [][SessionNext]_session
    /\ WF_session(OfMonitor(SendReady)) /\ WF_session(OfMonitor(Serve))
    /\ WF_session(OfScript(Script!Serve))

-----------------------------------------------------------------------------
(* The promise, of whichever executor is running.                          *)
From(b, ls) == { [backend |-> b, line |-> l] : l \in ls }
Asked == From("monitor", Lines) \cup From("script", Script!Lines)
Allowed(r) == IF r.backend = "monitor" THEN Meanings(r.line) ELSE Script!Meanings(r.line)
Ending(r) == IF r.backend = "monitor" THEN Ends(r.line) ELSE Script!Ends(r.line)
Killable(r) == r.backend = "script"

Executor == INSTANCE CosimExecutor
    WITH Requests <- Asked, Answers <- Allowed, Stops <- Ending, Mortal <- Killable,
         phase <- IF backend = "monitor" THEN phase ELSE Script!phase,
         request <- [backend |-> backend,
                     line |-> IF backend = "monitor" THEN line ELSE server_line],
         answer <- IF backend = "monitor" THEN answer ELSE server_answer

SessionTypeOK == TypeOK /\ Script!TypeOK

(* Each request is answered with what it means, whatever the requests      *)
(* before it left in the buffers of the monitor or the files of the        *)
(* script, and the executor stops only when it is told to.                 *)
AnswersItsRequest == Executor!SafetySpec

(* No request stays without an answer (cosim_runner.c, 433-451, and        *)
(* tools/simulate-persistent, 88-128).                                     *)
Answered == Executor!Fairness

(* No request output file outlives its request, nor the server that ends   *)
(* (tools/simulate-persistent, lines 45-55), but the one whose mktemp was  *)
(* ended before it gave the name (line 107) and the one whose removal a    *)
(* second signal prevents.                                                 *)
NoFileLeft == Script!NoFileLeft

(* A signal ends the server, once the process it waits for has ended       *)
(* (tools/simulate-persistent, lines 53-55).                               *)
SignalEnds == Script!SignalEnds
=============================================================================
