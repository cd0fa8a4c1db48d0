---------------------------- MODULE RunSematest -----------------------------
(***************************************************************************)
(* tools/run-sematest.sh: N simulators, which compare the instruction      *)
(* semantics used in the proofs with the processor, run in parallel; the   *)
(* script then waits for them one after the other, searches each log for   *)
(* an error and decides the exit code of "make sematest".  The simulators  *)
(* are known from what the script sees of them: how they end.              *)
(***************************************************************************)
EXTENDS Integers

CONSTANT N    \* simulators to launch, the script's second argument

ASSUME NAssumption == N \in Nat

Simulators == 1..N

VARIABLES shell, i,
          errexit,     \* "-e" while "set -e" is in force, otherwise "+e"
          exit,        \* the exit code, or "none" while the script runs
          announced,   \* simulators announced as "finished successfully"
          child        \* how each simulator fares

sematest == <<shell, i, errexit, exit, announced, child>>

\* A simulator agrees on every case, or ends with an exception that its log
\* shows, or dies of a signal and leaves no word of it in the log.
Outcome == {"passed", "exception", "killed"}

SematestInit ==
  /\ shell = "launch" /\ i = 1
  /\ errexit = "+e" /\ exit = "none"
  /\ announced = {}
  /\ child = [s \in Simulators |-> "pending"]

\* Mutant of Launch: one simulator too many.
LaunchTooMany ==
  /\ shell = "launch"
  /\ IF i <= N + 1 THEN /\ child' = [child EXCEPT ![i] = "running"]
                        /\ i' = i + 1 /\ shell' = "launch"
                   ELSE i' = 1 /\ shell' = "wait" /\ UNCHANGED child
  /\ UNCHANGED <<errexit, exit, announced>>

Launch ==
  /\ shell = "launch"
  /\ IF i <= N THEN /\ child' = [child EXCEPT ![i] = "running"]
                    /\ i' = i + 1 /\ shell' = "launch"
               ELSE i' = 1 /\ shell' = "wait" /\ UNCHANGED child
  /\ UNCHANGED <<errexit, exit, announced>>

\* external: a simulator ends, at any time and in any order.
End(s) ==
  /\ child[s] = "running"
  /\ \E o \in Outcome : child' = [child EXCEPT ![s] = o]
  /\ UNCHANGED <<shell, i, errexit, exit, announced>>

\* Mutant of Wait: the status that wait returns is never looked at.
WaitIgnoresStatus ==
  /\ shell = "wait"
  /\ IF i > N
       THEN shell' = "exited" /\ exit' = "0"
       ELSE child[i] \in Outcome /\ shell' = "inspect" /\ UNCHANGED exit
  /\ UNCHANGED <<i, errexit, announced, child>>

\* wait returns the status of the simulator, which ends the script when it is
\* not 0 and set -e is in force.  Past the last one the script exits with 0.
Wait ==
  /\ shell = "wait"
  /\ IF i > N
       THEN shell' = "exited" /\ exit' = "0"
       ELSE /\ child[i] \in Outcome
            /\ IF errexit = "-e" /\ child[i] # "passed"
                 THEN shell' = "exited" /\ exit' = "status"
                 ELSE shell' = "inspect" /\ UNCHANGED exit
  /\ UNCHANGED <<i, errexit, announced, child>>

\* Mutant of Inspect: the loop does not go on to the next simulator.
InspectSame ==
  /\ shell = "inspect"
  /\ IF child[i] = "exception"
       THEN /\ shell' = "exited" /\ exit' = "1"
            /\ UNCHANGED <<i, errexit, announced>>
       ELSE /\ announced' = announced \cup {i}
            /\ errexit' = "-e"
            /\ shell' = "wait" /\ UNCHANGED <<i, exit>>
  /\ UNCHANGED child

\* grep finds the exception in the log and the script fails; otherwise success
\* is announced and set -e comes into force.
Inspect ==
  /\ shell = "inspect"
  /\ IF child[i] = "exception"
       THEN /\ shell' = "exited" /\ exit' = "1"
            /\ UNCHANGED <<i, errexit, announced>>
       ELSE /\ announced' = announced \cup {i}
            /\ errexit' = "-e" /\ i' = i + 1
            /\ shell' = "wait" /\ UNCHANGED exit
  /\ UNCHANGED child

Script == Launch \/ Wait \/ Inspect

\* Simulators that still run when the script exits run on.
SematestDone == shell = "exited" /\ (\A s \in Simulators : child[s] # "running") /\ UNCHANGED sematest

SematestNext == Script \/ (\E s \in Simulators : End(s)) \/ SematestDone

\* The shell keeps running, and each simulator has a time limit of its own.
SematestSpec == SematestInit /\ [][SematestNext]_sematest /\ WF_sematest(Script)
             /\ \A s \in Simulators : WF_sematest(End(s))
-----------------------------------------------------------------------------
\* The loop index, the sets and the outcomes are what the script can produce.
SematestTypeOK ==
  /\ shell \in {"launch", "wait", "inspect", "exited"}
  /\ i \in 1..(N + 1)
  /\ errexit \in {"+e", "-e"}
  /\ exit \in {"none", "0", "1", "status"}
  /\ announced \subseteq Simulators
  /\ child \in [Simulators -> Outcome \cup {"pending", "running"}]

\* An exit code of 0 means that no simulator is still running, that no log
\* shows an exception, and that every simulator but the first one passed.
SuccessMeans ==
  exit = "0" => /\ \A s \in Simulators : child[s] \in {"passed", "killed"}
                /\ \A s \in Simulators \ {1} : child[s] = "passed"

\* "Simulator $i finished successfully" is said only of one that passed.
AnnouncedPassed == \A s \in announced : child[s] = "passed"

\* The script exits, whatever becomes of the simulators.
Exits == <>(shell = "exited")
=============================================================================
