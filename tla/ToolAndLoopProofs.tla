------------------------- MODULE ToolAndLoopProofs -------------------------
(***************************************************************************)
(* Proofs about the programs that judge what others have run: CosimClient, *)
(* for every number of requests in a session and every executor that keeps *)
(* the promise of CosimExecutor, and RunSematest, for every number of      *)
(* simulators; and about the functions for numbers of any length that      *)
(* OptionalOperations, Scans and MultiplyAccumulate model, for every size  *)
(* of a word and every length.                                             *)
(*                                                                         *)
(* A loop over words is a recursive function of the words done.  What is   *)
(* proved of it is the same each time: after the first n words, the part   *)
(* of z that has been stored and what is carried, weighted with the n-th   *)
(* power of a word's range, are together the number that the first n words *)
(* of the operands stand for, and the words still to come are as they were.*)
(***************************************************************************)
EXTENDS CosimClient, RunSematest, OptionalOperations, Scans, MultiplyAccumulate,
        FiniteSetTheorems, TLAPS

(***************************************************************************)
(* The processes.  Only Reap ends with the watchdog started, and only a    *)
(* group without a member lets it or the client go on.                     *)
(***************************************************************************)
Reaping == { "reap", "wait_leader", "wait_watchdog", "returned" }

Processes ==
    /\ phase \in { "starting", "idle", "busy", "stopped" }
    /\ leader \in { "running", "zombie", "reaped" } /\ worker \in BOOLEAN
    /\ leader = "running" <=> phase # "stopped"
    /\ closed \in BOOLEAN
    /\ pc \in Reaping => closed
    /\ pc \in { "greeting", "awaiting" } => ~closed
    /\ open \in BOOLEAN
    /\ ~closed => open
    /\ watchdog \in { "none", "poll", "poll_again", "gone" }
    /\ watchdog = "gone" => leader # "running" /\ ~worker
    /\ pc \in { "wait_watchdog", "returned" } => leader = "reaped"
    /\ pc = "returned" => ~worker
    /\ pc = "idle" /\ closed => leader = "reaped" /\ ~worker

LEMMA ProcessesInit == Init => Processes
  BY DEF Init, Processes, Reaping

LEMMA ProcessesStep == Processes /\ [Next]_vars => Processes'
<1> SUFFICES ASSUME Processes, [Next]_vars PROVE Processes'
  OBVIOUS
<1> USE DEF Processes, Reaping, Uninterrupted, executor, group, pipes, client, vars
<1>1. CASE ExecutorGreet
  BY <1>1 DEF ExecutorGreet, Executor!Greet
<1>2. CASE ExecutorTake
  BY <1>2 DEF ExecutorTake, Executor!Take
<1>3. CASE ExecutorReply
  BY <1>3 DEF ExecutorReply, Executor!Reply
<1>4. CASE ExecutorStop
  BY <1>4 DEF ExecutorStop, Executor!Stop
<1>5. CASE ExecutorDie
  BY <1>5 DEF ExecutorDie, Executor!Die
<1>6. CASE WorkerExit
  BY <1>6 DEF WorkerExit
<1>7. CASE ReadGreeting
  <2>1. CASE pc' = "idle" /\ UNCHANGED << closed, open >>
    BY <1>7, <2>1 DEF ReadGreeting
  <2>2. CASE Abort
    BY <1>7, <2>2 DEF ReadGreeting, Abort
  <2> QED BY <1>7, <2>1, <2>2 DEF ReadGreeting
<1>8. CASE ReadAnswer
  BY <1>8 DEF ReadAnswer
<1>9. CASE Timeout
  BY <1>9 DEF Timeout, Abort
<1>10. CASE Terminate
  BY <1>10 DEF Terminate, Abort
<1>11. CASE Reap
  BY <1>11 DEF Reap, Slain
<1>12. CASE WaitLeader
  BY <1>12 DEF WaitLeader
<1>13. CASE WaitWatchdog
  <2>1. CASE UNCHANGED << executor, group >> /\ ~worker
    BY <1>13, <2>1 DEF WaitWatchdog
  <2>2. CASE Slain
    BY <1>13, <2>2 DEF WaitWatchdog, Slain
  <2> QED BY <1>13, <2>1, <2>2 DEF WaitWatchdog, GroupAlive
<1>14. CASE Return
  BY <1>14 DEF Return
<1>15. CASE Execute
  BY <1>15 DEF Execute
<1>16. CASE Refuse
  BY <1>16 DEF Refuse
<1>17. CASE Close
  BY <1>17 DEF Close, Abort
<1>18. CASE WatchdogSeesNone
  BY <1>18 DEF WatchdogSeesNone, GroupAlive
<1>19. CASE WatchdogTerminates
  <2>1. CASE worker' = worker
    BY <1>19, <2>1 DEF WatchdogTerminates, Terminated
  <2>2. CASE worker' = FALSE
    BY <1>19, <2>2 DEF WatchdogTerminates, Terminated
  <2> QED BY <1>19, <2>1, <2>2 DEF WatchdogTerminates, Terminated
<1>20. CASE WatchdogKills
  BY <1>20 DEF WatchdogKills, Slain
<1>21. CASE Interrupt
  BY <1>21 DEF Interrupt
<1>22. CASE UNCHANGED vars
  BY <1>22
<1> QED BY <1>1, <1>2, <1>3, <1>4, <1>5, <1>6, <1>7, <1>8, <1>9, <1>10, <1>11, <1>12, <1>13, <1>14, <1>15, <1>16, <1>17, <1>18, <1>19, <1>20, <1>21, <1>22
  DEF Next, Done, ExecutorNext, ClientWaits, ClientReaps, ClientCalled, WatchdogNext
-----------------------------------------------------------------------------
(***************************************************************************)
(* The session.  Until a signal interrupts a wait, at most one line is on  *)
(* its way: the greeting, or the request that is waited for, or its answer.*)
(***************************************************************************)
Greeted ==
    /\ to_child = << >>
    /\ \/ from_child = << >> /\ phase \in { "starting", "stopped" }
       \/ from_child = << Ready >> /\ phase \in { "idle", "stopped" }

Quiet == to_child = << >> /\ from_child = << >> /\ phase \in { "idle", "stopped" }

Asked ==
    /\ sent \in 1..MaxRequests
    /\ \/ to_child = << sent >> /\ from_child = << >> /\ phase \in { "idle", "stopped" }
       \/ to_child = << >> /\ from_child = << >> /\ phase = "busy" /\ request = sent
       \/ to_child = << >> /\ from_child = << >> /\ phase = "stopped"
       \/ /\ to_child = << >> /\ phase \in { "idle", "stopped" }
          /\ \E a \in AnswersTo(sent) : from_child = << a >>

Session ==
    /\ sent \in 0..MaxRequests
    /\ ~interrupted =>
         /\ ResultOfRequest
         /\ pc = "greeting" => Greeted
         /\ pc = "idle" /\ ~closed => Quiet
         /\ pc = "awaiting" => Asked

IInv == Processes /\ Session

LEMMA OneLine ==
  \A l : /\ Append(<< >>, l) = << l >> /\ << l >> # << >>
         /\ Head(<< l >>) = l /\ Tail(<< l >>) = << >>
  OBVIOUS

LEMMA SessionInit == Init => Session
  BY ClientAssumption DEF Init, Session, ResultOfRequest, Silence, Greeted

LEMMA SessionStep == IInv /\ [Next]_vars => Session'
<1> SUFFICES ASSUME Processes, Session, [Next]_vars PROVE Session'
  BY DEF IInv
<1> USE DEF Session, ResultOfRequest, Greeted, Quiet, Asked, Uninterrupted,
         executor, group, pipes, client, vars
<1>1. CASE ExecutorGreet /\ Uninterrupted
  BY <1>1, OneLine DEF ExecutorGreet, Executor!Greet
<1>2. CASE ExecutorTake /\ Uninterrupted
  <2>1. phase = "idle" /\ phase' = "busy" /\ UNCHANGED << from_child, client, interrupted >>
    BY <1>2 DEF ExecutorTake, Executor!Take
  <2>2. CASE ~closed
    <3>1. open
      BY <2>2 DEF Processes
    <3>2. to_child # << >> /\ request' = Head(to_child) /\ to_child' = Tail(to_child)
      BY <1>2, <3>1 DEF ExecutorTake
    <3> QED BY <2>1, <3>2, OneLine
  <2>3. CASE closed /\ pc \notin { "greeting", "awaiting" }
    BY <2>1, <2>3
  <2> QED BY <2>2, <2>3 DEF Processes
<1>3. CASE ExecutorReply /\ Uninterrupted
  BY <1>3, OneLine DEF ExecutorReply, Executor!Reply
<1>4. CASE ExecutorStop /\ Uninterrupted
  BY <1>4 DEF ExecutorStop, Executor!Stop
<1>5. CASE ExecutorDie /\ Uninterrupted
  BY <1>5 DEF ExecutorDie, Executor!Die
<1>6. CASE WorkerExit /\ Uninterrupted
  BY <1>6 DEF WorkerExit
<1>7. CASE ReadGreeting /\ Uninterrupted
  BY <1>7, OneLine DEF ReadGreeting, Abort
<1>8. CASE ReadAnswer /\ Uninterrupted
  BY <1>8, OneLine DEF ReadAnswer, AnswersTo
<1>9. CASE Timeout /\ Uninterrupted
  BY <1>9 DEF Timeout, Abort
<1>10. CASE Terminate /\ Uninterrupted
  BY <1>10 DEF Terminate, Abort
<1>11. CASE Reap /\ Uninterrupted
  BY <1>11 DEF Reap, Slain
<1>12. CASE WaitLeader /\ Uninterrupted
  BY <1>12 DEF WaitLeader
<1>13. CASE WaitWatchdog /\ Uninterrupted
  BY <1>13 DEF WaitWatchdog, Slain
<1>14. CASE Return /\ Uninterrupted
  BY <1>14 DEF Return, Processes, Reaping
<1>15. CASE Execute /\ Uninterrupted
  <2>1. CASE pc' = "awaiting"
    <3>1. sent' = sent + 1 /\ sent < MaxRequests /\ result' = Silence /\ (~interrupted => Quiet)
      BY <1>15, <2>1 DEF Execute
    <3>2. UNCHANGED << from_child, phase, closed, interrupted >>
      BY <1>15, <2>1 DEF Execute
    <3>3. ~interrupted => to_child' = << sent' >>
      BY <1>15, <2>1, <3>1, OneLine DEF Execute
    <3> QED BY <2>1, <3>1, <3>2, <3>3, ClientAssumption DEF Silence
  <2>2. CASE pc' # "awaiting"
    BY <1>15, <2>2 DEF Execute, Silence
  <2> QED BY <2>1, <2>2
<1>16. CASE Refuse /\ Uninterrupted
  BY <1>16 DEF Refuse
<1>17. CASE Close /\ Uninterrupted
  BY <1>17 DEF Close, Abort
<1>18. CASE WatchdogSeesNone /\ Uninterrupted
  BY <1>18 DEF WatchdogSeesNone
<1>19. CASE WatchdogTerminates /\ Uninterrupted
  BY <1>19 DEF WatchdogTerminates, Terminated
<1>20. CASE WatchdogKills /\ Uninterrupted
  BY <1>20 DEF WatchdogKills, Slain
<1>21. CASE Interrupt
  BY <1>21 DEF Interrupt
<1>22. CASE UNCHANGED vars
  BY <1>22
<1> QED BY <1>1, <1>2, <1>3, <1>4, <1>5, <1>6, <1>7, <1>8, <1>9, <1>10, <1>11, <1>12, <1>13, <1>14, <1>15, <1>16, <1>17, <1>18, <1>19, <1>20, <1>21, <1>22
  DEF Next, Done, ExecutorNext, ClientWaits, ClientReaps, ClientCalled, WatchdogNext

(***************************************************************************)
(* Every state of a session satisfies both invariants.                     *)
(***************************************************************************)
LEMMA Inductive == Spec => []IInv
<1>1. Init => IInv
  BY ProcessesInit, SessionInit DEF IInv
<1>2. IInv /\ [Next]_vars => IInv'
  BY ProcessesStep, SessionStep DEF IInv
<1> QED BY <1>1, <1>2, PTL DEF Spec

(***************************************************************************)
(* What cosim_execute returns answers the request it has just sent, for a  *)
(* session of any length, until a signal interrupts a wait (278-285).      *)
(***************************************************************************)
THEOREM ResultHolds == Spec => []ResultUnlessInterrupted
<1>1. IInv => ResultUnlessInterrupted
  BY DEF IInv, Session, ResultUnlessInterrupted
<1> QED BY <1>1, Inductive, PTL

(***************************************************************************)
(* Between two calls an open session is in step with its executor.         *)
(***************************************************************************)
THEOREM InStepHolds == Spec => []InStep
<1>1. IInv => InStep
  BY DEF IInv, Session, Quiet, InStep
<1> QED BY <1>1, Inductive, PTL

(***************************************************************************)
(* No process of the group survives the call that closes the session.      *)
(***************************************************************************)
THEOREM GroupGoneHolds == Spec => []GroupGone
<1>1. IInv => GroupGone
  BY DEF IInv, Processes, GroupGone
<1> QED BY <1>1, Inductive, PTL

-----------------------------------------------------------------------------
(* What an exit code of 0 means, for every number of simulators            *)

\* What the iterations before i have established: the waited-for simulators
\* have ended without an exception, and all but the first passed, because set -e
\* is in force from the second iteration on.
Waited(s) == /\ child[s] \in {"passed", "killed"}
             /\ s # 1 => child[s] = "passed"

Progress ==
  /\ shell \in {"launch", "wait", "inspect"} => exit = "none"
  /\ shell \in {"wait", "inspect"} =>
       /\ i > 1 => errexit = "-e"
       /\ \A s \in Simulators : s < i => Waited(s)
  /\ shell = "inspect" => /\ i <= N /\ child[i] \in Outcome
                          /\ i > 1 => child[i] = "passed"

SematestInv == SematestTypeOK /\ Progress /\ SuccessMeans

LEMMA SematestInvInit == SematestInit => SematestInv
<1> SUFFICES ASSUME SematestInit PROVE SematestInv
  OBVIOUS
<1> USE NAssumption DEF NAssumption, SematestInit, Simulators, Outcome
<1>1. SematestTypeOK
  BY DEF SematestTypeOK
<1>2. Progress
  BY DEF Progress
<1>3. SuccessMeans
  BY DEF SuccessMeans
<1> QED BY <1>1, <1>2, <1>3 DEF SematestInv

LEMMA SematestInvStep == SematestInv /\ [SematestNext]_sematest => SematestInv'
<1> SUFFICES ASSUME SematestInv, [SematestNext]_sematest PROVE SematestInv'
  OBVIOUS
<1> USE NAssumption DEF NAssumption, SematestInv, SematestTypeOK, Progress, SuccessMeans, Waited, Simulators, Outcome
<1>1. CASE Launch
  <2>1. SematestTypeOK'
    BY <1>1 DEF Launch
  <2>2. Progress'
    BY <1>1 DEF Launch
  <2>3. SuccessMeans'
    BY <1>1 DEF Launch
  <2> QED BY <2>1, <2>2, <2>3
<1>2. CASE Wait
  <2>1. SematestTypeOK'
    BY <1>2 DEF Wait
  <2>2. Progress'
    BY <1>2 DEF Wait
  <2>3. SuccessMeans'
    BY <1>2 DEF Wait
  <2> QED BY <2>1, <2>2, <2>3
<1>3. CASE Inspect
  <2>1. SematestTypeOK'
    <3>1. i \in Nat /\ i \in Simulators
      BY <1>3 DEF Inspect
    <3>2. i' \in 1..(N + 1)
      BY <1>3, <3>1 DEF Inspect
    <3>3. announced' \subseteq Simulators
      BY <1>3, <3>1 DEF Inspect
    <3>4. /\ shell' \in {"launch", "wait", "inspect", "exited"}
          /\ errexit' \in {"+e", "-e"} /\ exit' \in {"none", "0", "1", "status"}
          /\ child' = child
      BY <1>3 DEF Inspect
    <3> QED BY <3>2, <3>3, <3>4
  <2>2. Progress'
    BY <1>3 DEF Inspect
  <2>3. SuccessMeans'
    BY <1>3 DEF Inspect
  <2> QED BY <2>1, <2>2, <2>3
<1>4. CASE \E s \in Simulators : End(s)
  <2>1. SematestTypeOK'
    BY <1>4 DEF End
  <2>2. Progress'
    BY <1>4 DEF End
  <2>3. SuccessMeans'
    BY <1>4 DEF End
  <2> QED BY <2>1, <2>2, <2>3
<1>5. CASE UNCHANGED sematest
  <2>1. SematestTypeOK'
    BY <1>5 DEF sematest
  <2>2. Progress'
    BY <1>5 DEF sematest
  <2>3. SuccessMeans'
    BY <1>5 DEF sematest
  <2> QED BY <2>1, <2>2, <2>3
<1> QED BY <1>1, <1>2, <1>3, <1>4, <1>5 DEF SematestNext, Script, SematestDone

\* The script's variables have their types.
THEOREM SematestTypeCorrect == SematestSpec => []SematestTypeOK
<1>1. SematestInv => SematestTypeOK
  BY DEF SematestInv
<1> QED BY <1>1, SematestInvInit, SematestInvStep, PTL DEF SematestSpec

\* "make sematest" succeeds only when every simulator has ended, none logged an
\* exception and all but possibly the first one passed.
THEOREM SuccessCorrect == SematestSpec => []SuccessMeans
<1>1. SematestInv => SuccessMeans
  BY DEF SematestInv
<1> QED BY <1>1, SematestInvInit, SematestInvStep, PTL DEF SematestSpec

(***************************************************************************)
(* The functions of OptionalOperations, for every size of a word and every *)
(* length of a number.                                                     *)
(***************************************************************************)
Sizes == WordBits \in Nat \ {0} /\ MaxWords \in Nat
\* What the proofs need of them
Parameters == MaxWords \in Nat /\ B \in Nat /\ B > 1 /\ B % 2 = 0
Contract == INSTANCE GenericContract WITH words <- [bits |-> WordBits]
Facts == INSTANCE BignumTheorems WITH B <- B, MemSize <- MaxWords, MaxSize <- 0

\* The sets of numbers up to n + 1: those without n + 1 and as many with it
LEMMA TwicePower ==
  ASSUME NEW n \in Nat
  PROVE  2^n \in Nat \ {0} /\ 2^(n + 1) = 2 * 2^n
<1> DEFINE S == 1..n
           T == { s \cup { n + 1 } : s \in SUBSET S }
           f == [s \in SUBSET S |-> s \cup { n + 1 }]
<1>1. IsFiniteSet(S) /\ Cardinality(S) = n /\ IsFiniteSet(1..(n + 1)) /\ Cardinality(1..(n + 1)) = n + 1
  BY FS_Interval
<1>2. IsFiniteSet(SUBSET S) /\ Cardinality(SUBSET S) = 2^n /\ Cardinality(SUBSET (1..(n + 1))) = 2^(n + 1)
  BY <1>1, FS_SUBSET
<1>3. f \in Bijection(SUBSET S, T)
  <2>1. \A s, t \in SUBSET S : f[s] = f[t] => s = t
    <3> SUFFICES ASSUME NEW s \in SUBSET S, NEW t \in SUBSET S, f[s] = f[t] PROVE s = t
      OBVIOUS
    <3>1. n + 1 \notin s /\ n + 1 \notin t
      OBVIOUS
    <3> QED BY <3>1
  <2>2. f \in [SUBSET S -> T] /\ \A t \in T : \E s \in SUBSET S : f[s] = t
    OBVIOUS
  <2> HIDE DEF f, T, S
  <2> QED BY <2>1, <2>2 DEF Bijection, Injection, Surjection, IsInjective
<1>4. IsFiniteSet(T) /\ Cardinality(T) = 2^n
  <2>1. ExistsBijection(SUBSET S, T)
    BY <1>3 DEF ExistsBijection
  <2> QED BY <2>1, <1>2, FS_Bijection
<1>5. (SUBSET S) \cup T = SUBSET (1..(n + 1)) /\ (SUBSET S) \cap T = {}
  <2>1. ASSUME NEW u \in SUBSET (1..(n + 1)) PROVE u \in (SUBSET S) \cup T
    <3>1. CASE n + 1 \in u
      <4>1. u \ { n + 1 } \in SUBSET S /\ u = (u \ { n + 1 }) \cup { n + 1 }
        BY <3>1
      <4> QED BY <4>1
    <3>2. CASE n + 1 \notin u
      BY <3>2
    <3> QED BY <3>1, <3>2
  <2>2. S \subseteq 1..(n + 1) /\ n + 1 \in 1..(n + 1) /\ n + 1 \notin S
    OBVIOUS
  <2>3. ASSUME NEW s \in SUBSET S PROVE s \cup { n + 1 } \in SUBSET (1..(n + 1)) /\ s \in SUBSET (1..(n + 1)) /\ s \cup { n + 1 } \notin SUBSET S
    BY <2>2
  <2>4. (SUBSET S) \cap T = {}
    <3>1. ASSUME NEW s \in SUBSET S, NEW r \in SUBSET S, r = s \cup { n + 1 } PROVE FALSE
      BY <2>3, <3>1
    <3> QED BY <3>1
  <2>5. (SUBSET S) \cup T \subseteq SUBSET (1..(n + 1))
    <3>1. ASSUME NEW u \in T PROVE u \in SUBSET (1..(n + 1))
      <4>1. PICK s \in SUBSET S : u = s \cup { n + 1 }
        OBVIOUS
      <4> QED BY <4>1, <2>3
    <3>2. ASSUME NEW u \in SUBSET S PROVE u \in SUBSET (1..(n + 1))
      BY <2>3
    <3> QED BY <3>1, <3>2
  <2> HIDE DEF S, T
  <2> QED BY <2>1, <2>4, <2>5
<1>6. 2^(n + 1) = 2^n + 2^n
  <2>1. Cardinality((SUBSET S) \cup T) = Cardinality(SUBSET S) + Cardinality(T) - Cardinality((SUBSET S) \cap T)
    <3> HIDE DEF S, T
    <3> QED BY <1>2, <1>4, FS_Union
  <2>2. Cardinality({}) = 0
    BY FS_EmptySet
  <2>3. 2^n \in Nat
    BY <1>2, FS_CardinalityType
  <2>4. Cardinality((SUBSET S) \cap T) = 0
    BY <1>5, <2>2
  <2>5. 2^(n + 1) = Cardinality((SUBSET S) \cup T)
    BY <1>2, <1>5
  <2> HIDE DEF S, T
  <2> QED BY <1>2, <1>4, <2>1, <2>3, <2>4, <2>5
<1>7. 2^n \in Nat /\ 2^n # 0
  <2>1. 2^n \in Nat
    BY <1>2, FS_CardinalityType
  <2>2. {} \in SUBSET S
    OBVIOUS
  <2> HIDE DEF S
  <2> QED BY <2>1, <2>2, <1>2, FS_EmptySet
<1> QED BY <1>6, <1>7

LEMMA SizesSuffice == Sizes => Parameters
<1> SUFFICES ASSUME Sizes PROVE Parameters
  OBVIOUS
<1> DEFINE half == 2^(WordBits - 1)
<1>1. WordBits - 1 \in Nat /\ (WordBits - 1) + 1 = WordBits /\ MaxWords \in Nat
  BY DEF Sizes
<1>2. half \in Nat \ {0} /\ 2^((WordBits - 1) + 1) = 2 * half
  BY <1>1, TwicePower
<1>3. B = 2 * half
  BY <1>1, <1>2 DEF B
<1> HIDE DEF half
<1> QED BY <1>1, <1>2, <1>3 DEF Parameters

LEMMA FactsAssumptions == Parameters => Facts!BaseAssumption /\ Facts!SizeAssumption
  BY DEF Parameters, Facts!BaseAssumption, Facts!SizeAssumption

LEMMA PowersAssumptions == Sizes => Facts!BaseAssumption /\ Facts!SizeAssumption /\ Facts!Doubles
  BY SizesSuffice, FactsAssumptions, TwicePower DEF Facts!Doubles

\* Recursion by the words of a number, as WordLoops writes it
Recursive(f, k, S, e, s) ==
    f = [j \in 0..k |-> IF j = 0 THEN e ELSE s[j - 1][f[j - 1]]] /\ f \in [0..k -> S]

\* A loop of k steps over the states S is a function.
LEMMA LoopExists ==
  ASSUME Parameters
  PROVE  \A k \in Nat : \A S : \A e \in S : \A s \in [0..(k - 1) -> [S -> S]] : \E f : Recursive(f, k, S, e, s)
BY FactsAssumptions, Facts!LoopExists DEF Recursive, Facts!Recursive

\* What holds before a loop, and after each step if it held before it
LEMMA LoopInduction ==
  ASSUME Parameters, NEW k \in Nat, NEW T, 0 \in T, \A j \in 0..(k - 1) : j \in T => j + 1 \in T
  PROVE  0..k \subseteq T
BY FactsAssumptions, Facts!StepInduction, Zenon

\* The weights of the words
LEMMA PowSteps ==
  ASSUME Parameters
  PROVE  Pow(0) = 1 /\ \A n \in Nat : Pow(n + 1) = B * Pow(n) /\ Pow(n) \in Nat \ {0}
<1> DEFINE Rec(f, n) == f = [j \in 0..n |-> IF j = 0 THEN 1 ELSE B * f[j - 1]]
           F(n) == CHOOSE f : Rec(f, n)
<1>1. ASSUME NEW n \in Nat PROVE \E f : Rec(f, n) /\ f \in [0..n -> Nat]
  <2> DEFINE s == [j \in 0..(n - 1) |-> [v \in Nat |-> B * v]]
  <2>1. s \in [0..(n - 1) -> [Nat -> Nat]]
    BY DEF Parameters
  <2>2. PICK f : Recursive(f, n, Nat, 1, s)
    <3>1. 1 \in Nat OBVIOUS
    <3> HIDE DEF s
    <3> QED BY <2>1, <3>1, LoopExists, Zenon
  <2>3. f \in [0..n -> Nat] /\ f = [j \in 0..n |-> IF j = 0 THEN 1 ELSE s[j - 1][f[j - 1]]]
    BY <2>2 DEF Recursive
  <2>4. ASSUME NEW j \in 0..n PROVE f[j] = IF j = 0 THEN 1 ELSE B * f[j - 1]
    <3>1. CASE j = 0
      BY <2>3, <3>1
    <3>2. CASE j # 0
      <4>1. j - 1 \in 0..(n - 1) /\ j - 1 \in 0..n
        BY <3>2
      <4>2. f[j] = s[j - 1][f[j - 1]] /\ f[j - 1] \in Nat
        BY <2>3, <3>2, <4>1
      <4> QED BY <3>2, <4>1, <4>2
    <3> QED BY <3>1, <3>2
  <2>5. Rec(f, n)
    BY <2>3, <2>4
  <2> QED BY <2>3, <2>5
<1>2. \A n \in Nat : Rec(F(n), n)
  BY <1>1
<1>3. \A n \in Nat : Pow(n) = F(n)[n]
  BY DEF Pow
<1> HIDE DEF F
<1>4. \A n \in Nat : F(n)[0] = 1 /\ \A j \in 0..(n - 1) : F(n)[j + 1] = B * F(n)[j]
  BY <1>2
<1>5. ASSUME NEW n \in Nat PROVE \A j \in 0..n : F(n + 1)[j] = F(n)[j] /\ F(n)[j] \in Nat \ {0}
  <2> DEFINE T == { j \in 0..n : F(n + 1)[j] = F(n)[j] /\ F(n)[j] \in Nat \ {0} }
  <2>1. 0 \in T
    BY <1>4
  <2>2. ASSUME NEW j \in 0..(n - 1), j \in T PROVE j + 1 \in T
    <3>1. F(n + 1)[j + 1] = B * F(n + 1)[j] /\ F(n)[j + 1] = B * F(n)[j]
      BY <1>4
    <3>2. B * F(n)[j] \in Nat \ {0}
      BY <2>2 DEF Parameters
    <3> QED BY <2>2, <3>1, <3>2
  <2>3. 0..n \subseteq T
    <3> HIDE DEF T
    <3> QED BY <2>1, <2>2, LoopInduction
  <2> QED BY <2>3
<1>6. ASSUME NEW n \in Nat PROVE Pow(n + 1) = B * Pow(n) /\ Pow(n) \in Nat \ {0}
  <2>1. F(n + 1)[n + 1] = B * F(n + 1)[n]
    BY <1>4
  <2>2. F(n + 1)[n] = F(n)[n] /\ F(n)[n] \in Nat \ {0}
    BY <1>5
  <2> QED BY <1>3, <2>1, <2>2
<1> QED BY <1>3, <1>4, <1>6

Word == 0..(B - 1)
Row == [0..MaxWords -> Word]

\* The number that the first n words stand for
LEMMA ValueSteps ==
  ASSUME Parameters, NEW w \in Row
  PROVE  /\ Value(w, 0) = 0
         /\ \A n \in 0..MaxWords : Value(w, n + 1) = Value(w, n) + Pow(n) * w[n]
         /\ \A n \in 0..(MaxWords + 1) : Value(w, n) \in 0..(Pow(n) - 1)
<1> DEFINE Rec(f, n) == f = [j \in 0..n |-> IF j = 0 THEN 0 ELSE f[j - 1] + Pow(j - 1) * w[j - 1]]
           F(n) == CHOOSE f : Rec(f, n)
<1>1. \A n \in Nat : Pow(n) \in Nat \ {0}
  BY PowSteps
<1>2. ASSUME NEW n \in 0..(MaxWords + 1) PROVE \E f : Rec(f, n) /\ f \in [0..n -> Nat]
  <2> DEFINE s == [j \in 0..(n - 1) |-> [v \in Nat |-> v + Pow(j) * w[j]]]
  <2>1. s \in [0..(n - 1) -> [Nat -> Nat]]
    <3>1. ASSUME NEW j \in 0..(n - 1) PROVE Pow(j) * w[j] \in Nat
      <4>1. j \in 0..MaxWords /\ j \in Nat
        BY DEF Parameters
      <4>2. w[j] \in Word
        BY <4>1 DEF Row
      <4>3. w[j] \in Nat /\ Pow(j) \in Nat
        BY <1>1, <4>1, <4>2 DEF Word
      <4> QED BY <4>3
    <3> QED BY <3>1
  <2>2. PICK f : Recursive(f, n, Nat, 0, s)
    <3>1. 0 \in Nat /\ n \in Nat BY DEF Parameters
    <3> HIDE DEF s
    <3> QED BY <2>1, <3>1, LoopExists, Zenon
  <2>3. f \in [0..n -> Nat] /\ f = [j \in 0..n |-> IF j = 0 THEN 0 ELSE s[j - 1][f[j - 1]]]
    BY <2>2 DEF Recursive
  <2>4. ASSUME NEW j \in 0..n PROVE f[j] = IF j = 0 THEN 0 ELSE f[j - 1] + Pow(j - 1) * w[j - 1]
    <3>1. CASE j = 0
      BY <2>3, <3>1
    <3>2. CASE j # 0
      <4>1. j - 1 \in 0..(n - 1) /\ j - 1 \in 0..n
        BY <3>2 DEF Parameters
      <4>2. f[j] = s[j - 1][f[j - 1]] /\ f[j - 1] \in Nat
        BY <2>3, <3>2, <4>1
      <4> QED BY <3>2, <4>1, <4>2
    <3> QED BY <3>1, <3>2
  <2>5. Rec(f, n)
    BY <2>3, <2>4
  <2> QED BY <2>3, <2>5
<1>3. \A n \in 0..(MaxWords + 1) : Rec(F(n), n)
  BY <1>2
<1>4. \A n \in 0..(MaxWords + 1) : Value(w, n) = F(n)[n]
  BY DEF Value
<1> HIDE DEF F
<1>5. \A n \in 0..(MaxWords + 1) : F(n)[0] = 0
                                  /\ \A j \in 0..(n - 1) : F(n)[j + 1] = F(n)[j] + Pow(j) * w[j]
  <2> SUFFICES ASSUME NEW n \in 0..(MaxWords + 1)
               PROVE  F(n)[0] = 0 /\ \A j \in 0..(n - 1) : F(n)[j + 1] = F(n)[j] + Pow(j) * w[j]
    OBVIOUS
  <2>1. Rec(F(n), n)
    BY <1>3
  <2>2. F(n)[0] = 0
    BY <2>1 DEF Parameters
  <2>3. ASSUME NEW j \in 0..(n - 1) PROVE F(n)[j + 1] = F(n)[j] + Pow(j) * w[j]
    <3>1. j + 1 \in 0..n /\ j + 1 # 0 /\ (j + 1) - 1 = j
      BY DEF Parameters
    <3> QED BY <2>1, <3>1
  <2> QED BY <2>2, <2>3
<1>6. ASSUME NEW n \in 0..MaxWords PROVE F(n + 1)[n] = F(n)[n]
  <2> DEFINE T == { j \in 0..n : F(n + 1)[j] = F(n)[j] }
  <2>1. 0 \in T
    BY <1>5 DEF Parameters
  <2>2. ASSUME NEW j \in 0..(n - 1), j \in T PROVE j + 1 \in T
    <3>1. F(n + 1)[j + 1] = F(n + 1)[j] + Pow(j) * w[j] /\ F(n)[j + 1] = F(n)[j] + Pow(j) * w[j]
      BY <1>5 DEF Parameters
    <3> QED BY <2>2, <3>1
  <2>3. 0..n \subseteq T
    <3> HIDE DEF T
    <3>1. n \in Nat BY DEF Parameters
    <3> QED BY <2>1, <2>2, <3>1, LoopInduction
  <2> QED BY <2>3 DEF Parameters
<1>7. Value(w, 0) = 0
  BY <1>4, <1>5 DEF Parameters
<1>8. \A n \in 0..MaxWords : Value(w, n + 1) = Value(w, n) + Pow(n) * w[n]
  BY <1>4, <1>5, <1>6 DEF Parameters
<1>9. \A n \in 0..(MaxWords + 1) : Value(w, n) \in 0..(Pow(n) - 1)
  <2> DEFINE T == { n \in 0..(MaxWords + 1) : Value(w, n) \in 0..(Pow(n) - 1) }
  <2>1. 0 \in T
    BY <1>7, PowSteps DEF Parameters
  <2>2. ASSUME NEW n \in 0..((MaxWords + 1) - 1), n \in T PROVE n + 1 \in T
    <3> DEFINE v == Value(w, n)
               d == w[n]
               P == Pow(n)
    <3>1. Value(w, n + 1) = v + P * d /\ n \in 0..MaxWords
      BY <1>8 DEF Parameters
    <3>2. Pow(n + 1) = B * P /\ P \in Nat /\ n + 1 \in 0..(MaxWords + 1)
      BY <3>1, PowSteps DEF Parameters
    <3>3. v \in 0..(P - 1) /\ d \in 0..(B - 1)
      BY <2>2, <3>1 DEF Row, Word
    <3>4. v + P * d \in 0..(B * P - 1)
      <4> HIDE DEF v, d, P
      <4>1. P * d <= P * (B - 1) /\ P * d \in Nat
        BY <3>2, <3>3 DEF Parameters
      <4>2. P * (B - 1) = B * P - P
        BY <3>2 DEF Parameters
      <4> QED BY <3>2, <3>3, <4>1, <4>2 DEF Parameters
    <3> QED BY <3>1, <3>2, <3>4
  <2>3. 0..(MaxWords + 1) \subseteq T
    <3> HIDE DEF T
    <3>1. MaxWords + 1 \in Nat BY DEF Parameters
    <3> QED BY <2>1, <2>2, <3>1, LoopInduction
  <2> QED BY <2>3
<1> QED BY <1>7, <1>8, <1>9

LEMMA ValueCongruence ==
  ASSUME Parameters, NEW v \in Row, NEW w \in Row, NEW n \in 0..(MaxWords + 1),
         \A j \in 0..(n - 1) : v[j] = w[j]
  PROVE  Value(v, n) = Value(w, n)
<1> DEFINE T == { j \in 0..n : Value(v, j) = Value(w, j) }
<1>1. 0 \in T
  BY ValueSteps DEF Parameters
<1>2. ASSUME NEW j \in 0..(n - 1), j \in T PROVE j + 1 \in T
  <2>1. j \in 0..MaxWords /\ j + 1 \in 0..n
    BY DEF Parameters
  <2>2. Value(v, j + 1) = Value(v, j) + Pow(j) * v[j] /\ Value(w, j + 1) = Value(w, j) + Pow(j) * w[j]
    BY <2>1, ValueSteps
  <2> QED BY <1>2, <2>1, <2>2
<1>3. 0..n \subseteq T
  <2> HIDE DEF T
  <2>1. n \in Nat BY DEF Parameters
  <2> QED BY <1>1, <1>2, <2>1, LoopInduction
<1>4. n \in T
  BY <1>3 DEF Parameters
<1> QED BY <1>4

\* The words of a number stand for it, and its first n words for its remainder.
LEMMA WordsValue ==
  ASSUME Parameters, NEW k \in 0..MaxWords, NEW v \in Numbers(k)
  PROVE  /\ Words(v, k) \in Row /\ Value(Words(v, k), k) = v
         /\ \A n \in 0..k : Value(Words(v, k), n) = v % Pow(n)
<1> DEFINE w == Words(v, k)
<1>1. v \in Nat
  BY DEF Numbers
<1>2. \A n \in Nat : Pow(n) \in Nat \ {0} /\ Pow(n + 1) = B * Pow(n)
  BY PowSteps
<1>3. w \in Row
  <2>1. ASSUME NEW j \in 0..MaxWords PROVE (v \div Pow(j)) % B \in 0..(B - 1)
    <3>1. Pow(j) \in Nat \ {0} /\ j \in Nat
      BY <1>2 DEF Parameters
    <3>2. v \div Pow(j) \in Int
      BY <1>1, <3>1
    <3> QED BY <3>2 DEF Parameters
  <2>2. B - 1 \in 0..(B - 1)
    BY DEF Parameters
  <2> QED BY <2>1, <2>2 DEF Words, Row, Word
<1>4. \A j \in 0..(k - 1) : w[j] = (v \div Pow(j)) % B
  BY DEF Words, Parameters
<1> HIDE DEF w
<1> DEFINE T == { n \in 0..k : Value(w, n) = v % Pow(n) }
<1>5. 0 \in T
  <2>1. v % 1 = 0
    BY <1>1
  <2> QED BY <1>3, <2>1, ValueSteps, PowSteps DEF Parameters
<1>6. ASSUME NEW n \in 0..(k - 1), n \in T PROVE n + 1 \in T
  <2> DEFINE P == Pow(n)
             q == v \div P
             r == v % P
             e == q \div B
             d == q % B
  <2>1. n \in 0..MaxWords /\ n \in Nat /\ n + 1 \in 0..k
    BY DEF Parameters
  <2>2. P \in Nat \ {0} /\ Pow(n + 1) = B * P
    BY <1>2, <2>1
  <2>3. Value(w, n + 1) = r + P * d
    BY <1>3, <1>4, <1>6, <2>1, ValueSteps
  <2>4. v % (B * P) = r + P * d
    <3> HIDE DEF P
    <3>1. v = P * q + r /\ q \in Int /\ r \in 0..(P - 1)
      BY <1>1, <2>2
    <3> HIDE DEF q, r
    <3>2. q = B * e + d /\ e \in Int /\ d \in 0..(B - 1)
      BY <3>1 DEF Parameters
    <3> HIDE DEF e, d
    <3>3. P * d <= P * (B - 1) /\ P * d \in Nat
      BY <2>2, <3>2 DEF Parameters
    <3>4. P * (B - 1) = B * P - P
      BY <2>2 DEF Parameters
    <3>5. B * P \in Nat \ {0}
      BY <2>2 DEF Parameters
    <3>6. r + P * d \in 0..(B * P - 1)
      BY <2>2, <3>1, <3>3, <3>4, <3>5
    <3>7. P * q = (B * P) * e + P * d
      BY <2>2, <3>2 DEF Parameters
    <3>8. v = (B * P) * e + (r + P * d)
      BY <2>2, <3>1, <3>2, <3>3, <3>5, <3>7 DEF Parameters
    <3> HIDE DEF P
    <3> QED BY <3>2, <3>5, <3>6, <3>8, FactsAssumptions, Facts!DivModUnique
  <2> QED BY <2>1, <2>2, <2>3, <2>4
<1>7. 0..k \subseteq T
  <2> HIDE DEF T
  <2>1. k \in Nat BY DEF Parameters
  <2> QED BY <1>5, <1>6, <2>1, LoopInduction
<1>8. v % Pow(k) = v
  <2>1. k \in Nat BY DEF Parameters
  <2>2. Pow(k) \in Nat /\ v \in 0..(Pow(k) - 1)
    BY <1>2, <2>1 DEF Numbers
  <2> QED BY <2>2
<1>9. k \in T
  BY <1>7 DEF Parameters
<1>10. \A n \in 0..k : Value(w, n) = v % Pow(n)
  BY <1>7
<1> QED BY <1>3, <1>8, <1>9, <1>10 DEF w

(***************************************************************************)
(* A loop that stores the words of z one by one                            *)
(***************************************************************************)
BufferNames == { "x", "y", "m", "z" }
Memory == [BufferNames -> Row]

\* Only the first n words of z have been written.
Intact(mem, new, z, n) ==
    /\ new \in Memory
    /\ \A b \in BufferNames, j \in 0..MaxWords : b # z \/ j >= n => new[b][j] = mem[b][j]

\* Storing the next word adds its weight to what is written and changes nothing else.
LEMMA Stored ==
  ASSUME Parameters, NEW mem, NEW s, NEW z, NEW n \in 0..MaxWords, NEW d \in Word,
         Intact(mem, s, z, n)
  PROVE  /\ Intact(mem, Store(s, z, n, d), z, n + 1)
         /\ z \in BufferNames =>
                Value(Store(s, z, n, d)[z], n + 1) = Value(s[z], n) + Pow(n) * d
<1> DEFINE new == Store(s, z, n, d)
<1>1. s \in Memory
  BY DEF Intact
<1>2. CASE z \notin BufferNames
  <2>1. new = s
    BY <1>1, <1>2 DEF Store, Memory
  <2> QED BY <1>2, <2>1 DEF Intact, Parameters
<1>3. CASE z \in BufferNames
  <2>1. new = [s EXCEPT ![z][n] = d]
    BY <1>1, <1>3 DEF Store, Memory
  <2>2. new \in Memory /\ new[z] = [s[z] EXCEPT ![n] = d] /\ \A b \in BufferNames : b # z => new[b] = s[b]
    BY <1>1, <1>3, <2>1 DEF Memory, Row
  <2> HIDE DEF new
  <2>3. new[z] \in Row /\ s[z] \in Row
    BY <1>1, <1>3, <2>2 DEF Memory
  <2>4. new[z][n] = d /\ \A j \in 0..MaxWords : j # n => new[z][j] = s[z][j]
    BY <2>2, <2>3 DEF Row
  <2>5. Intact(mem, new, z, n + 1)
    <3>1. ASSUME NEW b \in BufferNames, NEW j \in 0..MaxWords, b # z \/ j >= n + 1
          PROVE  new[b][j] = mem[b][j]
      <4>1. s[b][j] = mem[b][j]
        BY <3>1 DEF Intact, Parameters
      <4>2. CASE b # z
        BY <2>2, <4>1, <4>2
      <4>3. CASE b = z
        <5>1. j # n
          BY <3>1, <4>3 DEF Parameters
        <5> QED BY <2>4, <4>1, <4>3, <5>1
      <4> QED BY <4>2, <4>3
    <3> QED BY <2>2, <3>1 DEF Intact
  <2>6. Value(new[z], n) = Value(s[z], n)
    <3>1. n \in 0..(MaxWords + 1) /\ \A j \in 0..(n - 1) : new[z][j] = s[z][j]
      BY <2>4 DEF Parameters
    <3> QED BY <2>3, <3>1, ValueCongruence
  <2>7. Value(new[z], n + 1) = Value(new[z], n) + Pow(n) * new[z][n]
    BY <2>3, ValueSteps
  <2> QED BY <2>4, <2>5, <2>6, <2>7 DEF new
<1> QED BY <1>2, <1>3

\* The first n words of a sum, and the carry out of them
Summed(mem, s, z, n, c, total) ==
    /\ Intact(mem, s, z, n)
    /\ c \in { 0, 1 }
    /\ \E q \in 0..(Pow(n) - 1) :
          q + Pow(n) * c = total /\ (z \in BufferNames => Value(s[z], n) = q)

\* What a sum of two words and a carry leaves and carries
LEMMA CarryOf ==
  ASSUME Parameters, NEW t \in 0..(2 * B - 1)
  PROVE  t = B * (t \div B) + (t % B) /\ t % B \in Word /\ t \div B \in { 0, 1 }
BY FactsAssumptions, Facts!CarryOf DEF Word, Facts!Word

\* One adcs or sbcs: a word, and the carry for the next
LEMMA SummedStep ==
  ASSUME Parameters, NEW mem, NEW s, NEW z, NEW n \in 0..MaxWords, NEW c, NEW total \in Int,
         NEW u \in Word, NEW v \in Word, Summed(mem, s, z, n, c, total)
  PROVE  Summed(mem, Store(s, z, n, (u + v + c) % B), z, n + 1, (u + v + c) \div B,
                total + Pow(n) * (u + v))
<1> DEFINE t == u + v + c
           d == t % B
           e == t \div B
           P == Pow(n)
<1>1. c \in {0, 1} /\ Intact(mem, s, z, n)
  BY DEF Summed
<1>2. PICK q \in 0..(P - 1) : q + P * c = total /\ (z \in BufferNames => Value(s[z], n) = q)
  BY DEF Summed
<1>3. P \in Nat \ {0} /\ Pow(n + 1) = B * P
  BY PowSteps DEF Parameters
<1>4. u \in 0..(B - 1) /\ v \in 0..(B - 1)
  BY DEF Word
<1>5. t = B * e + d /\ d \in 0..(B - 1) /\ e \in {0, 1}
  <2>1. t \in 0..(2 * B - 1)
    BY <1>1, <1>4 DEF Parameters
  <2> HIDE DEF t
  <2> QED BY <2>1, CarryOf DEF Word
<1>6. q + P * d \in 0..(B * P - 1) /\ (q + P * d) + (B * P) * e = total + P * (u + v)
  <2>1. d \in Word
    BY <1>5 DEF Word
  <2>2. B * e + d = u + v + c
    BY <1>5
  <2> HIDE DEF P, d, e, t
  <2>3. P * d <= P * (B - 1) /\ P * d \in Nat
    BY <1>3, <1>5 DEF Parameters
  <2>4. P * (B - 1) = B * P - P /\ B * P \in Nat
    BY <1>3 DEF Parameters
  <2>5. q + P * d \in 0..(B * P - 1)
    BY <1>2, <1>3, <2>3, <2>4
  <2>6. P * (B * e + d) = (B * P) * e + P * d
    BY <1>3, <1>5 DEF Parameters
  <2>7. P * (u + v + c) = P * (u + v) + P * c
    BY <1>1, <1>3, <1>4 DEF Parameters
  <2>8. (B * P) * e + P * d = P * (u + v) + P * c
    BY <2>2, <2>6, <2>7
  <2>9. (B * P) * e \in Int /\ P * c \in Int /\ P * (u + v) \in Int
    BY <1>1, <1>3, <1>4, <1>5, <2>4 DEF Parameters
  <2> QED BY <1>2, <2>3, <2>5, <2>8, <2>9
<1>7. d \in Word
  BY <1>5 DEF Word
<1> HIDE DEF d, e, t
<1>8. Intact(mem, Store(s, z, n, d), z, n + 1)
  BY <1>1, <1>7, Stored
<1>9. z \in BufferNames => Value(Store(s, z, n, d)[z], n + 1) = q + P * d
  BY <1>1, <1>2, <1>7, Stored
<1>10. Summed(mem, Store(s, z, n, d), z, n + 1, e, total + P * (u + v))
  BY <1>3, <1>5, <1>6, <1>8, <1>9 DEF Summed
<1> QED BY <1>10 DEF d, e, t

(***************************************************************************)
(* adcs and sbcs.  A word is read as it is, complemented, or not at all.   *)
(***************************************************************************)
Read(how, w) ==
    IF how = "same" THEN w ELSE IF how = "complement" THEN B - 1 - w
    ELSE IF how = "ones" THEN B - 1 ELSE 0
ReadValue(how, w, n) ==
    IF how = "same" THEN Value(w, n) ELSE IF how = "complement" THEN Pow(n) - 1 - Value(w, n)
    ELSE IF how = "ones" THEN Pow(n) - 1 ELSE 0

\* The number that the words of an operand stand for, as they are read
LEMMA ReadSteps ==
  ASSUME Parameters, NEW how, NEW w \in Row
  PROVE  /\ \A n \in 0..MaxWords : Read(how, w[n]) \in Word
         /\ ReadValue(how, w, 0) = 0
         /\ \A n \in 0..MaxWords :
                ReadValue(how, w, n + 1) = ReadValue(how, w, n) + Pow(n) * Read(how, w[n])
         /\ \A n \in 0..(MaxWords + 1) : ReadValue(how, w, n) \in 0..(Pow(n) - 1)
<1>1. ASSUME NEW n \in 0..MaxWords
      PROVE  /\ Read(how, w[n]) \in Word
             /\ ReadValue(how, w, n + 1) = ReadValue(how, w, n) + Pow(n) * Read(how, w[n])
  <2> DEFINE P == Pow(n)
             d == w[n]
             v == Value(w, n)
  <2>1. d \in 0..(B - 1) /\ P \in Nat /\ v \in Nat
    <3>1. n \in Nat /\ n \in 0..(MaxWords + 1)
      BY DEF Parameters
    <3>2. v \in 0..(P - 1) /\ P \in Nat
      BY <3>1, ValueSteps, PowSteps
    <3> QED BY <3>2 DEF Row, Word
  <2>2. Pow(n + 1) = B * P /\ Value(w, n + 1) = v + P * d
    BY ValueSteps, PowSteps DEF Parameters
  <2>3. P * (B - 1 - d) = B * P - P - P * d /\ P * (B - 1) = B * P - P /\ P * 0 = 0
    <3> HIDE DEF P, d
    <3> QED BY <2>1 DEF Parameters
  <2>4. Read(how, d) \in Word
    BY <2>1 DEF Read, Word, Parameters
  <2> HIDE DEF P, d, v
  <2>5. P * d \in Int /\ B * P \in Int
    BY <2>1 DEF Parameters
  <2>6. ReadValue(how, w, n) = IF how = "same" THEN v ELSE IF how = "complement" THEN P - 1 - v
                               ELSE IF how = "ones" THEN P - 1 ELSE 0
    BY DEF ReadValue, P, v
  <2>7. ReadValue(how, w, n + 1) = IF how = "same" THEN v + P * d
                                   ELSE IF how = "complement" THEN B * P - 1 - (v + P * d)
                                   ELSE IF how = "ones" THEN B * P - 1 ELSE 0
    BY <2>2 DEF ReadValue
  <2>8. P * Read(how, d) = IF how = "same" THEN P * d ELSE IF how = "complement" THEN B * P - P - P * d
                           ELSE IF how = "ones" THEN B * P - P ELSE 0
    BY <2>3 DEF Read
  <2>9. ReadValue(how, w, n + 1) = ReadValue(how, w, n) + P * Read(how, d)
    BY <2>1, <2>5, <2>6, <2>7, <2>8
  <2> QED BY <2>4, <2>9 DEF P, d
<1>2. ReadValue(how, w, 0) = 0
  BY ValueSteps, PowSteps DEF ReadValue
<1>3. \A n \in 0..(MaxWords + 1) : ReadValue(how, w, n) \in 0..(Pow(n) - 1)
  <2> SUFFICES ASSUME NEW n \in 0..(MaxWords + 1) PROVE ReadValue(how, w, n) \in 0..(Pow(n) - 1)
    OBVIOUS
  <2>1. Value(w, n) \in 0..(Pow(n) - 1) /\ Pow(n) \in Nat \ {0}
    BY ValueSteps, PowSteps DEF Parameters
  <2> QED BY <2>1 DEF ReadValue
<1> QED BY <1>1, <1>2, <1>3

Chain(s, mem, k, z, how1, b1, how2, b2, c) ==
    s = [j \in 0..k |->
            IF j = 0 THEN [mem |-> mem, carry |-> c]
            ELSE LET t == Read(how1, s[j - 1].mem[b1][j - 1]) + Read(how2, s[j - 1].mem[b2][j - 1])
                          + s[j - 1].carry
                 IN  [mem |-> Store(s[j - 1].mem, z, j - 1, t % B), carry |-> t \div B]]

LEMMA StoreType ==
  ASSUME Parameters, NEW s \in Memory, NEW z, NEW n \in 0..MaxWords, NEW d \in Word
  PROVE  Store(s, z, n, d) \in Memory
<1>1. Intact(s, s, z, n)
  BY DEF Intact
<1> QED BY <1>1, Stored DEF Intact

\* Two buffers added up word by word; either may be the one that is written.
LEMMA ChainExists ==
  ASSUME Parameters, NEW mem \in Memory, NEW k \in 0..MaxWords, NEW z, NEW how1, NEW b1 \in BufferNames,
         NEW how2, NEW b2 \in BufferNames, NEW c \in { 0, 1 }
  PROVE  \E s : Chain(s, mem, k, z, how1, b1, how2, b2, c)
<1> DEFINE S == [mem : Memory, carry : { 0, 1 }]
           W(s, j) == Read(how1, s.mem[b1][j]) + Read(how2, s.mem[b2][j]) + s.carry
           G(s, j) == [mem |-> Store(s.mem, z, j, W(s, j) % B), carry |-> W(s, j) \div B]
           g == [j \in 0..(k - 1) |-> [s \in S |-> G(s, j)]]
           e == [mem |-> mem, carry |-> c]
<1>1. ASSUME NEW j \in 0..(k - 1), NEW s \in S PROVE G(s, j) \in S
  <2>1. j \in 0..MaxWords
    BY DEF Parameters
  <2>2. s.mem \in Memory /\ s.carry \in { 0, 1 } /\ s.mem[b1] \in Row /\ s.mem[b2] \in Row
    BY DEF Memory
  <2>3. Read(how1, s.mem[b1][j]) \in Word /\ Read(how2, s.mem[b2][j]) \in Word
    BY <2>1, <2>2, ReadSteps
  <2> DEFINE t == W(s, j)
  <2>4. t \in 0..(2 * B - 1)
    BY <2>2, <2>3 DEF Word, Parameters
  <2> HIDE DEF t
  <2>5. t % B \in Word /\ t \div B \in { 0, 1 }
    BY <2>4, CarryOf
  <2>6. Store(s.mem, z, j, t % B) \in Memory
    BY <2>1, <2>2, <2>5, StoreType
  <2> QED BY <2>5, <2>6 DEF t
<1>2. g \in [0..(k - 1) -> [S -> S]] /\ e \in S /\ k \in Nat
  BY <1>1 DEF Parameters
<1>3. PICK f : Recursive(f, k, S, e, g)
  <2> HIDE DEF g, e, S
  <2> QED BY <1>2, LoopExists, Zenon
<1>4. f \in [0..k -> S] /\ f = [j \in 0..k |-> IF j = 0 THEN e ELSE g[j - 1][f[j - 1]]]
  BY <1>3 DEF Recursive
<1> HIDE DEF S
<1>5. ASSUME NEW j \in 0..k PROVE f[j] = IF j = 0 THEN e ELSE G(f[j - 1], j - 1)
  <2>1. CASE j = 0
    BY <1>4, <2>1
  <2>2. CASE j # 0
    <3>1. j - 1 \in 0..(k - 1) /\ j - 1 \in 0..k
      BY <2>2 DEF Parameters
    <3>2. f[j] = g[j - 1][f[j - 1]] /\ f[j - 1] \in S
      BY <1>4, <2>2, <3>1
    <3>3. g[j - 1][f[j - 1]] = G(f[j - 1], j - 1)
      <4> HIDE DEF G
      <4> QED BY <3>1, <3>2
    <3> QED BY <2>2, <3>2, <3>3
  <2> QED BY <2>1, <2>2
<1>6. f = [j \in 0..k |-> IF j = 0 THEN e ELSE G(f[j - 1], j - 1)]
  <2> HIDE DEF G, e, g
  <2> QED BY <1>4, <1>5
<1> QED BY <1>6 DEF Chain

\* What a chain of additions has written, and carries, is the sum.
LEMMA ChainSum ==
  ASSUME Parameters, NEW mem \in Memory, NEW k \in 0..MaxWords, NEW z, NEW how1, NEW b1 \in BufferNames,
         NEW how2, NEW b2 \in BufferNames, NEW c \in { 0, 1 }, NEW s,
         Chain(s, mem, k, z, how1, b1, how2, b2, c)
  PROVE  Summed(mem, s[k].mem, z, k, s[k].carry,
                ReadValue(how1, mem[b1], k) + ReadValue(how2, mem[b2], k) + c)
<1> DEFINE U(j) == ReadValue(how1, mem[b1], j)
           V(j) == ReadValue(how2, mem[b2], j)
           T == { j \in 0..k : Summed(mem, s[j].mem, z, j, s[j].carry, U(j) + V(j) + c) }
<1>1. mem[b1] \in Row /\ mem[b2] \in Row
  BY DEF Memory
<1>2. \A j \in 0..(MaxWords + 1) : U(j) \in Int /\ V(j) \in Int
  <2> SUFFICES ASSUME NEW j \in 0..(MaxWords + 1) PROVE U(j) \in Int /\ V(j) \in Int
    OBVIOUS
  <2>1. U(j) \in 0..(Pow(j) - 1) /\ V(j) \in 0..(Pow(j) - 1)
    BY <1>1, ReadSteps
  <2> QED BY <2>1
<1>3. 0 \in T
  <2>1. 0 \in 0..k
    BY DEF Parameters
  <2>2. s[0] = [mem |-> mem, carry |-> c]
    BY <2>1 DEF Chain
  <2>3. U(0) = 0 /\ V(0) = 0 /\ Pow(0) = 1
    BY <1>1, ReadSteps, PowSteps
  <2>4. Intact(mem, mem, z, 0)
    BY DEF Intact
  <2>5. z \in BufferNames => Value(mem[z], 0) = 0
    BY ValueSteps DEF Memory
  <2>6. 0 \in 0..(Pow(0) - 1) /\ 0 + Pow(0) * c = U(0) + V(0) + c
    BY <2>3
  <2> HIDE DEF U, V
  <2>7. Summed(mem, mem, z, 0, c, U(0) + V(0) + c)
    BY <2>4, <2>5, <2>6 DEF Summed
  <2> QED BY <2>1, <2>2, <2>7
<1>4. ASSUME NEW j \in 0..(k - 1), j \in T PROVE j + 1 \in T
  <2>1. j \in 0..MaxWords /\ j + 1 \in 0..k /\ j + 1 # 0 /\ (j + 1) - 1 = j
    BY DEF Parameters
  <2> DEFINE u == Read(how1, mem[b1][j])
             v == Read(how2, mem[b2][j])
             t == u + v + s[j].carry
  <2>2. s[j].mem[b1][j] = mem[b1][j] /\ s[j].mem[b2][j] = mem[b2][j]
    BY <1>4, <2>1 DEF Summed, Intact, Parameters
  <2>3. s[j + 1] = [mem |-> Store(s[j].mem, z, j, t % B), carry |-> t \div B]
    <3> DEFINE W(r, n) == Read(how1, r.mem[b1][n]) + Read(how2, r.mem[b2][n]) + r.carry
               G(r, n) == [mem |-> Store(r.mem, z, n, W(r, n) % B), carry |-> W(r, n) \div B]
    <3>1. s = [n \in 0..k |-> IF n = 0 THEN [mem |-> mem, carry |-> c] ELSE G(s[n - 1], n - 1)]
      BY DEF Chain
    <3>2. G(s[j], j) = [mem |-> Store(s[j].mem, z, j, t % B), carry |-> t \div B]
      BY <2>2
    <3>3. s[j + 1] = G(s[j], j)
      <4> HIDE DEF G
      <4> QED BY <2>1, <3>1
    <3> QED BY <3>2, <3>3
  <2>4. u \in Word /\ v \in Word
    BY <1>1, <2>1, ReadSteps
  <2>5. U(j) \in Int /\ V(j) \in Int /\ Pow(j) \in Int
    BY <1>2, <2>1, PowSteps DEF Parameters
  <2>6. U(j + 1) = U(j) + Pow(j) * u /\ V(j + 1) = V(j) + Pow(j) * v
    BY <1>1, <2>1, ReadSteps
  <2>7. Summed(mem, s[j].mem, z, j, s[j].carry, U(j) + V(j) + c)
    BY <1>4
  <2> HIDE DEF U, V, u, v, T
  <2>8. Summed(mem, s[j + 1].mem, z, j + 1, s[j + 1].carry, (U(j) + V(j) + c) + Pow(j) * (u + v))
    <3>1. U(j) + V(j) + c \in Int
      BY <2>5
    <3>2. s[j + 1].mem = Store(s[j].mem, z, j, (u + v + s[j].carry) % B)
          /\ s[j + 1].carry = (u + v + s[j].carry) \div B
      BY <2>3
    <3>3. Summed(mem, Store(s[j].mem, z, j, (u + v + s[j].carry) % B), z, j + 1,
                 (u + v + s[j].carry) \div B, (U(j) + V(j) + c) + Pow(j) * (u + v))
      BY <2>1, <2>4, <2>7, <3>1, SummedStep
    <3> QED BY <3>2, <3>3
  <2>9. (U(j) + V(j) + c) + Pow(j) * (u + v) = U(j + 1) + V(j + 1) + c
    <3>1. Pow(j) * (u + v) = Pow(j) * u + Pow(j) * v /\ Pow(j) * u \in Int /\ Pow(j) * v \in Int
      BY <2>4, <2>5 DEF Word, Parameters
    <3> QED BY <2>5, <2>6, <3>1
  <2> QED BY <2>1, <2>8, <2>9 DEF T
<1>5. 0..k \subseteq T
  <2> HIDE DEF T
  <2>1. k \in Nat BY DEF Parameters
  <2> QED BY <1>3, <1>4, <2>1, LoopInduction
<1>6. k \in T
  BY <1>5 DEF Parameters
<1> QED BY <1>6

\* What is read back at the end
LEMMA SumLeft ==
  ASSUME Parameters, NEW mem \in Memory, NEW s, NEW z \in BufferNames, NEW k \in 0..MaxWords, NEW c, NEW total,
         Summed(mem, s, z, k, c, total)
  PROVE  Left(mem, s, z, k) \in 0..(Pow(k) - 1) /\ Left(mem, s, z, k) + Pow(k) * c = total
<1>1. \A j \in k..MaxWords : s[z][j] = mem[z][j]
  BY DEF Summed, Intact, Parameters
<1> QED BY <1>1 DEF Summed, Left

LEMMA BuffersHold ==
  ASSUME Parameters, NEW k \in 0..MaxWords, NEW x \in Numbers(k), NEW y \in Numbers(k), NEW m \in Numbers(k)
  PROVE  /\ Buffers(k, x, y, m) \in Memory
         /\ Value(Buffers(k, x, y, m)["x"], k) = x
         /\ Value(Buffers(k, x, y, m)["y"], k) = y
         /\ Value(Buffers(k, x, y, m)["m"], k) = m
<1>1. 0 \in Numbers(0) /\ 0 \in 0..MaxWords
  BY PowSteps DEF Parameters, Numbers
<1>2. Words(x, k) \in Row /\ Words(y, k) \in Row /\ Words(m, k) \in Row /\ Words(0, 0) \in Row
  BY <1>1, WordsValue
<1>3. Buffers(k, x, y, m) \in Memory
  BY <1>2 DEF Buffers, Memory, BufferNames
<1> QED BY <1>3, WordsValue DEF Buffers

\* What a loop that a function chooses leaves: a sum of two numbers
IsSum(sum, mem, k, z, how1, b1, how2, b2, c) ==
    Summed(mem, sum.mem, z, k, sum.carry, ReadValue(how1, mem[b1], k) + ReadValue(how2, mem[b2], k) + c)

\* A loop that is such a chain returns the sum.
LEMMA ChosenSum ==
  ASSUME Parameters, NEW mem \in Memory, NEW k \in 0..MaxWords, NEW z, NEW how1, NEW b1 \in BufferNames,
         NEW how2, NEW b2 \in BufferNames, NEW c \in { 0, 1 }, NEW f,
         (\E s : Chain(s, mem, k, z, how1, b1, how2, b2, c)) => Chain(f, mem, k, z, how1, b1, how2, b2, c)
  PROVE  IsSum(f[k], mem, k, z, how1, b1, how2, b2, c)
<1>1. Chain(f, mem, k, z, how1, b1, how2, b2, c)
  BY ChainExists
<1> QED BY <1>1, ChainSum DEF IsSum

LEMMA SumIsSum ==
  ASSUME Parameters, NEW mem \in Memory, NEW k \in 0..MaxWords, NEW z
  PROVE  IsSum(Sum(mem, k, z), mem, k, z, "same", "x", "same", "y", 0)
<1> DEFINE C(s) == s = [j \in 0..k |->
                         IF j = 0 THEN [mem |-> mem, carry |-> 0]
                         ELSE LET t == X(s[j - 1].mem, j - 1) + Y(s[j - 1].mem, j - 1) + s[j - 1].carry
                              IN  [mem |-> Store(s[j - 1].mem, z, j - 1, t % B), carry |-> t \div B]]
           f == CHOOSE s : C(s)
<1>1. Sum(mem, k, z) = f[k]
  BY DEF Sum, Added, Subtracted, Up
<1>2. \A s : C(s) <=> Chain(s, mem, k, z, "same", "x", "same", "y", 0)
  BY DEF Chain, Read, X, Y
<1>3. (\E s : C(s)) => C(f)
  OBVIOUS
<1>4. "x" \in BufferNames /\ "y" \in BufferNames /\ 0 \in { 0, 1 }
  BY DEF BufferNames, Flag
<1> HIDE DEF C, f
<1> QED BY <1>1, <1>2, <1>3, <1>4, ChosenSum

LEMMA LessModulusIsSum ==
  ASSUME Parameters, NEW mem \in Memory, NEW k \in 0..MaxWords, NEW z \in BufferNames
  PROVE  IsSum(LessModulus(mem, k, z), mem, k, "none", "same", z, "complement", "m", 1)
<1> DEFINE C(s) == s = [j \in 0..k |->
                         IF j = 0 THEN [mem |-> mem, carry |-> 1]
                         ELSE LET t == s[j - 1].mem[z][j - 1] + (B - 1 - M(s[j - 1].mem, j - 1)) + s[j - 1].carry
                              IN  [mem |-> Store(s[j - 1].mem, "none", j - 1, t % B), carry |-> t \div B]]
           f == CHOOSE s : C(s)
<1>1. LessModulus(mem, k, z) = f[k]
  BY DEF LessModulus, Added, Subtracted, Up
<1>2. \A s : C(s) <=> Chain(s, mem, k, "none", "same", z, "complement", "m", 1)
  BY DEF Chain, Read, M
<1>3. (\E s : C(s)) => C(f)
  OBVIOUS
<1>4. z \in BufferNames /\ "m" \in BufferNames /\ 1 \in { 0, 1 }
  BY DEF BufferNames, Flag
<1> HIDE DEF C, f
<1> QED BY <1>1, <1>2, <1>3, <1>4, ChosenSum

LEMMA LoweredIsSum ==
  ASSUME Parameters, NEW mem \in Memory, NEW k \in 0..MaxWords, NEW z \in BufferNames, NEW c \in BOOLEAN
  PROVE  IsSum(Lowered(mem, k, z, c), mem, k, z, "same", z, (IF c THEN "complement" ELSE "ones"), "m", 1)
<1> DEFINE C(s) == s = [j \in 0..k |->
                         IF j = 0 THEN [mem |-> mem, carry |-> 1]
                         ELSE LET t == s[j - 1].mem[z][j - 1] + (B - 1 - Under(c, M(s[j - 1].mem, j - 1))) + s[j - 1].carry
                              IN  [mem |-> Store(s[j - 1].mem, z, j - 1, t % B), carry |-> t \div B]]
           f == CHOOSE s : C(s)
<1>1. Lowered(mem, k, z, c) = f[k]
  BY DEF Lowered, Added, Subtracted, Up
<1>2. \A w : Read(IF c THEN "complement" ELSE "ones", w) = B - 1 - Under(c, w)
  BY DEF Read, Under, Parameters
<1>3. \A w : Read("same", w) = w
  BY DEF Read
<1>4. \A s : C(s) <=> Chain(s, mem, k, z, "same", z, (IF c THEN "complement" ELSE "ones"), "m", 1)
  BY <1>2, <1>3 DEF Chain, M
<1>5. (\E s : C(s)) => C(f)
  OBVIOUS
<1>6. z \in BufferNames /\ "m" \in BufferNames /\ 1 \in { 0, 1 }
  BY DEF BufferNames, Flag
<1> HIDE DEF C, f
<1> QED BY <1>1, <1>4, <1>5, <1>6, ChosenSum

LEMMA CorrectedIsSum ==
  ASSUME Parameters, NEW mem \in Memory, NEW k \in 0..MaxWords, NEW z \in BufferNames, NEW c \in BOOLEAN
  PROVE  IsSum(Corrected(mem, k, z, c), mem, k, z, "same", z, (IF c THEN "same" ELSE "zero"), "m", 0)
<1> DEFINE C(s) == s = [j \in 0..k |->
                         IF j = 0 THEN [mem |-> mem, carry |-> 0]
                         ELSE LET t == s[j - 1].mem[z][j - 1] + Under(c, M(s[j - 1].mem, j - 1)) + s[j - 1].carry
                              IN  [mem |-> Store(s[j - 1].mem, z, j - 1, t % B), carry |-> t \div B]]
           f == CHOOSE s : C(s)
<1>1. Corrected(mem, k, z, c) = f[k]
  BY DEF Corrected, Added, Subtracted, Up
<1>2. \A s : C(s) <=> Chain(s, mem, k, z, "same", z, (IF c THEN "same" ELSE "zero"), "m", 0)
  BY DEF Chain, Read, M, Under
<1>3. (\E s : C(s)) => C(f)
  OBVIOUS
<1>4. z \in BufferNames /\ "m" \in BufferNames /\ 0 \in { 0, 1 }
  BY DEF BufferNames, Flag
<1> HIDE DEF C, f
<1> QED BY <1>1, <1>2, <1>3, <1>4, ChosenSum

LEMMA DifferenceIsSum ==
  ASSUME Parameters, NEW mem \in Memory, NEW k \in 0..MaxWords, NEW z
  PROVE  IsSum(Difference(mem, k, z), mem, k, z, "same", "x", "complement", "y", 1)
<1> DEFINE C(s) == s = [j \in 0..k |->
                         IF j = 0 THEN [mem |-> mem, carry |-> 1]
                         ELSE LET t == X(s[j - 1].mem, j - 1) + (B - 1 - Y(s[j - 1].mem, j - 1)) + s[j - 1].carry
                              IN  [mem |-> Store(s[j - 1].mem, z, j - 1, t % B), carry |-> t \div B]]
           f == CHOOSE s : C(s)
<1>1. Difference(mem, k, z) = f[k]
  BY DEF Difference, Added, Subtracted, Up
<1>2. \A s : C(s) <=> Chain(s, mem, k, z, "same", "x", "complement", "y", 1)
  BY DEF Chain, Read, X, Y
<1>3. (\E s : C(s)) => C(f)
  OBVIOUS
<1>4. "x" \in BufferNames /\ "y" \in BufferNames /\ 1 \in { 0, 1 }
  BY DEF BufferNames, Flag
<1> HIDE DEF C, f
<1> QED BY <1>1, <1>2, <1>3, <1>4, ChosenSum

LEMMA NegatedIsSum ==
  ASSUME Parameters, NEW mem \in Memory, NEW k \in 0..MaxWords, NEW z, NEW q \in BOOLEAN
  PROVE  IsSum(Negated(mem, k, z, q), mem, k, z, (IF q THEN "same" ELSE "zero"), "m", (IF q THEN "complement" ELSE "same"), "x", Flag(q))
<1> DEFINE C(s) == s = [j \in 0..k |->
                         IF j = 0 THEN [mem |-> mem, carry |-> Flag(q)]
                         ELSE LET t == Under(q, M(s[j - 1].mem, j - 1)) + (IF q THEN B - 1 - X(s[j - 1].mem, j - 1) ELSE X(s[j - 1].mem, j - 1)) + s[j - 1].carry
                              IN  [mem |-> Store(s[j - 1].mem, z, j - 1, t % B), carry |-> t \div B]]
           f == CHOOSE s : C(s)
<1>1. Negated(mem, k, z, q) = f[k]
  BY DEF Negated, Added, Subtracted, Up
<1>2. \A s : C(s) <=> Chain(s, mem, k, z, (IF q THEN "same" ELSE "zero"), "m", (IF q THEN "complement" ELSE "same"), "x", Flag(q))
  BY DEF Chain, Read, X, M, Under
<1>3. (\E s : C(s)) => C(f)
  OBVIOUS
<1>4. "m" \in BufferNames /\ "x" \in BufferNames /\ Flag(q) \in { 0, 1 }
  BY DEF BufferNames, Flag
<1> HIDE DEF C, f
<1> QED BY <1>1, <1>2, <1>3, <1>4, ChosenSum

LEMMA OptionalSumIsSum ==
  ASSUME Parameters, NEW mem \in Memory, NEW k \in 0..MaxWords, NEW z, NEW p \in BOOLEAN
  PROVE  IsSum(OptionalSum(mem, k, z, p), mem, k, z, "same", "x", (IF p THEN "same" ELSE "zero"), "y", 0)
<1> DEFINE C(s) == s = [j \in 0..k |->
                         IF j = 0 THEN [mem |-> mem, carry |-> 0]
                         ELSE LET t == X(s[j - 1].mem, j - 1) + Under(p, Y(s[j - 1].mem, j - 1)) + s[j - 1].carry
                              IN  [mem |-> Store(s[j - 1].mem, z, j - 1, t % B), carry |-> t \div B]]
           f == CHOOSE s : C(s)
<1>1. OptionalSum(mem, k, z, p) = f[k]
  BY DEF OptionalSum, Added, Subtracted, Up
<1>2. \A s : C(s) <=> Chain(s, mem, k, z, "same", "x", (IF p THEN "same" ELSE "zero"), "y", 0)
  BY DEF Chain, Read, X, Y, Under
<1>3. (\E s : C(s)) => C(f)
  OBVIOUS
<1>4. "x" \in BufferNames /\ "y" \in BufferNames /\ 0 \in { 0, 1 }
  BY DEF BufferNames, Flag
<1> HIDE DEF C, f
<1> QED BY <1>1, <1>2, <1>3, <1>4, ChosenSum

LEMMA OptionalDifferenceIsSum ==
  ASSUME Parameters, NEW mem \in Memory, NEW k \in 0..MaxWords, NEW z, NEW p \in BOOLEAN
  PROVE  IsSum(OptionalDifference(mem, k, z, p), mem, k, z, "same", "x", (IF p THEN "complement" ELSE "ones"), "y", 1)
<1> DEFINE C(s) == s = [j \in 0..k |->
                         IF j = 0 THEN [mem |-> mem, carry |-> 1]
                         ELSE LET t == X(s[j - 1].mem, j - 1) + (B - 1 - Under(p, Y(s[j - 1].mem, j - 1))) + s[j - 1].carry
                              IN  [mem |-> Store(s[j - 1].mem, z, j - 1, t % B), carry |-> t \div B]]
           f == CHOOSE s : C(s)
<1>1. OptionalDifference(mem, k, z, p) = f[k]
  BY DEF OptionalDifference, Added, Subtracted, Up
<1>2. \A w : Read(IF p THEN "complement" ELSE "ones", w) = B - 1 - Under(p, w)
  BY DEF Read, Under, Parameters
<1>3. \A w : Read("same", w) = w
  BY DEF Read
<1>4. \A s : C(s) <=> Chain(s, mem, k, z, "same", "x", (IF p THEN "complement" ELSE "ones"), "y", 1)
  BY <1>2, <1>3 DEF Chain, X, Y
<1>5. (\E s : C(s)) => C(f)
  OBVIOUS
<1>6. "x" \in BufferNames /\ "y" \in BufferNames /\ 1 \in { 0, 1 }
  BY DEF BufferNames, Flag
<1> HIDE DEF C, f
<1> QED BY <1>1, <1>4, <1>5, <1>6, ChosenSum

LEMMA OptionalNegationIsSum ==
  ASSUME Parameters, NEW mem \in Memory, NEW k \in 0..MaxWords, NEW z, NEW p \in BOOLEAN
  PROVE  IsSum(OptionalNegation(mem, k, z, p), mem, k, z, (IF p THEN "complement" ELSE "same"), "x", "zero", "x", Flag(p))
<1> DEFINE C(s) == s = [j \in 0..k |->
                         IF j = 0 THEN [mem |-> mem, carry |-> Flag(p)]
                         ELSE LET t == (IF p THEN B - 1 - X(s[j - 1].mem, j - 1) ELSE X(s[j - 1].mem, j - 1)) + 0 + s[j - 1].carry
                              IN  [mem |-> Store(s[j - 1].mem, z, j - 1, t % B), carry |-> t \div B]]
           f == CHOOSE s : C(s)
<1>1. OptionalNegation(mem, k, z, p) = f[k]
  BY DEF OptionalNegation, Added, Subtracted, Up
<1>2. \A s : C(s) <=> Chain(s, mem, k, z, (IF p THEN "complement" ELSE "same"), "x", "zero", "x", Flag(p))
  BY DEF Chain, Read, X
<1>3. (\E s : C(s)) => C(f)
  OBVIOUS
<1>4. "x" \in BufferNames /\ "x" \in BufferNames /\ Flag(p) \in { 0, 1 }
  BY DEF BufferNames, Flag
<1> HIDE DEF C, f
<1> QED BY <1>1, <1>2, <1>3, <1>4, ChosenSum

LEMMA SignedSumIsSum ==
  ASSUME Parameters, NEW mem \in Memory, NEW k \in 0..MaxWords, NEW z, NEW p \in BOOLEAN, NEW q \in BOOLEAN
  PROVE  IsSum(SignedSum(mem, k, z, p, q), mem, k, z, "same", "x", (IF p THEN IF q THEN "complement" ELSE "same" ELSE "zero"), "y", Flag(q))
<1> DEFINE C(s) == s = [j \in 0..k |->
                         IF j = 0 THEN [mem |-> mem, carry |-> Flag(q)]
                         ELSE LET t == X(s[j - 1].mem, j - 1) + Under(p, IF q THEN B - 1 - Y(s[j - 1].mem, j - 1) ELSE Y(s[j - 1].mem, j - 1)) + s[j - 1].carry
                              IN  [mem |-> Store(s[j - 1].mem, z, j - 1, t % B), carry |-> t \div B]]
           f == CHOOSE s : C(s)
<1>1. SignedSum(mem, k, z, p, q) = f[k]
  BY DEF SignedSum, Added, Subtracted, Up
<1>2. \A s : C(s) <=> Chain(s, mem, k, z, "same", "x", (IF p THEN IF q THEN "complement" ELSE "same" ELSE "zero"), "y", Flag(q))
  BY DEF Chain, Read, X, Y, Under
<1>3. (\E s : C(s)) => C(f)
  OBVIOUS
<1>4. "x" \in BufferNames /\ "y" \in BufferNames /\ Flag(q) \in { 0, 1 }
  BY DEF BufferNames, Flag
<1> HIDE DEF C, f
<1> QED BY <1>1, <1>2, <1>3, <1>4, ChosenSum

(***************************************************************************)
(* The functions                                                           *)
(***************************************************************************)
LEMMA ContractPow == Contract!B = B /\ \A n : Contract!Pow(n) = Pow(n)
  BY DEF Contract!Pow, Pow, Contract!B, B, Contract!bits

LEMMA PowPositive == Parameters => \A k \in 0..MaxWords : Pow(k) \in Nat \ {0} /\ 0 \in Numbers(k)
  BY PowSteps DEF Numbers, Parameters

\* A sum under a condition, as numbers
LEMMA SumOfNumbers ==
  ASSUME Parameters, NEW mem \in Memory, NEW k \in 0..MaxWords, NEW z \in BufferNames, NEW how1, NEW b1,
         NEW how2, NEW b2, NEW c, NEW sum, IsSum(sum, mem, k, z, how1, b1, how2, b2, c)
  PROVE  /\ sum.carry \in { 0, 1 }
         /\ Left(mem, sum.mem, z, k) \in 0..(Pow(k) - 1)
         /\ Left(mem, sum.mem, z, k) + Pow(k) * sum.carry
            = ReadValue(how1, mem[b1], k) + ReadValue(how2, mem[b2], k) + c
<1> DEFINE total == ReadValue(how1, mem[b1], k) + ReadValue(how2, mem[b2], k) + c
<1>1. Summed(mem, sum.mem, z, k, sum.carry, total)
  BY DEF IsSum
<1>2. sum.carry \in { 0, 1 }
  BY <1>1 DEF Summed
<1> HIDE DEF total
<1>3. Left(mem, sum.mem, z, k) \in 0..(Pow(k) - 1) /\ Left(mem, sum.mem, z, k) + Pow(k) * sum.carry = total
  BY <1>1, SumLeft
<1> QED BY <1>2, <1>3 DEF total

LEMMA TimesFlag == \A P \in Nat : P * 0 = 0 /\ P * 1 = P
  OBVIOUS

LEMMA OptaddPromise == Parameters /\ Optadd => Contract!Optadd'
<1> SUFFICES ASSUME Parameters, Optadd PROVE Contract!Optadd'
  OBVIOUS
<1> DEFINE Returns(k, x, y, p, z) ==
             LET mem == Buffers(k, x, y, 0)
                 s == OptionalSum(mem, k, z, p # 0)
             IN  Call("optadd", << k, x, p, y >>, << Left(mem, s.mem, z, k), s.carry >>)
<1>1. PICK k \in Lengths : \E x, y \in Numbers(k), p \in Flags, z \in { "x", "y", "z" } : Returns(k, x, y, p, z)
  BY DEF Optadd
<1>2. PICK x \in Numbers(k), y \in Numbers(k), p \in Flags, z \in { "x", "y", "z" } : Returns(k, x, y, p, z)
  BY <1>1
<1> DEFINE mem == Buffers(k, x, y, 0)
           sum == OptionalSum(mem, k, z, p # 0)
           r == Left(mem, sum.mem, z, k)
           how == IF p # 0 THEN "same" ELSE "zero"
<1>3. Call("optadd", << k, x, p, y >>, << r, sum.carry >>)
  BY <1>2
<1>4. k \in 0..MaxWords /\ 0 \in Numbers(k) /\ z \in BufferNames /\ (p # 0) \in BOOLEAN
  BY PowPositive DEF Lengths, BufferNames
<1>5. mem \in Memory /\ Value(mem["x"], k) = x /\ Value(mem["y"], k) = y
  BY <1>4, BuffersHold
<1>6. IsSum(sum, mem, k, z, "same", "x", how, "y", 0)
  BY <1>4, <1>5, OptionalSumIsSum
<1> HIDE DEF mem, sum
<1>7. r + Pow(k) * sum.carry = x + IF p # 0 THEN y ELSE 0
  <2>1. ReadValue("same", mem["x"], k) + ReadValue(how, mem["y"], k) + 0 = x + IF p # 0 THEN y ELSE 0
    BY <1>5 DEF ReadValue, Numbers
  <2> QED BY <1>4, <1>5, <1>6, <2>1, SumOfNumbers
<1> HIDE DEF r
<1> QED BY <1>3, <1>7, ContractPow DEF Call, Contract!Optadd, Contract!Is, Contract!result, Contract!carry,
           Contract!R, Contract!k, Contract!x, Contract!y

LEMMA OptsubPromise == Parameters /\ Optsub => Contract!Optsub'
<1> SUFFICES ASSUME Parameters, Optsub PROVE Contract!Optsub'
  OBVIOUS
<1> DEFINE Returns(k, x, y, p, z) ==
             LET mem == Buffers(k, x, y, 0)
                 s == OptionalDifference(mem, k, z, p # 0)
             IN  Call("optsub", << k, x, p, y >>, << Left(mem, s.mem, z, k), 1 - s.carry >>)
<1>1. PICK k \in Lengths : \E x, y \in Numbers(k), p \in Flags, z \in { "x", "y", "z" } : Returns(k, x, y, p, z)
  BY DEF Optsub
<1>2. PICK x \in Numbers(k), y \in Numbers(k), p \in Flags, z \in { "x", "y", "z" } : Returns(k, x, y, p, z)
  BY <1>1
<1> DEFINE mem == Buffers(k, x, y, 0)
           sum == OptionalDifference(mem, k, z, p # 0)
           r == Left(mem, sum.mem, z, k)
           how == IF p # 0 THEN "complement" ELSE "ones"
<1>3. Call("optsub", << k, x, p, y >>, << r, 1 - sum.carry >>)
  BY <1>2
<1>4. /\ k \in 0..MaxWords /\ 0 \in Numbers(k) /\ z \in BufferNames /\ (p # 0) \in BOOLEAN
      /\ Pow(k) \in Nat
  BY PowPositive DEF Lengths, BufferNames
<1>5. mem \in Memory /\ Value(mem["x"], k) = x /\ Value(mem["y"], k) = y
  BY <1>4, BuffersHold
<1>6. IsSum(sum, mem, k, z, "same", "x", how, "y", 1)
  BY <1>4, <1>5, OptionalDifferenceIsSum
<1> HIDE DEF mem, sum
<1>7. r - Pow(k) * (1 - sum.carry) = x - IF p # 0 THEN y ELSE 0
  <2>1. ReadValue("same", mem["x"], k) + ReadValue(how, mem["y"], k) + 1
        = x + Pow(k) - IF p # 0 THEN y ELSE 0
    BY <1>4, <1>5 DEF ReadValue, Numbers
  <2>2. /\ sum.carry \in { 0, 1 } /\ r \in 0..(Pow(k) - 1)
        /\ r + Pow(k) * sum.carry = x + Pow(k) - IF p # 0 THEN y ELSE 0
    BY <1>4, <1>5, <1>6, <2>1, SumOfNumbers
  <2> HIDE DEF r
  <2> QED BY <1>4, <2>2, TimesFlag DEF Numbers
<1> HIDE DEF r
<1> QED BY <1>3, <1>7, ContractPow DEF Call, Contract!Optsub, Contract!Is, Contract!result, Contract!carry,
           Contract!R, Contract!k, Contract!x, Contract!y

LEMMA OptnegPromise == Parameters /\ Optneg => Contract!Optneg'
<1> SUFFICES ASSUME Parameters, Optneg PROVE Contract!Optneg'
  OBVIOUS
<1> DEFINE Returns(k, x, p, z) ==
             LET mem == Buffers(k, x, 0, 0)
                 s == OptionalNegation(mem, k, z, p # 0)
             IN  Call("optneg", << k, x, p >>,
                      << Left(mem, s.mem, z, k), IF k = 0 THEN 0 ELSE (s.carry + Flag(p # 0)) % 2 >>)
<1>1. PICK k \in Lengths : \E x \in Numbers(k), p \in Flags, z \in { "x", "z" } : Returns(k, x, p, z)
  BY DEF Optneg
<1>2. PICK x \in Numbers(k), p \in Flags, z \in { "x", "z" } : Returns(k, x, p, z)
  BY <1>1
<1> DEFINE mem == Buffers(k, x, 0, 0)
           sum == OptionalNegation(mem, k, z, p # 0)
           r == Left(mem, sum.mem, z, k)
           c == IF k = 0 THEN 0 ELSE (sum.carry + Flag(p # 0)) % 2
           how == IF p # 0 THEN "complement" ELSE "same"
<1>3. Call("optneg", << k, x, p >>, << r, c >>)
  BY <1>2
<1>4. /\ k \in 0..MaxWords /\ 0 \in Numbers(k) /\ z \in BufferNames /\ (p # 0) \in BOOLEAN
      /\ Pow(k) \in Nat /\ (k = 0 => Pow(k) = 1)
  BY PowPositive, PowSteps DEF Lengths, BufferNames
<1>5. mem \in Memory /\ Value(mem["x"], k) = x
  BY <1>4, BuffersHold
<1>6. IsSum(sum, mem, k, z, how, "x", "zero", "x", Flag(p # 0))
  BY <1>4, <1>5, OptionalNegationIsSum
<1> HIDE DEF mem, sum
<1>7. r - Pow(k) * c = IF p # 0 THEN -x ELSE x
  <2>1. ReadValue(how, mem["x"], k) + ReadValue("zero", mem["x"], k) + Flag(p # 0)
        = IF p # 0 THEN Pow(k) - x ELSE x
    BY <1>4, <1>5 DEF ReadValue, Numbers, Flag
  <2>2. /\ sum.carry \in { 0, 1 } /\ r \in 0..(Pow(k) - 1)
        /\ r + Pow(k) * sum.carry = IF p # 0 THEN Pow(k) - x ELSE x
    BY <1>4, <1>5, <1>6, <2>1, SumOfNumbers
  <2>3. k # 0 => c = IF p # 0 THEN 1 - sum.carry ELSE sum.carry
    BY <2>2 DEF Flag
  <2>4. k = 0 => c = 0
    OBVIOUS
  <2> HIDE DEF r, c
  <2>5. x \in 0..(Pow(k) - 1)
    BY DEF Numbers
  <2> QED BY <1>4, <2>2, <2>3, <2>4, <2>5, TimesFlag
<1> HIDE DEF r, c
<1> QED BY <1>3, <1>7, ContractPow DEF Call, Contract!Optneg, Contract!Is, Contract!result, Contract!carry,
           Contract!R, Contract!k, Contract!x, Contract!y

LEMMA OptsubaddPromise == Parameters /\ Optsubadd => Contract!Optsubadd'
<1> SUFFICES ASSUME Parameters, Optsubadd PROVE Contract!Optsubadd'
  OBVIOUS
<1> DEFINE Returns(k, x, y, p, z) ==
             LET mem == Buffers(k, x, y, 0)
                 q == p >= B \div 2
                 s == SignedSum(mem, k, z, p # 0, q)
             IN  Call("optsubadd", << k, x, p, y >>,
                      << Left(mem, s.mem, z, k), IF k = 0 THEN 0 ELSE (s.carry + Flag(q)) % 2 >>)
<1>1. PICK k \in Lengths : \E x, y \in Numbers(k), p \in Flags, z \in { "x", "y", "z" } : Returns(k, x, y, p, z)
  BY DEF Optsubadd
<1>2. PICK x \in Numbers(k), y \in Numbers(k), p \in Flags, z \in { "x", "y", "z" } : Returns(k, x, y, p, z)
  BY <1>1
<1> DEFINE mem == Buffers(k, x, y, 0)
           q == p >= B \div 2
           sum == SignedSum(mem, k, z, p # 0, q)
           r == Left(mem, sum.mem, z, k)
           c == IF k = 0 THEN 0 ELSE (sum.carry + Flag(q)) % 2
           how == IF p # 0 THEN IF q THEN "complement" ELSE "same" ELSE "zero"
<1>3. Call("optsubadd", << k, x, p, y >>, << r, c >>)
  BY <1>2
<1>4. /\ k \in 0..MaxWords /\ 0 \in Numbers(k) /\ z \in BufferNames /\ (p # 0) \in BOOLEAN /\ q \in BOOLEAN
      /\ Pow(k) \in Nat /\ (k = 0 => Pow(k) = 1)
  BY PowPositive, PowSteps DEF Lengths, BufferNames
<1>5. mem \in Memory /\ Value(mem["x"], k) = x /\ Value(mem["y"], k) = y
  BY <1>4, BuffersHold
<1>6. IsSum(sum, mem, k, z, "same", "x", how, "y", Flag(q))
  BY <1>4, <1>5, SignedSumIsSum
<1>7. p = 0 => ~q
  BY DEF Parameters
<1> HIDE DEF mem, sum, q
<1>8. IF p = 0 THEN r = x /\ c = 0
      ELSE IF ~q THEN r + Pow(k) * c = x + y ELSE r - Pow(k) * c = x - y
  <2>1. ReadValue("same", mem["x"], k) + ReadValue(how, mem["y"], k) + Flag(q)
        = IF p = 0 THEN x ELSE IF ~q THEN x + y ELSE x + Pow(k) - y
    BY <1>4, <1>5, <1>7 DEF ReadValue, Numbers, Flag
  <2>2. /\ sum.carry \in { 0, 1 } /\ r \in 0..(Pow(k) - 1)
        /\ r + Pow(k) * sum.carry = IF p = 0 THEN x ELSE IF ~q THEN x + y ELSE x + Pow(k) - y
    BY <1>4, <1>5, <1>6, <2>1, SumOfNumbers
  <2>3. k # 0 => c = IF q THEN 1 - sum.carry ELSE sum.carry
    BY <1>4, <2>2 DEF Flag
  <2>4. k = 0 => c = 0
    OBVIOUS
  <2> HIDE DEF r, c
  <2>5. x \in 0..(Pow(k) - 1) /\ y \in 0..(Pow(k) - 1)
    BY DEF Numbers
  <2> QED BY <1>4, <1>7, <2>2, <2>3, <2>4, <2>5, TimesFlag
<1>9. ~q <=> p < B \div 2
  BY DEF q, Flags, Parameters
<1> HIDE DEF r, c
<1> QED BY <1>3, <1>8, <1>9, ContractPow DEF Call, Contract!Optsubadd, Contract!Is, Contract!result, Contract!carry,
           Contract!R, Contract!k, Contract!x, Contract!y

\* A sum that is stored, as it is found in memory: the number, the carry out
\* of it, and everything else as it was
Holds(mem, s, z, k, q, c, total) ==
    /\ Intact(mem, s, z, k) /\ Value(s[z], k) = q
    /\ q \in 0..(Pow(k) - 1) /\ c \in { 0, 1 } /\ q + Pow(k) * c = total

LEMMA SumHolds ==
  ASSUME Parameters, NEW mem \in Memory, NEW k \in 0..MaxWords, NEW z \in BufferNames, NEW how1, NEW b1,
         NEW how2, NEW b2, NEW c, NEW sum, IsSum(sum, mem, k, z, how1, b1, how2, b2, c)
  PROVE  Holds(mem, sum.mem, z, k, Value(sum.mem[z], k), sum.carry,
               ReadValue(how1, mem[b1], k) + ReadValue(how2, mem[b2], k) + c)
  BY DEF IsSum, Summed, Holds

LEMMA Untouched ==
  ASSUME Parameters, NEW mem \in Memory, NEW s, NEW k \in 0..MaxWords, NEW z \in BufferNames,
         NEW b \in BufferNames, b # z, Intact(mem, s, z, k)
  PROVE  s \in Memory /\ Value(s[b], k) = Value(mem[b], k)
<1>1. s \in Memory /\ \A j \in 0..(k - 1) : s[b][j] = mem[b][j]
  BY DEF Intact, Parameters
<1>2. s[b] \in Row /\ mem[b] \in Row /\ k \in 0..(MaxWords + 1)
  BY <1>1 DEF Memory, Parameters
<1> QED BY <1>1, <1>2, ValueCongruence

\* After a second loop over z
LEMMA LeftBehind ==
  ASSUME Parameters, NEW mem, NEW s, NEW t, NEW k \in 0..MaxWords, NEW z \in BufferNames,
         Intact(mem, s, z, k), Intact(s, t, z, k)
  PROVE  Left(mem, t, z, k) = Value(t[z], k)
<1>1. \A j \in k..MaxWords : t[z][j] = mem[z][j]
  BY DEF Intact, Parameters
<1> QED BY <1>1 DEF Left

\* The remainder of a number that is off by no more than the modulus
LEMMA ReducedSum ==
  ASSUME NEW m \in Nat, NEW v \in Int
  PROVE  /\ v \in 0..(m - 1) => v % m = v
         /\ v - m \in 0..(m - 1) => v % m = v - m
         /\ v + m \in 0..(m - 1) => v % m = v + m
OBVIOUS

LEMMA ModaddPromise == Parameters /\ Modadd => Contract!Modadd'
<1> SUFFICES ASSUME Parameters, Modadd PROVE Contract!Modadd'
  OBVIOUS
<1> DEFINE Returns(k, x, y, m, z) ==
             LET mem == Buffers(k, x, y, m)
                 sum == Sum(mem, k, z)
                 c == Reached(sum.mem, k, z, sum.carry)
             IN  Call("modadd", << k, x, y, m >>, << Left(mem, Lowered(sum.mem, k, z, c).mem, z, k) >>)
<1>1. PICK k \in 1..MaxWords : \E m \in Numbers(k), z \in { "x", "y", "z" } :
             \E x, y \in 0..(m - 1) : Returns(k, x, y, m, z)
  BY DEF Modadd
<1>2. PICK m \in Numbers(k), z \in { "x", "y", "z" } : \E x, y \in 0..(m - 1) : Returns(k, x, y, m, z)
  BY <1>1
<1>3. PICK x \in 0..(m - 1), y \in 0..(m - 1) : Returns(k, x, y, m, z)
  BY <1>2
<1> DEFINE P == Pow(k)
           mem == Buffers(k, x, y, m)
           sum == Sum(mem, k, z)
           c == Reached(sum.mem, k, z, sum.carry)
           cmp == LessModulus(sum.mem, k, z)
           low == Lowered(sum.mem, k, z, c)
           r == Left(mem, low.mem, z, k)
           q == Value(sum.mem[z], k)
<1>4. Call("modadd", << k, x, y, m >>, << r >>)
  BY <1>3
<1>5. /\ k \in 0..MaxWords /\ z \in BufferNames /\ "m" \in BufferNames /\ z # "m" /\ P \in Nat
      /\ c \in BOOLEAN
  BY PowPositive DEF BufferNames, Parameters, Reached
<1>6. m \in Nat /\ m \in 0..(P - 1) /\ x \in Numbers(k) /\ y \in Numbers(k)
  BY <1>5 DEF Numbers
<1>7. mem \in Memory /\ Value(mem["x"], k) = x /\ Value(mem["y"], k) = y /\ Value(mem["m"], k) = m
  BY <1>5, <1>6, BuffersHold
<1>8. Holds(mem, sum.mem, z, k, q, sum.carry, x + y)
  <2>1. IsSum(sum, mem, k, z, "same", "x", "same", "y", 0)
    BY <1>5, <1>7, SumIsSum
  <2>2. ReadValue("same", mem["x"], k) + ReadValue("same", mem["y"], k) + 0 = x + y
    BY <1>6, <1>7 DEF ReadValue, Numbers
  <2> HIDE DEF sum, mem
  <2> QED BY <1>5, <1>7, <2>1, <2>2, SumHolds
<1> HIDE DEF mem, sum
<1>9. sum.mem \in Memory /\ Value(sum.mem["m"], k) = m
  BY <1>5, <1>7, <1>8, Untouched DEF Holds
<1>10. cmp.carry \in { 0, 1 } /\ \E d \in 0..(P - 1) : d + P * cmp.carry = q + P - m
  <2>1. IsSum(cmp, sum.mem, k, "none", "same", z, "complement", "m", 1)
    BY <1>5, <1>9, LessModulusIsSum
  <2>2. ReadValue("same", sum.mem[z], k) + ReadValue("complement", sum.mem["m"], k) + 1 = q + P - m
    BY <1>5, <1>6, <1>8, <1>9 DEF ReadValue, Holds
  <2> HIDE DEF cmp, q, P
  <2> QED BY <2>1, <2>2 DEF IsSum, Summed, P
<1>11. Holds(sum.mem, low.mem, z, k, Value(low.mem[z], k), low.carry, IF c THEN q + P - m ELSE q + P)
  <2>1. IsSum(low, sum.mem, k, z, "same", z, IF c THEN "complement" ELSE "ones", "m", 1)
    BY <1>5, <1>9, LoweredIsSum
  <2>2. ReadValue("same", sum.mem[z], k) + ReadValue(IF c THEN "complement" ELSE "ones", sum.mem["m"], k) + 1
        = IF c THEN q + P - m ELSE q + P
    BY <1>5, <1>6, <1>8, <1>9 DEF ReadValue, Holds
  <2> HIDE DEF low, c, q, P
  <2> QED BY <1>5, <1>9, <2>1, <2>2, SumHolds
<1>12. r = Value(low.mem[z], k)
  BY <1>5, <1>8, <1>11, LeftBehind DEF Holds
<1>13. c <=> sum.carry - 1 + cmp.carry >= 0
  BY DEF Reached
<1> HIDE DEF cmp, low, c, q, r, P
<1>14. r = (x + y) % m
  <2>1. q \in 0..(P - 1) /\ sum.carry \in { 0, 1 } /\ q + P * sum.carry = x + y
    BY <1>8 DEF Holds, P
  <2>2. r \in 0..(P - 1) /\ low.carry \in { 0, 1 }
        /\ r + P * low.carry = IF c THEN q + P - m ELSE q + P
    BY <1>11, <1>12 DEF Holds, P
  <2>3. x + y < m => r = x + y
    BY <1>5, <1>6, <1>10, <1>13, <2>1, <2>2, TimesFlag
  <2>4. x + y >= m => r = (x + y) - m
    BY <1>5, <1>6, <1>10, <1>13, <2>1, <2>2, TimesFlag
  <2>5. CASE x + y < m
    <3>1. x + y \in Int /\ x + y \in 0..(m - 1)
      BY <1>6, <2>5
    <3>2. (x + y) % m = x + y
      BY <1>6, <3>1, ReducedSum
    <3> QED BY <2>3, <2>5, <3>2
  <2>6. CASE x + y >= m
    <3>1. x + y \in Int /\ (x + y) - m \in 0..(m - 1)
      BY <1>6, <2>6
    <3>2. (x + y) % m = (x + y) - m
      BY <1>6, <3>1, ReducedSum
    <3> QED BY <2>4, <2>6, <3>2
  <2>7. x + y < m \/ x + y >= m
    BY <1>6
  <2> QED BY <2>5, <2>6, <2>7
<1> QED BY <1>4, <1>14 DEF Call, Contract!Modadd, Contract!Is, Contract!result, Contract!x, Contract!y

LEMMA ModsubPromise == Parameters /\ Modsub => Contract!Modsub'
<1> SUFFICES ASSUME Parameters, Modsub PROVE Contract!Modsub'
  OBVIOUS
<1> DEFINE Returns(k, x, y, m, z) ==
             LET mem == Buffers(k, x, y, m)
                 s == Difference(mem, k, z)
             IN  Call("modsub", << k, x, y, m >>,
                      << Left(mem, Corrected(s.mem, k, z, s.carry = 0).mem, z, k) >>)
<1>1. PICK k \in 1..MaxWords : \E m \in Numbers(k), z \in { "x", "y", "z" } :
             \E x, y \in 0..(m - 1) : Returns(k, x, y, m, z)
  BY DEF Modsub
<1>2. PICK m \in Numbers(k), z \in { "x", "y", "z" } : \E x, y \in 0..(m - 1) : Returns(k, x, y, m, z)
  BY <1>1
<1>3. PICK x \in 0..(m - 1), y \in 0..(m - 1) : Returns(k, x, y, m, z)
  BY <1>2
<1> DEFINE P == Pow(k)
           mem == Buffers(k, x, y, m)
           sum == Difference(mem, k, z)
           c == sum.carry = 0
           cor == Corrected(sum.mem, k, z, c)
           r == Left(mem, cor.mem, z, k)
           q == Value(sum.mem[z], k)
<1>4. Call("modsub", << k, x, y, m >>, << r >>)
  BY <1>3
<1>5. /\ k \in 0..MaxWords /\ z \in BufferNames /\ "m" \in BufferNames /\ z # "m" /\ P \in Nat
      /\ c \in BOOLEAN
  BY PowPositive DEF BufferNames, Parameters
<1>6. m \in Nat /\ m \in 0..(P - 1) /\ x \in Numbers(k) /\ y \in Numbers(k)
  BY <1>5 DEF Numbers
<1>7. mem \in Memory /\ Value(mem["x"], k) = x /\ Value(mem["y"], k) = y /\ Value(mem["m"], k) = m
  BY <1>5, <1>6, BuffersHold
<1>8. Holds(mem, sum.mem, z, k, q, sum.carry, x + P - y)
  <2>1. IsSum(sum, mem, k, z, "same", "x", "complement", "y", 1)
    BY <1>5, <1>7, DifferenceIsSum
  <2>2. ReadValue("same", mem["x"], k) + ReadValue("complement", mem["y"], k) + 1 = x + P - y
    BY <1>5, <1>6, <1>7 DEF ReadValue, Numbers
  <2> HIDE DEF sum, mem, P
  <2> QED BY <1>5, <1>7, <2>1, <2>2, SumHolds
<1> HIDE DEF mem, sum
<1>9. sum.mem \in Memory /\ Value(sum.mem["m"], k) = m
  BY <1>5, <1>7, <1>8, Untouched DEF Holds
<1>10. Holds(sum.mem, cor.mem, z, k, Value(cor.mem[z], k), cor.carry, IF c THEN q + m ELSE q)
  <2>1. IsSum(cor, sum.mem, k, z, "same", z, IF c THEN "same" ELSE "zero", "m", 0)
    BY <1>5, <1>9, CorrectedIsSum
  <2>2. ReadValue("same", sum.mem[z], k) + ReadValue(IF c THEN "same" ELSE "zero", sum.mem["m"], k) + 0
        = IF c THEN q + m ELSE q
    BY <1>5, <1>6, <1>8, <1>9 DEF ReadValue, Holds
  <2> HIDE DEF cor, c, q, P
  <2> QED BY <1>5, <1>9, <2>1, <2>2, SumHolds
<1>11. r = Value(cor.mem[z], k)
  BY <1>5, <1>8, <1>10, LeftBehind DEF Holds
<1> HIDE DEF cor, q, r, P
<1>12. r = (x - y) % m
  <2>1. q \in 0..(P - 1) /\ sum.carry \in { 0, 1 } /\ q + P * sum.carry = x + P - y
    BY <1>8 DEF Holds, P
  <2>2. r \in 0..(P - 1) /\ cor.carry \in { 0, 1 }
        /\ r + P * cor.carry = IF c THEN q + m ELSE q
    BY <1>10, <1>11 DEF Holds, P
  <2>3. x >= y => r = x - y
    BY <1>5, <1>6, <2>1, <2>2, TimesFlag
  <2>4. x < y => r = x - y + m
    BY <1>5, <1>6, <2>1, <2>2, TimesFlag
  <2>5. CASE x >= y
    <3>1. x - y \in Int /\ x - y \in 0..(m - 1)
      BY <1>6, <2>5
    <3>2. (x - y) % m = x - y
      BY <1>6, <3>1, ReducedSum
    <3> QED BY <2>3, <2>5, <3>2
  <2>6. CASE x < y
    <3>1. x - y \in Int /\ x - y + m \in 0..(m - 1)
      BY <1>6, <2>6
    <3>2. (x - y) % m = x - y + m
      BY <1>6, <3>1, ReducedSum
    <3> QED BY <2>4, <2>6, <3>2
  <2>7. x < y \/ x >= y
    BY <1>6
  <2> QED BY <2>5, <2>6, <2>7
<1> QED BY <1>4, <1>12 DEF Call, Contract!Modsub, Contract!Is, Contract!result, Contract!x, Contract!y

\* A number is zero if all of its words are.
LEMMA ZeroWords ==
  ASSUME Parameters, NEW k \in 0..MaxWords, NEW w \in Row
  PROVE  Value(w, k) = 0 <=> \A j \in 0..(k - 1) : w[j] = 0
<1> DEFINE T == { n \in 0..k : Value(w, n) = 0 <=> \A j \in 0..(n - 1) : w[j] = 0 }
<1>1. 0 \in T
  BY ValueSteps DEF Parameters
<1>2. ASSUME NEW n \in 0..(k - 1), n \in T PROVE n + 1 \in T
  <2> DEFINE v == Value(w, n)
             d == w[n]
             P == Pow(n)
  <2>1. n \in 0..MaxWords /\ n \in 0..(MaxWords + 1) /\ n + 1 \in 0..k /\ n \in Nat
    BY DEF Parameters
  <2>2. Value(w, n + 1) = v + P * d
    BY <2>1, ValueSteps
  <2>3. v \in Nat /\ P \in Nat \ {0} /\ d \in Nat
    <3>1. v \in 0..(P - 1) /\ P \in Nat \ {0}
      BY <2>1, ValueSteps, PowSteps
    <3> QED BY <2>1, <3>1 DEF Row, Word, Parameters
  <2>4. v + P * d = 0 <=> v = 0 /\ d = 0
    <3> HIDE DEF v, P, d
    <3>1. CASE d = 0
      BY <2>3, <3>1
    <3>2. CASE d # 0
      <4>1. P * d >= P * 1
        BY <2>3, <3>2
      <4> QED BY <2>3, <3>2, <4>1
    <3> QED BY <3>1, <3>2
  <2>5. (\A j \in 0..((n + 1) - 1) : w[j] = 0) <=> (\A j \in 0..(n - 1) : w[j] = 0) /\ d = 0
    BY <2>1
  <2> QED BY <1>2, <2>1, <2>2, <2>4, <2>5
<1>3. 0..k \subseteq T
  <2> HIDE DEF T
  <2>1. k \in Nat BY DEF Parameters
  <2> QED BY <1>1, <1>2, <2>1, LoopInduction
<1>4. k \in T
  BY <1>3 DEF Parameters
<1> QED BY <1>4

LEMMA ModoptnegPromise == Parameters /\ Modoptneg => Contract!Modoptneg'
<1> SUFFICES ASSUME Parameters, Modoptneg PROVE Contract!Modoptneg'
  OBVIOUS
<1> DEFINE Returns(k, x, p, m, z) ==
             LET mem == Buffers(k, x, 0, m)
                 q == p # 0 /\ \E j \in 0..(k - 1) : X(mem, j) # 0
             IN  Call("modoptneg", << k, x, p, m >>, << Left(mem, Negated(mem, k, z, q).mem, z, k) >>)
<1>1. PICK k \in 0..MaxWords : \E m \in Numbers(k), p \in Flags, z \in { "x", "z" } :
             \E x \in 0..(IF k = 0 THEN 0 ELSE m - 1) : Returns(k, x, p, m, z)
  BY DEF Modoptneg
<1>2. PICK m \in Numbers(k), p \in Flags, z \in { "x", "z" } :
             \E x \in 0..(IF k = 0 THEN 0 ELSE m - 1) : Returns(k, x, p, m, z)
  BY <1>1
<1>3. PICK x \in 0..(IF k = 0 THEN 0 ELSE m - 1) : Returns(k, x, p, m, z)
  BY <1>2
<1> DEFINE P == Pow(k)
           mem == Buffers(k, x, 0, m)
           q == p # 0 /\ \E j \in 0..(k - 1) : X(mem, j) # 0
           sum == Negated(mem, k, z, q)
           r == Left(mem, sum.mem, z, k)
<1>4. Call("modoptneg", << k, x, p, m >>, << r >>)
  BY <1>3
<1>5. /\ z \in BufferNames /\ P \in Nat /\ 0 \in Numbers(k) /\ q \in BOOLEAN /\ (k = 0 => P = 1)
  BY PowPositive, PowSteps DEF BufferNames
<1>6. m \in Nat /\ m \in 0..(P - 1) /\ x \in Numbers(k)
  BY <1>5 DEF Numbers
<1>7. mem \in Memory /\ Value(mem["x"], k) = x /\ Value(mem["m"], k) = m
  BY <1>5, <1>6, BuffersHold
<1>8. q <=> p # 0 /\ x # 0
  <2>1. mem["x"] \in Row
    BY <1>7 DEF Memory, BufferNames
  <2>2. (\E j \in 0..(k - 1) : X(mem, j) # 0) <=> x # 0
    <3> HIDE DEF mem
    <3> QED BY <1>7, <2>1, ZeroWords DEF X
  <2> HIDE DEF mem
  <2> QED BY <2>2
<1>9. /\ r \in 0..(P - 1) /\ sum.carry \in { 0, 1 }
      /\ r + P * sum.carry = IF q THEN m + P - x ELSE x
  <2>1. IsSum(sum, mem, k, z, IF q THEN "same" ELSE "zero", "m", IF q THEN "complement" ELSE "same", "x", Flag(q))
    <3> HIDE DEF q, mem
    <3> QED BY <1>5, <1>7, NegatedIsSum
  <2> HIDE DEF q, mem
  <2>2. ReadValue(IF q THEN "same" ELSE "zero", mem["m"], k)
        + ReadValue(IF q THEN "complement" ELSE "same", mem["x"], k) + Flag(q)
        = IF q THEN m + P - x ELSE x
    BY <1>5, <1>6, <1>7 DEF ReadValue, Flag, Numbers
  <2> HIDE DEF sum
  <2> QED BY <1>5, <1>7, <2>1, <2>2, SumOfNumbers
<1> HIDE DEF q, r, P, mem, sum
<1>10. r = IF q THEN m - x ELSE x
  BY <1>5, <1>6, <1>9, TimesFlag DEF Numbers, P
<1>11. k # 0 => r = (IF p # 0 THEN -x ELSE x) % m
  <2> SUFFICES ASSUME k # 0 PROVE r = (IF p # 0 THEN -x ELSE x) % m
    OBVIOUS
  <2>1. x \in 0..(m - 1)
    OBVIOUS
  <2>2. CASE q
    <3>1. -x \in Int /\ -x + m \in 0..(m - 1)
      BY <1>6, <1>8, <2>1, <2>2
    <3>2. (-x) % m = -x + m
      BY <1>6, <3>1, ReducedSum
    <3> QED BY <1>6, <1>8, <1>10, <2>1, <2>2, <3>2
  <2>3. CASE ~q /\ p # 0
    <3>1. x = 0 /\ 0 \in 0..(m - 1) /\ 0 \in Int /\ -x = 0
      BY <1>6, <1>8, <2>1, <2>3
    <3>2. 0 % m = 0
      BY <1>6, <3>1, ReducedSum
    <3> QED BY <1>10, <2>3, <3>1, <3>2
  <2>4. CASE p = 0
    <3>1. x \in Int
      BY <2>1
    <3>2. x % m = x
      BY <1>6, <2>1, <3>1, ReducedSum
    <3> QED BY <1>8, <1>10, <2>4, <3>2
  <2> QED BY <2>2, <2>3, <2>4
<1>12. k = 0 => r = 0
  BY <1>8, <1>10
<1> QED BY <1>4, <1>11, <1>12 DEF Call, Contract!Modoptneg, Contract!Is, Contract!result, Contract!k, Contract!x, Contract!y

(***************************************************************************)
(* Doubling: the bit shifted out of the word before goes into the next     *)
(***************************************************************************)
HighBit(w) == w \div (B \div 2)
DoubledWord(w, before) == (2 * w + HighBit(before)) % B
Doubling(s, mem, k, z) ==
    s = [j \in 0..k |->
            IF j = 0 THEN [mem |-> mem, carry |-> 1, before |-> 0]
            ELSE LET a == X(s[j - 1].mem, j - 1)
                     t == DoubledWord(a, s[j - 1].before) + (B - 1 - M(s[j - 1].mem, j - 1)) + s[j - 1].carry
                 IN  [mem |-> Store(s[j - 1].mem, z, j - 1, t % B), carry |-> t \div B, before |-> a]]

\* The two words that a doubling makes of one
LEMMA HighBits ==
  ASSUME Parameters
  PROVE  /\ HighBit(0) = 0
         /\ \A w \in Word, before \in Word :
                /\ HighBit(w) \in { 0, 1 } /\ DoubledWord(w, before) \in Word
                /\ 2 * w + HighBit(before) = DoubledWord(w, before) + B * HighBit(w)
<1> DEFINE H == B \div 2
<1>1. H \in Nat \ {0} /\ B = 2 * H
  BY DEF Parameters
<1>2. ASSUME NEW w \in Word PROVE HighBit(w) \in { 0, 1 } /\ (HighBit(w) = 1 <=> w >= H)
  <2>1. w \in 0..(2 * H - 1)
    BY <1>1 DEF Word
  <2> HIDE DEF H
  <2>2. CASE w < H
    <3>1. w = H * 0 + w /\ w \in 0..(H - 1)
      BY <1>1, <2>1, <2>2
    <3>2. w \div H = 0
      BY <1>1, <3>1, FactsAssumptions, Facts!DivModUnique
    <3> QED BY <1>1, <2>1, <2>2, <3>2 DEF HighBit, H
  <2>3. CASE w >= H
    <3>1. w = H * 1 + (w - H) /\ w - H \in 0..(H - 1)
      BY <1>1, <2>1, <2>3
    <3>2. w \div H = 1
      BY <1>1, <3>1, FactsAssumptions, Facts!DivModUnique
    <3> QED BY <2>3, <3>2 DEF HighBit, H
  <2> QED BY <1>1, <2>1, <2>2, <2>3
<1>3. HighBit(0) = 0
  <2>1. 0 \in Word
    BY DEF Parameters, Word
  <2> HIDE DEF H
  <2> QED BY <1>1, <1>2, <2>1
<1>4. ASSUME NEW w \in Word, NEW before \in Word
      PROVE  /\ DoubledWord(w, before) \in Word
             /\ 2 * w + HighBit(before) = DoubledWord(w, before) + B * HighBit(w)
  <2> DEFINE d == 2 * w + HighBit(before)
  <2>1. d \in Nat /\ w \in 0..(B - 1) /\ HighBit(before) \in { 0, 1 } /\ HighBit(w) \in { 0, 1 }
    BY <1>2 DEF Word
  <2> HIDE DEF d
  <2>2. CASE HighBit(w) = 0
    <3>1. d \in 0..(B - 1)
      BY <1>1, <1>2, <2>1, <2>2 DEF d
    <3>2. d % B = d
      BY <3>1 DEF Parameters
    <3>3. B * HighBit(w) = 0
      BY <2>2 DEF Parameters
    <3> QED BY <2>1, <3>1, <3>2, <3>3 DEF DoubledWord, d, Word
  <2>3. CASE HighBit(w) = 1
    <3>1. d - B \in 0..(B - 1) /\ d = B * 1 + (d - B)
      BY <1>1, <1>2, <2>1, <2>3 DEF d, Parameters
    <3>2. d % B = d - B
      <4>1. B \in Nat \ {0} /\ 1 \in Int
        BY DEF Parameters
      <4>2. (B * 1 + (d - B)) % B = d - B
        BY <3>1, <4>1, FactsAssumptions, Facts!DivModUnique
      <4> QED BY <3>1, <4>2
    <3>3. B * HighBit(w) = B
      BY <2>3 DEF Parameters
    <3> QED BY <2>1, <3>1, <3>2, <3>3 DEF DoubledWord, d, Word, Parameters
  <2> QED BY <2>1, <2>2, <2>3
<1> QED BY <1>2, <1>3, <1>4

LEMMA DoublingExists ==
  ASSUME Parameters, NEW mem \in Memory, NEW k \in 0..MaxWords, NEW z
  PROVE  \E s : Doubling(s, mem, k, z)
<1> DEFINE S == [mem : Memory, carry : { 0, 1 }, before : Word]
           W(s, j) == DoubledWord(X(s.mem, j), s.before) + (B - 1 - M(s.mem, j)) + s.carry
           G(s, j) == [mem |-> Store(s.mem, z, j, W(s, j) % B), carry |-> W(s, j) \div B,
                       before |-> X(s.mem, j)]
           g == [j \in 0..(k - 1) |-> [s \in S |-> G(s, j)]]
           e == [mem |-> mem, carry |-> 1, before |-> 0]
<1>1. ASSUME NEW j \in 0..(k - 1), NEW s \in S PROVE G(s, j) \in S
  <2>1. j \in 0..MaxWords
    BY DEF Parameters
  <2>2. s.mem \in Memory /\ s.carry \in { 0, 1 } /\ s.before \in Word
    OBVIOUS
  <2>3. X(s.mem, j) \in Word /\ M(s.mem, j) \in Word
    BY <2>1, <2>2 DEF Memory, Row, BufferNames, X, M
  <2>4. DoubledWord(X(s.mem, j), s.before) \in Word
    BY <2>2, <2>3, HighBits
  <2> DEFINE t == W(s, j)
  <2>5. t \in 0..(2 * B - 1)
    BY <2>2, <2>3, <2>4 DEF Word, Parameters
  <2> HIDE DEF t
  <2>6. t % B \in Word /\ t \div B \in { 0, 1 }
    BY <2>5, CarryOf
  <2>7. Store(s.mem, z, j, t % B) \in Memory
    BY <2>1, <2>2, <2>6, StoreType
  <2> QED BY <2>3, <2>6, <2>7 DEF t
<1>2. g \in [0..(k - 1) -> [S -> S]] /\ e \in S /\ k \in Nat
  BY <1>1 DEF Parameters, Word
<1>3. PICK f : Recursive(f, k, S, e, g)
  <2> HIDE DEF g, e, S
  <2> QED BY <1>2, LoopExists, Zenon
<1>4. f \in [0..k -> S] /\ f = [j \in 0..k |-> IF j = 0 THEN e ELSE g[j - 1][f[j - 1]]]
  BY <1>3 DEF Recursive
<1> HIDE DEF S
<1>5. ASSUME NEW j \in 0..k PROVE f[j] = IF j = 0 THEN e ELSE G(f[j - 1], j - 1)
  <2>1. CASE j = 0
    BY <1>4, <2>1
  <2>2. CASE j # 0
    <3>1. j - 1 \in 0..(k - 1) /\ j - 1 \in 0..k
      BY <2>2 DEF Parameters
    <3>2. f[j] = g[j - 1][f[j - 1]] /\ f[j - 1] \in S
      BY <1>4, <2>2, <3>1
    <3>3. g[j - 1][f[j - 1]] = G(f[j - 1], j - 1)
      <4> HIDE DEF G
      <4> QED BY <3>1, <3>2
    <3> QED BY <2>2, <3>2, <3>3
  <2> QED BY <2>1, <2>2
<1>6. f = [j \in 0..k |-> IF j = 0 THEN e ELSE G(f[j - 1], j - 1)]
  <2> HIDE DEF G, e, g
  <2> QED BY <1>4, <1>5
<1> QED BY <1>6 DEF Doubling

\* Words that are doubled with the modulus subtracted at once
LEMMA DoublingSum ==
  ASSUME Parameters, NEW mem \in Memory, NEW k \in 0..MaxWords, NEW z, NEW s, Doubling(s, mem, k, z)
  PROVE  /\ s[k].before \in Word
         /\ \E D \in Int :
               /\ Summed(mem, s[k].mem, z, k, s[k].carry, D + ReadValue("complement", mem["m"], k) + 1)
               /\ 2 * Value(mem["x"], k) = D + Pow(k) * HighBit(s[k].before)
<1> DEFINE V(j) == ReadValue("complement", mem["m"], j)
           A(j) == Value(mem["x"], j)
           T == { j \in 0..k : /\ s[j].before \in Word
                               /\ \E D \in Int : /\ Summed(mem, s[j].mem, z, j, s[j].carry, D + V(j) + 1)
                                                 /\ 2 * A(j) = D + Pow(j) * HighBit(s[j].before) }
<1>1. mem["m"] \in Row /\ mem["x"] \in Row /\ "m" \in BufferNames /\ "x" \in BufferNames
  BY DEF Memory, BufferNames
<1>2. \A j \in 0..(MaxWords + 1) : V(j) \in Int /\ A(j) \in Int
  <2> SUFFICES ASSUME NEW j \in 0..(MaxWords + 1) PROVE V(j) \in Int /\ A(j) \in Int
    OBVIOUS
  <2>1. V(j) \in 0..(Pow(j) - 1) /\ A(j) \in 0..(Pow(j) - 1)
    BY <1>1, ReadSteps, ValueSteps
  <2> QED BY <2>1
<1>3. 0 \in T
  <2>1. 0 \in 0..k /\ 0 \in Word
    BY DEF Parameters, Word
  <2>2. s[0] = [mem |-> mem, carry |-> 1, before |-> 0]
    BY <2>1 DEF Doubling
  <2>3. V(0) = 0 /\ A(0) = 0 /\ Pow(0) = 1 /\ HighBit(0) = 0
    BY <1>1, ReadSteps, ValueSteps, PowSteps, HighBits
  <2>4. Intact(mem, mem, z, 0)
    BY DEF Intact
  <2>5. z \in BufferNames => Value(mem[z], 0) = 0
    BY ValueSteps DEF Memory
  <2>6. 0 \in 0..(Pow(0) - 1) /\ 0 + Pow(0) * 1 = 0 + V(0) + 1 /\ 1 \in { 0, 1 }
    BY <2>3
  <2> HIDE DEF V, A
  <2>7. Summed(mem, mem, z, 0, 1, 0 + V(0) + 1)
    BY <2>4, <2>5, <2>6 DEF Summed
  <2>8. 2 * A(0) = 0 + Pow(0) * HighBit(0) /\ 0 \in Int
    BY <2>3
  <2> QED BY <2>1, <2>2, <2>7, <2>8
<1>4. ASSUME NEW j \in 0..(k - 1), j \in T PROVE j + 1 \in T
  <2>1. j \in 0..MaxWords /\ j + 1 \in 0..k /\ j + 1 # 0 /\ (j + 1) - 1 = j
    BY DEF Parameters
  <2>2. PICK D \in Int : /\ Summed(mem, s[j].mem, z, j, s[j].carry, D + V(j) + 1)
                         /\ 2 * A(j) = D + Pow(j) * HighBit(s[j].before)
    BY <1>4
  <2> DEFINE a == mem["x"][j]
             u == DoubledWord(a, s[j].before)
             v == B - 1 - mem["m"][j]
             t == u + v + s[j].carry
             P == Pow(j)
             h == HighBit(s[j].before)
             g == HighBit(a)
  <2>3. s[j].mem["x"][j] = a /\ s[j].mem["m"][j] = mem["m"][j]
    BY <1>1, <2>1, <2>2 DEF Summed, Intact, Parameters
  <2>4. s[j + 1] = [mem |-> Store(s[j].mem, z, j, t % B), carry |-> t \div B, before |-> a]
    <3> DEFINE W(r, n) == DoubledWord(X(r.mem, n), r.before) + (B - 1 - M(r.mem, n)) + r.carry
               G(r, n) == [mem |-> Store(r.mem, z, n, W(r, n) % B), carry |-> W(r, n) \div B,
                           before |-> X(r.mem, n)]
    <3>1. s = [n \in 0..k |-> IF n = 0 THEN [mem |-> mem, carry |-> 1, before |-> 0] ELSE G(s[n - 1], n - 1)]
      BY DEF Doubling
    <3>2. G(s[j], j) = [mem |-> Store(s[j].mem, z, j, t % B), carry |-> t \div B, before |-> a]
      BY <2>3 DEF X, M
    <3>3. s[j + 1] = G(s[j], j)
      <4> HIDE DEF G
      <4> QED BY <2>1, <3>1
    <3> QED BY <3>2, <3>3
  <2>5. a \in Word /\ s[j].before \in Word
    BY <1>1, <1>4, <2>1 DEF Row
  <2>6. u \in Word /\ h \in { 0, 1 } /\ g \in { 0, 1 } /\ 2 * a + h = u + B * g
    BY <2>5, HighBits
  <2>7. v \in Word /\ V(j + 1) = V(j) + P * v
    <3>1. Read("complement", mem["m"][j]) = v
      BY DEF Read
    <3> QED BY <1>1, <2>1, <3>1, ReadSteps
  <2>8. V(j) \in Int /\ A(j) \in Int /\ P \in Nat /\ A(j + 1) = A(j) + P * a /\ Pow(j + 1) = B * P
    BY <1>1, <1>2, <2>1, ValueSteps, PowSteps DEF Parameters
  <2> HIDE DEF V, A, u, v, P, h, g, a, T
  <2>9. Summed(mem, s[j + 1].mem, z, j + 1, s[j + 1].carry, (D + V(j) + 1) + P * (u + v))
    <3>1. D + V(j) + 1 \in Int
      BY <2>8
    <3>2. Summed(mem, Store(s[j].mem, z, j, (u + v + s[j].carry) % B), z, j + 1,
                 (u + v + s[j].carry) \div B, (D + V(j) + 1) + Pow(j) * (u + v))
      BY <2>1, <2>2, <2>6, <2>7, <3>1, SummedStep
    <3> QED BY <2>4, <3>2 DEF P
  <2>10. P * u \in Int /\ P * v \in Int /\ P * (u + v) = P * u + P * v
    BY <2>6, <2>7, <2>8 DEF Word, Parameters
  <2>11. (D + V(j) + 1) + P * (u + v) = (D + P * u) + V(j + 1) + 1
    BY <2>7, <2>8, <2>10
  <2>12. 2 * A(j + 1) = (D + P * u) + Pow(j + 1) * g
    <3>1. 2 * (P * a) + P * h = P * u + (B * P) * g
      <4>1. P * (2 * a + h) = P * (u + B * g)
        BY <2>6
      <4>2. P * (2 * a + h) = 2 * (P * a) + P * h
        BY <2>5, <2>6, <2>8 DEF Word, Parameters
      <4>3. P * (u + B * g) = P * u + (B * P) * g
        BY <2>6, <2>8 DEF Word, Parameters
      <4> QED BY <4>1, <4>2, <4>3
    <3>2. P * a \in Int /\ P * h \in Int /\ (B * P) * g \in Int
      BY <2>5, <2>6, <2>8 DEF Word, Parameters
    <3>3. 2 * A(j) = D + P * h
      BY <2>2 DEF P, h
    <3> QED BY <2>8, <2>10, <3>1, <3>2, <3>3
  <2>13. s[j + 1].before = a /\ D + P * u \in Int
    BY <2>4, <2>10
  <2> QED BY <2>1, <2>5, <2>9, <2>11, <2>12, <2>13 DEF T, g
<1>5. 0..k \subseteq T
  <2> HIDE DEF T
  <2>1. k \in Nat BY DEF Parameters
  <2> QED BY <1>3, <1>4, <2>1, LoopInduction
<1>6. k \in T
  BY <1>5 DEF Parameters
<1> QED BY <1>6

LEMMA DoubledIsSum ==
  ASSUME Parameters, NEW mem \in Memory, NEW k \in 0..MaxWords, NEW z \in BufferNames
  PROVE  LET s == Doubled(mem, k, z)
             q == Value(s.mem[z], k)
         IN  /\ s.before \in Word
             /\ \E D \in Int :
                   /\ Holds(mem, s.mem, z, k, q, s.carry, D + Pow(k) - Value(mem["m"], k))
                   /\ 2 * Value(mem["x"], k) = D + Pow(k) * HighBit(s.before)
<1> DEFINE C(s) == s = [j \in 0..k |->
                         IF j = 0 THEN [mem |-> mem, carry |-> 1, before |-> 0]
                         ELSE LET a == X(s[j - 1].mem, j - 1)
                                  t == ((2 * a + (s[j - 1].before \div (B \div 2))) % B)
                                       + (B - 1 - M(s[j - 1].mem, j - 1)) + s[j - 1].carry
                              IN  [mem |-> Store(s[j - 1].mem, z, j - 1, t % B), carry |-> t \div B,
                                   before |-> a]]
           f == CHOOSE s : C(s)
<1>1. Doubled(mem, k, z) = f[k]
  BY DEF Doubled, Up
<1>2. \A s : C(s) <=> Doubling(s, mem, k, z)
  BY DEF Doubling, DoubledWord, HighBit
<1>3. (\E s : C(s)) => C(f)
  OBVIOUS
<1> HIDE DEF C, f
<1>4. Doubling(f, mem, k, z)
  BY <1>2, <1>3, DoublingExists
<1>5. f[k].before \in Word
  BY <1>4, DoublingSum
<1>6. PICK D \in Int : /\ Summed(mem, f[k].mem, z, k, f[k].carry, D + ReadValue("complement", mem["m"], k) + 1)
                       /\ 2 * Value(mem["x"], k) = D + Pow(k) * HighBit(f[k].before)
  BY <1>4, DoublingSum
<1>7. D + ReadValue("complement", mem["m"], k) + 1 = D + Pow(k) - Value(mem["m"], k)
  <2>1. Value(mem["m"], k) \in 0..(Pow(k) - 1) /\ Pow(k) \in Nat
    <3>1. mem["m"] \in Row /\ k \in 0..(MaxWords + 1)
      BY DEF Memory, BufferNames, Parameters
    <3> QED BY <3>1, PowPositive, ValueSteps
  <2> QED BY <2>1 DEF ReadValue
<1>8. Holds(mem, f[k].mem, z, k, Value(f[k].mem[z], k), f[k].carry, D + Pow(k) - Value(mem["m"], k))
  <2> DEFINE total == D + Pow(k) - Value(mem["m"], k)
  <2>1. Summed(mem, f[k].mem, z, k, f[k].carry, total)
    BY <1>6, <1>7
  <2> HIDE DEF total
  <2>2. Holds(mem, f[k].mem, z, k, Value(f[k].mem[z], k), f[k].carry, total)
    BY <2>1 DEF Summed, Holds
  <2> QED BY <2>2 DEF total
<1> QED BY <1>1, <1>5, <1>6, <1>8

LEMMA ModdoublePromise == Parameters /\ Moddouble => Contract!Moddouble'
<1> SUFFICES ASSUME Parameters, Moddouble PROVE Contract!Moddouble'
  OBVIOUS
<1> DEFINE Returns(k, x, m, z) ==
             LET mem == Buffers(k, x, 0, m)
                 s == Doubled(mem, k, z)
                 borrow == (s.before \div (B \div 2)) - 1 + s.carry < 0
             IN  Call("moddouble", << k, x, m >>, << Left(mem, Corrected(s.mem, k, z, borrow).mem, z, k) >>)
<1>1. PICK k \in 1..MaxWords : \E m \in Numbers(k), z \in { "x", "z" } : \E x \in 0..(m - 1) : Returns(k, x, m, z)
  BY DEF Moddouble
<1>2. PICK m \in Numbers(k), z \in { "x", "z" } : \E x \in 0..(m - 1) : Returns(k, x, m, z)
  BY <1>1
<1>3. PICK x \in 0..(m - 1) : Returns(k, x, m, z)
  BY <1>2
<1> DEFINE P == Pow(k)
           mem == Buffers(k, x, 0, m)
           sum == Doubled(mem, k, z)
           h == HighBit(sum.before)
           c == h - 1 + sum.carry < 0
           cor == Corrected(sum.mem, k, z, c)
           r == Left(mem, cor.mem, z, k)
           q == Value(sum.mem[z], k)
<1>4. Call("moddouble", << k, x, m >>, << r >>)
  BY <1>3 DEF HighBit
<1>5. /\ k \in 0..MaxWords /\ z \in BufferNames /\ "m" \in BufferNames /\ z # "m" /\ P \in Nat
      /\ c \in BOOLEAN /\ 0 \in Numbers(k)
  BY PowPositive DEF BufferNames, Parameters
<1>6. m \in Nat /\ m \in 0..(P - 1) /\ x \in Numbers(k)
  BY <1>5 DEF Numbers
<1>7. mem \in Memory /\ Value(mem["x"], k) = x /\ Value(mem["m"], k) = m
  BY <1>5, <1>6, BuffersHold
<1> HIDE DEF mem
<1>8. sum.before \in Word
  BY <1>5, <1>7, DoubledIsSum
<1>9. PICK D \in Int : Holds(mem, sum.mem, z, k, q, sum.carry, D + P - m) /\ 2 * x = D + P * h
  BY <1>5, <1>7, DoubledIsSum
<1>10. h \in { 0, 1 }
  <2>1. 0 \in Word
    BY DEF Word, Parameters
  <2> HIDE DEF sum
  <2> QED BY <1>8, <2>1, HighBits
<1> HIDE DEF sum, h
<1>11. sum.mem \in Memory /\ Value(sum.mem["m"], k) = m
  BY <1>5, <1>7, <1>9, Untouched DEF Holds
<1>12. Holds(sum.mem, cor.mem, z, k, Value(cor.mem[z], k), cor.carry, IF c THEN q + m ELSE q)
  <2>1. IsSum(cor, sum.mem, k, z, "same", z, IF c THEN "same" ELSE "zero", "m", 0)
    BY <1>5, <1>11, CorrectedIsSum
  <2>2. ReadValue("same", sum.mem[z], k) + ReadValue(IF c THEN "same" ELSE "zero", sum.mem["m"], k) + 0
        = IF c THEN q + m ELSE q
    BY <1>5, <1>6, <1>9, <1>11 DEF ReadValue, Holds
  <2> HIDE DEF cor, c, q, P
  <2> QED BY <1>5, <1>11, <2>1, <2>2, SumHolds
<1>13. r = Value(cor.mem[z], k)
  BY <1>5, <1>9, <1>12, LeftBehind DEF Holds
<1> HIDE DEF cor, q, r, P
<1>14. r = (2 * x) % m
  <2>1. q \in 0..(P - 1) /\ sum.carry \in { 0, 1 } /\ q + P * sum.carry = D + P - m
    BY <1>9 DEF Holds, P
  <2>2. r \in 0..(P - 1) /\ cor.carry \in { 0, 1 }
        /\ r + P * cor.carry = IF c THEN q + m ELSE q
    BY <1>12, <1>13 DEF Holds, P
  <2>3. 2 * x < m => r = 2 * x
    BY <1>5, <1>6, <1>9, <1>10, <2>1, <2>2, TimesFlag
  <2>4. 2 * x >= m => r = 2 * x - m
    BY <1>5, <1>6, <1>9, <1>10, <2>1, <2>2, TimesFlag
  <2>5. CASE 2 * x < m
    <3>1. 2 * x \in Int /\ 2 * x \in 0..(m - 1)
      BY <1>6, <2>5
    <3>2. (2 * x) % m = 2 * x
      BY <1>6, <3>1, ReducedSum
    <3> QED BY <2>3, <2>5, <3>2
  <2>6. CASE 2 * x >= m
    <3>1. 2 * x \in Int /\ 2 * x - m \in 0..(m - 1)
      BY <1>6, <2>6
    <3>2. (2 * x) % m = 2 * x - m
      BY <1>6, <3>1, ReducedSum
    <3> QED BY <2>4, <2>6, <3>2
  <2>7. 2 * x < m \/ 2 * x >= m
    BY <1>6
  <2> QED BY <2>5, <2>6, <2>7
<1> QED BY <1>4, <1>14 DEF Call, Contract!Moddouble, Contract!Is, Contract!result, Contract!x, Contract!y

(***************************************************************************)
(* The multiplexers: words are copied, from the highest on in one case     *)
(***************************************************************************)
LEMMA StoredWord ==
  ASSUME Parameters, NEW D, NEW s \in [D -> Row], NEW z \in D, NEW n \in 0..MaxWords, NEW d \in Word
  PROVE  /\ Store(s, z, n, d) \in [D -> Row]
         /\ \A b \in D, j \in 0..MaxWords :
               Store(s, z, n, d)[b][j] = IF b = z /\ j = n THEN d ELSE s[b][j]
<1> DEFINE new == Store(s, z, n, d)
<1>1. new = [s EXCEPT ![z][n] = d]
  BY DEF Store
<1>2. new \in [D -> Row] /\ new[z] = [s[z] EXCEPT ![n] = d] /\ \A b \in D : b # z => new[b] = s[b]
  BY <1>1 DEF Row
<1>3. \A j \in 0..MaxWords : new[z][j] = IF j = n THEN d ELSE s[z][j]
  BY <1>2 DEF Row
<1> HIDE DEF new
<1>4. \A b \in D, j \in 0..MaxWords : new[b][j] = IF b = z /\ j = n THEN d ELSE s[b][j]
  BY <1>2, <1>3
<1> QED BY <1>2, <1>4 DEF new

Copying(s, mem, k, z, b) ==
    s = [j \in 0..k |-> IF j = 0 THEN mem
                        ELSE Store(s[j - 1], z, k - 1 - (j - 1), s[j - 1][b][k - 1 - (j - 1)])]

LEMMA CopyingExists ==
  ASSUME Parameters, NEW mem \in Memory, NEW k \in 0..MaxWords, NEW z \in BufferNames, NEW b \in BufferNames
  PROVE  \E s : Copying(s, mem, k, z, b)
<1> DEFINE G(s, j) == Store(s, z, k - 1 - j, s[b][k - 1 - j])
           g == [j \in 0..(k - 1) |-> [s \in Memory |-> G(s, j)]]
<1>1. ASSUME NEW j \in 0..(k - 1), NEW s \in Memory PROVE G(s, j) \in Memory
  <2>1. k - 1 - j \in 0..MaxWords
    BY DEF Parameters
  <2>2. s[b][k - 1 - j] \in Word
    BY <2>1 DEF Memory, Row
  <2> QED BY <2>1, <2>2, StoreType
<1>2. g \in [0..(k - 1) -> [Memory -> Memory]] /\ k \in Nat
  <2> HIDE DEF G
  <2> QED BY <1>1 DEF Parameters
<1>3. PICK f : Recursive(f, k, Memory, mem, g)
  <2> HIDE DEF g
  <2> QED BY <1>2, LoopExists, Zenon
<1>4. f \in [0..k -> Memory] /\ f = [j \in 0..k |-> IF j = 0 THEN mem ELSE g[j - 1][f[j - 1]]]
  BY <1>3 DEF Recursive
<1>5. ASSUME NEW j \in 0..k PROVE f[j] = IF j = 0 THEN mem ELSE G(f[j - 1], j - 1)
  <2>1. CASE j = 0
    BY <1>4, <2>1
  <2>2. CASE j # 0
    <3>1. j - 1 \in 0..(k - 1) /\ j - 1 \in 0..k
      BY <2>2 DEF Parameters
    <3>2. f[j] = g[j - 1][f[j - 1]] /\ f[j - 1] \in Memory
      BY <1>4, <2>2, <3>1
    <3>3. g[j - 1][f[j - 1]] = G(f[j - 1], j - 1)
      <4> HIDE DEF G
      <4> QED BY <3>1, <3>2
    <3> QED BY <2>2, <3>2, <3>3
  <2> QED BY <2>1, <2>2
<1>6. f = [j \in 0..k |-> IF j = 0 THEN mem ELSE G(f[j - 1], j - 1)]
  <2> HIDE DEF G, g
  <2> QED BY <1>4, <1>5
<1> QED BY <1>6 DEF Copying

\* A copy from the highest word down
LEMMA CopyingCopies ==
  ASSUME Parameters, NEW mem \in Memory, NEW k \in 0..MaxWords, NEW z \in BufferNames, NEW b \in BufferNames,
         NEW s, Copying(s, mem, k, z, b)
  PROVE  /\ s[k] \in Memory
         /\ \A j \in 0..MaxWords : s[k][z][j] = IF j < k THEN mem[b][j] ELSE mem[z][j]
<1> DEFINE T == { n \in 0..k :
                    /\ s[n] \in Memory
                    /\ \A a \in BufferNames, j \in 0..MaxWords :
                          s[n][a][j] = IF a = z /\ k - n <= j /\ j < k THEN mem[b][j] ELSE mem[a][j] }
<1>1. 0 \in T
  <2>1. 0 \in 0..k
    BY DEF Parameters
  <2>2. s[0] = mem
    BY <2>1 DEF Copying
  <2>3. \A j \in 0..MaxWords : ~ (k - 0 <= j /\ j < k)
    BY DEF Parameters
  <2> QED BY <2>1, <2>2, <2>3
<1>2. ASSUME NEW n \in 0..(k - 1), n \in T PROVE n + 1 \in T
  <2> DEFINE at == k - 1 - n
             d == s[n][b][at]
  <2>1. n + 1 \in 0..k /\ n + 1 # 0 /\ (n + 1) - 1 = n /\ at \in 0..MaxWords /\ n \in 0..k
    BY DEF Parameters
  <2>2. s[n + 1] = Store(s[n], z, at, d)
    <3> DEFINE G(r, j) == Store(r, z, k - 1 - j, r[b][k - 1 - j])
    <3>1. s = [j \in 0..k |-> IF j = 0 THEN mem ELSE G(s[j - 1], j - 1)]
      BY DEF Copying
    <3>2. s[n + 1] = G(s[n], n)
      <4> HIDE DEF G
      <4> QED BY <2>1, <3>1
    <3> QED BY <3>2
  <2>3. s[n] \in Memory /\ d = mem[b][at]
    BY <1>2, <2>1 DEF Parameters
  <2>4. d \in Word
    BY <2>1, <2>3 DEF Memory, Row
  <2>5. /\ s[n + 1] \in Memory
        /\ \A a \in BufferNames, j \in 0..MaxWords :
              s[n + 1][a][j] = IF a = z /\ j = at THEN d ELSE s[n][a][j]
    <3> HIDE DEF d, at
    <3> DEFINE r == s[n]
    <3>1. r \in [BufferNames -> Row]
      BY <2>3 DEF Memory
    <3> HIDE DEF r
    <3>2. Store(r, z, at, d) \in [BufferNames -> Row]
      BY <2>1, <2>4, <3>1, StoredWord
    <3>3. \A a \in BufferNames, j \in 0..MaxWords :
                Store(r, z, at, d)[a][j] = IF a = z /\ j = at THEN d ELSE r[a][j]
      BY <2>1, <2>4, <3>1, StoredWord
    <3> QED BY <2>2, <3>2, <3>3 DEF Memory, r
  <2>6. ASSUME NEW a \in BufferNames, NEW j \in 0..MaxWords
        PROVE  s[n + 1][a][j] = IF a = z /\ k - (n + 1) <= j /\ j < k THEN mem[b][j] ELSE mem[a][j]
    <3>1. s[n][a][j] = IF a = z /\ k - n <= j /\ j < k THEN mem[b][j] ELSE mem[a][j]
      BY <1>2
    <3>2. CASE j = at
      BY <2>3, <2>5, <3>1, <3>2 DEF Parameters
    <3>3. CASE j # at
      <4>1. k - (n + 1) <= j <=> k - n <= j
        BY <3>3 DEF Parameters
      <4>2. s[n + 1][a][j] = s[n][a][j]
        BY <2>5, <3>3
      <4> QED BY <3>1, <4>1, <4>2
    <3> QED BY <3>2, <3>3
  <2> QED BY <2>1, <2>5, <2>6
<1>3. 0..k \subseteq T
  <2> HIDE DEF T
  <2>1. k \in Nat BY DEF Parameters
  <2> QED BY <1>1, <1>2, <2>1, LoopInduction
<1>4. k \in T
  BY <1>3 DEF Parameters
<1>5. \A j \in 0..MaxWords : k - k <= j
  BY DEF Parameters
<1> QED BY <1>4, <1>5

LEMMA SelectedCopies ==
  ASSUME Parameters, NEW mem \in Memory, NEW k \in 0..MaxWords, NEW z \in BufferNames, NEW p \in BOOLEAN
  PROVE  LET b == IF p THEN "x" ELSE "y"
         IN  /\ Selected(mem, k, z, p) \in Memory
             /\ \A j \in 0..MaxWords : Selected(mem, k, z, p)[z][j] = IF j < k THEN mem[b][j] ELSE mem[z][j]
<1> DEFINE C(s) == s = [j \in 0..k |->
                         IF j = 0 THEN mem
                         ELSE Store(s[j - 1], z, k - 1 - (j - 1), IF p THEN X(s[j - 1], k - 1 - (j - 1))
                                                                  ELSE Y(s[j - 1], k - 1 - (j - 1)))]
           f == CHOOSE s : C(s)
           b == IF p THEN "x" ELSE "y"
<1>1. Selected(mem, k, z, p) = f[k]
  BY DEF Selected, Down, Up
<1>2. \A s : C(s) <=> Copying(s, mem, k, z, b)
  <2>1. CASE p
    BY <2>1 DEF Copying, X
  <2>2. CASE ~p
    BY <2>2 DEF Copying, Y
  <2> QED BY <2>1, <2>2
<1>3. (\E s : C(s)) => C(f)
  OBVIOUS
<1> HIDE DEF C, f
<1>4. b \in BufferNames
  BY DEF BufferNames
<1> HIDE DEF b
<1>5. Copying(f, mem, k, z, b)
  BY <1>2, <1>3, <1>4, CopyingExists
<1>6. f[k] \in Memory /\ \A j \in 0..MaxWords : f[k][z][j] = IF j < k THEN mem[b][j] ELSE mem[z][j]
  BY <1>4, <1>5, CopyingCopies
<1> QED BY <1>1, <1>6 DEF b

LEMMA MuxPromise == Parameters /\ Mux => Contract!Mux'
<1> SUFFICES ASSUME Parameters, Mux PROVE Contract!Mux'
  OBVIOUS
<1> DEFINE Returns(k, x, y, p, z) ==
             LET mem == Buffers(k, x, y, 0)
             IN  Call("mux", << k, p, x, y >>, << Left(mem, Selected(mem, k, z, p # 0), z, k) >>)
<1>1. PICK k \in Lengths : \E x, y \in Numbers(k), p \in Flags, z \in { "x", "y", "z" } : Returns(k, x, y, p, z)
  BY DEF Mux
<1>2. PICK x \in Numbers(k), y \in Numbers(k), p \in Flags, z \in { "x", "y", "z" } : Returns(k, x, y, p, z)
  BY <1>1
<1> DEFINE mem == Buffers(k, x, y, 0)
           after == Selected(mem, k, z, p # 0)
           r == Left(mem, after, z, k)
           b == IF p # 0 THEN "x" ELSE "y"
<1>3. Call("mux", << k, p, x, y >>, << r >>)
  BY <1>2
<1>4. k \in 0..MaxWords /\ 0 \in Numbers(k) /\ z \in BufferNames /\ b \in BufferNames /\ (p # 0) \in BOOLEAN
  BY PowPositive DEF Lengths, BufferNames
<1>5. mem \in Memory /\ Value(mem["x"], k) = x /\ Value(mem["y"], k) = y
  BY <1>4, BuffersHold
<1> HIDE DEF mem
<1>6. /\ after \in Memory
      /\ \A j \in 0..MaxWords : after[z][j] = IF j < k THEN mem[b][j] ELSE mem[z][j]
  BY <1>4, <1>5, SelectedCopies
<1> HIDE DEF after, b
<1>7. r = Value(after[z], k)
  <2>1. \A j \in k..MaxWords : after[z][j] = mem[z][j]
    BY <1>4, <1>6 DEF Parameters
  <2> QED BY <2>1 DEF Left
<1>8. Value(after[z], k) = Value(mem[b], k)
  <2>1. \A j \in 0..(k - 1) : after[z][j] = mem[b][j]
    BY <1>4, <1>6 DEF Parameters
  <2>2. after[z] \in Row /\ mem[b] \in Row /\ k \in 0..(MaxWords + 1)
    BY <1>4, <1>5, <1>6 DEF Memory, Parameters
  <2> QED BY <2>1, <2>2, ValueCongruence
<1> HIDE DEF r
<1>9. r = IF p # 0 THEN x ELSE y
  BY <1>5, <1>7, <1>8 DEF b
<1> QED BY <1>3, <1>9 DEF Call, Contract!Mux, Contract!Is, Contract!result, Contract!x, Contract!y

LEMMA EntryWordWanted ==
  ASSUME Parameters, NEW k \in Nat \ {0}, NEW numbers \in [0..15 -> Nat], NEW wanted \in 0..15, NEW w \in Nat
  PROVE  EntryWord(k, numbers, wanted, w) = (numbers[wanted] \div Pow(w)) % B
<1> DEFINE word(j) == (numbers[j] \div Pow(w)) % B
           C(a) == a = [j \in 0..15 |-> IF j > 0 /\ k * j # k * wanted THEN a[j - 1] ELSE word(j)]
           f == CHOOSE a : C(a)
<1>1. EntryWord(k, numbers, wanted, w) = f[15]
  BY DEF EntryWord
<1>2. \E a : C(a)
  <2> DEFINE a == [j \in 0..15 |-> IF j < wanted THEN word(0) ELSE word(wanted)]
  <2> HIDE DEF word
  <2>1. ASSUME NEW j \in 0..15
        PROVE  a[j] = IF j > 0 /\ k * j # k * wanted THEN a[j - 1] ELSE word(j)
    <3>1. CASE j = 0
      BY <3>1
    <3>2. CASE j > 0 /\ j = wanted
      BY <3>2
    <3>3. CASE j > 0 /\ j # wanted
      <4>1. k * j # k * wanted
        <5>1. CASE j < wanted
          <6>1. k * (wanted - j) >= 1 * (wanted - j)
            BY <5>1
          <6>2. k * (wanted - j) = k * wanted - k * j
            OBVIOUS
          <6> QED BY <5>1, <6>1, <6>2
        <5>2. CASE j > wanted
          <6>1. k * (j - wanted) >= 1 * (j - wanted)
            BY <5>2
          <6>2. k * (j - wanted) = k * j - k * wanted
            OBVIOUS
          <6> QED BY <5>2, <6>1, <6>2
        <5> QED BY <3>3, <5>1, <5>2
      <4>2. j - 1 \in 0..15 /\ (j - 1 < wanted <=> j < wanted)
        BY <3>3
      <4> QED BY <3>3, <4>1, <4>2
    <3> QED BY <3>1, <3>2, <3>3
  <2>2. C(a)
    <3> HIDE DEF a
    <3>1. a = [j \in 0..15 |-> a[j]]
      BY DEF a
    <3> QED BY <2>1, <3>1
  <2> HIDE DEF a, C
  <2> QED BY <2>2
<1>3. C(f)
  BY <1>2
<1> HIDE DEF f, word
<1> DEFINE T == { j \in 0..15 : j >= wanted => f[j] = word(wanted) }
<1>4. 0 \in T
  <2>1. f[0] = word(0)
    BY <1>3
  <2> QED BY <2>1
<1>5. ASSUME NEW j \in 0..14, j \in T PROVE j + 1 \in T
  <2>1. j + 1 \in 0..15 /\ j + 1 > 0 /\ (j + 1) - 1 = j
    OBVIOUS
  <2>2. f[j + 1] = IF k * (j + 1) # k * wanted THEN f[j] ELSE word(j + 1)
    BY <1>3, <2>1
  <2>3. CASE j + 1 = wanted
    BY <2>1, <2>2, <2>3
  <2>4. CASE j + 1 < wanted
    BY <2>1, <2>4
  <2>5. CASE j >= wanted
    <3>1. k * ((j + 1) - wanted) >= 1 * ((j + 1) - wanted)
      BY <2>5
    <3>2. k * ((j + 1) - wanted) = k * (j + 1) - k * wanted
      OBVIOUS
    <3>3. k * (j + 1) # k * wanted
      BY <2>5, <3>1, <3>2
    <3> QED BY <1>5, <2>1, <2>2, <2>5, <3>3
  <2>6. j + 1 = wanted \/ j + 1 < wanted \/ j >= wanted
    OBVIOUS
  <2> QED BY <2>3, <2>4, <2>5, <2>6
<1>6. 0..15 \subseteq T
  <2> HIDE DEF T
  <2>1. 15 \in Nat /\ 15 - 1 = 14
    OBVIOUS
  <2> QED BY <1>4, <1>5, <2>1, LoopInduction
<1>7. 15 \in T
  BY <1>6
<1> QED BY <1>1, <1>7 DEF word

Looking(s, mem, k, numbers, wanted) ==
    s = [j \in 0..k |-> IF j = 0 THEN mem
                        ELSE Store(s[j - 1], "z", j - 1, EntryWord(k, numbers, wanted, j - 1))]

\* The sixteen entries are all read; the one that is wanted is kept.
LEMMA EntryFound ==
  ASSUME Parameters, NEW k \in 0..MaxWords, NEW numbers \in [0..15 -> Numbers(k)], NEW wanted \in 0..15,
         NEW mem \in [{ "z" } -> Row]
  PROVE  Left(mem, Entry(mem, k, numbers, wanted), "z", k) = numbers[wanted]
<1> DEFINE S == [{ "z" } -> Row]
           E(w) == EntryWord(k, numbers, wanted, w)
           C(s) == s = [j \in 0..k |-> IF j = 0 THEN mem ELSE Store(s[j - 1], "z", j - 1, E(j - 1))]
           f == CHOOSE s : C(s)
           n == numbers[wanted]
<1>1. Entry(mem, k, numbers, wanted) = f[k]
  BY DEF Entry, Up
<1> HIDE DEF E
<1>2. n \in Numbers(k) /\ k \in Nat
  BY DEF Parameters
<1>3. Words(n, k) \in Row /\ Value(Words(n, k), k) = n
  BY <1>2, WordsValue
<1>4. \A j \in 0..(k - 1) : E(j) = Words(n, k)[j] /\ E(j) \in Word
  <2> SUFFICES ASSUME NEW j \in 0..(k - 1) PROVE E(j) = Words(n, k)[j] /\ E(j) \in Word
    OBVIOUS
  <2>1. k \in Nat \ {0} /\ j \in Nat /\ j \in 0..MaxWords /\ j < k
    BY DEF Parameters
  <2>2. numbers \in [0..15 -> Nat]
    BY DEF Numbers
  <2>3. E(j) = (n \div Pow(j)) % B
    BY <2>1, <2>2, EntryWordWanted DEF E
  <2>4. Words(n, k)[j] = (n \div Pow(j)) % B
    BY <2>1 DEF Words
  <2> QED BY <1>3, <2>1, <2>3, <2>4 DEF Row
<1> HIDE DEF n
<1>5. \E s : C(s)
  <2> DEFINE g == [j \in 0..(k - 1) |-> [s \in S |-> Store(s, "z", j, E(j))]]
  <2>1. ASSUME NEW j \in 0..(k - 1), NEW s \in S PROVE Store(s, "z", j, E(j)) \in S
    <3>1. j \in 0..MaxWords /\ E(j) \in Word
      BY <1>4 DEF Parameters
    <3> QED BY <3>1, StoredWord
  <2>2. g \in [0..(k - 1) -> [S -> S]]
    <3> HIDE DEF S
    <3> QED BY <2>1
  <2>3. PICK s : Recursive(s, k, S, mem, g)
    <3> HIDE DEF g
    <3> QED BY <1>2, <2>2, LoopExists, Zenon
  <2>4. s \in [0..k -> S] /\ s = [j \in 0..k |-> IF j = 0 THEN mem ELSE g[j - 1][s[j - 1]]]
    BY <2>3 DEF Recursive
  <2>5. ASSUME NEW j \in 0..k
        PROVE  s[j] = IF j = 0 THEN mem ELSE Store(s[j - 1], "z", j - 1, E(j - 1))
    <3>1. CASE j = 0
      BY <2>4, <3>1
    <3>2. CASE j # 0
      <4>1. j - 1 \in 0..(k - 1) /\ j - 1 \in 0..k
        BY <3>2 DEF Parameters
      <4>2. s[j] = g[j - 1][s[j - 1]] /\ s[j - 1] \in S
        BY <2>4, <3>2, <4>1
      <4> HIDE DEF S
      <4> QED BY <3>2, <4>1, <4>2
    <3> QED BY <3>1, <3>2
  <2>6. C(s)
    <3> HIDE DEF g
    <3> QED BY <2>4, <2>5
  <2> QED BY <2>6
<1>6. C(f)
  BY <1>5
<1> HIDE DEF f
<1> DEFINE T == { h \in 0..k : /\ f[h] \in S
                               /\ \A j \in 0..MaxWords : f[h]["z"][j] = IF j < h THEN E(j) ELSE mem["z"][j] }
<1>7. 0 \in T
  <2>1. f[0] = mem /\ 0 \in 0..k
    BY <1>2, <1>6
  <2> QED BY <2>1 DEF Parameters
<1>8. ASSUME NEW h \in 0..(k - 1), h \in T PROVE h + 1 \in T
  <2>1. h + 1 \in 0..k /\ h + 1 # 0 /\ (h + 1) - 1 = h /\ h \in 0..MaxWords /\ E(h) \in Word
    BY <1>4 DEF Parameters
  <2>2. f[h + 1] = Store(f[h], "z", h, E(h))
    BY <1>6, <2>1
  <2>3. f[h + 1] \in S /\ \A j \in 0..MaxWords : f[h + 1]["z"][j] = IF j = h THEN E(h) ELSE f[h]["z"][j]
    BY <1>8, <2>1, <2>2, StoredWord
  <2>4. \A j \in 0..MaxWords : j < h + 1 <=> j < h \/ j = h
    BY DEF Parameters
  <2> QED BY <1>8, <2>1, <2>3, <2>4
<1>9. 0..k \subseteq T
  <2> HIDE DEF T
  <2> QED BY <1>2, <1>7, <1>8, LoopInduction
<1>10. k \in T
  BY <1>2, <1>9
<1>11. Left(mem, f[k], "z", k) = Value(f[k]["z"], k)
  <2>1. \A j \in k..MaxWords : f[k]["z"][j] = mem["z"][j]
    BY <1>10 DEF Parameters
  <2> QED BY <2>1 DEF Left
<1>12. Value(f[k]["z"], k) = Value(Words(n, k), k)
  <2>1. \A j \in 0..(k - 1) : f[k]["z"][j] = Words(n, k)[j]
    BY <1>4, <1>10 DEF Parameters
  <2>2. f[k]["z"] \in Row /\ k \in 0..(MaxWords + 1)
    BY <1>10 DEF Parameters
  <2> QED BY <1>3, <2>1, <2>2, ValueCongruence
<1> QED BY <1>1, <1>3, <1>11, <1>12 DEF n

LEMMA Mux16Promise == Parameters /\ Mux16 => Contract!Mux16'
<1> SUFFICES ASSUME Parameters, Mux16 PROVE Contract!Mux16'
  OBVIOUS
<1> DEFINE table(k, first) == [j \in 0..15 |-> (first + 3 * j) % Pow(k)]
           mem == [z |-> Words(0, 0)]
<1>1. PICK k \in Lengths : \E first \in Numbers(2), wanted \in 0..15 :
          Call("mux16", << k, table(k, first)[wanted] >>,
               << Left(mem, Entry(mem, k, table(k, first), wanted), "z", k) >>)
  BY DEF Mux16
<1>2. PICK first \in Numbers(2), wanted \in 0..15 :
          Call("mux16", << k, table(k, first)[wanted] >>,
               << Left(mem, Entry(mem, k, table(k, first), wanted), "z", k) >>)
  BY <1>1
<1> DEFINE numbers == table(k, first)
<1>3. k \in 0..MaxWords /\ Pow(k) \in Nat \ {0} /\ first \in Nat
  BY PowPositive DEF Lengths, Numbers
<1>4. numbers \in [0..15 -> Numbers(k)]
  <2>1. ASSUME NEW j \in 0..15 PROVE (first + 3 * j) % Pow(k) \in Numbers(k)
    BY <1>3 DEF Numbers
  <2> QED BY <2>1
<1>5. mem \in [{ "z" } -> Row]
  <2>1. 0 \in Numbers(0) /\ 0 \in 0..MaxWords
    BY PowSteps DEF Numbers, Parameters
  <2>2. Words(0, 0) \in Row
    BY <2>1, WordsValue
  <2> QED BY <2>2
<1>6. Call("mux16", << k, numbers[wanted] >>, << Left(mem, Entry(mem, k, numbers, wanted), "z", k) >>)
  BY <1>2
<1> HIDE DEF mem, numbers
<1>7. Left(mem, Entry(mem, k, numbers, wanted), "z", k) = numbers[wanted]
  BY <1>3, <1>4, <1>5, EntryFound
<1> QED BY <1>6, <1>7 DEF Call, Contract!Mux16, Contract!Is, Contract!result, Contract!x

OptionalPromise ==
    \/ Contract!Modadd \/ Contract!Moddouble \/ Contract!Modsub \/ Contract!Modoptneg
    \/ Contract!Optadd \/ Contract!Optsub \/ Contract!Optneg \/ Contract!Optsubadd
    \/ Contract!Mux \/ Contract!Mux16

LEMMA OptionalStep == Parameters /\ OptionalNext => OptionalPromise'
  BY ModaddPromise, ModdoublePromise, ModsubPromise, ModoptnegPromise, OptaddPromise, OptsubPromise,
     OptnegPromise, OptsubaddPromise, MuxPromise, Mux16Promise DEF OptionalNext, OptionalPromise

\* For every size of a word and every length: modular sums, differences,
\* doublings and negations are reduced, what a flag leaves out is left out,
\* the returned carry is the one that is missing, and the multiplexers return
\* the number that was selected, wherever the result is stored.
THEOREM OptionalOperationsKeepPromise ==
  Sizes => (call = NoCall /\ [][OptionalNext]_call => [](call = NoCall \/ Contract!Promise))
<1> SUFFICES ASSUME Sizes
             PROVE  call = NoCall /\ [][OptionalNext]_call => [](call = NoCall \/ Contract!Promise)
  OBVIOUS
<1> USE SizesSuffice
<1> DEFINE Inv == call = NoCall \/ OptionalPromise
<1>1. call = NoCall => Inv
  OBVIOUS
<1>2. Inv /\ [OptionalNext]_call => Inv'
  <2>1. CASE OptionalNext
    BY <2>1, OptionalStep
  <2>2. CASE UNCHANGED call
    <3>1. OptionalPromise => OptionalPromise'
      BY <2>2 DEF OptionalPromise, Contract!Modadd, Contract!Moddouble, Contract!Modsub, Contract!Modoptneg,
         Contract!Optadd, Contract!Optsub, Contract!Optneg, Contract!Optsubadd, Contract!Mux, Contract!Mux16,
         Contract!Is, Contract!result, Contract!carry, Contract!R, Contract!k, Contract!x, Contract!y,
         Contract!If
    <3> QED BY <2>2, <3>1 DEF NoCall
  <2> QED BY <2>1, <2>2
<1>3. Inv => call = NoCall \/ Contract!Promise
  BY DEF OptionalPromise, Contract!Promise
<1> HIDE DEF Inv
<1> QED BY <1>1, <1>2, <1>3, PTL

-----------------------------------------------------------------------------
(***************************************************************************)
(* The functions of Scans that compare and test.  A number continues with  *)
(* zeros above its words.                                                  *)
(***************************************************************************)
Extended(v, n) == [j \in 0..MaxWords |-> IF j < n THEN Words(v, n)[j] ELSE 0]

\* Zeros above the words do not change a number.
LEMMA ExtendedValue ==
  ASSUME Parameters, NEW n \in 0..MaxWords, NEW v \in Numbers(n)
  PROVE  Extended(v, n) \in Row /\ \A k \in n..MaxWords : Value(Extended(v, n), k) = v
<1> DEFINE w == Extended(v, n)
<1>1. Words(v, n) \in Row /\ Value(Words(v, n), n) = v
  BY WordsValue
<1>2. w \in Row /\ \A j \in 0..MaxWords : w[j] = IF j < n THEN Words(v, n)[j] ELSE 0
  BY <1>1 DEF Extended, Row, Word, Parameters
<1> HIDE DEF w
<1>3. Value(w, n) = v
  <2>1. n \in 0..(MaxWords + 1) /\ \A j \in 0..(n - 1) : w[j] = Words(v, n)[j]
    BY <1>2 DEF Parameters
  <2> QED BY <1>1, <1>2, <2>1, ValueCongruence
<1> DEFINE T == { k \in 0..MaxWords : k >= n => Value(w, k) = v }
<1>4. 0 \in T
  BY <1>3 DEF Parameters
<1>5. ASSUME NEW k \in 0..(MaxWords - 1), k \in T PROVE k + 1 \in T
  <2>1. k \in 0..MaxWords /\ k + 1 \in 0..MaxWords /\ Pow(k) \in Nat
    BY PowSteps DEF Parameters
  <2>2. CASE k >= n
    <3>1. w[k] = 0 /\ Value(w, k) = v
      BY <1>2, <1>5, <2>1, <2>2 DEF Parameters
    <3>2. Value(w, k + 1) = Value(w, k) + Pow(k) * w[k]
      BY <1>2, <2>1, ValueSteps
    <3>3. Pow(k) * 0 = 0 /\ v \in Nat
      BY <2>1 DEF Numbers
    <3> QED BY <2>1, <3>1, <3>2, <3>3
  <2>3. CASE k < n
    <3>1. k + 1 >= n => k + 1 = n
      BY <2>3 DEF Parameters
    <3> QED BY <1>3, <2>1, <3>1
  <2> QED BY <2>2, <2>3, <2>1 DEF Parameters
<1>6. 0..MaxWords \subseteq T
  <2> HIDE DEF T
  <2>1. MaxWords \in Nat BY DEF Parameters
  <2> QED BY <1>4, <1>5, <2>1, LoopInduction
<1>7. ASSUME NEW k \in n..MaxWords PROVE Value(w, k) = v
  <2>1. k \in 0..MaxWords /\ k >= n
    BY DEF Parameters
  <2> QED BY <1>6, <2>1
<1> QED BY <1>2, <1>7 DEF w

\* The borrow of two words after that of the words below
LEMMA ComparedWord ==
  ASSUME Parameters, NEW P \in Nat \ {0}, NEW v \in 0..(P - 1), NEW u \in 0..(P - 1),
         NEW d \in Word, NEW e \in Word, NEW c \in { 0, 1 }, c = 1 <=> v >= u
  PROVE  LET t == d + B - 1 - e + c
         IN  t \div B \in { 0, 1 } /\ (t \div B = 1 <=> v + P * d >= u + P * e)
<1> DEFINE t == d + B - 1 - e + c
           q == t \div B
<1>1. d \in 0..(B - 1) /\ e \in 0..(B - 1) /\ B \in Nat /\ B > 1
  BY DEF Word, Parameters
<1>2. t \in 0..(2 * B - 1) /\ t = (d - e) + (B - 1) + c
  BY <1>1
<1> HIDE DEF t
<1>3. t = B * q + (t % B) /\ t % B \in 0..(B - 1) /\ q \in { 0, 1 }
  BY <1>2, CarryOf DEF Word
<1>4. q = 1 <=> d - e + c >= 1
  <2> HIDE DEF q
  <2> QED BY <1>1, <1>2, <1>3
<1>5. v + P * d >= u + P * e <=> d - e + c >= 1
  <2>1. P * d \in Int /\ P * e \in Int
    BY <1>1
  <2>2. CASE d >= e + 1
    <3>1. P * d >= P * (e + 1)
      BY <1>1, <2>2
    <3>2. P * (e + 1) = P * e + P
      BY <1>1
    <3> QED BY <1>1, <2>1, <2>2, <3>1, <3>2
  <2>3. CASE d = e
    BY <1>1, <2>1, <2>3
  <2>4. CASE e >= d + 1
    <3>1. P * e >= P * (d + 1)
      BY <1>1, <2>4
    <3>2. P * (d + 1) = P * d + P
      BY <1>1
    <3> QED BY <1>1, <2>1, <2>4, <3>1, <3>2
  <2> QED BY <1>1, <2>2, <2>3, <2>4
<1> QED BY <1>3, <1>4, <1>5 DEF t

\* The borrow of a subtraction over the longer of two lengths is the comparison.
LEMMA NotLessIs ==
  ASSUME Parameters, NEW m \in 0..MaxWords, NEW n \in 0..MaxWords, NEW x \in Numbers(m), NEW y \in Numbers(n)
  PROVE  NotLess(m, x, n, y) = IF x >= y THEN 1 ELSE 0
<1> DEFINE k == IF m < n THEN n ELSE m
           v == Extended(x, m)
           w == Extended(y, n)
           xw == Words(x, m)
           yw == Words(y, n)
           W(c, j) == (IF j < m THEN xw[j] ELSE 0) + B - 1 - (IF j < n THEN yw[j] ELSE 0) + c
           C(s) == s = [j \in 0..k |-> IF j = 0 THEN 1
                                       ELSE ((IF j - 1 < m THEN xw[j - 1] ELSE 0) + B - 1
                                             - (IF j - 1 < n THEN yw[j - 1] ELSE 0) + s[j - 1]) \div B]
           f == CHOOSE s : C(s)
<1>1. NotLess(m, x, n, y) = f[k]
  BY DEF NotLess, Up
<1>2. k \in 0..MaxWords /\ k \in Nat /\ k \in m..MaxWords /\ k \in n..MaxWords
  BY DEF Parameters
<1>3. v \in Row /\ w \in Row /\ Value(v, k) = x /\ Value(w, k) = y
  BY <1>2, ExtendedValue
<1>4. \A j \in 0..MaxWords : v[j] = (IF j < m THEN xw[j] ELSE 0) /\ w[j] = (IF j < n THEN yw[j] ELSE 0)
  BY DEF Extended
<1> HIDE DEF v, w, k
<1> DEFINE g == [j \in 0..(k - 1) |-> [c \in { 0, 1 } |-> (v[j] + B - 1 - w[j] + c) \div B]]
<1>5. \A j \in 0..MaxWords : v[j] \in Word /\ w[j] \in Word
  BY <1>3 DEF Row
<1>6. ASSUME NEW j \in 0..(k - 1), NEW c \in { 0, 1 } PROVE (v[j] + B - 1 - w[j] + c) \div B \in { 0, 1 }
  <2> DEFINE t == v[j] + B - 1 - w[j] + c
  <2>1. j \in 0..MaxWords
    BY <1>2 DEF Parameters
  <2>2. t \in 0..(2 * B - 1)
    BY <1>5, <2>1 DEF Word, Parameters
  <2> HIDE DEF t
  <2>3. t \div B \in { 0, 1 }
    BY <2>2, CarryOf
  <2> QED BY <2>3 DEF t
<1>7. PICK h : Recursive(h, k, { 0, 1 }, 1, g)
  <2>1. g \in [0..(k - 1) -> [{ 0, 1 } -> { 0, 1 }]] /\ 1 \in { 0, 1 }
    BY <1>6
  <2> HIDE DEF g
  <2> QED BY <1>2, <2>1, LoopExists, Zenon
<1>8. C(h)
  <2>1. h \in [0..k -> { 0, 1 }] /\ h = [j \in 0..k |-> IF j = 0 THEN 1 ELSE g[j - 1][h[j - 1]]]
    BY <1>7 DEF Recursive
  <2>2. ASSUME NEW j \in 0..k PROVE h[j] = IF j = 0 THEN 1 ELSE W(h[j - 1], j - 1) \div B
    <3>1. CASE j = 0
      BY <2>1, <3>1
    <3>2. CASE j # 0
      <4>1. j - 1 \in 0..(k - 1) /\ j - 1 \in 0..k /\ j - 1 \in 0..MaxWords
        BY <1>2, <3>2 DEF Parameters
      <4>2. h[j] = g[j - 1][h[j - 1]] /\ h[j - 1] \in { 0, 1 }
        BY <2>1, <3>2, <4>1
      <4>3. g[j - 1][h[j - 1]] = (v[j - 1] + B - 1 - w[j - 1] + h[j - 1]) \div B
        BY <4>1, <4>2
      <4> QED BY <1>4, <3>2, <4>1, <4>2, <4>3
    <3> QED BY <3>1, <3>2
  <2> QED BY <2>1, <2>2
<1>9. C(f)
  BY <1>8
<1> HIDE DEF f, g
<1> DEFINE T == { j \in 0..k : f[j] \in { 0, 1 } /\ (f[j] = 1 <=> Value(v, j) >= Value(w, j)) }
<1>10. 0 \in T
  BY <1>2, <1>3, <1>9, ValueSteps
<1>11. ASSUME NEW j \in 0..(k - 1), j \in T PROVE j + 1 \in T
  <2>1. j \in 0..MaxWords /\ j \in 0..(MaxWords + 1) /\ j + 1 \in 0..k /\ j + 1 # 0 /\ (j + 1) - 1 = j
    BY <1>2 DEF Parameters
  <2>2. f[j + 1] = (v[j] + B - 1 - w[j] + f[j]) \div B
    <3>1. f[j + 1] = W(f[j], j) \div B
      BY <1>9, <2>1
    <3> QED BY <1>4, <2>1, <3>1
  <2>3. Value(v, j + 1) = Value(v, j) + Pow(j) * v[j] /\ Value(w, j + 1) = Value(w, j) + Pow(j) * w[j]
    BY <1>3, <2>1, ValueSteps
  <2>4. Value(v, j) \in 0..(Pow(j) - 1) /\ Value(w, j) \in 0..(Pow(j) - 1) /\ Pow(j) \in Nat \ {0}
    BY <1>3, <2>1, ValueSteps, PowSteps DEF Parameters
  <2> HIDE DEF C
  <2>5. f[j + 1] \in { 0, 1 } /\ (f[j + 1] = 1 <=> Value(v, j + 1) >= Value(w, j + 1))
    BY <1>5, <1>11, <2>1, <2>2, <2>3, <2>4, ComparedWord
  <2> QED BY <2>1, <2>5
<1>12. k \in T
  <2>1. 0..k \subseteq T
    <3> HIDE DEF T, C
    <3> QED BY <1>2, <1>10, <1>11, LoopInduction
  <2> QED BY <1>2, <2>1
<1> QED BY <1>1, <1>3, <1>12

LEMMA GePromise == Parameters /\ Ge => Contract!Ge'
<1> SUFFICES ASSUME Parameters, Ge PROVE Contract!Ge'
  OBVIOUS
<1>1. PICK m \in 0..MaxWords, n \in 0..MaxWords :
        \E x \in Numbers(m), y \in Numbers(n) : Compared("ge", m, x, n, y, NotLess(m, x, n, y))
  BY DEF Ge, Lengths
<1>2. PICK x \in Numbers(m), y \in Numbers(n) : Compared("ge", m, x, n, y, NotLess(m, x, n, y))
  BY <1>1
<1>3. NotLess(m, x, n, y) = IF x >= y THEN 1 ELSE 0
  BY NotLessIs
<1> QED BY <1>2, <1>3 DEF Compared, Call, Contract!Ge, Contract!Is, Contract!result, Contract!x, Contract!If

LEMMA GtPromise == Parameters /\ Gt => Contract!Gt'
<1> SUFFICES ASSUME Parameters, Gt PROVE Contract!Gt'
  OBVIOUS
<1>1. PICK m \in 0..MaxWords, n \in 0..MaxWords :
        \E x \in Numbers(m), y \in Numbers(n) : Compared("gt", m, x, n, y, 1 - NotLess(n, y, m, x))
  BY DEF Gt, Lengths
<1>2. PICK x \in Numbers(m), y \in Numbers(n) : Compared("gt", m, x, n, y, 1 - NotLess(n, y, m, x))
  BY <1>1
<1>3. NotLess(n, y, m, x) = IF y >= x THEN 1 ELSE 0
  BY NotLessIs
<1>4. 1 - NotLess(n, y, m, x) = IF x > y THEN 1 ELSE 0
  BY <1>3 DEF Numbers
<1> QED BY <1>2, <1>4 DEF Compared, Call, Contract!Gt, Contract!Is, Contract!result, Contract!x, Contract!If

LEMMA LePromise == Parameters /\ Le => Contract!Le'
<1> SUFFICES ASSUME Parameters, Le PROVE Contract!Le'
  OBVIOUS
<1>1. PICK m \in 0..MaxWords, n \in 0..MaxWords :
        \E x \in Numbers(m), y \in Numbers(n) : Compared("le", m, x, n, y, NotLess(n, y, m, x))
  BY DEF Le, Lengths
<1>2. PICK x \in Numbers(m), y \in Numbers(n) : Compared("le", m, x, n, y, NotLess(n, y, m, x))
  BY <1>1
<1>3. NotLess(n, y, m, x) = IF y >= x THEN 1 ELSE 0
  BY NotLessIs
<1>4. NotLess(n, y, m, x) = IF x <= y THEN 1 ELSE 0
  BY <1>3 DEF Numbers
<1> QED BY <1>2, <1>4 DEF Compared, Call, Contract!Le, Contract!Is, Contract!result, Contract!x, Contract!If

LEMMA LtPromise == Parameters /\ Lt => Contract!Lt'
<1> SUFFICES ASSUME Parameters, Lt PROVE Contract!Lt'
  OBVIOUS
<1>1. PICK m \in 0..MaxWords, n \in 0..MaxWords :
        \E x \in Numbers(m), y \in Numbers(n) : Compared("lt", m, x, n, y, 1 - NotLess(m, x, n, y))
  BY DEF Lt, Lengths
<1>2. PICK x \in Numbers(m), y \in Numbers(n) : Compared("lt", m, x, n, y, 1 - NotLess(m, x, n, y))
  BY <1>1
<1>3. NotLess(m, x, n, y) = IF x >= y THEN 1 ELSE 0
  BY NotLessIs
<1>4. 1 - NotLess(m, x, n, y) = IF x < y THEN 1 ELSE 0
  BY <1>3 DEF Numbers
<1> QED BY <1>2, <1>4 DEF Compared, Call, Contract!Lt, Contract!Is, Contract!result, Contract!x, Contract!If

\* A number has one sequence of words.
LEMMA SameDigits ==
  ASSUME Parameters, NEW P \in Nat \ {0}, NEW v \in 0..(P - 1), NEW u \in 0..(P - 1), NEW d \in Nat, NEW e \in Nat
  PROVE  v + P * d = u + P * e <=> v = u /\ d = e
BY FactsAssumptions, Facts!SameDigits

\* Numbers are equal if their words are.
LEMMA SameWords ==
  ASSUME Parameters, NEW v \in Row, NEW w \in Row, NEW k \in 0..MaxWords
  PROVE  Value(v, k) = Value(w, k) <=> \A j \in 0..(k - 1) : v[j] = w[j]
<1> DEFINE T == { n \in 0..k : Value(v, n) = Value(w, n) <=> \A j \in 0..(n - 1) : v[j] = w[j] }
<1>1. 0 \in T
  BY ValueSteps DEF Parameters
<1>2. ASSUME NEW n \in 0..(k - 1), n \in T PROVE n + 1 \in T
  <2>1. n \in 0..MaxWords /\ n \in 0..(MaxWords + 1) /\ n + 1 \in 0..k /\ n \in Nat
    BY DEF Parameters
  <2>2. Value(v, n + 1) = Value(v, n) + Pow(n) * v[n] /\ Value(w, n + 1) = Value(w, n) + Pow(n) * w[n]
    BY <2>1, ValueSteps
  <2>3. /\ Value(v, n) \in 0..(Pow(n) - 1) /\ Value(w, n) \in 0..(Pow(n) - 1) /\ Pow(n) \in Nat \ {0}
        /\ v[n] \in Nat /\ w[n] \in Nat
    <3>1. v[n] \in 0..(B - 1) /\ w[n] \in 0..(B - 1)
      BY <2>1 DEF Row, Word
    <3>2. Value(v, n) \in 0..(Pow(n) - 1) /\ Value(w, n) \in 0..(Pow(n) - 1) /\ Pow(n) \in Nat \ {0}
      BY <2>1, ValueSteps, PowSteps
    <3> QED BY <3>1, <3>2
  <2>4. Value(v, n + 1) = Value(w, n + 1) <=> Value(v, n) = Value(w, n) /\ v[n] = w[n]
    <3> DEFINE P == Pow(n)
               a == Value(v, n)
               b == Value(w, n)
               d == v[n]
               e == w[n]
    <3>1. a + P * d = b + P * e <=> a = b /\ d = e
      <4>1. P \in Nat \ {0} /\ a \in 0..(P - 1) /\ b \in 0..(P - 1) /\ d \in Nat /\ e \in Nat
        BY <2>3
      <4> HIDE DEF P, a, b, d, e
      <4> QED BY <4>1, SameDigits
    <3> QED BY <2>2, <3>1
  <2>5. (\A j \in 0..((n + 1) - 1) : v[j] = w[j]) <=> (\A j \in 0..(n - 1) : v[j] = w[j]) /\ v[n] = w[n]
    BY <2>1
  <2> QED BY <1>2, <2>1, <2>4, <2>5
<1>3. 0..k \subseteq T
  <2> HIDE DEF T
  <2>1. k \in Nat BY DEF Parameters
  <2> QED BY <1>1, <1>2, <2>1, LoopInduction
<1>4. k \in T
  BY <1>3 DEF Parameters
<1> QED BY <1>4

LEMMA EqPromise == Parameters /\ Eq => Contract!Eq'
<1> SUFFICES ASSUME Parameters, Eq PROVE Contract!Eq'
  OBVIOUS
<1> DEFINE Differ(m, x, n, y) ==
             LET xw == Words(x, m)
                 yw == Words(y, n)
                 k == IF m < n THEN m ELSE n
             IN  \/ \E j \in n..(m - 1) : xw[j] # 0
                 \/ \E j \in m..(n - 1) : yw[j] # 0
                 \/ \E j \in 0..(k - 1) : xw[j] # yw[j]
           Returns(m, x, n, y) == Call("eq", << m, x, n, y >>, << Flag(~Differ(m, x, n, y)) >>)
<1>1. PICK m \in 0..MaxWords, n \in 0..MaxWords :
        \E x \in Numbers(m), y \in Numbers(n) : Returns(m, x, n, y)
  BY DEF Eq, Lengths
<1>2. PICK x \in Numbers(m), y \in Numbers(n) : Returns(m, x, n, y)
  BY <1>1
<1> DEFINE xw == Words(x, m)
           yw == Words(y, n)
           v == Extended(x, m)
           w == Extended(y, n)
           k == IF m < n THEN n ELSE m
<1>3. k \in 0..MaxWords /\ k \in m..MaxWords /\ k \in n..MaxWords
  BY DEF Parameters
<1>4. v \in Row /\ w \in Row /\ Value(v, k) = x /\ Value(w, k) = y
  <2> HIDE DEF k
  <2> QED BY <1>3, ExtendedValue
<1>5. \A j \in 0..(k - 1) : /\ v[j] = (IF j < m THEN xw[j] ELSE 0)
                            /\ w[j] = (IF j < n THEN yw[j] ELSE 0)
  <2> SUFFICES ASSUME NEW j \in 0..(k - 1)
               PROVE  v[j] = (IF j < m THEN xw[j] ELSE 0) /\ w[j] = (IF j < n THEN yw[j] ELSE 0)
    OBVIOUS
  <2>1. j \in 0..MaxWords
    BY <1>3 DEF Parameters
  <2> QED BY <2>1 DEF Extended
<1>6. x = y <=> \A j \in 0..(k - 1) : v[j] = w[j]
  <2> HIDE DEF k, v, w
  <2> QED BY <1>3, <1>4, SameWords
<1> HIDE DEF v, w, xw, yw
<1>7. Differ(m, x, n, y) <=> \E j \in 0..(k - 1) : v[j] # w[j]
  <2>1. Differ(m, x, n, y) <=> \/ \E j \in n..(m - 1) : xw[j] # 0
                               \/ \E j \in m..(n - 1) : yw[j] # 0
                               \/ \E j \in 0..((IF m < n THEN m ELSE n) - 1) : xw[j] # yw[j]
    BY DEF xw, yw
  <2> HIDE DEF Differ
  <2>2. m \in Nat /\ n \in Nat
    BY DEF Parameters
  <2>3. ASSUME NEW j \in 0..(k - 1), v[j] # w[j] PROVE Differ(m, x, n, y)
    <3>1. CASE j < m /\ j < n
      <4>1. j \in 0..((IF m < n THEN m ELSE n) - 1) /\ xw[j] # yw[j]
        BY <1>5, <2>2, <2>3, <3>1
      <4> QED BY <2>1, <4>1
    <3>2. CASE j < m /\ ~(j < n)
      <4>1. j \in n..(m - 1) /\ xw[j] # 0
        BY <1>5, <2>2, <2>3, <3>2
      <4> QED BY <2>1, <4>1
    <3>3. CASE ~(j < m)
      <4>1. j \in m..(n - 1) /\ yw[j] # 0
        BY <1>5, <2>2, <2>3, <3>3
      <4> QED BY <2>1, <4>1
    <3> QED BY <3>1, <3>2, <3>3
  <2>4. ASSUME NEW j \in n..(m - 1), xw[j] # 0 PROVE j \in 0..(k - 1) /\ v[j] # w[j]
    <3>1. j \in 0..(k - 1) /\ j < m /\ ~(j < n)
      BY <2>2, <2>4
    <3> QED BY <1>5, <2>4, <3>1
  <2>5. ASSUME NEW j \in m..(n - 1), yw[j] # 0 PROVE j \in 0..(k - 1) /\ v[j] # w[j]
    <3>1. j \in 0..(k - 1) /\ j < n /\ ~(j < m)
      BY <2>2, <2>5
    <3> QED BY <1>5, <2>5, <3>1
  <2>6. ASSUME NEW j \in 0..((IF m < n THEN m ELSE n) - 1), xw[j] # yw[j] PROVE j \in 0..(k - 1) /\ v[j] # w[j]
    <3>1. j \in 0..(k - 1) /\ j < n /\ j < m
      BY <2>2, <2>6
    <3> QED BY <1>5, <2>6, <3>1
  <2> HIDE DEF k
  <2> QED BY <2>1, <2>3, <2>4, <2>5, <2>6
<1>8. Flag(~Differ(m, x, n, y)) = IF x = y THEN 1 ELSE 0
  <2> HIDE DEF Differ
  <2> QED BY <1>6, <1>7 DEF Flag
<1> HIDE DEF Differ
<1> QED BY <1>2, <1>8 DEF Call, Contract!Eq, Contract!Is, Contract!result, Contract!x, Contract!If

\* The lowest bit of the lowest word
LEMMA ParityIs ==
  ASSUME Parameters, NEW k \in 0..MaxWords, NEW x \in Numbers(k)
  PROVE  Parity(k, x) = x % 2
<1>1. x \in Nat
  BY DEF Numbers
<1>2. CASE k = 0
  BY <1>2, PowSteps DEF Parity, Numbers
<1>3. CASE k # 0
  <2>1. X(Operand(k, x), 0) = x % B
    <3>1. 0 \in 0..MaxWords /\ 0 < k /\ x \div 1 = x
      BY <1>1, <1>3 DEF Parameters
    <3> QED BY <3>1, PowSteps DEF X, Operand, Words
  <2>2. (x % B) % 2 = x % 2
    <3> DEFINE h == B \div 2
               q == x \div B
               r == x % B
    <3>1. B = 2 * h /\ h \in Nat
      BY DEF Parameters
    <3>2. x = B * q + r /\ q \in Int /\ r \in Nat
      BY <1>1 DEF Parameters
    <3> HIDE DEF h, q, r
    <3>3. x = 2 * (h * q) + r /\ h * q \in Int
      BY <3>1, <3>2
    <3> DEFINE p == h * q
    <3>4. r % 2 = x % 2
      <4>1. x = 2 * p + r /\ p \in Int
        BY <3>3
      <4> HIDE DEF p
      <4> QED BY <1>1, <3>2, <4>1
    <3> QED BY <3>4 DEF r
  <2> QED BY <1>3, <2>1, <2>2 DEF Parity
<1> QED BY <1>2, <1>3

LEMMA ParityPromise == Parameters => (Even => Contract!Even') /\ (Odd => Contract!Odd')
<1> SUFFICES ASSUME Parameters PROVE (Even => Contract!Even') /\ (Odd => Contract!Odd')
  OBVIOUS
<1>1. ASSUME Even PROVE Contract!Even'
  <2>1. PICK k \in 0..MaxWords : \E x \in Numbers(k) : Scanned("even", k, x, 1 - Parity(k, x))
    BY <1>1 DEF Even, Lengths
  <2>2. PICK x \in Numbers(k) : Scanned("even", k, x, 1 - Parity(k, x))
    BY <2>1
  <2>3. 1 - Parity(k, x) = IF x % 2 = 0 THEN 1 ELSE 0
    BY ParityIs DEF Numbers
  <2> QED BY <2>2, <2>3 DEF Scanned, Call, Contract!Even, Contract!Is, Contract!result, Contract!x, Contract!If
<1>2. ASSUME Odd PROVE Contract!Odd'
  <2>1. PICK k \in 0..MaxWords : \E x \in Numbers(k) : Scanned("odd", k, x, Parity(k, x))
    BY <1>2 DEF Odd, Lengths
  <2>2. PICK x \in Numbers(k) : Scanned("odd", k, x, Parity(k, x))
    BY <2>1
  <2>3. Parity(k, x) = x % 2
    BY ParityIs
  <2> QED BY <2>2, <2>3 DEF Scanned, Call, Contract!Odd, Contract!Is, Contract!result, Contract!x
<1> QED BY <1>1, <1>2

\* The words or-ed together
LEMMA OnesIs ==
  ASSUME Parameters, NEW k \in 0..MaxWords, NEW x \in Numbers(k)
  PROVE  Ones(Operand(k, x), k) <=> x # 0
<1>1. Words(x, k) \in Row /\ Value(Words(x, k), k) = x
  BY WordsValue
<1>2. x = 0 <=> \A j \in 0..(k - 1) : Words(x, k)[j] = 0
  BY <1>1, ZeroWords
<1> QED BY <1>2 DEF Ones, Operand, X

LEMMA ZeroPromise == Parameters => (Iszero => Contract!Iszero') /\ (Nonzero => Contract!Nonzero')
<1> SUFFICES ASSUME Parameters PROVE (Iszero => Contract!Iszero') /\ (Nonzero => Contract!Nonzero')
  OBVIOUS
<1>1. ASSUME Iszero PROVE Contract!Iszero'
  <2>1. PICK k \in 0..MaxWords : \E x \in Numbers(k) : Scanned("iszero", k, x, Flag(~Ones(Operand(k, x), k)))
    BY <1>1 DEF Iszero, Lengths
  <2>2. PICK x \in Numbers(k) : Scanned("iszero", k, x, Flag(~Ones(Operand(k, x), k)))
    BY <2>1
  <2>3. Flag(~Ones(Operand(k, x), k)) = IF x = 0 THEN 1 ELSE 0
    BY OnesIs DEF Flag
  <2> QED BY <2>2, <2>3 DEF Scanned, Call, Contract!Iszero, Contract!Is, Contract!result, Contract!x, Contract!If
<1>2. ASSUME Nonzero PROVE Contract!Nonzero'
  <2>1. PICK k \in 0..MaxWords : \E x \in Numbers(k) : Scanned("nonzero", k, x, Flag(Ones(Operand(k, x), k)))
    BY <1>2 DEF Nonzero, Lengths
  <2>2. PICK x \in Numbers(k) : Scanned("nonzero", k, x, Flag(Ones(Operand(k, x), k)))
    BY <2>1
  <2>3. Flag(Ones(Operand(k, x), k)) = IF x # 0 THEN 1 ELSE 0
    BY OnesIs DEF Flag
  <2> QED BY <2>2, <2>3 DEF Scanned, Call, Contract!Nonzero, Contract!Is, Contract!result, Contract!x, Contract!If
<1> QED BY <1>1, <1>2

\* Pow is the function of BignumTheorems.
LEMMA FactsPow == Parameters => \A n \in Nat : Pow(n) = Facts!Pow[n]
<1> SUFFICES ASSUME Parameters PROVE \A n \in Nat : Pow(n) = Facts!Pow[n]
  OBVIOUS
<1> DEFINE T == { n \in Nat : Pow(n) = Facts!Pow[n] }
<1>1. Facts!Pow[0] = 1 /\ \A k \in Nat : Facts!Pow[k + 1] = B * Facts!Pow[k]
  BY FactsAssumptions, Facts!PowStep
<1>2. 0 \in T
  BY <1>1, PowSteps
<1>3. ASSUME NEW n \in Nat, n \in T PROVE n + 1 \in T
  BY <1>1, <1>3, PowSteps
<1>4. Nat \subseteq T
  <2> HIDE DEF T
  <2> QED BY <1>2, <1>3, FactsAssumptions, Facts!SetInduction
<1> QED BY <1>4

\* More words, a larger range
LEMMA PowGrows ==
  ASSUME Parameters
  PROVE  \A n \in Nat : \A j \in 0..n : Pow(j) <= Pow(n)
<1>1. ASSUME NEW n \in Nat, NEW j \in 0..n PROVE Facts!Pow[j] <= Facts!Pow[n]
  BY FactsAssumptions, Facts!PowMonotonic
<1> QED BY <1>1, FactsPow

\* Zeros above do not count.
LEMMA ZerosAbove ==
  ASSUME Parameters, NEW w \in Row, NEW k \in 0..MaxWords, NEW at \in 0..k, \A j \in at..(k - 1) : w[j] = 0
  PROVE  Value(w, k) = Value(w, at)
<1> DEFINE T == { n \in 0..k : n >= at => Value(w, n) = Value(w, at) }
<1>1. 0 \in T
  BY DEF Parameters
<1>2. ASSUME NEW n \in 0..(k - 1), n \in T PROVE n + 1 \in T
  <2>1. n \in 0..MaxWords /\ n + 1 \in 0..k /\ n \in Nat /\ n \in 0..(MaxWords + 1) /\ at \in 0..(MaxWords + 1)
    BY DEF Parameters
  <2>2. CASE n >= at
    <3>1. w[n] = 0 /\ Value(w, n + 1) = Value(w, n) + Pow(n) * w[n] /\ Pow(n) \in Nat
      BY <2>1, <2>2, ValueSteps, PowSteps
    <3>2. Pow(n) * 0 = 0 /\ Value(w, n) \in Int
      <4>1. Value(w, n) \in 0..(Pow(n) - 1)
        BY <2>1, ValueSteps
      <4> QED BY <3>1, <4>1
    <3> QED BY <1>2, <2>1, <2>2, <3>1, <3>2
  <2>3. CASE n < at
    <3>1. n + 1 >= at => n + 1 = at
      BY <2>1, <2>3
    <3> QED BY <2>1, <3>1
  <2> QED BY <2>1, <2>2, <2>3
<1>3. 0..k \subseteq T
  <2> HIDE DEF T
  <2>1. k \in Nat BY DEF Parameters
  <2> QED BY <1>1, <1>2, <2>1, LoopInduction
<1>4. k \in T /\ k >= at
  BY <1>3 DEF Parameters
<1> QED BY <1>4

\* What a scan upwards knows after j words
Topmost(s, w, j) ==
    /\ s.i \in 0..j /\ s.w \in Word
    /\ \A h \in s.i..(j - 1) : w[h] = 0
    /\ s.i > 0 => w[s.i - 1] # 0 /\ s.w = w[s.i - 1]
    /\ s.i = 0 => s.w = B - 1

\* A scan upwards remembers the last word that is not zero.
LEMMA HighestIs ==
  ASSUME Parameters, NEW mem, NEW w \in Row, mem["x"] = w, NEW k \in 0..MaxWords
  PROVE  Topmost(Highest(mem, k), w, k)
<1> DEFINE e == [i |-> 0, w |-> B - 1]
           G(s, j) == IF X(mem, j) # 0 THEN [i |-> j + 1, w |-> X(mem, j)] ELSE s
           C(s) == s = [j \in 0..k |-> IF j = 0 THEN e
                                       ELSE IF X(mem, j - 1) # 0 THEN [i |-> (j - 1) + 1, w |-> X(mem, j - 1)]
                                       ELSE s[j - 1]]
           f == CHOOSE s : C(s)
           S == [i : 0..k, w : Word]
           g == [j \in 0..(k - 1) |-> [s \in S |-> G(s, j)]]
<1>1. Highest(mem, k) = f[k]
  BY DEF Highest, Up
<1>2. ASSUME NEW j \in 0..(k - 1), NEW s \in S PROVE G(s, j) \in S
  <2>1. j \in 0..MaxWords /\ j + 1 \in 0..k
    BY DEF Parameters
  <2>2. X(mem, j) \in Word
    BY <2>1 DEF X, Row
  <2> QED BY <2>1, <2>2
<1>3. k \in Nat /\ e \in S /\ g \in [0..(k - 1) -> [S -> S]]
  BY <1>2 DEF Parameters, Word
<1>4. PICK r : Recursive(r, k, S, e, g)
  <2> HIDE DEF g, e, S
  <2> QED BY <1>3, LoopExists, Zenon
<1>5. r \in [0..k -> S] /\ r = [j \in 0..k |-> IF j = 0 THEN e ELSE g[j - 1][r[j - 1]]]
  BY <1>4 DEF Recursive
<1>6. C(r)
  <2> HIDE DEF S
  <2>1. ASSUME NEW j \in 0..k PROVE r[j] = IF j = 0 THEN e ELSE G(r[j - 1], j - 1)
    <3>1. CASE j = 0
      BY <1>5, <3>1
    <3>2. CASE j # 0
      <4>1. j - 1 \in 0..(k - 1) /\ j - 1 \in 0..k
        BY <3>2 DEF Parameters
      <4>2. r[j] = g[j - 1][r[j - 1]] /\ r[j - 1] \in S
        BY <1>5, <3>2, <4>1
      <4>3. g[j - 1][r[j - 1]] = G(r[j - 1], j - 1)
        <5> HIDE DEF G
        <5> QED BY <4>1, <4>2
      <4> QED BY <3>2, <4>2, <4>3
    <3> QED BY <3>1, <3>2
  <2>2. r = [j \in 0..k |-> IF j = 0 THEN e ELSE G(r[j - 1], j - 1)]
    <3> HIDE DEF G, e, g
    <3> QED BY <1>5, <2>1
  <2> QED BY <2>2
<1>7. C(f)
  BY <1>6
<1>8. /\ f[0] = e
      /\ \A j \in 0..(k - 1) : f[j + 1] = G(f[j], j)
  <2>1. f[0] = e
    <3>1. 0 \in 0..k
      BY <1>3
    <3> HIDE DEF f, e
    <3> QED BY <1>7, <3>1
  <2>2. ASSUME NEW j \in 0..(k - 1) PROVE f[j + 1] = G(f[j], j)
    <3>1. j + 1 \in 0..k /\ j + 1 # 0 /\ (j + 1) - 1 = j
      BY <1>3
    <3> HIDE DEF f
    <3> QED BY <1>7, <3>1
  <2> QED BY <2>1, <2>2
<1> HIDE DEF f, g, C, S
<1> DEFINE T == { j \in 0..k : Topmost(f[j], w, j) }
<1>9. 0 \in T
  BY <1>3, <1>8 DEF Topmost, Word, Parameters
<1>10. ASSUME NEW j \in 0..(k - 1), j \in T PROVE j + 1 \in T
  <2>1. j + 1 \in 0..k /\ j \in Nat /\ j \in 0..MaxWords
    BY <1>3 DEF Parameters
  <2>2. X(mem, j) = w[j] /\ w[j] \in Word
    BY <2>1 DEF X, Row
  <2>3. Topmost(f[j], w, j)
    BY <1>10
  <2>4. CASE w[j] # 0
    <3>1. f[j + 1] = [i |-> j + 1, w |-> w[j]]
      BY <1>8, <2>2, <2>4
    <3> QED BY <2>1, <2>2, <2>4, <3>1 DEF Topmost
  <2>5. CASE w[j] = 0
    <3>1. f[j + 1] = f[j]
      BY <1>8, <2>2, <2>5
    <3> QED BY <2>1, <2>2, <2>3, <2>5, <3>1 DEF Topmost
  <2> QED BY <2>4, <2>5
<1>11. k \in T
  <2>1. 0..k \subseteq T
    <3> HIDE DEF T
    <3> QED BY <1>3, <1>9, <1>10, LoopInduction
  <2> QED BY <1>3, <2>1
<1> QED BY <1>1, <1>11

\* That word bounds the number from both sides.
LEMMA WordsOf ==
  ASSUME Parameters, NEW k \in 0..MaxWords, NEW x \in Numbers(k), NEW s, Topmost(s, Words(x, k), k)
  PROVE  /\ x < Pow(s.i) /\ (s.i > 0 => x >= Pow(s.i - 1) * s.w /\ x < Pow(s.i - 1) * (s.w + 1))
         /\ s.i = CHOOSE at \in 0..k : x < Pow(at) /\ (at > 0 => x >= Pow(at - 1))
<1> DEFINE w == Words(x, k)
           n == s.i
<1>1. w \in Row /\ Value(w, k) = x /\ x \in Nat /\ k \in Nat
  BY WordsValue DEF Numbers, Parameters
<1>2. n \in 0..k /\ (\A j \in n..(k - 1) : w[j] = 0)
  BY DEF Topmost
<1>3. Value(w, n) = x
  <2> HIDE DEF w, n
  <2> QED BY <1>1, <1>2, ZerosAbove
<1>4. x < Pow(n)
  <2>1. n \in 0..(MaxWords + 1) /\ Pow(n) \in Nat
    BY <1>2, PowSteps DEF Parameters
  <2> HIDE DEF w, n
  <2>2. Value(w, n) \in 0..(Pow(n) - 1)
    BY <1>1, <2>1, ValueSteps
  <2> QED BY <1>3, <2>1, <2>2
<1>5. ASSUME n > 0 PROVE x >= Pow(n - 1) * w[n - 1] /\ x < Pow(n - 1) * (w[n - 1] + 1) /\ w[n - 1] # 0 /\ s.w = w[n - 1] /\ w[n - 1] \in Nat
  <2>1. n - 1 \in 0..MaxWords /\ n - 1 \in 0..(MaxWords + 1) /\ (n - 1) + 1 = n /\ n - 1 \in Nat
    BY <1>2, <1>5 DEF Parameters
  <2>2. w[n - 1] # 0 /\ s.w = w[n - 1] /\ w[n - 1] \in Nat
    BY <1>1, <1>5, <2>1 DEF Topmost, Row, Word, Parameters
  <2> HIDE DEF w, n
  <2>3. Value(w, n) = Value(w, n - 1) + Pow(n - 1) * w[n - 1]
    BY <1>1, <2>1, ValueSteps
  <2>4. Value(w, n - 1) \in 0..(Pow(n - 1) - 1) /\ Pow(n - 1) \in Nat
    BY <1>1, <2>1, ValueSteps, PowSteps
  <2>5. Pow(n - 1) * w[n - 1] \in Nat /\ Pow(n - 1) * (w[n - 1] + 1) = Pow(n - 1) * w[n - 1] + Pow(n - 1)
    <3> DEFINE d == w[n - 1]
               P == Pow(n - 1)
    <3>1. d \in Nat /\ P \in Nat
      BY <2>2, <2>4
    <3> HIDE DEF d, P
    <3>2. P * d \in Nat /\ P * (d + 1) = P * d + P
      BY <3>1
    <3> QED BY <3>2 DEF d, P
  <2> QED BY <1>3, <2>2, <2>3, <2>4, <2>5
<1>6. ASSUME n > 0 PROVE x >= Pow(n - 1)
  <2>1. n - 1 \in Nat
    BY <1>2, <1>6
  <2>2. Pow(n - 1) \in Nat
    BY <2>1, PowSteps
  <2> DEFINE d == w[n - 1]
             P == Pow(n - 1)
  <2>3. d \in Nat \ {0} /\ x >= P * d
    BY <1>5, <1>6
  <2> HIDE DEF d, P, w, n
  <2>4. P * d >= P * 1
    BY <2>2, <2>3 DEF P
  <2>5. P * d \in Nat /\ P \in Nat
    BY <2>2, <2>3 DEF P
  <2> QED BY <1>1, <2>3, <2>4, <2>5 DEF P
<1>7. ASSUME NEW at \in 0..k, x < Pow(at), at > 0 => x >= Pow(at - 1) PROVE at = n
  <2> HIDE DEF w, n
  <2>1. ASSUME at < n PROVE FALSE
    <3>1. n > 0 /\ at \in 0..(n - 1) /\ n - 1 \in Nat /\ at \in Nat
      BY <1>2, <2>1
    <3>2. Pow(at) <= Pow(n - 1) /\ Pow(at) \in Nat /\ Pow(n - 1) \in Nat
      BY <3>1, PowGrows, PowSteps
    <3> QED BY <1>1, <1>6, <1>7, <3>1, <3>2
  <2>2. ASSUME n < at PROVE FALSE
    <3>1. at > 0 /\ n \in 0..(at - 1) /\ at - 1 \in Nat /\ n \in Nat
      BY <1>2, <2>2
    <3>2. Pow(n) <= Pow(at - 1) /\ Pow(n) \in Nat /\ Pow(at - 1) \in Nat
      BY <3>1, PowGrows, PowSteps
    <3> QED BY <1>1, <1>4, <1>7, <3>1, <3>2
  <2> QED BY <1>2, <2>1, <2>2
<1>8. n = CHOOSE at \in 0..k : x < Pow(at) /\ (at > 0 => x >= Pow(at - 1))
  <2> HIDE DEF n, w
  <2> QED BY <1>2, <1>4, <1>6, <1>7
<1>9. n > 0 => x >= Pow(n - 1) * s.w /\ x < Pow(n - 1) * (s.w + 1)
  BY <1>5
<1> QED BY <1>4, <1>8, <1>9

LEMMA WordCountPromise == Parameters => (Cld => Contract!Cld') /\ (Digitsize => Contract!Digitsize')
<1> SUFFICES ASSUME Parameters PROVE (Cld => Contract!Cld') /\ (Digitsize => Contract!Digitsize')
  OBVIOUS
<1>1. ASSUME NEW k \in 0..MaxWords, NEW x \in Numbers(k)
      PROVE  Highest(Operand(k, x), k).i = CHOOSE at \in 0..k : x < Pow(at) /\ (at > 0 => x >= Pow(at - 1))
  <2>1. Topmost(Highest(Operand(k, x), k), Words(x, k), k)
    BY WordsValue, HighestIs DEF Operand
  <2> QED BY <2>1, WordsOf
<1>2. ASSUME Cld PROVE Contract!Cld'
  <2>1. PICK k \in 0..MaxWords : \E x \in Numbers(k) : Scanned("cld", k, x, k - Highest(Operand(k, x), k).i)
    BY <1>2 DEF Cld, Lengths
  <2>2. PICK x \in Numbers(k) : Scanned("cld", k, x, k - Highest(Operand(k, x), k).i)
    BY <2>1
  <2> QED BY <1>1, <2>2, ContractPow DEF Scanned, Call, Contract!Cld, Contract!Is, Contract!result, Contract!x, Contract!k, Contract!Words
<1>3. ASSUME Digitsize PROVE Contract!Digitsize'
  <2>1. PICK k \in 0..MaxWords : \E x \in Numbers(k) : Scanned("digitsize", k, x, Highest(Operand(k, x), k).i)
    BY <1>3 DEF Digitsize, Lengths
  <2>2. PICK x \in Numbers(k) : Scanned("digitsize", k, x, Highest(Operand(k, x), k).i)
    BY <2>1
  <2> QED BY <1>1, <2>2, ContractPow DEF Scanned, Call, Contract!Digitsize, Contract!Is, Contract!result, Contract!x, Contract!k, Contract!Words
<1> QED BY <1>2, <1>3

\* What a scan downwards from word k knows when it has reached word j
Bottommost(s, w, j, k) ==
    /\ s.i \in j..k /\ s.w \in Word
    /\ \A h \in j..(s.i - 1) : w[h] = 0
    /\ s.i < k => w[s.i] # 0 /\ s.w = w[s.i]
    /\ s.i = k => s.w = 1

\* A scan downwards remembers the lowest word that is not zero.
LEMMA LowestIs ==
  ASSUME Parameters, NEW mem, NEW w \in Row, mem["x"] = w, NEW k \in 0..MaxWords
  PROVE  Bottommost(Lowest(mem, k), w, 0, k)
<1> DEFINE e == [i |-> k, w |-> 1]
           G(s, j) == IF X(mem, k - 1 - j) # 0 THEN [i |-> k - 1 - j, w |-> X(mem, k - 1 - j)] ELSE s
           C(s) == s = [j \in 0..k |-> IF j = 0 THEN e
                                       ELSE IF X(mem, k - 1 - (j - 1)) # 0
                                            THEN [i |-> k - 1 - (j - 1), w |-> X(mem, k - 1 - (j - 1))]
                                            ELSE s[j - 1]]
           f == CHOOSE s : C(s)
           S == [i : 0..k, w : Word]
           g == [j \in 0..(k - 1) |-> [s \in S |-> G(s, j)]]
<1>1. Lowest(mem, k) = f[k]
  BY DEF Lowest, Down, Up
<1>2. ASSUME NEW j \in 0..(k - 1), NEW s \in S PROVE G(s, j) \in S
  <2>1. k - 1 - j \in 0..MaxWords /\ k - 1 - j \in 0..k
    BY DEF Parameters
  <2>2. X(mem, k - 1 - j) \in Word
    BY <2>1 DEF X, Row
  <2> QED BY <2>1, <2>2
<1>3. k \in Nat /\ e \in S /\ g \in [0..(k - 1) -> [S -> S]]
  BY <1>2 DEF Parameters, Word
<1>4. PICK r : Recursive(r, k, S, e, g)
  <2> HIDE DEF g, e, S
  <2> QED BY <1>3, LoopExists, Zenon
<1>5. r \in [0..k -> S] /\ r = [j \in 0..k |-> IF j = 0 THEN e ELSE g[j - 1][r[j - 1]]]
  BY <1>4 DEF Recursive
<1>6. C(r)
  <2> HIDE DEF S
  <2>1. ASSUME NEW j \in 0..k PROVE r[j] = IF j = 0 THEN e ELSE G(r[j - 1], j - 1)
    <3>1. CASE j = 0
      BY <1>5, <3>1
    <3>2. CASE j # 0
      <4>1. j - 1 \in 0..(k - 1) /\ j - 1 \in 0..k
        BY <3>2 DEF Parameters
      <4>2. r[j] = g[j - 1][r[j - 1]] /\ r[j - 1] \in S
        BY <1>5, <3>2, <4>1
      <4>3. g[j - 1][r[j - 1]] = G(r[j - 1], j - 1)
        <5> HIDE DEF G
        <5> QED BY <4>1, <4>2
      <4> QED BY <3>2, <4>2, <4>3
    <3> QED BY <3>1, <3>2
  <2>2. r = [j \in 0..k |-> IF j = 0 THEN e ELSE G(r[j - 1], j - 1)]
    <3> HIDE DEF G, e, g
    <3> QED BY <1>5, <2>1
  <2> QED BY <2>2
<1>7. C(f)
  BY <1>6
<1>8. /\ f[0] = e
      /\ \A j \in 0..(k - 1) : f[j + 1] = G(f[j], j)
  <2>1. f[0] = e
    <3>1. 0 \in 0..k
      BY <1>3
    <3> HIDE DEF f, e
    <3> QED BY <1>7, <3>1
  <2>2. ASSUME NEW j \in 0..(k - 1) PROVE f[j + 1] = G(f[j], j)
    <3>1. j + 1 \in 0..k /\ j + 1 # 0 /\ (j + 1) - 1 = j
      BY <1>3
    <3> HIDE DEF f
    <3> QED BY <1>7, <3>1
  <2> QED BY <2>1, <2>2
<1> HIDE DEF f, g, C, S
<1> DEFINE T == { j \in 0..k : Bottommost(f[j], w, k - j, k) }
<1>9. 0 \in T
  BY <1>3, <1>8 DEF Bottommost, Word, Parameters
<1>10. ASSUME NEW j \in 0..(k - 1), j \in T PROVE j + 1 \in T
  <2> DEFINE n == k - 1 - j
  <2>1. j + 1 \in 0..k /\ n \in Nat /\ n \in 0..MaxWords /\ k - j = n + 1 /\ k - (j + 1) = n /\ n < k
    BY <1>3 DEF Parameters
  <2>2. X(mem, n) = w[n] /\ w[n] \in Word
    BY <2>1 DEF X, Row
  <2>3. Bottommost(f[j], w, n + 1, k)
    BY <1>10, <2>1
  <2>4. f[j + 1] = IF X(mem, n) # 0 THEN [i |-> n, w |-> X(mem, n)] ELSE f[j]
    BY <1>8
  <2> HIDE DEF n
  <2>5. CASE w[n] # 0
    <3>1. f[j + 1] = [i |-> n, w |-> w[n]]
      BY <2>2, <2>4, <2>5
    <3>2. Bottommost(f[j + 1], w, n, k)
      BY <1>3, <2>1, <2>2, <2>5, <3>1 DEF Bottommost
    <3> QED BY <2>1, <3>2
  <2>6. CASE w[n] = 0
    <3>1. f[j + 1] = f[j]
      BY <2>2, <2>4, <2>6
    <3>2. Bottommost(f[j + 1], w, n, k)
      BY <1>3, <2>1, <2>2, <2>3, <2>6, <3>1 DEF Bottommost
    <3> QED BY <2>1, <3>2
  <2> QED BY <2>5, <2>6
<1>11. k \in T
  <2>1. 0..k \subseteq T
    <3> HIDE DEF T
    <3> QED BY <1>3, <1>9, <1>10, LoopInduction
  <2> QED BY <1>3, <2>1
<1> QED BY <1>1, <1>3, <1>11

\* A number is a multiple of B^n if its words below n are zero.
LEMMA LowWordsZero ==
  ASSUME Parameters, NEW k \in 0..MaxWords, NEW x \in Numbers(k), NEW n \in 0..k
  PROVE  x % Pow(n) = 0 <=> \A j \in 0..(n - 1) : Words(x, k)[j] = 0
<1>1. Words(x, k) \in Row /\ Value(Words(x, k), n) = x % Pow(n)
  BY WordsValue
<1>2. n \in 0..MaxWords
  BY DEF Parameters
<1> QED BY <1>1, <1>2, ZeroWords

\* The words below it are the zeros of the remainders.
LEMMA TrailingWords ==
  ASSUME Parameters, NEW k \in 0..MaxWords, NEW x \in Numbers(k), NEW s, Bottommost(s, Words(x, k), 0, k)
  PROVE  s.i = IF x = 0 THEN k ELSE CHOOSE at \in 0..k : x % Pow(at) = 0 /\ x % Pow(at + 1) # 0
<1> DEFINE w == Words(x, k)
           n == s.i
           Trailing(at) == x % Pow(at) = 0 /\ x % Pow(at + 1) # 0
<1>1. w \in Row /\ Value(w, k) = x /\ x \in Nat /\ k \in Nat /\ x < Pow(k) /\ Pow(k) \in Nat \ {0}
  BY WordsValue, PowSteps DEF Numbers, Parameters
<1>2. n \in 0..k /\ (\A j \in 0..(n - 1) : w[j] = 0) /\ (n < k => w[n] # 0)
  BY DEF Bottommost
<1>3. x = 0 <=> \A j \in 0..(k - 1) : w[j] = 0
  <2> HIDE DEF w
  <2> QED BY <1>1, ZeroWords
<1>4. CASE x = 0
  <2>1. ~(n < k)
    BY <1>2, <1>3, <1>4
  <2> QED BY <1>1, <1>2, <1>4, <2>1
<1>5. CASE x # 0
  <2>1. n < k
    <3> HIDE DEF w, n
    <3> QED BY <1>1, <1>2, <1>3, <1>5
  <2>2. x % Pow(n) = 0
    <3> HIDE DEF n
    <3> QED BY <1>2, LowWordsZero DEF w
  <2>3. x % Pow(n + 1) # 0
    <3>1. n + 1 \in 0..k /\ n \in 0..((n + 1) - 1)
      BY <1>2, <2>1
    <3> HIDE DEF n
    <3> QED BY <1>2, <2>1, <3>1, LowWordsZero DEF w
  <2>4. ASSUME NEW at \in 0..k, Trailing(at) PROVE at = n
    <3>1. at < k
      <4>1. CASE at = k
        <5>1. x % Pow(k) = x
          BY <1>1
        <5> QED BY <1>5, <2>4, <4>1, <5>1
      <4> QED BY <1>1, <4>1
    <3>2. \A j \in 0..(at - 1) : w[j] = 0
      BY <2>4, LowWordsZero
    <3>3. \E j \in 0..at : w[j] # 0
      <4>1. at + 1 \in 0..k /\ (at + 1) - 1 = at
        BY <1>1, <3>1
      <4> QED BY <2>4, <4>1, LowWordsZero
    <3>4. w[at] # 0
      BY <3>2, <3>3
    <3>5. ~(at < n)
      BY <1>2, <3>4
    <3>6. ~(n < at)
      BY <1>2, <2>1, <3>2
    <3> QED BY <1>2, <3>5, <3>6
  <2>5. Trailing(n)
    BY <2>2, <2>3
  <2>6. n = CHOOSE at \in 0..k : Trailing(at)
    <3> HIDE DEF n, Trailing
    <3> QED BY <1>2, <2>4, <2>5
  <2> QED BY <1>5, <2>6
<1> QED BY <1>4, <1>5

LEMMA CtdPromise == Parameters /\ Ctd => Contract!Ctd'
<1> SUFFICES ASSUME Parameters, Ctd PROVE Contract!Ctd'
  OBVIOUS
<1>1. PICK k \in 0..MaxWords : \E x \in Numbers(k) : Scanned("ctd", k, x, Lowest(Operand(k, x), k).i)
  BY DEF Ctd, Lengths
<1>2. PICK x \in Numbers(k) : Scanned("ctd", k, x, Lowest(Operand(k, x), k).i)
  BY <1>1
<1>3. Bottommost(Lowest(Operand(k, x), k), Words(x, k), 0, k)
  BY WordsValue, LowestIs DEF Operand
<1>4. Lowest(Operand(k, x), k).i = IF x = 0 THEN k ELSE CHOOSE at \in 0..k : x % Pow(at) = 0 /\ x % Pow(at + 1) # 0
  BY <1>3, TrailingWords
<1> QED BY <1>2, <1>4, ContractPow DEF Scanned, Call, Contract!Ctd, Contract!Is, Contract!result, Contract!x, Contract!k, Contract!WordsBelow

\* All the words are read; the one that is wanted is kept.
LEMMA WordAtIs ==
  ASSUME Parameters, NEW mem, NEW w \in Row, mem["x"] = w, NEW k \in 0..MaxWords, NEW n \in Nat
  PROVE  WordAt(mem, k, n) = IF n < k THEN w[n] ELSE 0
<1> DEFINE G(d, j) == IF j = n THEN X(mem, j) ELSE d
           C(s) == s = [j \in 0..k |-> IF j = 0 THEN 0 ELSE IF j - 1 = n THEN X(mem, j - 1) ELSE s[j - 1]]
           f == CHOOSE s : C(s)
           h == [j \in 0..k |-> IF n < j THEN w[n] ELSE 0]
<1>1. WordAt(mem, k, n) = f[k]
  BY DEF WordAt, Up
<1>2. k \in Nat
  BY DEF Parameters
<1>3. C(h)
  <2>1. ASSUME NEW j \in 0..k PROVE h[j] = IF j = 0 THEN 0 ELSE IF j - 1 = n THEN X(mem, j - 1) ELSE h[j - 1]
    <3>1. CASE j = 0
      BY <3>1
    <3>2. CASE j # 0
      <4>1. j - 1 \in 0..k /\ (n < j <=> n < j - 1 \/ j - 1 = n)
        BY <3>2
      <4> QED BY <3>2, <4>1 DEF X
    <3> QED BY <3>1, <3>2
  <2> QED BY <2>1
<1>4. C(f)
  BY <1>3
<1> HIDE DEF f
<1> DEFINE T == { j \in 0..k : f[j] = IF n < j THEN w[n] ELSE 0 }
<1>5. 0 \in T
  BY <1>2, <1>4
<1>6. ASSUME NEW j \in 0..(k - 1), j \in T PROVE j + 1 \in T
  <2>1. j + 1 \in 0..k /\ j + 1 # 0 /\ (j + 1) - 1 = j /\ (n < j + 1 <=> n < j \/ j = n)
    BY <1>2
  <2>2. f[j + 1] = IF j = n THEN X(mem, j) ELSE f[j]
    BY <1>4, <2>1
  <2> QED BY <1>6, <2>1, <2>2 DEF X
<1>7. k \in T
  <2>1. 0..k \subseteq T
    <3> HIDE DEF T
    <3> QED BY <1>2, <1>5, <1>6, LoopInduction
  <2> QED BY <1>2, <2>1
<1> QED BY <1>1, <1>7

\* The words of a number, and zeros above them
LEMMA DigitIs ==
  ASSUME Parameters, NEW k \in 0..MaxWords, NEW x \in Numbers(k), NEW n \in Nat
  PROVE  (IF n < k THEN Words(x, k)[n] ELSE 0) = (x \div Pow(n)) % B
<1>1. x \in Nat /\ k \in Nat
  BY DEF Numbers, Parameters
<1>2. CASE n < k
  <2>1. n \in 0..MaxWords
    BY <1>1, <1>2 DEF Parameters
  <2> QED BY <1>2, <2>1 DEF Words
<1>3. CASE ~(n < k)
  <2>1. Pow(k) <= Pow(n) /\ Pow(n) \in Nat \ {0} /\ x < Pow(k) /\ Pow(k) \in Nat
    BY <1>1, <1>3, PowGrows, PowSteps DEF Numbers
  <2> DEFINE P == Pow(n)
  <2>2. x \in 0..(P - 1) /\ P \in Nat \ {0}
    BY <1>1, <2>1
  <2> HIDE DEF P
  <2>3. x \div P = 0
    BY <2>2
  <2>4. 0 % B = 0
    BY DEF Parameters
  <2> QED BY <1>3, <2>3, <2>4 DEF P
<1> QED BY <1>2, <1>3

LEMMA DigitPromise == Parameters /\ Digit => Contract!Digit'
<1> SUFFICES ASSUME Parameters, Digit PROVE Contract!Digit'
  OBVIOUS
<1> DEFINE Returns(k, x, n) == Call("digit", << k, x, n >>, << WordAt(Operand(k, x), k, n) >>)
<1>1. PICK k \in 0..MaxWords : \E x \in Numbers(k), n \in 0..(MaxWords + 1) : Returns(k, x, n)
  BY DEF Digit, Lengths
<1>2. PICK x \in Numbers(k), n \in 0..(MaxWords + 1) : Returns(k, x, n)
  BY <1>1
<1>3. n \in Nat /\ Words(x, k) \in Row /\ x \in Nat /\ k \in Nat
  BY WordsValue DEF Numbers, Parameters
<1>4. WordAt(Operand(k, x), k, n) = IF n < k THEN Words(x, k)[n] ELSE 0
  BY <1>3, WordAtIs DEF Operand
<1>5. WordAt(Operand(k, x), k, n) = (x \div Pow(n)) % B
  BY <1>3, <1>4, DigitIs
<1> QED BY <1>2, <1>5, ContractPow DEF Call, Contract!Digit, Contract!Is, Contract!result, Contract!x, Contract!y

(***************************************************************************)
(* Bits.  Words and bits of a number are counted in the same powers.       *)
(***************************************************************************)
\* What a shift leaves of a word and what it shifts out make up the word.
LEMMA PowersMatch ==
  ASSUME Sizes
  PROVE  \A c \in 0..WordBits : 2^c \in Nat \ {0} /\ 2^(WordBits - c) \in Nat \ {0} /\ 2^c * 2^(WordBits - c) = B
<1> DEFINE T == { c \in 0..WordBits : 2^c * 2^(WordBits - c) = B }
<1>1. WordBits \in Nat /\ Parameters
  BY SizesSuffice DEF Sizes
<1>2. \A c \in 0..WordBits : 2^c \in Nat \ {0} /\ 2^(WordBits - c) \in Nat \ {0}
  <2> SUFFICES ASSUME NEW c \in 0..WordBits PROVE 2^c \in Nat \ {0} /\ 2^(WordBits - c) \in Nat \ {0}
    OBVIOUS
  <2>1. c \in Nat /\ WordBits - c \in Nat
    BY <1>1
  <2> QED BY <2>1, TwicePower
<1>3. 0 \in T
  <2>1. 2^0 = 1 /\ WordBits - 0 = WordBits /\ 1 * B = B
    BY <1>1 DEF Parameters
  <2> QED BY <1>1, <2>1 DEF B
<1>4. ASSUME NEW c \in 0..(WordBits - 1), c \in T PROVE c + 1 \in T
  <2> DEFINE u == 2^c
             v == 2^(WordBits - (c + 1))
  <2>1. c \in Nat /\ c + 1 \in 0..WordBits /\ WordBits - (c + 1) \in Nat /\ (WordBits - (c + 1)) + 1 = WordBits - c
    BY <1>1
  <2>2. 2^(c + 1) = 2 * u /\ u \in Nat
    BY <2>1, TwicePower
  <2>3. 2^((WordBits - (c + 1)) + 1) = 2 * v /\ v \in Nat
    BY <2>1, TwicePower
  <2>4. 2^(WordBits - c) = 2 * v
    BY <2>1, <2>3
  <2>5. u * (2 * v) = B
    BY <1>4, <2>4
  <2> HIDE DEF u, v
  <2>6. (2 * u) * v = B
    BY <2>2, <2>3, <2>5
  <2>7. 2^(c + 1) * 2^(WordBits - (c + 1)) = B
    BY <2>2, <2>6 DEF v
  <2> QED BY <2>1, <2>7
<1>5. 0..WordBits \subseteq T
  <2> HIDE DEF T
  <2> QED BY <1>1, <1>3, <1>4, LoopInduction
<1> QED BY <1>2, <1>5

\* Powers of two are multiplied by adding their exponents, and grow with them.
LEMMA PowersAdd == Sizes => \A n \in Nat, t \in Nat : 2^n \in Nat \ {0} /\ 2^(n + t) = 2^n * 2^t
BY Facts!PowersAdd, PowersAssumptions, Zenon

LEMMA PowersGrow == Sizes => \A n \in Nat : \A j \in 0..n : 2^j <= 2^n
BY Facts!PowersGrow, PowersAssumptions, Zenon

\* A number of n words has n times as many bits.
LEMMA PowIsPower ==
  ASSUME Sizes
  PROVE  \A n \in Nat : WordBits * n \in Nat /\ Pow(n) = 2^(WordBits * n)
<1> SUFFICES ASSUME NEW n \in Nat PROVE WordBits * n \in Nat /\ Pow(n) = 2^(WordBits * n)
  OBVIOUS
<1> DEFINE T == { j \in 0..n : Pow(j) = 2^(WordBits * j) }
<1>1. WordBits \in Nat /\ Parameters
  BY SizesSuffice DEF Sizes
<1>2. 0 \in T
  <2>1. WordBits * 0 = 0 /\ 2^0 = 1
    BY <1>1
  <2>2. 2^(WordBits * 0) = 1 /\ Pow(0) = 1
    BY <1>1, <2>1, PowSteps
  <2>3. Pow(0) = 2^(WordBits * 0) /\ 0 \in 0..n
    BY <2>2
  <2> QED BY <2>3
<1>3. ASSUME NEW j \in 0..(n - 1), j \in T PROVE j + 1 \in T
  <2> DEFINE w == WordBits * j
  <2>1. w \in Nat /\ j \in Nat /\ j + 1 \in 0..n /\ WordBits * (j + 1) = WordBits + w
    BY <1>1
  <2>2. Pow(j + 1) = B * Pow(j) /\ Pow(j) = 2^w
    BY <1>1, <1>3, <2>1, PowSteps
  <2> HIDE DEF w
  <2>3. 2^(WordBits + w) = B * 2^w
    BY <1>1, <2>1, PowersAdd DEF B
  <2> QED BY <2>1, <2>2, <2>3
<1>4. 0..n \subseteq T
  <2> HIDE DEF T
  <2> QED BY <1>1, <1>2, <1>3, LoopInduction
<1>5. WordBits * n \in Nat
  BY <1>1
<1> QED BY <1>4, <1>5

\* The zeros above the highest bit of a word
LEMMA ClzIs ==
  ASSUME Sizes, NEW v \in Nat, NEW t \in 0..(WordBits - 1), 2^t <= v, v < 2^(t + 1)
  PROVE  Clz(v) = WordBits - 1 - t
<1> DEFINE at == WordBits - 1 - t
<1>1. WordBits \in Nat /\ t \in Nat
  BY DEF Sizes
<1>2. at \in 0..(WordBits - 1) /\ WordBits - 1 - at = t
  BY <1>1
<1>3. \A n \in Nat : 2^n \in Nat \ {0} /\ 2^(n + 1) = 2 * 2^n
  BY TwicePower
<1>4. v # 0
  BY <1>1, <1>3
<1>5. v \div 2^t = 1
  <2> DEFINE P == 2^t
             r == v - P
  <2>1. P \in Nat \ {0} /\ v < 2 * P /\ P <= v
    BY <1>1, <1>3
  <2> HIDE DEF P
  <2>2. r \in 0..(P - 1) /\ v = P * 1 + r
    BY <2>1
  <2> HIDE DEF r
  <2>3. (P * 1 + r) \div P = 1
    BY <2>1, <2>2
  <2> QED BY <2>2, <2>3 DEF P
<1>6. ASSUME NEW i1 \in 0..(WordBits - 1), v \div 2^(WordBits - 1 - i1) = 1 PROVE i1 = at
  <2> DEFINE u == WordBits - 1 - i1
             P == 2^u
  <2>1. u \in Nat /\ u + 1 \in Nat
    BY <1>1
  <2>2. P <= v /\ v < 2^(u + 1)
    <3>1. P \in Nat \ {0} /\ 2^(u + 1) = 2 * P /\ v \div P = 1
      BY <1>3, <1>6, <2>1
    <3> HIDE DEF P
    <3>2. v = P * (v \div P) + (v % P) /\ v % P \in 0..(P - 1)
      BY <3>1
    <3>3. v = P + (v % P)
      BY <3>1, <3>2
    <3> QED BY <3>1, <3>2, <3>3
  <2>3. ASSUME u < t PROVE FALSE
    <3>1. u + 1 \in 0..t
      BY <1>1, <2>1, <2>3
    <3>2. 2^(u + 1) <= 2^t /\ 2^(u + 1) \in Nat /\ 2^t \in Nat
      BY <1>1, <1>3, <2>1, <3>1, PowersGrow
    <3> QED BY <2>2, <3>2
  <2>4. ASSUME t < u PROVE FALSE
    <3>1. t + 1 \in 0..u /\ t + 1 \in Nat
      BY <1>1, <2>1, <2>4
    <3>2. 2^(t + 1) <= P /\ 2^(t + 1) \in Nat /\ P \in Nat
      BY <1>1, <1>3, <2>1, <3>1, PowersGrow
    <3> QED BY <2>2, <3>2
  <2>5. u = t
    BY <1>1, <2>1, <2>3, <2>4
  <2> QED BY <1>1, <2>5
<1>7. at = CHOOSE i1 \in 0..(WordBits - 1) : v \div 2^(WordBits - 1 - i1) = 1
  <2>1. v \div 2^(WordBits - 1 - at) = 1
    BY <1>2, <1>5
  <2> HIDE DEF at
  <2> QED BY <1>2, <1>6, <2>1
<1> QED BY <1>4, <1>7 DEF Clz

\* The highest bit of the highest word is that of the number.
LEMMA BitsOf ==
  ASSUME Sizes, NEW k \in 0..MaxWords, NEW x \in Numbers(k), NEW s, Topmost(s, Words(x, k), k)
  PROVE  /\ Clz(s.w) \in 0..WordBits
         /\ s.i * WordBits - Clz(s.w)
            = CHOOSE at \in 0..(WordBits * k) : x < 2^at /\ (at > 0 => x >= 2^(at - 1))
<1> DEFINE n == s.i
           w == s.w
           b == n * WordBits - Clz(w)
           Highest_(at) == x < 2^at /\ (at > 0 => x >= 2^(at - 1))
<1>1. WordBits \in Nat \ {0} /\ Parameters /\ k \in Nat /\ x \in Nat /\ n \in 0..k
  BY SizesSuffice DEF Sizes, Numbers, Parameters, Topmost
<1>2. w \in Word /\ (n = 0 => w = B - 1) /\ w # 0
  BY <1>1 DEF Topmost, Parameters
<1>3. x < Pow(n) /\ (n > 0 => x >= Pow(n - 1) * w /\ x < Pow(n - 1) * (w + 1))
  BY <1>1, WordsOf
<1> HIDE DEF n, w
<1>4. PICK t \in 0..(WordBits - 1) : 2^t <= w /\ w < 2^(t + 1)
  <2>1. w \in Nat \ {0} /\ w < 2^WordBits
    BY <1>1, <1>2 DEF Word, B, Parameters
  <2> QED BY <1>1, <2>1, Facts!HighestBit, PowersAssumptions
<1>5. Clz(w) = WordBits - 1 - t
  <2>1. w \in Nat
    BY <1>2 DEF Word, Parameters
  <2> QED BY <1>4, <2>1, ClzIs
<1>6. \A m \in Nat : 2^m \in Nat \ {0}
  BY TwicePower
<1>7. Clz(s.w) \in 0..WordBits
  BY <1>1, <1>5 DEF w
<1>8. CASE n = 0
  <2>1. x = 0
    BY <1>1, <1>3, <1>8, PowSteps
  <2>2. t = WordBits - 1
    <3>1. ASSUME t < WordBits - 1 PROVE FALSE
      <4>1. t + 1 \in 0..(WordBits - 1) /\ WordBits - 1 \in Nat /\ (WordBits - 1) + 1 = WordBits /\ t + 1 \in Nat
        BY <1>1, <3>1
      <4> DEFINE u == 2^(t + 1)
                 h == 2^(WordBits - 1)
      <4>2. u <= h /\ u \in Nat
        BY <1>6, <4>1, PowersGrow
      <4>3. h \in Nat \ {0} /\ 2^((WordBits - 1) + 1) = 2 * h
        BY <4>1, TwicePower
      <4>4. B = 2 * h
        BY <4>1, <4>3 DEF B
      <4>5. B - 1 < u
        BY <1>2, <1>4, <1>8
      <4> HIDE DEF u, h
      <4> QED BY <4>2, <4>3, <4>4, <4>5
    <3> QED BY <1>1, <3>1
  <2>3. b = 0
    BY <1>1, <1>5, <1>8, <2>2
  <2>4. WordBits * k \in Nat
    BY <1>1
  <2>5. Highest_(0) /\ 0 \in 0..(WordBits * k)
    BY <2>1, <2>4
  <2>6. ASSUME NEW at \in 0..(WordBits * k), Highest_(at) PROVE at = 0
    <3>1. ASSUME at > 0 PROVE FALSE
      <4>1. at - 1 \in Nat
        BY <2>4, <3>1
      <4>2. 2^(at - 1) \in Nat \ {0}
        BY <1>6, <4>1
      <4> QED BY <2>1, <2>6, <3>1, <4>2
    <3> QED BY <2>4, <3>1
  <2> HIDE DEF b
  <2>7. b = CHOOSE at \in 0..(WordBits * k) : Highest_(at)
    BY <2>3, <2>5, <2>6
  <2> QED BY <1>7, <2>7 DEF b, n, w
<1>9. CASE n > 0
  <2> DEFINE q == WordBits * (n - 1)
             l == q + t
  <2>1. q \in Nat /\ t \in Nat /\ l \in Nat /\ q + (t + 1) = l + 1 /\ t + 1 \in Nat
    <3>1. n - 1 \in Nat
      BY <1>1, <1>9
    <3>2. q \in Nat
      BY <1>1, <3>1
    <3> HIDE DEF q
    <3> QED BY <3>2
  <2>2. b = l + 1 /\ l + 1 \in 0..(WordBits * k)
    <3>1. n * WordBits = q + WordBits
      BY <1>1
    <3>2. WordBits * k = WordBits * n + WordBits * (k - n) /\ WordBits * (k - n) \in Nat /\ WordBits * n = q + WordBits
      <4>1. k - n \in Nat
        BY <1>1
      <4>2. WordBits * (k - n) \in Nat
        BY <1>1, <4>1
      <4>3. WordBits * k = WordBits * n + WordBits * (k - n)
        BY <1>1
      <4>4. WordBits * n = q + WordBits
        BY <1>1
      <4> QED BY <4>2, <4>3, <4>4
    <3> HIDE DEF q
    <3> QED BY <1>1, <1>5, <2>1, <3>1, <3>2
  <2>3. Pow(n - 1) = 2^q
    <3>1. n - 1 \in Nat
      BY <1>1, <1>9
    <3> QED BY <3>1, PowIsPower
  <2> HIDE DEF q, b
  <2>4. 2^l <= x /\ x < 2^(l + 1)
    <3> DEFINE P == 2^q
               u == 2^t
               v == 2^(t + 1)
    <3>1. P \in Nat \ {0} /\ u \in Nat /\ v \in Nat
      BY <1>6, <2>1
    <3>2. 2^l = P * u /\ 2^(l + 1) = P * v
      <4>1. 2^(q + t) = P * u /\ 2^(q + (t + 1)) = P * v
        BY <2>1, PowersAdd
      <4> QED BY <2>1, <4>1
    <3>3. u <= w /\ w + 1 <= v /\ w \in Nat
      <4>1. w \in Nat
        BY <1>2 DEF Word, Parameters
      <4> HIDE DEF u, v
      <4>2. u <= w /\ w < v
        BY <1>4 DEF u, v
      <4> QED BY <3>1, <4>1, <4>2
    <3>4. P * w <= x /\ x < P * (w + 1)
      BY <1>3, <1>9, <2>3
    <3> HIDE DEF P, u, v, l
    <3>5. P * u <= P * w /\ P * (w + 1) <= P * v
      BY <3>1, <3>3
    <3>6. P * u \in Nat /\ P * w \in Nat /\ P * (w + 1) \in Nat /\ P * v \in Nat
      BY <3>1, <3>3
    <3> QED BY <1>1, <3>2, <3>4, <3>5, <3>6
  <2> HIDE DEF l
  <2>5. Highest_(l + 1)
    BY <2>1, <2>4
  <2>6. ASSUME NEW at \in 0..(WordBits * k), Highest_(at) PROVE at = l + 1
    <3>1. at \in Nat /\ l + 1 \in Nat
      BY <1>1, <2>1
    <3>2. ASSUME at < l + 1 PROVE FALSE
      <4>1. at \in 0..l
        BY <2>1, <3>1, <3>2
      <4>2. 2^at <= 2^l /\ 2^at \in Nat /\ 2^l \in Nat
        BY <1>6, <2>1, <3>1, <4>1, PowersGrow
      <4> QED BY <1>1, <2>4, <2>6, <4>2
    <3>3. ASSUME l + 1 < at PROVE FALSE
      <4>1. l + 1 \in 0..(at - 1) /\ at - 1 \in Nat /\ at > 0
        BY <2>1, <3>1, <3>3
      <4>2. 2^(l + 1) <= 2^(at - 1) /\ 2^(l + 1) \in Nat /\ 2^(at - 1) \in Nat
        BY <1>6, <3>1, <4>1, PowersGrow
      <4> QED BY <1>1, <2>4, <2>6, <4>1, <4>2
    <3> QED BY <3>1, <3>2, <3>3
  <2>7. l + 1 = CHOOSE at \in 0..(WordBits * k) : Highest_(at)
    <3> HIDE DEF Highest_
    <3> QED BY <2>2, <2>5, <2>6
  <2> QED BY <1>7, <2>2, <2>7 DEF b, n, w
<1> QED BY <1>1, <1>8, <1>9

LEMMA BitCountPromise == Sizes => (Clz_ => Contract!Clz') /\ (Bitsize => Contract!Bitsize')
<1> SUFFICES ASSUME Sizes PROVE (Clz_ => Contract!Clz') /\ (Bitsize => Contract!Bitsize')
  OBVIOUS
<1> USE SizesSuffice
<1>1. ASSUME NEW k \in 0..MaxWords, NEW x \in Numbers(k)
      PROVE  LET h == Highest(Operand(k, x), k)
             IN  /\ h.i * WordBits - Clz(h.w)
                    = CHOOSE at \in 0..(WordBits * k) : x < 2^at /\ (at > 0 => x >= 2^(at - 1))
                 /\ (k - h.i) * WordBits + Clz(h.w)
                    = WordBits * k - CHOOSE at \in 0..(WordBits * k) : x < 2^at /\ (at > 0 => x >= 2^(at - 1))
  <2> DEFINE h == Highest(Operand(k, x), k)
             c == Clz(h.w)
             n == h.i
  <2>1. Topmost(h, Words(x, k), k)
    BY WordsValue, HighestIs DEF Operand
  <2>2. n * WordBits - c = CHOOSE at \in 0..(WordBits * k) : x < 2^at /\ (at > 0 => x >= 2^(at - 1))
    BY <2>1, BitsOf
  <2>3. n \in 0..k /\ h.w \in Word /\ WordBits \in Nat /\ k \in Nat
    BY <2>1 DEF Topmost, Sizes
  <2>4. c \in Int
    BY <2>1, <2>3, BitsOf
  <2> HIDE DEF n, c, h
  <2>5. (k - n) * WordBits + c = WordBits * k - (n * WordBits - c)
    BY <2>3, <2>4
  <2> QED BY <2>2, <2>5 DEF n, c, h
<1>2. ASSUME Clz_ PROVE Contract!Clz'
  <2> DEFINE Returns(k, x) == Scanned("clz", k, x, (k - Highest(Operand(k, x), k).i) * WordBits
                                                   + Clz(Highest(Operand(k, x), k).w))
  <2>1. PICK k \in 0..MaxWords : \E x \in Numbers(k) : Returns(k, x)
    BY <1>2 DEF Clz_, Lengths
  <2>2. PICK x \in Numbers(k) : Returns(k, x)
    BY <2>1
  <2> QED BY <1>1, <2>2 DEF Scanned, Call, Contract!Clz, Contract!Is, Contract!result, Contract!x, Contract!k,
        Contract!bits, Contract!Bits
<1>3. ASSUME Bitsize PROVE Contract!Bitsize'
  <2> DEFINE Returns(k, x) == Scanned("bitsize", k, x, Highest(Operand(k, x), k).i * WordBits
                                                       - Clz(Highest(Operand(k, x), k).w))
  <2>1. PICK k \in 0..MaxWords : \E x \in Numbers(k) : Returns(k, x)
    BY <1>3 DEF Bitsize, Lengths
  <2>2. PICK x \in Numbers(k) : Returns(k, x)
    BY <2>1
  <2> QED BY <1>1, <2>2 DEF Scanned, Call, Contract!Bitsize, Contract!Is, Contract!result, Contract!x, Contract!k,
        Contract!bits, Contract!Bits
<1> QED BY <1>2, <1>3

\* The word that has a one for each zero below the lowest bit
LEMMA ZerosBelowIs ==
  ASSUME Sizes, NEW t \in 0..(WordBits - 1), NEW h \in Nat, NEW v, v = 2^t * (2 * h + 1)
  PROVE  ZerosBelow(v) = 2^t - 1
<1> DEFINE Lowest_(at) == (v \div 2^at) % 2 = 1 /\ (v % 2^at) = 0
<1>1. t \in Nat /\ WordBits \in Nat /\ \A n \in Nat : 2^n \in Nat \ {0}
  BY TwicePower DEF Sizes
<1>2. /\ v \in Nat \ {0} /\ v % 2^t = 0
      /\ \A j \in Nat : j > t => v % 2^j # 0
  <2>1. Facts!LowBit(v, t, h)
    BY <1>1 DEF Facts!LowBit
  <2> QED BY <2>1, Facts!RemaindersOf, PowersAssumptions
<1>3. v \div 2^t = 2 * h + 1
  <2> DEFINE P == 2^t
             o == 2 * h + 1
  <2>1. P \in Nat \ {0} /\ v = P * o /\ o \in Int
    BY <1>1
  <2> HIDE DEF P, o
  <2>2. P * o \in Int
    BY <2>1
  <2>3. v = P * o + 0
    <3> DEFINE g == P * o
    <3> HIDE DEF g
    <3>1. v = g /\ g \in Int
      BY <2>1, <2>2 DEF g
    <3>2. v = g + 0
      BY <3>1
    <3> QED BY <3>2 DEF g
  <2>4. (P * o + 0) \div P = o
    BY <2>1
  <2> QED BY <2>3, <2>4 DEF P, o
<1>4. Lowest_(t)
  BY <1>2, <1>3
<1>5. ASSUME NEW at \in 0..(WordBits - 1), Lowest_(at) PROVE at = t
  <2>1. at \in Nat
    BY <1>1
  <2>2. ~ at > t
    BY <1>2, <1>5, <2>1
  <2>3. ASSUME at < t PROVE FALSE
    <3> DEFINE d == v \div 2^at
               P == 2^at
               e == d \div 2
    <3>1. P \in Nat \ {0} /\ v % P = 0 /\ d % 2 = 1
      BY <1>1, <1>5, <2>1
    <3>2. v = P * d /\ d \in Int
      BY <1>2, <3>1
    <3> HIDE DEF d, P
    <3>3. d >= 0
      <4>1. ASSUME d < 0 PROVE FALSE
        <5>1. P * d <= P * (-1)
          BY <3>1, <3>2, <4>1
        <5> QED BY <1>2, <3>1, <3>2, <5>1
      <4> QED BY <3>2, <4>1
    <3>4. d = 2 * e + 1 /\ e \in Nat
      BY <3>1, <3>2, <3>3
    <3> HIDE DEF e
    <3>5. v = 2^at * (2 * e + 1)
      BY <3>2, <3>4 DEF P
    <3>6. Facts!LowBit(v, at, e)
      BY <2>1, <3>4, <3>5 DEF Facts!LowBit
    <3>7. v % 2^t # 0
      BY <1>1, <2>3, <3>6, Facts!RemaindersOf, PowersAssumptions
    <3> QED BY <1>2, <3>7
  <2> QED BY <1>1, <2>1, <2>2, <2>3
<1>6. t = CHOOSE at \in 0..(WordBits - 1) : Lowest_(at)
  <2> HIDE DEF Lowest_
  <2> QED BY <1>4, <1>5
<1> QED BY <1>6 DEF ZerosBelow

\* and the zeros above those ones
LEMMA ClzOfZeros ==
  ASSUME Sizes, NEW t \in 0..(WordBits - 1)
  PROVE  Clz(2^t - 1) = WordBits - t
<1>1. t \in Nat /\ WordBits \in Nat
  BY DEF Sizes
<1>2. CASE t = 0
  <2>1. 2^0 - 1 = 0
    OBVIOUS
  <2>2. Clz(0) = WordBits
    BY DEF Clz
  <2> QED BY <1>1, <1>2, <2>1, <2>2
<1>3. CASE t > 0
  <2> DEFINE P == 2^(t - 1)
             v == 2^t - 1
  <2>1. t - 1 \in Nat /\ (t - 1) + 1 = t /\ t - 1 \in 0..(WordBits - 1)
    BY <1>1, <1>3
  <2>2. P \in Nat \ {0} /\ 2^((t - 1) + 1) = 2 * P
    BY <2>1, TwicePower
  <2>3. 2^t = 2 * P
    BY <2>1, <2>2
  <2> HIDE DEF P
  <2>4. v \in Nat /\ P <= v /\ v < 2^((t - 1) + 1)
    BY <2>2, <2>3
  <2> HIDE DEF v
  <2>5. Clz(v) = WordBits - 1 - (t - 1)
    BY <2>1, <2>4, ClzIs DEF P
  <2>6. WordBits - 1 - (t - 1) = WordBits - t
    BY <1>1
  <2> QED BY <2>5, <2>6 DEF v
<1> QED BY <1>1, <1>2, <1>3

\* The lowest bit of the lowest word is that of the number.
LEMMA TrailingBits ==
  ASSUME Sizes, NEW k \in 0..MaxWords, NEW x \in Numbers(k), NEW s, Bottommost(s, Words(x, k), 0, k)
  PROVE  (s.i + 1) * WordBits - Clz(ZerosBelow(s.w))
         = IF x = 0 THEN WordBits * k
           ELSE CHOOSE at \in 0..(WordBits * k) : x % 2^at = 0 /\ x % 2^(at + 1) # 0
<1> DEFINE n == s.i
           d == s.w
           w == Words(x, k)
           b == (n + 1) * WordBits - Clz(ZerosBelow(d))
           Trailing(at) == x % 2^at = 0 /\ x % 2^(at + 1) # 0
<1>1. WordBits \in Nat \ {0} /\ Parameters /\ k \in Nat /\ x \in Nat /\ n \in 0..k /\ d \in Word
  BY SizesSuffice DEF Sizes, Numbers, Parameters, Bottommost
<1>2. /\ n < k => w[n] # 0 /\ d = w[n]
      /\ n = k => d = 1
      /\ \A j \in 0..(n - 1) : w[j] = 0
  BY DEF Bottommost
<1>3. n = k <=> x = 0
  <2>1. x = 0 => n = k
    BY <1>1, TrailingWords
  <2>2. ASSUME n = k PROVE x = 0
    <3>1. \A j \in 0..(k - 1) : w[j] = 0
      BY <1>2, <2>2
    <3>2. w \in Row /\ Value(w, k) = x
      BY <1>1, WordsValue
    <3> HIDE DEF w
    <3> QED BY <1>1, <3>1, <3>2, ZeroWords
  <2> QED BY <2>1, <2>2
<1> HIDE DEF n, d, w
<1>4. d # 0 /\ d \in Nat
  <2>1. d \in Nat
    BY <1>1 DEF Word, Parameters
  <2>2. n < k \/ n = k
    BY <1>1
  <2> QED BY <1>2, <2>1, <2>2
<1>5. PICK t \in 0..(WordBits - 1), h \in Nat : d = 2^t * (2 * h + 1)
  <2>1. d \in Nat \ {0} /\ d < 2^WordBits
    BY <1>1, <1>4 DEF Word, B, Parameters
  <2> QED BY <1>1, <2>1, Facts!LowestBit, PowersAssumptions
<1>6. b = n * WordBits + t
  <2>1. ZerosBelow(d) = 2^t - 1
    BY <1>5, ZerosBelowIs
  <2>2. Clz(ZerosBelow(d)) = WordBits - t
    BY <2>1, ClzOfZeros
  <2> DEFINE c == Clz(ZerosBelow(d))
  <2> HIDE DEF c
  <2>3. c = WordBits - t
    BY <2>2 DEF c
  <2>4. (n + 1) * WordBits - c = n * WordBits + t
    BY <1>1, <2>3
  <2> QED BY <2>4 DEF c
<1> HIDE DEF b
<1>7. CASE x = 0
  <2>1. n = k /\ d = 1
    BY <1>2, <1>3, <1>7
  <2>2. t = 0
    <3>1. ASSUME t > 0 PROVE FALSE
      <4>1. t - 1 \in Nat /\ (t - 1) + 1 = t
        BY <1>1, <3>1
      <4> DEFINE P == 2^(t - 1)
                 o == 2 * h + 1
      <4>2. P \in Nat /\ 2^((t - 1) + 1) = 2 * P
        BY <4>1, TwicePower
      <4>3. 2^t = 2 * P
        BY <4>1, <4>2
      <4> HIDE DEF P
      <4>4. 1 = (2 * P) * o /\ o \in Nat
        BY <1>5, <2>1, <4>3
      <4> HIDE DEF o
      <4>5. (2 * P) * o = 2 * (P * o) /\ P * o \in Nat
        BY <4>2, <4>4
      <4> QED BY <4>4, <4>5
    <3> QED BY <1>1, <3>1
  <2>3. b = WordBits * k
    BY <1>1, <1>6, <2>1, <2>2
  <2> QED BY <1>7, <2>3 DEF b, n, d
<1>8. CASE x # 0
  <2> DEFINE q == WordBits * n
             l == q + t
             P == Pow(n)
             H == x \div Pow(n + 1)
  <2>1. n < k /\ n \in Nat /\ n + 1 \in 0..k /\ n \in 0..k /\ n \in 0..MaxWords
    BY <1>1, <1>3, <1>8 DEF Parameters
  <2>2. q \in Nat /\ t \in Nat /\ l \in Nat /\ P = 2^q /\ P \in Nat \ {0} /\ Pow(n + 1) = B * P /\ B \in Nat \ {0}
    <3>1. q \in Nat /\ P = 2^q
      BY <2>1, PowIsPower
    <3>2. P \in Nat \ {0} /\ Pow(n + 1) = B * P /\ B \in Nat \ {0}
      BY <1>1, <2>1, PowSteps DEF Parameters
    <3>3. t \in Nat
      BY <1>1
    <3> HIDE DEF q, P
    <3> QED BY <3>1, <3>2, <3>3
  <2>3. x % Pow(n + 1) = P * d
    <3>1. w \in Row /\ Value(w, n + 1) = x % Pow(n + 1)
      BY <1>1, <2>1, WordsValue DEF w
    <3>2. Value(w, n + 1) = Value(w, n) + P * w[n]
      BY <1>1, <2>1, <3>1, ValueSteps
    <3>3. Value(w, n) = 0
      BY <1>1, <1>2, <2>1, <3>1, ZeroWords
    <3>4. w[n] = d
      BY <1>2, <2>1
    <3> HIDE DEF P
    <3>5. P * d \in Nat
      BY <1>4, <2>2
    <3> QED BY <3>1, <3>2, <3>3, <3>4, <3>5
  <2>4. x = (B * P) * H + P * d /\ H \in Nat
    <3> DEFINE wide == Pow(n + 1)
    <3>1. wide \in Nat \ {0} /\ wide = B * P /\ x % wide = P * d
      <4>1. n + 1 \in Nat
        BY <2>1
      <4> QED BY <1>1, <2>2, <2>3, <4>1, PowSteps
    <3> HIDE DEF wide
    <3>2. wide \in Nat \ {0} /\ x \in Nat
      BY <1>1, <3>1
    <3>3. x = wide * (x \div wide) + (x % wide)
      BY <3>2
    <3>4. x \div wide \in Nat
      BY <3>2
    <3> QED BY <3>1, <3>3, <3>4 DEF wide
  <2> DEFINE u == 2^t
             g == 2^(WordBits - t - 1)
             o == h + g * H
  <2>5. u \in Nat \ {0} /\ g \in Nat \ {0} /\ B = u * (2 * g)
    <3>1. WordBits - t - 1 \in Nat /\ (WordBits - t - 1) + 1 = WordBits - t /\ t \in 0..WordBits
      BY <1>1
    <3>2. u \in Nat \ {0} /\ u * 2^(WordBits - t) = B
      BY <3>1, PowersMatch
    <3>3. g \in Nat \ {0} /\ 2^((WordBits - t - 1) + 1) = 2 * g
      BY <3>1, TwicePower
    <3>4. 2^(WordBits - t) = 2 * g
      BY <3>1, <3>3
    <3> HIDE DEF u, g
    <3> QED BY <3>2, <3>3, <3>4
  <2>6. 2^l = P * u
    <3> HIDE DEF q, P
    <3> QED BY <2>2, PowersAdd
  <2>7. d = u * (2 * h + 1)
    BY <1>5
  <2> HIDE DEF u, g, H, P, q, l
  <2>8. x = (P * u) * (2 * o + 1) /\ o \in Nat
    <3>1. o \in Nat
      BY <2>4, <2>5
    <3>2. 2 * o + 1 = 2 * (g * H) + (2 * h + 1)
      BY <2>4, <2>5
    <3> DEFINE e == g * H
               f == 2 * h + 1
    <3>3. e \in Nat /\ f \in Nat
      BY <2>4, <2>5
    <3>4. (B * P) * H = (P * u) * (2 * e)
      BY <2>2, <2>4, <2>5
    <3> HIDE DEF e, f, o
    <3>5. P * d = (P * u) * f
      BY <2>2, <2>5, <2>7, <3>3 DEF f
    <3>6. (P * u) * (2 * e + f) = (P * u) * (2 * e) + (P * u) * f
      BY <2>2, <2>5, <3>3
    <3> QED BY <2>4, <3>1, <3>2, <3>4, <3>5, <3>6 DEF e, f
  <2>9. /\ \A j \in 0..l : x % 2^j = 0
        /\ \A j \in Nat : j > l => x % 2^j # 0
    <3> HIDE DEF o
    <3>1. x = 2^l * (2 * o + 1)
      BY <2>6, <2>8
    <3>2. Facts!LowBit(x, l, o)
      BY <2>2, <2>8, <3>1 DEF Facts!LowBit
    <3> QED BY <3>2, Facts!RemaindersOf, PowersAssumptions
  <2>10. b = l /\ l \in 0..(WordBits * k)
    <3>1. n * WordBits = q
      BY <1>1, <2>1 DEF q
    <3>2. q + WordBits <= WordBits * k /\ WordBits * k \in Nat
      <4>1. k - (n + 1) \in Nat /\ WordBits * (k - (n + 1)) \in Nat
        BY <1>1, <2>1
      <4>2. WordBits * k = (WordBits * n + WordBits) + WordBits * (k - (n + 1))
        BY <1>1, <2>1
      <4>3. WordBits * k \in Nat
        BY <1>1
      <4> QED BY <1>1, <2>2, <4>1, <4>2, <4>3 DEF q
    <3> QED BY <1>1, <1>6, <2>2, <3>1, <3>2 DEF l
  <2>11. Trailing(l)
    <3>1. l \in 0..l /\ l + 1 \in Nat /\ l + 1 > l
      BY <2>2
    <3> QED BY <2>9, <3>1
  <2>12. ASSUME NEW at \in 0..(WordBits * k), Trailing(at) PROVE at = l
    <3>1. at \in Nat
      BY <1>1
    <3>2. ~ at > l
      BY <2>9, <2>12, <3>1
    <3>3. ~ at < l
      <4>1. at < l => at + 1 \in 0..l
        BY <2>2, <3>1
      <4> QED BY <2>9, <2>12, <4>1
    <3> QED BY <2>2, <3>1, <3>2, <3>3
  <2>13. l = CHOOSE at \in 0..(WordBits * k) : Trailing(at)
    <3> HIDE DEF Trailing
    <3> QED BY <2>10, <2>11, <2>12
  <2> QED BY <1>8, <2>10, <2>13 DEF b, n, d
<1> QED BY <1>7, <1>8

LEMMA CtzPromise == Sizes /\ Ctz => Contract!Ctz'
<1> SUFFICES ASSUME Sizes, Ctz PROVE Contract!Ctz'
  OBVIOUS
<1> USE SizesSuffice
<1> DEFINE Low(k, x) == Lowest(Operand(k, x), k)
           Returns(k, x) == Scanned("ctz", k, x, IF k = 0 THEN 0
                                                 ELSE (Low(k, x).i + 1) * WordBits - Clz(ZerosBelow(Low(k, x).w)))
<1>1. PICK k \in 0..MaxWords : \E x \in Numbers(k) : Returns(k, x)
  BY DEF Ctz, Lengths
<1>2. PICK x \in Numbers(k) : Returns(k, x)
  BY <1>1
<1>3. Bottommost(Low(k, x), Words(x, k), 0, k)
  BY WordsValue, LowestIs DEF Operand
<1>4. (Low(k, x).i + 1) * WordBits - Clz(ZerosBelow(Low(k, x).w))
      = IF x = 0 THEN WordBits * k
        ELSE CHOOSE at \in 0..(WordBits * k) : x % 2^at = 0 /\ x % 2^(at + 1) # 0
  BY <1>3, TrailingBits
<1>5. k = 0 => x = 0 /\ WordBits * k = 0
  BY PowSteps DEF Numbers, Sizes
<1> HIDE DEF Low
<1>6. call'.result = << IF x = 0 THEN WordBits * k
                        ELSE CHOOSE at \in 0..(WordBits * k) : x % 2^at = 0 /\ x % 2^(at + 1) # 0 >>
  BY <1>2, <1>4, <1>5 DEF Scanned, Call
<1> QED BY <1>2, <1>6 DEF Scanned, Call, Contract!Ctz, Contract!Is, Contract!result, Contract!x, Contract!k,
        Contract!bits, Contract!BitsBelow

(***************************************************************************)
(* Numbers made of a word, and of the index of a bit                       *)
(***************************************************************************)
Alone == [{ "z" } -> Row]

\* A loop that stores a word that depends only on its index
Filling(s, k, mem, E) ==
    s = [j \in 0..k |-> IF j = 0 THEN mem ELSE Store(s[j - 1], "z", j - 1, E[j - 1])]

\* The loops are functions of the words done.
LEMMA FillingExists ==
  ASSUME Parameters, NEW k \in 0..MaxWords, NEW mem \in Alone, NEW E \in [Nat -> Word]
  PROVE  \E s : Filling(s, k, mem, E)
<1> DEFINE S == Alone
           g == [j \in 0..(k - 1) |-> [s \in S |-> Store(s, "z", j, E[j])]]
<1>1. k \in Nat
  BY DEF Parameters
<1>2. ASSUME NEW j \in 0..(k - 1), NEW s \in S PROVE Store(s, "z", j, E[j]) \in S
  <2>1. j \in 0..MaxWords /\ E[j] \in Word
    BY DEF Parameters
  <2> QED BY <2>1, StoredWord DEF Alone
<1>3. g \in [0..(k - 1) -> [S -> S]]
  <2> HIDE DEF S
  <2> QED BY <1>2
<1>4. PICK s : Recursive(s, k, S, mem, g)
  <2> HIDE DEF g
  <2> QED BY <1>1, <1>3, LoopExists, Zenon
<1>5. s \in [0..k -> S] /\ s = [j \in 0..k |-> IF j = 0 THEN mem ELSE g[j - 1][s[j - 1]]]
  BY <1>4 DEF Recursive
<1>6. ASSUME NEW j \in 0..k
      PROVE  s[j] = IF j = 0 THEN mem ELSE Store(s[j - 1], "z", j - 1, E[j - 1])
  <2>1. CASE j = 0
    BY <1>5, <2>1
  <2>2. CASE j # 0
    <3>1. j - 1 \in 0..(k - 1) /\ j - 1 \in 0..k
      BY <2>2 DEF Parameters
    <3>2. s[j] = g[j - 1][s[j - 1]] /\ s[j - 1] \in S
      BY <1>5, <2>2, <3>1
    <3> HIDE DEF S
    <3> QED BY <2>2, <3>1, <3>2
  <2> QED BY <2>1, <2>2
<1>7. Filling(s, k, mem, E)
  <2> HIDE DEF g
  <2> QED BY <1>5, <1>6 DEF Filling
<1> QED BY <1>7

\* A loop that stores one word after the other
LEMMA Filled ==
  ASSUME Parameters, NEW k \in 0..MaxWords, NEW mem \in Alone, NEW E \in [Nat -> Word],
         NEW s, Filling(s, k, mem, E)
  PROVE  /\ s[k]["z"] \in Row
         /\ \A j \in 0..(k - 1) : s[k]["z"][j] = E[j]
         /\ Left(mem, s[k], "z", k) = Value(s[k]["z"], k)
<1> DEFINE T == { h \in 0..k : /\ s[h] \in Alone
                               /\ \A j \in 0..MaxWords : s[h]["z"][j] = IF j < h THEN E[j] ELSE mem["z"][j] }
<1>1. k \in Nat
  BY DEF Parameters
<1>2. 0 \in T
  <2>1. s[0] = mem /\ 0 \in 0..k
    BY <1>1 DEF Filling
  <2>2. \A j \in 0..MaxWords : s[0]["z"][j] = IF j < 0 THEN E[j] ELSE mem["z"][j]
    BY <2>1
  <2>3. s[0] \in Alone
    BY <2>1
  <2> QED BY <2>1, <2>2, <2>3
<1>3. ASSUME NEW h \in 0..(k - 1), h \in T PROVE h + 1 \in T
  <2>1. h + 1 \in 0..k /\ h + 1 # 0 /\ (h + 1) - 1 = h /\ h \in 0..MaxWords /\ E[h] \in Word
    BY DEF Parameters
  <2>2. s[h + 1] = Store(s[h], "z", h, E[h])
    BY <2>1 DEF Filling
  <2>3. s[h + 1] \in Alone /\ \A j \in 0..MaxWords : s[h + 1]["z"][j] = IF j = h THEN E[h] ELSE s[h]["z"][j]
    <3> DEFINE m == s[h]
               d == E[h]
    <3>1. m \in Alone /\ d \in Word /\ s[h + 1] = Store(m, "z", h, d)
      BY <1>3, <2>1, <2>2
    <3> HIDE DEF m, d
    <3>2. /\ Store(m, "z", h, d) \in Alone
          /\ \A j \in 0..MaxWords : Store(m, "z", h, d)["z"][j] = IF j = h THEN d ELSE m["z"][j]
      BY <2>1, <3>1, StoredWord DEF Alone
    <3> QED BY <3>1, <3>2 DEF m, d
  <2>4. \A j \in 0..MaxWords : j < h + 1 <=> j < h \/ j = h
    BY DEF Parameters
  <2>5. \A j \in 0..MaxWords : s[h]["z"][j] = IF j < h THEN E[j] ELSE mem["z"][j]
    BY <1>3
  <2>6. \A j \in 0..MaxWords : s[h + 1]["z"][j] = IF j < h + 1 THEN E[j] ELSE mem["z"][j]
    BY <2>1, <2>3, <2>4, <2>5
  <2> QED BY <2>1, <2>3, <2>6
<1>4. 0..k \subseteq T
  <2> HIDE DEF T
  <2> QED BY <1>1, <1>2, <1>3, LoopInduction
<1>5. k \in T
  BY <1>1, <1>4
<1>6. \A j \in k..MaxWords : s[k]["z"][j] = mem["z"][j]
  BY <1>5 DEF Parameters
<1>7. \A j \in 0..(k - 1) : s[k]["z"][j] = E[j]
  BY <1>5 DEF Parameters
<1> QED BY <1>5, <1>6, <1>7 DEF Left, Alone

LEMMA EmptyBuffer == Parameters => [z |-> Words(0, 0)] \in Alone
<1> SUFFICES ASSUME Parameters PROVE [z |-> Words(0, 0)] \in Alone
  OBVIOUS
<1>1. 0 \in Numbers(0) /\ 0 \in 0..MaxWords
  BY PowSteps DEF Numbers, Parameters
<1>2. Words(0, 0) \in Row
  BY <1>1, WordsValue
<1> QED BY <1>2 DEF Alone

\* A bit alone: the word it is in, and zeros
LEMMA BitAlone ==
  ASSUME Sizes, NEW k \in 0..MaxWords, NEW n \in Nat, NEW w \in Row,
         \A j \in 0..(k - 1) : w[j] = IF j = n \div WordBits THEN 2^(n % WordBits) ELSE 0
  PROVE  Value(w, k) = 2^n % Pow(k)
<1> DEFINE d == n \div WordBits
           r == n % WordBits
           q == WordBits * d
<1>1. WordBits \in Nat \ {0} /\ Parameters /\ k \in Nat
  BY SizesSuffice DEF Sizes, Parameters
<1>2. d \in Nat /\ r \in 0..(WordBits - 1) /\ n = q + r /\ q \in Nat
  <2>1. d \in Int /\ r \in 0..(WordBits - 1) /\ n = WordBits * d + r
    BY <1>1
  <2> HIDE DEF d, r
  <2>2. ~ d < 0
    <3>1. ASSUME d < 0 PROVE FALSE
      <4>1. WordBits * d <= WordBits * (-1)
        BY <1>1, <2>1, <3>1
      <4> QED BY <1>1, <2>1, <4>1
    <3> QED BY <3>1
  <2>3. WordBits * d \in Nat
    BY <1>1, <2>1, <2>2
  <2> QED BY <2>1, <2>2, <2>3
<1>3. \A j \in 0..(k - 1) : w[j] = IF j = d THEN 2^r ELSE 0
  OBVIOUS
<1> HIDE DEF d, r
<1>4. CASE k <= d
  <2>1. \A j \in 0..(k - 1) : w[j] = 0
    BY <1>2, <1>3, <1>4
  <2>2. Value(w, k) = 0
    BY <1>1, <2>1, ZeroWords
  <2> DEFINE m == WordBits * k
  <2>3. m \in Nat /\ Pow(k) = 2^m
    BY <1>1, PowIsPower
  <2>4. m \in 0..n
    <3>1. d - k \in Nat /\ WordBits * (d - k) \in Nat
      BY <1>1, <1>2, <1>4
    <3>2. WordBits * d = WordBits * k + WordBits * (d - k)
      BY <1>1, <1>2
    <3> QED BY <1>2, <2>3, <3>1, <3>2
  <2> HIDE DEF m
  <2>5. Facts!LowBit(2^n, n, 0)
    <3>1. 2^n = 2^n * (2 * 0 + 1)
      BY TwicePower
    <3> QED BY <3>1 DEF Facts!LowBit
  <2>6. 2^n % 2^m = 0
    BY <2>4, <2>5, Facts!RemaindersOf, PowersAssumptions
  <2> QED BY <2>2, <2>3, <2>6
<1>5. CASE d < k
  <2>1. d \in 0..(k - 1) /\ d \in 0..MaxWords /\ d + 1 \in 0..k /\ r \in Nat
    BY <1>1, <1>2, <1>5 DEF Parameters
  <2>2. Value(w, d) = 0
    <3>1. \A j \in 0..(d - 1) : w[j] = 0
      BY <1>2, <1>3, <1>5
    <3> QED BY <1>1, <2>1, <3>1, ZeroWords
  <2>3. Value(w, d + 1) = 2^n
    <3>1. Value(w, d + 1) = Value(w, d) + Pow(d) * w[d]
      BY <1>1, <2>1, ValueSteps
    <3>2. w[d] = 2^r
      BY <1>3, <2>1
    <3>3. Pow(d) = 2^q
      BY <1>2, PowIsPower
    <3>4. 2^(q + r) = 2^q * 2^r /\ 2^q \in Nat \ {0} /\ 2^r \in Nat \ {0}
      BY <1>2, <2>1, PowersAdd
    <3> DEFINE u == 2^q
               v == 2^r
               t == 2^(q + r)
    <3>5. u * v = t /\ t \in Int
      BY <3>4
    <3>6. Value(w, d + 1) = 0 + u * v
      BY <2>2, <3>1, <3>2, <3>3
    <3>7. t = 2^n
      BY <1>2
    <3> HIDE DEF u, v, t
    <3> QED BY <3>5, <3>6, <3>7
  <2>4. Value(w, k) = 2^n
    <3>1. \A j \in (d + 1)..(k - 1) : w[j] = 0
      BY <1>2, <1>3, <1>5
    <3> QED BY <1>1, <2>1, <2>3, <3>1, ZerosAbove
  <2>5. Value(w, k) \in 0..(Pow(k) - 1) /\ Pow(k) \in Nat \ {0}
    <3>1. k \in 0..(MaxWords + 1)
      BY <1>1 DEF Parameters
    <3> QED BY <1>1, <3>1, ValueSteps, PowSteps
  <2> DEFINE P == Pow(k)
             V == Value(w, k)
  <2> HIDE DEF P, V
  <2>6. V % P = V
    BY <2>5 DEF P, V
  <2> QED BY <2>4, <2>6 DEF P, V
<1> QED BY <1>1, <1>2, <1>4, <1>5

LEMMA Pow2Promise == Sizes /\ LongBits \in Nat /\ Pow2 => Contract!Pow2'
<1> SUFFICES ASSUME Sizes, LongBits \in Nat, Pow2 PROVE Contract!Pow2'
  OBVIOUS
<1> USE SizesSuffice
<1> DEFINE mem == [z |-> Words(0, 0)]
           Set(n, b, at) == Store(b, "z", at, IF at = n \div WordBits THEN 2^(n % WordBits) ELSE 0)
           C(n, k, s) == s = [j \in 0..k |-> IF j = 0 THEN mem ELSE Set(n, s[j - 1], j - 1)]
           f(n, k) == CHOOSE s : C(n, k, s)
           Returns(n, k) == Call("pow2", << k, n >>, << Left(mem, f(n, k)[k], "z", k) >>)
<1>1. PICK k \in 0..MaxWords : \E n \in 0..LongBits : Returns(n, k)
  BY DEF Pow2, Lengths, Up
<1>2. PICK n \in 0..LongBits : Returns(n, k)
  <2> HIDE DEF Returns
  <2> QED BY <1>1
<1>n. n \in Nat
  OBVIOUS
<1> DEFINE E == [at \in Nat |-> IF at = n \div WordBits THEN 2^(n % WordBits) ELSE 0]
<1>3. E \in [Nat -> Word]
  <2> DEFINE r == n % WordBits
  <2>1. WordBits \in Nat \ {0} /\ r \in 0..(WordBits - 1)
    BY DEF Sizes
  <2> HIDE DEF r
  <2>2. r \in Nat /\ r + 1 \in 0..WordBits /\ r + 1 \in Nat
    BY <2>1
  <2>3. 2^(r + 1) <= B /\ 2^(r + 1) = 2 * 2^r /\ 2^r \in Nat \ {0} /\ B \in Nat
    BY <2>1, <2>2, PowersGrow, TwicePower DEF B, Parameters
  <2>4. 2^r \in Word /\ 0 \in Word
    BY <2>3 DEF Word
  <2> QED BY <2>4 DEF r
<1>4. mem \in Alone
  BY EmptyBuffer
<1>5. C(n, k, f(n, k))
  <2>1. PICK s : Filling(s, k, mem, E)
    <3> HIDE DEF E, mem
    <3> QED BY <1>3, <1>4, FillingExists
  <2>2. C(n, k, s)
    <3>1. \A j \in 0..k : j # 0 => E[j - 1] = IF j - 1 = n \div WordBits THEN 2^(n % WordBits) ELSE 0
      BY DEF Parameters
    <3> HIDE DEF E, mem
    <3> QED BY <2>1, <3>1 DEF Filling
  <2> QED BY <2>2
<1>6. Filling(f(n, k), k, mem, E)
  <2> DEFINE s == f(n, k)
  <2> HIDE DEF s
  <2>1. C(n, k, s)
    BY <1>5 DEF s
  <2>2. \A j \in 0..k : j # 0 => E[j - 1] = IF j - 1 = n \div WordBits THEN 2^(n % WordBits) ELSE 0
    BY DEF Parameters
  <2>3. Filling(s, k, mem, E)
    <3> HIDE DEF E, mem
    <3> QED BY <2>1, <2>2 DEF Filling
  <2> QED BY <2>3 DEF s
<1> DEFINE w == f(n, k)[k]["z"]
<1>7. /\ w \in Row
      /\ \A j \in 0..(k - 1) : w[j] = E[j]
      /\ Left(mem, f(n, k)[k], "z", k) = Value(w, k)
  <2> DEFINE s == f(n, k)
  <2>1. Filling(s, k, mem, E)
    BY <1>6
  <2> HIDE DEF s, E, mem
  <2>2. /\ s[k]["z"] \in Row
        /\ \A j \in 0..(k - 1) : s[k]["z"][j] = E[j]
        /\ Left(mem, s[k], "z", k) = Value(s[k]["z"], k)
    BY <1>3, <1>4, <2>1, Filled
  <2> QED BY <2>2 DEF s
<1>8. \A j \in 0..(k - 1) : w[j] = IF j = n \div WordBits THEN 2^(n % WordBits) ELSE 0
  <2>1. \A j \in 0..(k - 1) : j \in Nat
    BY DEF Parameters
  <2> HIDE DEF f
  <2> QED BY <1>7, <2>1
<1> DEFINE outcome == Left(mem, f(n, k)[k], "z", k)
<1>9. outcome = 2^n % Pow(k)
  <2> HIDE DEF f
  <2> QED BY <1>n, <1>7, <1>8, BitAlone
<1>10. Call("pow2", << k, n >>, << outcome >>)
  BY <1>2
<1> HIDE DEF outcome
<1> QED BY <1>9, <1>10, ContractPow DEF Call, Contract!Pow2, Contract!Is, Contract!result, Contract!x, Contract!k, Contract!R

\* The word is stored, then zeros from the highest word down.
Clearing(s, k, mem, n) ==
    s = [j \in 0..k |-> IF j = 0 THEN Store(mem, "z", 0, n)
                        ELSE IF k - 1 - (j - 1) = 0 THEN s[j - 1]
                        ELSE Store(s[j - 1], "z", k - 1 - (j - 1), 0)]

LEMMA ClearingExists ==
  ASSUME Parameters, NEW k \in 1..MaxWords, NEW mem \in Alone, NEW n \in Word
  PROVE  \E s : Clearing(s, k, mem, n)
<1> DEFINE S == Alone
           e == Store(mem, "z", 0, n)
           G(s, j) == IF k - 1 - j = 0 THEN s ELSE Store(s, "z", k - 1 - j, 0)
           C(s) == s = [j \in 0..k |-> IF j = 0 THEN e
                                       ELSE IF k - 1 - (j - 1) = 0 THEN s[j - 1]
                                       ELSE Store(s[j - 1], "z", k - 1 - (j - 1), 0)]
           g == [j \in 0..(k - 1) |-> [s \in S |-> G(s, j)]]
<1>1. k \in Nat \ {0} /\ 0 \in Word /\ 0 \in 0..MaxWords
  BY DEF Word, Parameters
<1>2. ASSUME NEW j \in 0..(k - 1), NEW s \in S PROVE G(s, j) \in S
  <2>1. k - 1 - j \in 0..MaxWords
    BY DEF Parameters
  <2>2. Store(s, "z", k - 1 - j, 0) \in S
    BY <1>1, <2>1, StoredWord DEF Alone
  <2> QED BY <2>2
<1>3. /\ e \in S /\ g \in [0..(k - 1) -> [S -> S]]
      /\ \A j \in 0..MaxWords : e["z"][j] = IF j = 0 THEN n ELSE mem["z"][j]
  <2>1. e \in S /\ \A j \in 0..MaxWords : e["z"][j] = IF j = 0 THEN n ELSE mem["z"][j]
    BY <1>1, StoredWord DEF Alone
  <2>2. g \in [0..(k - 1) -> [S -> S]]
    <3> HIDE DEF G, S
    <3> QED BY <1>2
  <2> QED BY <2>1, <2>2
<1>4. PICK r : Recursive(r, k, S, e, g)
  <2> HIDE DEF g, e, S
  <2> QED BY <1>1, <1>3, LoopExists, Zenon
<1>5. r \in [0..k -> S] /\ r = [j \in 0..k |-> IF j = 0 THEN e ELSE g[j - 1][r[j - 1]]]
  BY <1>4 DEF Recursive
<1>6. C(r)
  <2> HIDE DEF S
  <2>1. ASSUME NEW j \in 0..k PROVE r[j] = IF j = 0 THEN e ELSE G(r[j - 1], j - 1)
    <3>1. CASE j = 0
      BY <1>5, <3>1
    <3>2. CASE j # 0
      <4>1. j - 1 \in 0..(k - 1) /\ j - 1 \in 0..k
        BY <1>1, <3>2
      <4>2. r[j] = g[j - 1][r[j - 1]] /\ r[j - 1] \in S
        BY <1>5, <3>2, <4>1
      <4>3. g[j - 1][r[j - 1]] = G(r[j - 1], j - 1)
        <5> HIDE DEF G
        <5> QED BY <4>1, <4>2
      <4> QED BY <3>2, <4>2, <4>3
    <3> QED BY <3>1, <3>2
  <2>2. r = [j \in 0..k |-> IF j = 0 THEN e ELSE G(r[j - 1], j - 1)]
    <3> HIDE DEF G, e, g
    <3> QED BY <1>5, <2>1
  <2> QED BY <2>2
<1> QED BY <1>6 DEF Clearing

\* The word is the lowest, all that are above it are cleared, from the top down.
LEMMA ClearedIs ==
  ASSUME Parameters, NEW k \in 1..MaxWords, NEW mem \in Alone, NEW n \in Word, NEW f, Clearing(f, k, mem, n)
  PROVE  /\ f[k]["z"] \in Row
         /\ \A j \in 0..(k - 1) : f[k]["z"][j] = IF j = 0 THEN n ELSE 0
         /\ Left(mem, f[k], "z", k) = Value(f[k]["z"], k)
<1> DEFINE e == Store(mem, "z", 0, n)
           G(s, j) == IF k - 1 - j = 0 THEN s ELSE Store(s, "z", k - 1 - j, 0)
<1>1. k \in Nat \ {0} /\ 0 \in Word /\ 0 \in 0..MaxWords
  BY DEF Word, Parameters
<1>3. e \in Alone /\ \A j \in 0..MaxWords : e["z"][j] = IF j = 0 THEN n ELSE mem["z"][j]
  BY <1>1, StoredWord DEF Alone
<1>8. /\ f[0] = e
      /\ \A j \in 0..(k - 1) : f[j + 1] = G(f[j], j)
  <2>1. f[0] = e
    <3>1. 0 \in 0..k
      BY <1>1
    <3> HIDE DEF e
    <3> QED BY <3>1 DEF Clearing, e
  <2>2. ASSUME NEW j \in 0..(k - 1) PROVE f[j + 1] = G(f[j], j)
    <3>1. j + 1 \in 0..k /\ j + 1 # 0 /\ (j + 1) - 1 = j
      BY <1>1
    <3> QED BY <3>1 DEF Clearing
  <2> QED BY <2>1, <2>2
<1> HIDE DEF e
<1> DEFINE Cleared(s, h) ==
               /\ s \in Alone
               /\ \A j \in 0..MaxWords : s["z"][j] = IF j = 0 THEN n
                                                    ELSE IF j \in (k - h)..(k - 1) THEN 0 ELSE mem["z"][j]
           T == { h \in 0..k : Cleared(f[h], h) }
<1>9. 0 \in T
  <2>1. \A j \in 0..MaxWords : j \notin (k - 0)..(k - 1)
    BY <1>1 DEF Parameters
  <2>2. Cleared(f[0], 0)
    BY <1>3, <1>8, <2>1
  <2> HIDE DEF Cleared
  <2> QED BY <1>1, <2>2
<1>10. ASSUME NEW h \in 0..(k - 1), h \in T PROVE h + 1 \in T
  <2> DEFINE p == k - 1 - h
  <2>1. h + 1 \in 0..k /\ p \in Nat /\ p \in 0..MaxWords
        /\ \A j \in 0..MaxWords : j \in (k - (h + 1))..(k - 1) <=> (j = p \/ j \in (k - h)..(k - 1))
    BY <1>1 DEF Parameters
  <2>2. Cleared(f[h], h)
    BY <1>10
  <2>3. f[h + 1] = IF p = 0 THEN f[h] ELSE Store(f[h], "z", p, 0)
    BY <1>8
  <2> HIDE DEF p
  <2>4. CASE p = 0
    <3>1. f[h + 1] = f[h]
      BY <2>3, <2>4
    <3>2. Cleared(f[h + 1], h + 1)
      BY <2>1, <2>2, <2>4, <3>1
    <3> HIDE DEF Cleared
    <3> QED BY <2>1, <3>2
  <2>5. CASE p # 0
    <3>1. f[h + 1] = Store(f[h], "z", p, 0)
      BY <2>3, <2>5
    <3>2. f[h + 1] \in Alone /\ \A j \in 0..MaxWords : f[h + 1]["z"][j] = IF j = p THEN 0 ELSE f[h]["z"][j]
      BY <1>1, <2>1, <2>2, <3>1, StoredWord DEF Alone
    <3>3. Cleared(f[h + 1], h + 1)
      BY <2>1, <2>2, <2>5, <3>2
    <3> HIDE DEF Cleared
    <3> QED BY <2>1, <3>3
  <2> QED BY <2>4, <2>5
<1>11. k \in T
  <2>1. 0..k \subseteq T
    <3> HIDE DEF T
    <3> QED BY <1>1, <1>9, <1>10, LoopInduction
  <2> QED BY <1>1, <2>1
<1>12. \A j \in 0..(k - 1) : f[k]["z"][j] = IF j = 0 THEN n ELSE 0
  <2>1. \A j \in 0..(k - 1) : j \in 0..MaxWords /\ j \in (k - k)..(k - 1)
    BY <1>1 DEF Parameters
  <2> QED BY <1>11, <2>1
<1>13. \A j \in k..MaxWords : f[k]["z"][j] = mem["z"][j]
  <2>1. \A j \in k..MaxWords : j \in 0..MaxWords /\ j # 0 /\ j \notin (k - k)..(k - 1)
    BY <1>1 DEF Parameters
  <2> QED BY <1>11, <2>1
<1> QED BY <1>11, <1>12, <1>13 DEF Left, Alone

LEMMA OfWordPromise == Parameters /\ OfWord => Contract!OfWord'
<1> SUFFICES ASSUME Parameters, OfWord PROVE Contract!OfWord'
  OBVIOUS
<1> DEFINE mem == [z |-> Words(0, 0)]
           C(n, k, s) == s = [j \in 0..k |-> IF j = 0 THEN Store(mem, "z", 0, n)
                                             ELSE IF k - 1 - (j - 1) = 0 THEN s[j - 1]
                                             ELSE Store(s[j - 1], "z", k - 1 - (j - 1), 0)]
           f(n, k) == CHOOSE s : C(n, k, s)
           outcome(n, k) == Left(mem, IF k = 0 THEN mem ELSE f(n, k)[k], "z", k)
           Returns(n, k) == Call("of_word", << k, n >>, << outcome(n, k) >>)
<1>1. PICK k \in 0..MaxWords : \E n \in 0..(B - 1) : Returns(n, k)
  BY DEF OfWord, Lengths, Down, Up
<1>2. PICK n \in 0..(B - 1) : Returns(n, k)
  <2> HIDE DEF Returns
  <2> QED BY <1>1
<1>3. n \in Word /\ n \in Nat /\ n < B /\ k \in Nat /\ mem \in Alone /\ Pow(0) = 1 /\ Pow(k) \in Nat \ {0} /\ Pow(1) = B
  <2>1. Pow(0 + 1) = B * Pow(0) /\ Pow(0) = 1
    BY PowSteps
  <2>2. 0 + 1 = 1 /\ B * 1 = B
    BY DEF Parameters
  <2> QED BY <2>1, <2>2, EmptyBuffer, PowSteps DEF Word, Parameters
<1>4. outcome(n, k) = n % Pow(k)
  <2>1. CASE k = 0
    <3>1. outcome(n, k) = Left(mem, mem, "z", k)
      BY <2>1
    <3>2. Value(mem["z"], 0) = 0
      <4>1. mem["z"] \in Row
        BY <1>3 DEF Alone
      <4> QED BY <4>1, ValueSteps
    <3> HIDE DEF mem
    <3>3. Left(mem, mem, "z", k) = 0
      BY <2>1, <3>2 DEF Left
    <3>4. n % 1 = 0
      BY <1>3
    <3> QED BY <1>3, <2>1, <3>1, <3>3, <3>4
  <2>2. CASE k # 0
    <3> DEFINE s == f(n, k)
               w == s[k]["z"]
    <3>1. k \in 1..MaxWords
      BY <1>3, <2>2 DEF Parameters
    <3> HIDE DEF mem
    <3>2. /\ w \in Row
          /\ \A j \in 0..(k - 1) : w[j] = IF j = 0 THEN n ELSE 0
          /\ Left(mem, s[k], "z", k) = Value(w, k)
      <4>1. \E r : Clearing(r, k, mem, n)
        BY <1>3, <3>1, ClearingExists
      <4>2. C(n, k, s)
        BY <4>1 DEF Clearing
      <4> HIDE DEF s
      <4>3. Clearing(s, k, mem, n)
        BY <4>2 DEF Clearing
      <4>4. n \in Word /\ mem \in Alone
        BY <1>3
      <4> QED BY <3>1, <4>3, <4>4, ClearedIs
    <3>3. outcome(n, k) = Value(w, k)
      BY <2>2, <3>2
    <3> HIDE DEF s, w
    <3>4. Value(w, 1) = n
      <4>1. Value(w, 0) = 0 /\ Value(w, 0 + 1) = Value(w, 0) + Pow(0) * w[0]
        <5>1. 0 \in 0..MaxWords
          BY DEF Parameters
        <5> QED BY <3>2, <5>1, ValueSteps
      <4>2. w[0] = n /\ 0 + 1 = 1 /\ 0 + 1 * n = n
        BY <1>3, <3>1, <3>2
      <4> QED BY <1>3, <4>1, <4>2
    <3>5. Value(w, k) = Value(w, 1)
      <4>1. 1 \in 0..k /\ \A j \in 1..(k - 1) : w[j] = 0
        BY <1>3, <3>1, <3>2
      <4> QED BY <3>2, <4>1, ZerosAbove
    <3>6. Pow(1) <= Pow(k)
      <4>1. 1 \in 0..k
        BY <3>1
      <4> QED BY <1>3, <4>1, PowGrows
    <3> DEFINE P == Pow(k)
    <3>7. P \in Nat \ {0} /\ n < P
      BY <1>3, <3>6 DEF Parameters
    <3> HIDE DEF P
    <3>8. n % P = n
      BY <1>3, <3>7
    <3> QED BY <3>3, <3>4, <3>5, <3>8 DEF P
  <2> QED BY <2>1, <2>2
<1> DEFINE a == outcome(n, k)
<1>5. Call("of_word", << k, n >>, << a >>) /\ a = n % Pow(k)
  BY <1>2, <1>4
<1> HIDE DEF a
<1> QED BY <1>5, ContractPow DEF Call, Contract!OfWord, Contract!Is, Contract!result, Contract!x, Contract!k, Contract!R

(***************************************************************************)
(* A field of bits, from two words                                         *)
(***************************************************************************)
\* All the words are read; the two that the field may lie in are kept.
Reading(s, k, mem, n) ==
    s = [j \in 0..k |-> IF j = 0 THEN [d |-> 0, e |-> 0]
                        ELSE [d |-> IF j - 1 < n + 1 THEN X(mem, j - 1) ELSE s[j - 1].d,
                              e |-> IF j - 1 = n + 1 THEN X(mem, j - 1) ELSE s[j - 1].e]]

\* The words at an index and above it are kept while all the words are read.
LEMMA FieldWords ==
  ASSUME Parameters, NEW k \in 0..MaxWords, NEW w \in Row, NEW mem, mem["x"] = w, NEW n \in Nat
  PROVE  LET s == (CHOOSE s : Reading(s, k, mem, n))[k]
         IN  /\ Part(k, n, s.d) = IF n < k THEN w[n] ELSE 0
             /\ s.e = IF n + 1 < k THEN w[n + 1] ELSE 0
<1> DEFINE f == CHOOSE s : Reading(s, k, mem, n)
           h == [j \in 0..k |-> [d |-> IF j = 0 THEN 0 ELSE IF j - 1 < n THEN w[j - 1] ELSE w[n],
                                 e |-> IF n + 1 < j THEN w[n + 1] ELSE 0]]
<1>1. k \in Nat
  BY DEF Parameters
<1>2. Reading(h, k, mem, n)
  <2>1. ASSUME NEW j \in 0..k
        PROVE  h[j] = IF j = 0 THEN [d |-> 0, e |-> 0]
                      ELSE [d |-> IF j - 1 < n + 1 THEN X(mem, j - 1) ELSE h[j - 1].d,
                            e |-> IF j - 1 = n + 1 THEN X(mem, j - 1) ELSE h[j - 1].e]
    <3>1. CASE j = 0
      BY <3>1
    <3>2. CASE j # 0
      <4>1. j - 1 \in 0..k /\ (n + 1 < j <=> n + 1 < j - 1 \/ j - 1 = n + 1)
            /\ (j - 1 < n + 1 <=> j - 1 < n \/ j - 1 = n)
            /\ (~ j - 1 < n + 1 => j - 1 # 0 /\ ~ (j - 1) - 1 < n)
        BY <1>1, <3>2
      <4>2. h[j] = [d |-> IF j - 1 < n THEN w[j - 1] ELSE w[n],
                    e |-> IF n + 1 < j THEN w[n + 1] ELSE 0]
        BY <3>2
      <4>3. ~ j - 1 < n + 1 => h[j - 1].d = w[n]
        BY <4>1
      <4>4. h[j - 1].e = IF n + 1 < j - 1 THEN w[n + 1] ELSE 0
        BY <4>1
      <4> HIDE DEF h
      <4> QED BY <3>2, <4>1, <4>2, <4>3, <4>4 DEF X
    <3> QED BY <3>1, <3>2
  <2>2. h = [j \in 0..k |-> h[j]]
    OBVIOUS
  <2> HIDE DEF h
  <2> QED BY <2>1, <2>2 DEF Reading
<1> HIDE DEF h
<1>3. Reading(f, k, mem, n)
  BY <1>2
<1> HIDE DEF f
<1> DEFINE T == { j \in 0..k : f[j] = h[j] }
<1>4. 0 \in T
  <2>1. 0 \in 0..k
    BY <1>1
  <2>2. f[0] = h[0]
    BY <1>2, <1>3, <2>1 DEF Reading
  <2> QED BY <2>1, <2>2
<1>5. ASSUME NEW j \in 0..(k - 1), j \in T PROVE j + 1 \in T
  <2>1. j + 1 \in 0..k /\ j + 1 # 0 /\ (j + 1) - 1 = j /\ f[j] = h[j]
    BY <1>1, <1>5
  <2> DEFINE G(s) == [d |-> IF j < n + 1 THEN X(mem, j) ELSE s.d, e |-> IF j = n + 1 THEN X(mem, j) ELSE s.e]
  <2>2. f[j + 1] = G(f[j])
    BY <1>3, <2>1 DEF Reading
  <2>3. h[j + 1] = G(h[j])
    BY <1>2, <2>1 DEF Reading
  <2> HIDE DEF G
  <2> QED BY <2>1, <2>2, <2>3
<1>6. k \in T
  <2>1. 0..k \subseteq T
    <3> HIDE DEF T
    <3> QED BY <1>1, <1>4, <1>5, LoopInduction
  <2> QED BY <1>1, <2>1
<1>7. f[k] = [d |-> IF k = 0 THEN 0 ELSE IF k - 1 < n THEN w[k - 1] ELSE w[n],
              e |-> IF n + 1 < k THEN w[n + 1] ELSE 0]
  BY <1>1, <1>6 DEF h
<1>8. n < k <=> ~ k < n + 1
  BY <1>1
<1>9. n < k => k # 0 /\ ~ k - 1 < n
  BY <1>1
<1> QED BY <1>7, <1>8, <1>9 DEF Part, f

\* Dividing by a product is dividing twice.
LEMMA DividedTwice ==
  ASSUME Parameters, NEW x \in Nat, NEW P \in Nat \ {0}, NEW Q \in Nat \ {0}
  PROVE  x \div (P * Q) = (x \div P) \div Q /\ x \div P \in Nat
BY FactsAssumptions, Facts!DividedTwice, Zenon

LEMMA BitfieldPromise == Sizes /\ LongBits \in Nat /\ Bitfield => Contract!Bitfield'
<1> SUFFICES ASSUME Sizes, LongBits \in Nat, Bitfield PROVE Contract!Bitfield'
  OBVIOUS
<1> USE SizesSuffice
<1> DEFINE At(k, x, n) == (CHOOSE s : Reading(s, k, Operand(k, x), n \div WordBits))[k]
           outcome(k, x, n, l) ==
               ((Part(k, n \div WordBits, At(k, x, n).d) \div 2^(n % WordBits))
                + (IF n % WordBits = 0 THEN 0 ELSE (At(k, x, n).e * 2^(WordBits - (n % WordBits))) % B))
               % (IF l < WordBits THEN 2^l ELSE B)
           Returns(k, x, n, l) == Call("bitfield", << k, x, n, l >>, << outcome(k, x, n, l) >>)
<1>1. PICK k \in 0..MaxWords : \E x \in Numbers(k) : \E n \in 0..LongBits : \E l \in 0..WordBits : Returns(k, x, n, l)
  BY DEF Bitfield, Lengths, Up, Reading
<1> HIDE DEF outcome
<1>2. PICK x \in Numbers(k) : \E n \in 0..LongBits : \E l \in 0..WordBits : Returns(k, x, n, l)
  <2> HIDE DEF Returns
  <2> QED BY <1>1
<1>3. PICK n \in 0..LongBits, l \in 0..WordBits : Returns(k, x, n, l)
  <2> HIDE DEF Returns
  <2> QED BY <1>2
<1> DEFINE q == n \div WordBits
           m == n % WordBits
<1>4. /\ WordBits \in Nat \ {0} /\ n \in Nat /\ k \in Nat /\ x \in Nat /\ Parameters
      /\ q \in Nat /\ m \in 0..(WordBits - 1) /\ m \in Nat /\ n = WordBits * q + m
  <2>1. WordBits \in Nat \ {0} /\ n \in Nat /\ k \in Nat /\ x \in Nat /\ Parameters
    BY DEF Sizes, Parameters, Numbers
  <2> HIDE DEF q, m
  <2>2. q \in Nat /\ m \in 0..(WordBits - 1) /\ m \in Nat /\ n = WordBits * q + m
    BY <2>1, FactsAssumptions, Facts!QuotientOf DEF q, m
  <2> QED BY <2>1, <2>2
<1> DEFINE y == x \div Pow(q)
           u == 2^m
           v == 2^(WordBits - m)
           span == 2^l
           c == 2^(WordBits - l)
<1>5. /\ u \in Nat \ {0} /\ v \in Nat \ {0} /\ u * v = B
      /\ span \in Nat \ {0} /\ c \in Nat \ {0} /\ span * c = B
      /\ (IF l < WordBits THEN 2^l ELSE B) = span
  <2>1. m \in 0..WordBits /\ (~ l < WordBits => l = WordBits)
    BY <1>4
  <2> HIDE DEF m
  <2>2. u \in Nat \ {0} /\ v \in Nat \ {0} /\ u * v = B /\ span \in Nat \ {0} /\ c \in Nat \ {0} /\ span * c = B
    BY <2>1, PowersMatch
  <2> QED BY <2>1, <2>2 DEF B
<1>6. u = 1 <=> m = 0
  <2> HIDE DEF m
  <2>1. m = 0 => u = 1
    OBVIOUS
  <2>2. ASSUME m # 0 PROVE u # 1
    <3>1. 1 \in 0..m
      BY <1>4, <2>2
    <3>2. 2^1 <= u
      BY <1>4, <3>1, PowersGrow
    <3>3. 2^0 = 1 /\ 2^(0 + 1) = 2 * 2^0 /\ 0 + 1 = 1
      BY TwicePower
    <3> QED BY <1>5, <3>2, <3>3
  <2> QED BY <2>1, <2>2
<1>7. /\ Part(k, q, At(k, x, n).d) = y % B
      /\ At(k, x, n).e = (y \div B) % B
  <2> DEFINE s == At(k, x, n)
             w == Words(x, k)
  <2>1. w \in Row /\ Operand(k, x)["x"] = w
    BY WordsValue DEF Operand
  <2>2. /\ Part(k, q, s.d) = IF q < k THEN w[q] ELSE 0
        /\ s.e = IF q + 1 < k THEN w[q + 1] ELSE 0
    <3> DEFINE r == n \div WordBits
    <3> HIDE DEF w, r
    <3>1. r \in Nat
      BY <1>4 DEF r
    <3>2. LET t == (CHOOSE t : Reading(t, k, Operand(k, x), r))[k]
          IN  /\ Part(k, r, t.d) = IF r < k THEN w[r] ELSE 0
              /\ t.e = IF r + 1 < k THEN w[r + 1] ELSE 0
      <4> DEFINE mem == Operand(k, x)
      <4>1. mem["x"] = w /\ w \in Row
        BY <2>1
      <4> HIDE DEF mem
      <4>2. LET t == (CHOOSE t : Reading(t, k, mem, r))[k]
            IN  /\ Part(k, r, t.d) = IF r < k THEN w[r] ELSE 0
                /\ t.e = IF r + 1 < k THEN w[r + 1] ELSE 0
        BY <3>1, <4>1, FieldWords
      <4> QED BY <4>2 DEF mem
    <3> QED BY <3>2 DEF r
  <2> HIDE DEF s, q
  <2>3. (IF q < k THEN w[q] ELSE 0) = (x \div Pow(q)) % B
    BY <1>4, DigitIs
  <2>4. (IF q + 1 < k THEN w[q + 1] ELSE 0) = (x \div Pow(q + 1)) % B
    <3>1. q + 1 \in Nat
      BY <1>4
    <3> QED BY <1>4, <3>1, DigitIs
  <2>5. x \div Pow(q + 1) = y \div B
    <3>1. Pow(q) \in Nat \ {0} /\ Pow(q + 1) = B * Pow(q) /\ B \in Nat \ {0}
      BY <1>4, PowSteps DEF Parameters
    <3> DEFINE P == Pow(q)
    <3>2. Pow(q + 1) = P * B /\ P \in Nat \ {0}
      BY <3>1
    <3>3. x \div (P * B) = (x \div P) \div B
      <4> HIDE DEF P
      <4> QED BY <1>4, <3>1, <3>2, DividedTwice
    <3> QED BY <3>2, <3>3
  <2> QED BY <2>2, <2>3, <2>4, <2>5 DEF s, q
<1>8. x \div 2^n = y \div u /\ y \in Nat
  <2> HIDE DEF q, m
  <2>1. Pow(q) \in Nat \ {0} /\ Pow(q) = 2^(WordBits * q) /\ WordBits * q \in Nat
    BY <1>4, PowIsPower, PowSteps
  <2>2. 2^((WordBits * q) + m) = 2^(WordBits * q) * u
    BY <1>4, <2>1, PowersAdd
  <2>3. 2^n = Pow(q) * u
    BY <1>4, <2>1, <2>2
  <2> DEFINE P == Pow(q)
  <2> HIDE DEF P, u
  <2>4. P \in Nat \ {0} /\ u \in Nat \ {0} /\ 2^n = P * u
    BY <1>5, <2>1, <2>3 DEF P
  <2>5. x \div (P * u) = (x \div P) \div u /\ x \div P \in Nat
    BY <1>4, <2>4, DividedTwice
  <2> QED BY <2>4, <2>5 DEF P
<1> DEFINE field == (((y % B) \div u) + (IF u = 1 THEN 0 ELSE (((y \div B) % B) * v) % B)) % span
<1>9. outcome(k, x, n, l) = field
  <2> DEFINE d == Part(k, q, At(k, x, n).d)
             e == At(k, x, n).e
             mask == IF l < WordBits THEN 2^l ELSE B
  <2>1. outcome(k, x, n, l) = ((d \div u) + (IF m = 0 THEN 0 ELSE (e * v) % B)) % mask
    BY DEF outcome
  <2>2. d = y % B /\ e = (y \div B) % B /\ mask = span /\ (u = 1 <=> m = 0)
    BY <1>5, <1>6, <1>7
  <2> HIDE DEF outcome, d, e, mask, u, v, y, span, m
  <2> QED BY <2>1, <2>2
<1>10. (y \div u) % span = field
  <2>1. Facts!Factors(u, v) /\ Facts!Factors(span, c)
    BY <1>5 DEF Facts!Factors
  <2> HIDE DEF y, u, v, span, c
  <2> QED BY <1>4, <1>8, <2>1, FactsAssumptions, Facts!FieldOf
<1> DEFINE a == outcome(k, x, n, l)
<1>11. a = (x \div 2^n) % 2^l
  <2> HIDE DEF field, y, u, outcome
  <2> QED BY <1>8, <1>9, <1>10
<1>12. Call("bitfield", << k, x, n, l >>, << a >>)
  BY <1>3
<1> HIDE DEF a
<1> QED BY <1>11, <1>12 DEF Call, Contract!Bitfield, Contract!Is, Contract!result, Contract!x, Contract!y

(***************************************************************************)
(* Normalize: words are shuffled up until the highest is not zero, then    *)
(* bits are shifted up.                                                    *)
(***************************************************************************)
LEMMA ShiftedWord ==
  ASSUME Parameters, NEW t \in Nat \ {0}, NEW q \in Nat \ {0}, t * q = B,
         NEW w \in Word, NEW h \in 0..(t - 1)
  PROVE  /\ ((w * t) % B) + h \in Word
         /\ w \div q \in 0..(t - 1)
         /\ w * t + h = (((w * t) % B) + h) + B * (w \div q)
<1> DEFINE a == w \div q
           b == w % q
<1>1. w = q * a + b /\ b \in 0..(q - 1) /\ a \in Int /\ w \in 0..(B - 1) /\ B \in Nat \ {0}
  BY DEF Word, Parameters
<1> HIDE DEF a, b
<1>2. q * a \in Int /\ q * t = B
  BY <1>1
<1>3. a \in 0..(t - 1)
  <2>1. ASSUME a < 0 PROVE FALSE
    <3>1. q * a <= -q
      BY <1>1, <2>1
    <3> QED BY <1>1, <1>2, <3>1
  <2>2. ASSUME a >= t PROVE FALSE
    <3>1. q * a >= q * t
      BY <1>1, <2>2
    <3> QED BY <1>1, <1>2, <3>1
  <2> QED BY <1>1, <2>1, <2>2
<1>4. w * t = B * a + b * t
  <2>1. (q * a + b) * t = (q * t) * a + b * t
    BY <1>1
  <2> QED BY <1>1, <1>2, <2>1
<1>5. b * t \in 0..(B - t)
  <2>1. b * t <= (q - 1) * t /\ b * t >= 0 /\ b * t \in Int
    BY <1>1
  <2>2. (q - 1) * t = q * t - t
    OBVIOUS
  <2> QED BY <1>1, <1>2, <2>1, <2>2
<1>6. (w * t) % B = b * t
  <2> DEFINE d == b * t
  <2>1. d \in 0..(B - 1)
    BY <1>1, <1>5
  <2> HIDE DEF d
  <2>2. (B * a + d) % B = d
    BY <1>1, <2>1, FactsAssumptions, Facts!DivModUnique
  <2> QED BY <1>4, <2>2 DEF d
<1>7. b * t + h \in 0..(B - 1)
  BY <1>1, <1>5
<1>8. w * t + h = (b * t + h) + B * a
  <2>1. B * a \in Int /\ b * t \in Int
    BY <1>1, <1>3
  <2> QED BY <1>4, <2>1
<1> QED BY <1>3, <1>6, <1>7, <1>8 DEF Word, a

\* One round: up by a word, or, if "still", all in place
Shuffling(s, k, mem, still) ==
    s = [j \in 0..k |-> IF j = 0 THEN [mem |-> mem, before |-> 0]
                        ELSE [mem |-> Store(s[j - 1].mem, "z", j - 1,
                                            IF still THEN s[j - 1].before ELSE s[j - 1].mem["z"][j - 1]),
                              before |-> s[j - 1].mem["z"][j - 1]]]
Shuffled(k, mem, still) == (CHOOSE s : Shuffling(s, k, mem, still))[k].mem

LEMMA ShufflingExists ==
  ASSUME Parameters, NEW k \in 0..MaxWords, NEW mem \in Alone, NEW still \in BOOLEAN
  PROVE  \E s : Shuffling(s, k, mem, still) /\ s \in [0..k -> [mem : Alone, before : Word]]
<1> DEFINE S == [mem : Alone, before : Word]
           e == [mem |-> mem, before |-> 0]
           G(s, j) == [mem |-> Store(s.mem, "z", j, IF still THEN s.before ELSE s.mem["z"][j]),
                       before |-> s.mem["z"][j]]
           g == [j \in 0..(k - 1) |-> [s \in S |-> G(s, j)]]
<1>1. k \in Nat /\ e \in S
  BY DEF Parameters, Word
<1>2. ASSUME NEW j \in 0..(k - 1), NEW s \in S PROVE G(s, j) \in S
  <2> DEFINE d == IF still THEN s.before ELSE s.mem["z"][j]
  <2>1. j \in 0..MaxWords /\ s.mem \in Alone /\ s.before \in Word
    BY DEF Parameters
  <2>2. s.mem["z"][j] \in Word
    BY <2>1 DEF Alone, Row
  <2>3. d \in Word
    BY <2>1, <2>2
  <2> HIDE DEF d
  <2>4. Store(s.mem, "z", j, d) \in Alone
    BY <2>1, <2>3, StoredWord DEF Alone
  <2> QED BY <2>2, <2>4 DEF d
<1>3. g \in [0..(k - 1) -> [S -> S]]
  <2> HIDE DEF G, S
  <2> QED BY <1>2
<1>4. PICK r : Recursive(r, k, S, e, g)
  <2> HIDE DEF g, e, S
  <2> QED BY <1>1, <1>3, LoopExists, Zenon
<1>5. r \in [0..k -> S] /\ r = [j \in 0..k |-> IF j = 0 THEN e ELSE g[j - 1][r[j - 1]]]
  BY <1>4 DEF Recursive
<1>6. r = [j \in 0..k |-> IF j = 0 THEN e ELSE G(r[j - 1], j - 1)]
  <2>1. ASSUME NEW j \in 0..k, j # 0 PROVE g[j - 1][r[j - 1]] = G(r[j - 1], j - 1)
    <3>1. j - 1 \in 0..(k - 1) /\ j - 1 \in 0..k
      BY <1>1, <2>1
    <3>2. r[j - 1] \in S
      <4> HIDE DEF g, e
      <4> QED BY <1>5, <3>1
    <3> HIDE DEF G
    <3> QED BY <3>1, <3>2
  <2> HIDE DEF G, g, e
  <2> QED BY <1>5, <2>1
<1> QED BY <1>5, <1>6 DEF Shuffling

\* A word from below takes the place of each, or all stay.
LEMMA ShuffledIs ==
  ASSUME Parameters, NEW k \in 0..MaxWords, NEW mem \in Alone, NEW still \in BOOLEAN
  PROVE  /\ Shuffled(k, mem, still) \in Alone
         /\ \A j \in 0..MaxWords :
               Shuffled(k, mem, still)["z"][j]
               = IF j < k /\ still THEN IF j = 0 THEN 0 ELSE mem["z"][j - 1] ELSE mem["z"][j]
<1> DEFINE f == CHOOSE s : Shuffling(s, k, mem, still)
           G(s, j) == [mem |-> Store(s.mem, "z", j, IF still THEN s.before ELSE s.mem["z"][j]),
                       before |-> s.mem["z"][j]]
<1>1. Shuffling(f, k, mem, still)
  <2>1. \E s : Shuffling(s, k, mem, still)
    BY ShufflingExists
  <2> QED BY <2>1
<1> HIDE DEF f
<1>2. k \in Nat
  BY DEF Parameters
<1>3. f[0] = [mem |-> mem, before |-> 0] /\ \A j \in 0..(k - 1) : f[j + 1] = G(f[j], j)
  <2>1. f[0] = [mem |-> mem, before |-> 0]
    BY <1>1, <1>2 DEF Shuffling
  <2>2. ASSUME NEW j \in 0..(k - 1) PROVE f[j + 1] = G(f[j], j)
    <3>1. j + 1 \in 0..k /\ j + 1 # 0 /\ (j + 1) - 1 = j
      BY <1>2
    <3> QED BY <1>1, <3>1 DEF Shuffling
  <2> QED BY <2>1, <2>2
<1> DEFINE new(j) == IF still THEN IF j = 0 THEN 0 ELSE mem["z"][j - 1] ELSE mem["z"][j]
           Inv(s, h) == /\ s.mem \in Alone
                        /\ s.before = IF h = 0 THEN 0 ELSE mem["z"][h - 1]
                        /\ \A j \in 0..MaxWords : s.mem["z"][j] = IF j < h THEN new(j) ELSE mem["z"][j]
           T == { h \in 0..k : Inv(f[h], h) }
<1>4. 0 \in T
  <2>1. Inv(f[0], 0)
    BY <1>3 DEF Parameters
  <2> HIDE DEF Inv
  <2> QED BY <1>2, <2>1
<1>5. ASSUME NEW h \in 0..(k - 1), h \in T PROVE h + 1 \in T
  <2>1. h + 1 \in 0..k /\ h \in 0..MaxWords /\ h + 1 # 0 /\ (h + 1) - 1 = h
    BY <1>2 DEF Parameters
  <2>2. Inv(f[h], h)
    BY <1>5
  <2> DEFINE s == f[h]
             d == IF still THEN s.before ELSE s.mem["z"][h]
  <2>3. s.mem["z"][h] = mem["z"][h] /\ mem["z"][h] \in Word /\ s.mem \in Alone
    BY <2>1, <2>2 DEF Alone, Row, Parameters
  <2>4. d = new(h) /\ d \in Word
    <3>1. s.before = IF h = 0 THEN 0 ELSE mem["z"][h - 1]
      BY <2>2
    <3>2. h # 0 => h - 1 \in 0..MaxWords
      BY <2>1 DEF Parameters
    <3>3. s.before \in Word
      BY <3>1, <3>2 DEF Alone, Row, Word, Parameters
    <3> QED BY <2>3, <3>1, <3>3
  <2>5. f[h + 1] = [mem |-> Store(s.mem, "z", h, d), before |-> mem["z"][h]]
    BY <1>3, <2>3
  <2>6. \A j \in 0..MaxWords : s.mem["z"][j] = IF j < h THEN new(j) ELSE mem["z"][j]
    BY <2>2
  <2> HIDE DEF s, d, new
  <2>7. /\ Store(s.mem, "z", h, d) \in Alone
        /\ \A j \in 0..MaxWords : Store(s.mem, "z", h, d)["z"][j] = IF j = h THEN d ELSE s.mem["z"][j]
    BY <2>1, <2>3, <2>4, StoredWord DEF Alone
  <2>8. \A j \in 0..MaxWords : j < h + 1 <=> j < h \/ j = h
    BY <2>1 DEF Parameters
  <2>9. Inv(f[h + 1], h + 1)
    BY <2>1, <2>4, <2>5, <2>6, <2>7, <2>8
  <2> HIDE DEF Inv
  <2> QED BY <2>1, <2>9
<1>6. k \in T
  <2>1. 0..k \subseteq T
    <3> HIDE DEF T
    <3> QED BY <1>2, <1>4, <1>5, LoopInduction
  <2> QED BY <1>2, <2>1
<1>7. Shuffled(k, mem, still) = f[k].mem
  BY DEF Shuffled, f
<1>8. Inv(f[k], k)
  BY <1>6
<1> QED BY <1>7, <1>8

\* Words that have moved up count a word's range times as much.
LEMMA MovedUpValue ==
  ASSUME Parameters, NEW k \in 1..MaxWords, NEW w \in Row, NEW v \in Row, w[k - 1] = 0,
         \A j \in 0..(k - 1) : v[j] = IF j = 0 THEN 0 ELSE w[j - 1]
  PROVE  Value(v, k) = B * Value(w, k)
<1> DEFINE n == k - 1
           T == { h \in 0..n : Value(v, h + 1) = B * Value(w, h) }
<1>1. n \in Nat /\ n + 1 = k /\ n \in 0..MaxWords /\ B \in Nat
  BY DEF Parameters
<1>2. 0 \in T
  <2>1. Value(v, 0) = 0 /\ Value(w, 0) = 0 /\ Value(v, 0 + 1) = Value(v, 0) + Pow(0) * v[0]
    <3>1. 0 \in 0..MaxWords
      BY DEF Parameters
    <3> QED BY <3>1, ValueSteps
  <2>2. v[0] = 0 /\ Pow(0) * 0 = 0 /\ B * 0 = 0
    BY <1>1, PowSteps
  <2>3. Value(v, 0 + 1) = B * Value(w, 0)
    BY <2>1, <2>2
  <2> QED BY <1>1, <2>3
<1>3. ASSUME NEW h \in 0..(n - 1), h \in T PROVE h + 1 \in T
  <2>1. h + 1 \in 0..n /\ h + 1 \in 0..(k - 1) /\ h \in 0..MaxWords /\ h + 1 \in 0..MaxWords /\ h \in Nat
        /\ h + 1 # 0 /\ (h + 1) - 1 = h /\ h \in 0..(MaxWords + 1)
    BY <1>1 DEF Parameters
  <2>2. Value(v, (h + 1) + 1) = Value(v, h + 1) + Pow(h + 1) * v[h + 1]
    BY <2>1, ValueSteps
  <2>3. v[h + 1] = w[h]
    BY <2>1
  <2>4. Value(w, h + 1) = Value(w, h) + Pow(h) * w[h] /\ Pow(h + 1) = B * Pow(h) /\ Pow(h) \in Nat
    BY <2>1, ValueSteps, PowSteps
  <2>5. Value(v, h + 1) = B * Value(w, h)
    BY <1>3
  <2> DEFINE P == Pow(h)
             W == Value(w, h)
             d == w[h]
  <2>6. P \in Nat /\ W \in Nat /\ d \in Nat
    <3>1. w[h] \in Word
      BY <2>1 DEF Row
    <3>2. Value(w, h) \in 0..(Pow(h) - 1)
      BY <2>1, ValueSteps
    <3> QED BY <2>4, <3>1, <3>2 DEF Word, Parameters
  <2> HIDE DEF P, W, d
  <2>7. B * W + (B * P) * d = B * (W + P * d)
    BY <1>1, <2>6
  <2>8. Value(v, (h + 1) + 1) = B * Value(w, h + 1)
    BY <2>2, <2>3, <2>4, <2>5, <2>7 DEF P, W, d
  <2> QED BY <2>1, <2>8
<1>4. n \in T
  <2>1. 0..n \subseteq T
    <3> HIDE DEF T, n
    <3> QED BY <1>1, <1>2, <1>3, LoopInduction
  <2> QED BY <1>1, <2>1
<1>5. Value(w, k) = Value(w, n)
  <2>1. Value(w, n + 1) = Value(w, n) + Pow(n) * w[n]
    BY <1>1, ValueSteps
  <2>2. Pow(n) * 0 = 0 /\ Value(w, n) \in Int
    <3>1. n \in 0..(MaxWords + 1)
      BY <1>1 DEF Parameters
    <3>2. Value(w, n) \in 0..(Pow(n) - 1) /\ Pow(n) \in Nat
      BY <1>1, <3>1, ValueSteps, PowSteps
    <3> QED BY <3>2
  <2> QED BY <1>1, <2>1, <2>2
<1> QED BY <1>1, <1>4, <1>5

\* The rounds, and how many of them have moved the words
Rounds(s, k, mem) ==
    s = [j \in 0..(k - 1) |->
            IF j = 0 THEN [mem |-> mem, r |-> 0]
            ELSE [mem |-> Shuffled(k, s[j - 1].mem, s[j - 1].mem["z"][k - 1] = 0),
                  r |-> s[j - 1].r + Flag(s[j - 1].mem["z"][k - 1] = 0)]]

LEMMA RoundsExist ==
  ASSUME Parameters, NEW k \in 1..MaxWords, NEW mem \in Alone
  PROVE  \E s : Rounds(s, k, mem)
<1> DEFINE n == k - 1
           S == [mem : Alone, r : Nat]
           e == [mem |-> mem, r |-> 0]
           G(s) == [mem |-> Shuffled(k, s.mem, s.mem["z"][n] = 0), r |-> s.r + Flag(s.mem["z"][n] = 0)]
           g == [j \in 0..(n - 1) |-> [s \in S |-> G(s)]]
<1>1. n \in Nat /\ e \in S /\ k \in 0..MaxWords
  BY DEF Parameters
<1>2. ASSUME NEW s \in S PROVE G(s) \in S
  <2> DEFINE still == s.mem["z"][n] = 0
  <2>1. s.mem \in Alone /\ s.r \in Nat /\ still \in BOOLEAN
    OBVIOUS
  <2> HIDE DEF still
  <2>2. Shuffled(k, s.mem, still) \in Alone
    BY <1>1, <2>1, ShuffledIs
  <2>3. s.r + Flag(still) \in Nat
    BY <2>1 DEF Flag
  <2> QED BY <2>2, <2>3 DEF still
<1>3. g \in [0..(n - 1) -> [S -> S]]
  <2> HIDE DEF G, S
  <2> QED BY <1>2
<1>4. PICK r : Recursive(r, n, S, e, g)
  <2> HIDE DEF g, e, S, n
  <2> QED BY <1>1, <1>3, LoopExists, Zenon
<1>5. r \in [0..n -> S] /\ r = [j \in 0..n |-> IF j = 0 THEN e ELSE g[j - 1][r[j - 1]]]
  BY <1>4 DEF Recursive
<1>6. r = [j \in 0..n |-> IF j = 0 THEN e ELSE G(r[j - 1])]
  <2>1. ASSUME NEW j \in 0..n, j # 0 PROVE g[j - 1][r[j - 1]] = G(r[j - 1])
    <3>1. j - 1 \in 0..(n - 1) /\ j - 1 \in 0..n
      BY <1>1, <2>1
    <3> HIDE DEF n
    <3>2. r[j - 1] \in S
      <4> HIDE DEF g, e
      <4> QED BY <1>5, <3>1
    <3> HIDE DEF G
    <3> QED BY <3>1, <3>2
  <2> HIDE DEF G, g, e, n
  <2> QED BY <1>5, <2>1
<1> QED BY <1>6 DEF Rounds

\* What a round leaves: the number times a power of a word's range, and the
\* highest word is zero only if it was in every round
Normal(s, k, mem, x, j) ==
    /\ s.mem \in Alone /\ s.r \in 0..j
    /\ Value(s.mem["z"], k) = Pow(s.r) * x
    /\ \A h \in k..MaxWords : s.mem["z"][h] = mem["z"][h]
    /\ s.mem["z"][k - 1] = 0 => s.r = j

\* After k - 1 rounds the highest word is not zero, or the number is.
LEMMA RoundsNormalize ==
  ASSUME Parameters, NEW k \in 1..MaxWords, NEW mem \in Alone, NEW x \in Nat, Value(mem["z"], k) = x,
         NEW f, Rounds(f, k, mem)
  PROVE  Normal(f[k - 1], k, mem, x, k - 1)
<1> DEFINE n == k - 1
           G(s) == [mem |-> Shuffled(k, s.mem, s.mem["z"][n] = 0), r |-> s.r + Flag(s.mem["z"][n] = 0)]
           T == { j \in 0..n : Normal(f[j], k, mem, x, j) }
<1>1. n \in Nat /\ k \in 0..MaxWords /\ k \in Nat /\ n \in 0..MaxWords /\ n < k
  BY DEF Parameters
<1>2. f[0] = [mem |-> mem, r |-> 0] /\ \A j \in 0..(n - 1) : f[j + 1] = G(f[j])
  <2>1. f[0] = [mem |-> mem, r |-> 0]
    BY <1>1 DEF Rounds
  <2>2. ASSUME NEW j \in 0..(n - 1) PROVE f[j + 1] = G(f[j])
    <3>1. j + 1 \in 0..(k - 1) /\ j + 1 # 0 /\ (j + 1) - 1 = j
      BY <1>1
    <3> QED BY <3>1 DEF Rounds
  <2> QED BY <2>1, <2>2
<1>3. 0 \in T
  <2>1. Pow(0) * x = x
    BY PowSteps
  <2>2. Normal(f[0], k, mem, x, 0)
    BY <1>2, <2>1 DEF Normal
  <2> QED BY <1>1, <2>2
<1>4. ASSUME NEW j \in 0..(n - 1), j \in T PROVE j + 1 \in T
  <2> DEFINE s == f[j]
             still == s.mem["z"][n] = 0
             new == Shuffled(k, s.mem, still)
  <2>1. j + 1 \in 0..n /\ j \in Nat /\ Normal(s, k, mem, x, j)
    BY <1>1, <1>4
  <2>2. f[j + 1] = [mem |-> new, r |-> s.r + Flag(still)]
    BY <1>2
  <2>3. s.mem \in Alone /\ s.r \in 0..j /\ s.r \in Nat /\ Value(s.mem["z"], k) = Pow(s.r) * x
        /\ (\A h \in k..MaxWords : s.mem["z"][h] = mem["z"][h]) /\ (still => s.r = j)
    BY <2>1 DEF Normal
  <2>4. still \in BOOLEAN /\ (still <=> s.mem["z"][n] = 0)
    OBVIOUS
  <2> HIDE DEF s, still
  <2>5. /\ new \in Alone
        /\ \A h \in 0..MaxWords :
              new["z"][h] = IF h < k /\ still THEN IF h = 0 THEN 0 ELSE s.mem["z"][h - 1] ELSE s.mem["z"][h]
    BY <1>1, <2>3, <2>4, ShuffledIs
  <2>6. \A h \in k..MaxWords : new["z"][h] = mem["z"][h]
    <3>1. \A h \in k..MaxWords : h \in 0..MaxWords /\ ~ h < k
      BY <1>1 DEF Parameters
    <3> QED BY <2>3, <2>5, <3>1
  <2> HIDE DEF new
  <2>7. s.mem["z"] \in Row /\ new["z"] \in Row
    BY <2>3, <2>5 DEF Alone
  <2>8. \A h \in 0..(k - 1) : h \in 0..MaxWords /\ h < k
    BY <1>1 DEF Parameters
  <2>9. CASE still
    <3>1. \A h \in 0..(k - 1) : new["z"][h] = IF h = 0 THEN 0 ELSE s.mem["z"][h - 1]
      BY <2>5, <2>8, <2>9
    <3>2. Value(new["z"], k) = B * Value(s.mem["z"], k)
      BY <2>4, <2>7, <2>9, <3>1, MovedUpValue
    <3>3. Pow(s.r + 1) = B * Pow(s.r) /\ Pow(s.r) \in Nat
      BY <2>3, PowSteps
    <3>4. Value(new["z"], k) = Pow(s.r + 1) * x
      <4> DEFINE P == Pow(s.r)
      <4>1. P \in Nat /\ Pow(s.r + 1) = B * P /\ Value(new["z"], k) = B * (P * x)
        BY <2>3, <3>2, <3>3
      <4> HIDE DEF P
      <4>2. B * (P * x) = (B * P) * x
        BY <4>1 DEF Parameters
      <4> QED BY <4>1, <4>2
    <3>5. f[j + 1] = [mem |-> new, r |-> s.r + 1] /\ s.r + 1 = j + 1
      BY <2>2, <2>3, <2>9 DEF Flag
    <3>6. Normal(f[j + 1], k, mem, x, j + 1)
      BY <2>1, <2>5, <2>6, <3>4, <3>5 DEF Normal
    <3> QED BY <2>1, <3>6
  <2>10. CASE ~still
    <3>1. \A h \in 0..(k - 1) : new["z"][h] = s.mem["z"][h]
      BY <2>5, <2>8, <2>10
    <3>2. Value(new["z"], k) = Value(s.mem["z"], k)
      <4>1. k \in 0..(MaxWords + 1)
        BY <1>1 DEF Parameters
      <4> QED BY <2>7, <3>1, <4>1, ValueCongruence
    <3>3. new["z"][n] # 0
      BY <1>1, <2>4, <2>10, <3>1
    <3>4. f[j + 1] = [mem |-> new, r |-> s.r]
      BY <2>2, <2>3, <2>10 DEF Flag
    <3>5. s.r \in 0..(j + 1)
      BY <2>1, <2>3
    <3>6. Normal(f[j + 1], k, mem, x, j + 1)
      BY <2>3, <2>5, <2>6, <3>2, <3>3, <3>4, <3>5 DEF Normal
    <3> QED BY <2>1, <3>6
  <2> QED BY <2>4, <2>9, <2>10
<1>5. n \in T
  <2>1. 0..n \subseteq T
    <3> HIDE DEF T, n
    <3> QED BY <1>1, <1>3, <1>4, LoopInduction
  <2> QED BY <1>1, <2>1
<1> QED BY <1>5

\* The shift by the zero bits of the highest word
Lifting(s, k, mem, c) ==
    s = [j \in 0..k |->
            IF j = 0 THEN [mem |-> mem, carry |-> 0]
            ELSE LET w == s[j - 1].mem["z"][j - 1]
                 IN  [mem |-> Store(s[j - 1].mem, "z", j - 1, ((w * 2^(c % WordBits)) % B) + s[j - 1].carry),
                      carry |-> IF c % WordBits = 0 THEN 0 ELSE w \div 2^(WordBits - c)]]

\* What a word is shifted by, and what it shifts out
LEMMA LiftedWord ==
  ASSUME Sizes, NEW c \in 0..WordBits, NEW t, t = 2^(c % WordBits)
  PROVE  /\ t \in Nat \ {0}
         /\ c < WordBits => t = 2^c
         /\ c = WordBits => t = 1
         /\ \A w \in Word, h \in 0..(t - 1) :
               /\ ((w * t) % B) + h \in Word
               /\ (IF c % WordBits = 0 THEN 0 ELSE w \div 2^(WordBits - c)) \in 0..(t - 1)
               /\ w * t + h = (((w * t) % B) + h)
                              + B * (IF c % WordBits = 0 THEN 0 ELSE w \div 2^(WordBits - c))
<1> USE SizesSuffice
<1> DEFINE d == c % WordBits
           q == 2^(WordBits - d)
           Out(w) == IF d = 0 THEN 0 ELSE w \div 2^(WordBits - c)
<1>1. WordBits \in Nat \ {0} /\ d \in 0..WordBits /\ (c < WordBits => d = c) /\ (c = WordBits => d = 0) /\ c \in Nat
  <2>1. WordBits \in Nat \ {0}
    BY DEF Sizes
  <2>2. d \in 0..(WordBits - 1)
    BY <2>1
  <2>3. c < WordBits => d = c
    BY <2>1
  <2>4. c = WordBits => d = 0
    <3>1. ASSUME c = WordBits PROVE c % WordBits = 0
      <4>1. c = WordBits * 1 + 0 /\ 0 \in 0..(WordBits - 1) /\ 1 \in Int
        BY <2>1, <3>1
      <4>2. (WordBits * 1 + 0) % WordBits = 0
        BY <2>1, <4>1, FactsAssumptions, Facts!DivModUnique
      <4> QED BY <4>1, <4>2
    <3> QED BY <3>1
  <2> QED BY <2>1, <2>2, <2>3, <2>4
<1>2. t = 2^d
  OBVIOUS
<1> HIDE DEF d
<1>3. t \in Nat \ {0} /\ q \in Nat \ {0} /\ t * q = B
  BY <1>1, <1>2, PowersMatch
<1>4. (c < WordBits => t = 2^c) /\ (d = 0 => t = 1)
  <2>1. 2^0 = 1
    OBVIOUS
  <2>2. d = 0 => t = 1
    BY <1>2, <2>1
  <2>3. c < WordBits => t = 2^c
    BY <1>1, <1>2
  <2> QED BY <2>2, <2>3
<1>5. \A w \in Word : Out(w) = w \div q
  <2> SUFFICES ASSUME NEW w \in Word PROVE Out(w) = w \div q
    OBVIOUS
  <2>1. CASE d = 0
    <3>1. 0 \in 0..(t - 1) /\ t = 1
      BY <1>4, <2>1
    <3> HIDE DEF q
    <3>2. w \div q \in 0..(t - 1)
      BY <1>3, <3>1, ShiftedWord
    <3> QED BY <2>1, <3>1, <3>2
  <2>2. CASE d # 0
    <3>1. d = c
      BY <1>1, <2>2
    <3> QED BY <2>2, <3>1
  <2> QED BY <2>1, <2>2
<1> HIDE DEF q, Out
<1>6. ASSUME NEW w \in Word, NEW h \in 0..(t - 1)
      PROVE  /\ ((w * t) % B) + h \in Word /\ Out(w) \in 0..(t - 1)
             /\ w * t + h = (((w * t) % B) + h) + B * Out(w)
  BY <1>3, <1>5, ShiftedWord
<1>7. \A w : Out(w) = IF c % WordBits = 0 THEN 0 ELSE w \div 2^(WordBits - c)
  BY DEF Out, d
<1> QED BY <1>1, <1>3, <1>4, <1>6, <1>7

LEMMA LiftingExists ==
  ASSUME Sizes, NEW k \in 0..MaxWords, NEW mem \in Alone, NEW c \in 0..WordBits
  PROVE  \E s : Lifting(s, k, mem, c)
<1> USE SizesSuffice
<1> DEFINE t == 2^(c % WordBits)
           Out(w) == IF c % WordBits = 0 THEN 0 ELSE w \div 2^(WordBits - c)
           S == [mem : Alone, carry : 0..(t - 1)]
           e == [mem |-> mem, carry |-> 0]
           G(s, j) == [mem |-> Store(s.mem, "z", j, ((s.mem["z"][j] * t) % B) + s.carry),
                       carry |-> Out(s.mem["z"][j])]
           g == [j \in 0..(k - 1) |-> [s \in S |-> G(s, j)]]
<1> HIDE DEF t, Out
<1>1. t \in Nat \ {0} /\ \A w \in Word, h \in 0..(t - 1) : ((w * t) % B) + h \in Word /\ Out(w) \in 0..(t - 1)
  BY LiftedWord DEF t, Out
<1>2. k \in Nat /\ e \in S
  BY <1>1 DEF Parameters
<1>3. ASSUME NEW j \in 0..(k - 1), NEW s \in S PROVE G(s, j) \in S
  <2> DEFINE d == ((s.mem["z"][j] * t) % B) + s.carry
  <2>1. j \in 0..MaxWords /\ s.mem \in Alone /\ s.carry \in 0..(t - 1)
    BY DEF Parameters
  <2>2. s.mem["z"][j] \in Word
    BY <2>1 DEF Alone, Row
  <2>3. d \in Word /\ Out(s.mem["z"][j]) \in 0..(t - 1)
    BY <1>1, <2>1, <2>2
  <2> HIDE DEF d
  <2>4. Store(s.mem, "z", j, d) \in Alone
    BY <2>1, <2>3, StoredWord DEF Alone
  <2> QED BY <2>3, <2>4 DEF d
<1>4. g \in [0..(k - 1) -> [S -> S]]
  <2> HIDE DEF G, S
  <2> QED BY <1>3
<1>5. PICK r : Recursive(r, k, S, e, g)
  <2> HIDE DEF g, e, S
  <2> QED BY <1>2, <1>4, LoopExists, Zenon
<1>6. r \in [0..k -> S] /\ r = [j \in 0..k |-> IF j = 0 THEN e ELSE g[j - 1][r[j - 1]]]
  BY <1>5 DEF Recursive
<1>7. r = [j \in 0..k |-> IF j = 0 THEN e ELSE G(r[j - 1], j - 1)]
  <2>1. ASSUME NEW j \in 0..k, j # 0 PROVE g[j - 1][r[j - 1]] = G(r[j - 1], j - 1)
    <3>1. j - 1 \in 0..(k - 1) /\ j - 1 \in 0..k
      BY <1>2, <2>1
    <3>2. r[j - 1] \in S
      <4> HIDE DEF g, e
      <4> QED BY <1>6, <3>1
    <3> HIDE DEF G
    <3> QED BY <3>1, <3>2
  <2> HIDE DEF G, g, e
  <2> QED BY <1>6, <2>1
<1> QED BY <1>7 DEF Lifting, t, Out

\* What the words hold and what is carried are the shifted number.
LEMMA LiftedIs ==
  ASSUME Sizes, NEW k \in 0..MaxWords, NEW mem \in Alone, NEW c \in 0..WordBits,
         NEW t, t = 2^(c % WordBits), NEW f, Lifting(f, k, mem, c)
  PROVE  /\ f[k].mem \in Alone /\ f[k].carry \in Nat
         /\ Value(f[k].mem["z"], k) + Pow(k) * f[k].carry = t * Value(mem["z"], k)
         /\ \A j \in k..MaxWords : f[k].mem["z"][j] = mem["z"][j]
<1> USE SizesSuffice
<1> DEFINE Out(w) == IF c % WordBits = 0 THEN 0 ELSE w \div 2^(WordBits - c)
           G(s, j) == [mem |-> Store(s.mem, "z", j, ((s.mem["z"][j] * t) % B) + s.carry),
                       carry |-> Out(s.mem["z"][j])]
           Inv(s, h) == /\ s.mem \in Alone /\ s.carry \in 0..(t - 1)
                        /\ Value(s.mem["z"], h) + Pow(h) * s.carry = t * Value(mem["z"], h)
                        /\ \A j \in h..MaxWords : s.mem["z"][j] = mem["z"][j]
           T == { h \in 0..k : Inv(f[h], h) }
<1>1. /\ t \in Nat \ {0}
      /\ \A w \in Word, h \in 0..(t - 1) :
            /\ ((w * t) % B) + h \in Word /\ Out(w) \in 0..(t - 1)
            /\ w * t + h = (((w * t) % B) + h) + B * Out(w)
  BY LiftedWord
<1>2. k \in Nat /\ mem["z"] \in Row
  BY DEF Parameters, Alone
<1>3. f[0] = [mem |-> mem, carry |-> 0] /\ \A j \in 0..(k - 1) : f[j + 1] = G(f[j], j)
  <2>1. f[0] = [mem |-> mem, carry |-> 0]
    BY <1>2 DEF Lifting
  <2>2. ASSUME NEW j \in 0..(k - 1) PROVE f[j + 1] = G(f[j], j)
    <3>1. j + 1 \in 0..k /\ j + 1 # 0 /\ (j + 1) - 1 = j
      BY <1>2
    <3> QED BY <3>1 DEF Lifting
  <2> QED BY <2>1, <2>2
<1> HIDE DEF Out
<1>4. 0 \in T
  <2>1. Value(mem["z"], 0) = 0 /\ Pow(0) = 1 /\ 0 \in 0..(t - 1) /\ t * 0 = 0 /\ 0 + 1 * 0 = 0
    BY <1>1, <1>2, ValueSteps, PowSteps
  <2>2. Inv(f[0], 0)
    BY <1>3, <2>1
  <2> HIDE DEF Inv
  <2> QED BY <1>2, <2>2
<1>5. ASSUME NEW h \in 0..(k - 1), h \in T PROVE h + 1 \in T
  <2> DEFINE s == f[h]
             w == mem["z"][h]
             d == ((w * t) % B) + s.carry
             V == Value(s.mem["z"], h)
             W == Value(mem["z"], h)
             P == Pow(h)
             out == Out(w)
             m == s.mem
             o == s.carry
             new == Store(m, "z", h, d)
  <2>1. h + 1 \in 0..k /\ h \in 0..MaxWords /\ h \in Nat /\ h \in 0..(MaxWords + 1)
    BY <1>2 DEF Parameters
  <2>2. Inv(s, h)
    BY <1>5
  <2>3. m \in Alone /\ o \in 0..(t - 1) /\ V + P * o = t * W /\ \A j \in h..MaxWords : m["z"][j] = mem["z"][j]
    BY <2>2
  <2>4. m["z"][h] = w /\ w \in Word
    <3>1. h \in h..MaxWords
      BY <2>1 DEF Parameters
    <3>2. w \in Word
      BY <1>2, <2>1 DEF Row
    <3> QED BY <2>3, <3>1, <3>2
  <2>5. d \in Word /\ out \in 0..(t - 1) /\ w * t + o = d + B * out
    <3>1. o \in 0..(t - 1) /\ w \in Word
      BY <2>3, <2>4
    <3> HIDE DEF w, o, Out
    <3>2. /\ ((w * t) % B) + o \in Word /\ Out(w) \in 0..(t - 1)
          /\ w * t + o = (((w * t) % B) + o) + B * Out(w)
      BY <1>1, <3>1
    <3> QED BY <3>2 DEF o
  <2>6. f[h + 1] = [mem |-> new, carry |-> out]
    BY <1>3, <2>4
  <2>7. /\ new \in Alone
        /\ \A j \in 0..MaxWords : new["z"][j] = IF j = h THEN d ELSE m["z"][j]
    <3> HIDE DEF s, d
    <3> QED BY <2>1, <2>3, <2>5, StoredWord DEF Alone
  <2>8. /\ Value(mem["z"], h + 1) = W + P * w
        /\ Value(new["z"], h + 1) = V + P * d
        /\ P \in Nat /\ Pow(h + 1) = B * P /\ V \in Nat /\ W \in Nat
    <3>1. m["z"] \in Row /\ new["z"] \in Row
      BY <2>3, <2>7 DEF Alone
    <3>2. Value(new["z"], h) = V
      <4>1. \A j \in 0..(h - 1) : new["z"][j] = m["z"][j]
        BY <2>1, <2>7 DEF Parameters
      <4> HIDE DEF new, m
      <4> QED BY <2>1, <3>1, <4>1, ValueCongruence DEF m
    <3>3. new["z"][h] = d
      BY <2>1, <2>7
    <3> HIDE DEF new, d
    <3>4. Value(new["z"], h + 1) = V + P * d
      BY <2>1, <3>1, <3>2, <3>3, ValueSteps
    <3>5. Value(mem["z"], h + 1) = W + P * w
      BY <1>2, <2>1, ValueSteps
    <3>6. V \in Nat /\ W \in Nat
      <4>1. V \in 0..(Pow(h) - 1) /\ W \in 0..(Pow(h) - 1)
        BY <1>2, <2>1, <3>1, ValueSteps
      <4> HIDE DEF V, W
      <4> QED BY <4>1
    <3> QED BY <2>1, <3>4, <3>5, <3>6, PowSteps
  <2>9. \A j \in (h + 1)..MaxWords : new["z"][j] = mem["z"][j]
    <3>1. \A j \in (h + 1)..MaxWords : j \in 0..MaxWords /\ j # h /\ j \in h..MaxWords
      BY <2>1 DEF Parameters
    <3> HIDE DEF new
    <3> QED BY <2>3, <2>7, <3>1
  <2>10. w \in Nat /\ d \in Nat /\ out \in Nat /\ o \in Nat
    <3> HIDE DEF w, d, out, o
    <3> QED BY <1>1, <2>3, <2>4, <2>5 DEF Word, Parameters
  <2>11. (V + P * d) + (B * P) * out = t * (W + P * w)
    <3> HIDE DEF V, W, P, w, d, out, o
    <3>1. P * (w * t + o) = P * d + (B * P) * out
      <4>1. P * (d + B * out) = P * d + (B * P) * out
        BY <2>8, <2>10 DEF Parameters
      <4> QED BY <2>5, <4>1
    <3>2. P * (w * t + o) = t * (P * w) + P * o
      BY <1>1, <2>8, <2>10
    <3>3. t * (W + P * w) = t * W + t * (P * w)
      BY <1>1, <2>8, <2>10
    <3>4. t * (P * w) \in Nat /\ P * o \in Nat /\ P * d \in Nat /\ t * W \in Nat
      BY <1>1, <2>8, <2>10
    <3>5. (B * P) * out \in Nat
      BY <2>8, <2>10 DEF Parameters
    <3> QED BY <2>3, <2>8, <3>1, <3>2, <3>3, <3>4, <3>5
  <2>12. Inv(f[h + 1], h + 1)
    <3> HIDE DEF V, W, P, w, d, out, o, new, m
    <3> QED BY <2>5, <2>6, <2>7, <2>8, <2>9, <2>11
  <2> HIDE DEF Inv
  <2> QED BY <2>1, <2>12
<1>6. k \in T
  <2>1. 0..k \subseteq T
    <3> HIDE DEF T
    <3> QED BY <1>2, <1>4, <1>5, LoopInduction
  <2> QED BY <1>2, <2>1
<1>7. Inv(f[k], k)
  BY <1>6
<1> QED BY <1>1, <1>7

\* Bits are counted by the powers of two around a number.
LEMMA BitsAre ==
  ASSUME Sizes, NEW n \in Nat, NEW x \in Nat, NEW b \in 0..n, x < 2^b, b > 0 => x >= 2^(b - 1)
  PROVE  b = CHOOSE at \in 0..n : x < 2^at /\ (at > 0 => x >= 2^(at - 1))
<1> DEFINE Has(at) == x < 2^at /\ (at > 0 => x >= 2^(at - 1))
<1>1. \A j \in Nat : 2^j \in Nat
  BY TwicePower
<1>2. ASSUME NEW at \in 0..n, Has(at) PROVE at = b
  <2>1. ASSUME at < b PROVE FALSE
    <3>1. b - 1 \in Nat /\ at \in 0..(b - 1)
      BY <2>1
    <3>2. 2^at <= 2^(b - 1)
      BY <3>1, PowersGrow
    <3>3. x >= 2^(b - 1) /\ x < 2^at /\ 2^at \in Nat /\ 2^(b - 1) \in Nat
      BY <1>1, <1>2, <2>1, <3>1
    <3> QED BY <3>2, <3>3
  <2>2. ASSUME at > b PROVE FALSE
    <3>1. at - 1 \in Nat /\ b \in 0..(at - 1)
      BY <2>2
    <3>2. 2^b <= 2^(at - 1)
      BY <3>1, PowersGrow
    <3>3. x >= 2^(at - 1) /\ x < 2^b /\ 2^b \in Nat /\ 2^(at - 1) \in Nat
      BY <1>1, <1>2, <2>2, <3>1
    <3> QED BY <3>2, <3>3
  <2> QED BY <2>1, <2>2
<1>3. Has(b)
  OBVIOUS
<1> HIDE DEF Has
<1>4. b = CHOOSE at \in 0..n : Has(at)
  BY <1>2, <1>3
<1> QED BY <1>4 DEF Has

\* The words that the rounds leave, and the zeros above their highest bit
LEMMA NormalizedBy ==
  ASSUME Sizes, NEW k \in 1..MaxWords, NEW x \in Nat, NEW w \in Row, NEW r \in 0..(k - 1),
         Value(w, k) = Pow(r) * x, w[k - 1] = 0 => r = k - 1
  PROVE  LET c == Clz(w[k - 1])
             t == 2^(c % WordBits)
             n == WordBits * r + c
         IN  /\ c \in 0..WordBits
             /\ t * Value(w, k) = x * 2^n /\ t * Value(w, k) < Pow(k) /\ t * Value(w, k) \in Nat
             /\ n = WordBits * k - CHOOSE at \in 0..(WordBits * k) : x < 2^at /\ (at > 0 => x >= 2^(at - 1))
<1> USE SizesSuffice
<1> DEFINE d == w[k - 1]
           c == Clz(d)
           t == 2^(c % WordBits)
           n == WordBits * r + c
           V == Value(w, k)
           U == Value(w, k - 1)
           P == Pow(k - 1)
           Q == Pow(r)
           full == WordBits * k
           least == WordBits * (k - 1)
           low == WordBits * r
           Has(at) == x < 2^at /\ (at > 0 => x >= 2^(at - 1))
<1>1. /\ WordBits \in Nat \ {0} /\ Parameters /\ k \in Nat \ {0} /\ k - 1 \in Nat /\ k - 1 \in 0..MaxWords
      /\ r \in Nat /\ B \in Nat \ {0}
  BY DEF Sizes, Parameters
<1>2. d \in Word /\ d \in Nat /\ d < B
  <2>1. d \in Word
    BY <1>1 DEF Row
  <2> HIDE DEF d
  <2> QED BY <1>1, <2>1 DEF Word
<1> HIDE DEF d
<1>3. V = U + P * d /\ V = Q * x
  <2>1. Value(w, (k - 1) + 1) = Value(w, k - 1) + Pow(k - 1) * w[k - 1]
    BY <1>1, ValueSteps
  <2>2. (k - 1) + 1 = k
    BY <1>1
  <2> QED BY <2>1, <2>2 DEF d
<1>4. U \in 0..(P - 1) /\ P \in Nat \ {0} /\ Q \in Nat \ {0} /\ Pow(k) = B * P
  <2>1. k - 1 \in 0..(MaxWords + 1)
    BY <1>1 DEF Parameters
  <2>2. U \in 0..(P - 1)
    BY <2>1, ValueSteps
  <2>3. Pow((k - 1) + 1) = B * P /\ (k - 1) + 1 = k
    BY <1>1, PowSteps
  <2> QED BY <1>1, <2>2, <2>3, PowSteps
<1>5. full \in Nat /\ least \in Nat /\ low \in Nat /\ full = least + WordBits /\ low <= least
      /\ P = 2^least /\ Q = 2^low /\ Pow(k) = 2^full
  <2>1. full \in Nat /\ least \in Nat /\ low \in Nat /\ P = 2^least /\ Q = 2^low /\ Pow(k) = 2^full
    BY <1>1, PowIsPower
  <2>2. full = least + WordBits
    BY <1>1
  <2>3. low <= least
    BY <1>1
  <2> HIDE DEF full, least, low
  <2> QED BY <2>1, <2>2, <2>3
<1>6. \A j \in Nat : 2^j \in Nat \ {0} /\ 2^(j + 1) = 2 * 2^j
  BY TwicePower
<1> HIDE DEF U, P, Q, full, least, low
<1>7. CASE d = 0
  <2>1. r = k - 1 /\ c = WordBits /\ Q = P /\ low = least
    <3>1. r = k - 1
      BY <1>7 DEF d
    <3>2. c = WordBits
      BY <1>7 DEF Clz
    <3> QED BY <3>1, <3>2 DEF P, Q, low, least
  <2>2. x = 0
    <3>1. P * x < P
      <4>1. P * d = 0
        BY <1>4, <1>7
      <4> HIDE DEF V
      <4> QED BY <1>3, <1>4, <2>1, <4>1
    <3>2. ASSUME x # 0 PROVE FALSE
      <4>1. P * x >= P * 1
        BY <1>4, <3>2
      <4> QED BY <1>4, <3>1, <4>1
    <3> QED BY <3>2
  <2> HIDE DEF c
  <2>3. t = 1 /\ n = full
    <3>1. \A u : u = 2^(c % WordBits) => (c = WordBits => u = 1)
      <4>1. c \in 0..WordBits
        BY <1>1, <2>1
      <4> QED BY <4>1, LiftedWord
    <3>2. n = full
      BY <1>5, <2>1 DEF low
    <3> QED BY <2>1, <3>1, <3>2
  <2>4. V = 0
    BY <1>3, <1>4, <2>2
  <2>5. 2^n \in Nat /\ t * V = 0 /\ x * 2^n = 0 /\ Pow(k) \in Nat \ {0}
    <3>1. 2^n \in Nat
      BY <1>5, <1>6, <2>3
    <3> HIDE DEF n, t, V
    <3>2. Pow(k) \in Nat \ {0}
      BY <1>1, PowSteps
    <3> QED BY <2>2, <2>3, <2>4, <3>1, <3>2
  <2>6. 0 = CHOOSE at \in 0..full : Has(at)
    <3>1. x < 2^0 /\ 0 \in 0..full
      BY <1>5, <1>6, <2>2
    <3>2. ~ 0 > 0
      OBVIOUS
    <3> QED BY <1>5, <3>1, <3>2, BitsAre
  <2>7. c \in 0..WordBits /\ n = full - 0
    BY <1>1, <1>5, <2>1, <2>3
  <2> HIDE DEF n, t, V
  <2>8. t * V = x * 2^n /\ t * V < Pow(k) /\ t * V \in Nat
    BY <2>5
  <2>9. n = full - CHOOSE at \in 0..full : Has(at)
    <3> HIDE DEF Has
    <3> QED BY <2>6, <2>7
  <2>10. c \in 0..WordBits
    BY <2>7
  <2> QED BY <2>8, <2>9, <2>10 DEF n, t, V, c, d, full
<1>8. CASE d # 0
  <2>1. PICK e \in 0..(WordBits - 1) : 2^e <= d /\ d < 2^(e + 1)
    <3>1. d \in Nat \ {0} /\ d < 2^WordBits /\ WordBits \in Nat
      BY <1>1, <1>2, <1>8 DEF B
    <3> QED BY <3>1, Facts!HighestBit, PowersAssumptions
  <2>2. c = WordBits - 1 - e
    BY <1>2, <2>1, ClzIs
  <2>3. c \in 0..WordBits /\ c < WordBits /\ c \in Nat /\ e \in Nat /\ c + (e + 1) = WordBits /\ WordBits - c = e + 1
    BY <1>1, <2>1, <2>2
  <2> HIDE DEF c
  <2>4. t = 2^c
    <3>1. \A u : u = 2^(c % WordBits) => (c < WordBits => u = 2^c)
      BY <2>3, LiftedWord
    <3> QED BY <2>3, <3>1
  <2> HIDE DEF t
  <2> DEFINE u == 2^e
  <2>5. t \in Nat \ {0} /\ u \in Nat \ {0} /\ 2^(e + 1) = 2 * u /\ t * (2 * u) = B
    <3>1. 2^c * 2^(WordBits - c) = B
      BY <2>3, PowersMatch
    <3>2. 2^(e + 1) = 2 * u
      BY <1>6, <2>3
    <3> QED BY <1>6, <2>3, <2>4, <3>1, <3>2
  <2>6. u <= d /\ d + 1 <= 2 * u
    <3>1. u <= d /\ d < 2 * u
      BY <2>1, <2>5
    <3> HIDE DEF u
    <3> QED BY <1>2, <2>5, <3>1
  <2> HIDE DEF u
  <2>7. P * u <= V /\ V < P * (2 * u) /\ V \in Nat
    <3>1. P * u <= P * d
      BY <1>2, <1>4, <2>5, <2>6
    <3>2. P * (d + 1) <= P * (2 * u) /\ P * (d + 1) = P * d + P
      BY <1>2, <1>4, <2>5, <2>6
    <3>3. P * u \in Nat /\ P * d \in Nat /\ P * (2 * u) \in Nat
      BY <1>2, <1>4, <2>5
    <3> HIDE DEF V
    <3> QED BY <1>3, <1>4, <3>1, <3>2, <3>3
  <2> HIDE DEF V
  <2>8. t * V < Pow(k) /\ t * V \in Nat /\ Pow(k) <= 2 * (t * V)
    <3>1. t * (P * (2 * u)) = B * P
      <4>1. t * (P * (2 * u)) = (t * (2 * u)) * P
        BY <1>4, <2>5
      <4> QED BY <2>5, <4>1
    <3>2. t * V < t * (P * (2 * u))
      <4>1. P * (2 * u) - V \in Nat \ {0} /\ P * (2 * u) \in Nat
        BY <1>4, <2>5, <2>7
      <4> DEFINE g == P * (2 * u)
      <4> HIDE DEF g
      <4>2. g - V \in Nat \ {0} /\ g \in Nat
        BY <4>1 DEF g
      <4>3. t * (g - V) > 0 /\ t * (g - V) = t * g - t * V /\ t * g \in Nat /\ t * V \in Nat
        BY <2>5, <2>7, <4>2
      <4> QED BY <4>3 DEF g
    <3>3. t * (P * u) <= t * V /\ t * V \in Nat
      <4> DEFINE g == P * u
      <4>1. g \in Nat /\ g <= V
        BY <1>4, <2>5, <2>7
      <4> HIDE DEF g
      <4>2. t * g <= t * V /\ t * V \in Nat
        BY <2>5, <2>7, <4>1
      <4> QED BY <4>2 DEF g
    <3>4. t * (P * (2 * u)) = 2 * (t * (P * u)) /\ t * (P * u) \in Nat
      BY <1>4, <2>5
    <3> DEFINE g == t * (P * u)
               h == t * (P * (2 * u))
               l == t * V
    <3>5. h = Pow(k) /\ l < h /\ g <= l /\ h = 2 * g /\ g \in Nat /\ l \in Nat
      BY <1>4, <3>1, <3>2, <3>3, <3>4
    <3> HIDE DEF g, h, l
    <3>6. l < Pow(k) /\ Pow(k) <= 2 * l
      BY <3>5
    <3> QED BY <3>5, <3>6 DEF l
  <2>9. n \in Nat /\ t * V = x * 2^n /\ n \in 0..(full - 1)
    <3>1. n = low + c
      BY DEF low
    <3>2. 2^(low + c) = Q * t
      BY <1>5, <2>3, <2>4, PowersAdd
    <3>3. t * (Q * x) = x * (Q * t)
      BY <1>4, <2>5
    <3>4. low + c \in Nat /\ low + c <= full - 1
      BY <1>1, <1>5, <2>3
    <3> HIDE DEF n
    <3>5. t * V = x * 2^n
      BY <1>3, <3>1, <3>2, <3>3 DEF V
    <3> QED BY <1>5, <3>1, <3>4, <3>5
  <2> HIDE DEF n
  <2> DEFINE b == full - n
  <2>10. b \in 0..full /\ b > 0 /\ b - 1 \in Nat /\ b + n = full /\ (b - 1) + 1 = b
    BY <1>5, <2>9
  <2>11. Has(b)
    <3> DEFINE p == 2^(b - 1)
               s == 2^n
    <3>1. p \in Nat \ {0} /\ s \in Nat \ {0} /\ 2^b = 2 * p
      <4>1. 2^((b - 1) + 1) = 2 * 2^(b - 1) /\ 2^(b - 1) \in Nat \ {0}
        BY <1>6, <2>10
      <4>2. 2^n \in Nat \ {0}
        BY <1>6, <2>9
      <4> HIDE DEF b
      <4> QED BY <2>10, <4>1, <4>2
    <3>2. Pow(k) = (2 * p) * s
      <4>1. 2^(b + n) = 2^b * 2^n
        <5> HIDE DEF b
        <5>1. b \in Nat
          BY <2>10
        <5> QED BY <2>9, <5>1, PowersAdd
      <4>2. Pow(k) = 2^b * s
        BY <1>5, <2>10, <4>1
      <4> QED BY <3>1, <4>2
    <3> HIDE DEF p, s, b
    <3>3. x * s < (2 * p) * s /\ (2 * p) * s <= 2 * (x * s)
      BY <2>8, <2>9, <3>2 DEF s
    <3>4. x < 2 * p
      <4>1. ASSUME x >= 2 * p PROVE FALSE
        <5>1. x * s >= (2 * p) * s
          BY <3>1, <4>1
        <5>2. x * s \in Nat /\ (2 * p) * s \in Nat
          BY <3>1
        <5> QED BY <3>3, <5>1, <5>2
      <4> QED BY <3>1, <4>1
    <3>5. x >= p
      <4>1. ASSUME x < p PROVE FALSE
        <5>1. p - x \in Nat \ {0}
          BY <3>1, <4>1
        <5>2. (p - x) * s > 0 /\ (p - x) * s = p * s - x * s
          BY <3>1, <5>1
        <5>3. x * s \in Nat /\ p * s \in Nat /\ (2 * p) * s = 2 * (p * s)
          BY <3>1
        <5> QED BY <3>3, <5>2, <5>3
      <4> QED BY <3>1, <4>1
    <3> QED BY <2>10, <3>1, <3>4, <3>5 DEF p
  <2> HIDE DEF b
  <2>12. b = CHOOSE at \in 0..full : Has(at)
    <3>1. x < 2^b /\ (b > 0 => x >= 2^(b - 1))
      BY <2>11
    <3> HIDE DEF Has
    <3>2. b = CHOOSE at \in 0..full : x < 2^at /\ (at > 0 => x >= 2^(at - 1))
      BY <1>5, <2>10, <3>1, BitsAre
    <3> QED BY <3>2 DEF Has
  <2>13. n = full - b
    BY <1>5, <2>9 DEF b
  <2> QED BY <2>3, <2>8, <2>9, <2>12, <2>13 DEF n, t, V, c, d, full
<1> QED BY <1>7, <1>8

LEMMA NormalizePromise == Sizes /\ Normalize => Contract!Normalize'
<1> SUFFICES ASSUME Sizes, Normalize PROVE Contract!Normalize'
  OBVIOUS
<1> USE SizesSuffice
<1> DEFINE mem(k, x) == [z |-> Words(x, k)]
           Last(k, x) == (CHOOSE s : Rounds(s, k, mem(k, x)))[k - 1]
           c(k, x) == Clz(Last(k, x).mem["z"][k - 1])
           Lifted(k, x) == (CHOOSE s : Lifting(s, k, Last(k, x).mem, c(k, x)))[k]
           outcome(k, x) == IF k = 0 THEN << 0, 0 >>
                           ELSE << Left(mem(k, x), Lifted(k, x).mem, "z", k), WordBits * Last(k, x).r + c(k, x) >>
           Returns(k, x) == Call("normalize", << k, x >>, outcome(k, x))
           bits(k, x) == CHOOSE at \in 0..(WordBits * k) : x < 2^at /\ (at > 0 => x >= 2^(at - 1))
<1>1. PICK k \in 0..MaxWords : \E x \in Numbers(k) : Returns(k, x)
  <2>1. PICK k \in 0..MaxWords : \E x \in Numbers(k) :
          Call("normalize", << k, x >>,
               LET memory == [z |-> Words(x, k)]
                   s == (CHOOSE s : s = [j \in 0..(IF k = 0 THEN 0 ELSE k - 1) |->
                           IF j = 0 THEN [mem |-> memory, r |-> 0]
                           ELSE [mem |-> Shuffled(k, s[j - 1].mem, s[j - 1].mem["z"][k - 1] = 0),
                                 r |-> s[j - 1].r + Flag(s[j - 1].mem["z"][k - 1] = 0)]])[IF k = 0 THEN 0 ELSE k - 1]
                   n == Clz(s.mem["z"][k - 1])
               IN  IF k = 0 THEN << 0, 0 >>
                   ELSE << Left(memory, (CHOOSE f : Lifting(f, k, s.mem, n))[k].mem, "z", k),
                           WordBits * s.r + n >>)
    BY DEF Normalize, Lengths, Up, Shuffled, Shuffling, Lifting
  <2>2. PICK x \in Numbers(k) :
          Call("normalize", << k, x >>,
               LET memory == [z |-> Words(x, k)]
                   s == (CHOOSE s : s = [j \in 0..(IF k = 0 THEN 0 ELSE k - 1) |->
                           IF j = 0 THEN [mem |-> memory, r |-> 0]
                           ELSE [mem |-> Shuffled(k, s[j - 1].mem, s[j - 1].mem["z"][k - 1] = 0),
                                 r |-> s[j - 1].r + Flag(s[j - 1].mem["z"][k - 1] = 0)]])[IF k = 0 THEN 0 ELSE k - 1]
                   n == Clz(s.mem["z"][k - 1])
               IN  IF k = 0 THEN << 0, 0 >>
                   ELSE << Left(memory, (CHOOSE f : Lifting(f, k, s.mem, n))[k].mem, "z", k),
                           WordBits * s.r + n >>)
    BY <2>1
  <2>3. CASE k = 0
    <3>1. Call("normalize", << k, x >>, << 0, 0 >>)
      BY <2>2, <2>3
    <3>2. Returns(k, x)
      BY <2>3, <3>1
    <3> HIDE DEF Returns
    <3> QED BY <3>2
  <2>4. CASE k # 0
    <3>1. Returns(k, x)
      BY <2>2, <2>4 DEF Rounds
    <3> HIDE DEF Returns
    <3> QED BY <3>1
  <2> QED BY <2>3, <2>4
<1>2. PICK x \in Numbers(k) : Returns(k, x)
  <2> HIDE DEF Returns
  <2> QED BY <1>1
<1>3. k \in Nat /\ x \in Nat /\ WordBits \in Nat \ {0}
  BY DEF Sizes, Parameters, Numbers
<1>4. call' = [function |-> "normalize", of |-> << k, x >>, result |-> outcome(k, x)]
  BY <1>2 DEF Call
<1> HIDE DEF outcome
<1>5. /\ outcome(k, x)[2] = WordBits * k - bits(k, x)
      /\ outcome(k, x)[1] = x * 2^outcome(k, x)[2]
  <2>1. CASE k = 0
    <3>1. outcome(k, x) = << 0, 0 >>
      BY <2>1 DEF outcome
    <3>2. x = 0 /\ WordBits * k = 0
      BY <1>3, <2>1, PowSteps DEF Numbers
    <3>3. 0 = CHOOSE at \in 0..0 : x < 2^at /\ (at > 0 => x >= 2^(at - 1))
      <4>1. x < 2^0 /\ ~ 0 > 0 /\ 0 \in 0..0 /\ 0 \in Nat
        BY <3>2
      <4> QED BY <1>3, <4>1, BitsAre
    <3>4. bits(k, x) = 0
      BY <3>2, <3>3, Zenon
    <3>5. 2^0 \in Nat
      OBVIOUS
    <3>6. outcome(k, x)[1] = 0 /\ outcome(k, x)[2] = 0
      BY <3>1
    <3> HIDE DEF bits
    <3> QED BY <3>2, <3>4, <3>5, <3>6
  <2>2. CASE k # 0
    <3> DEFINE m == mem(k, x)
               rounds == CHOOSE s : Rounds(s, k, m)
               s == rounds[k - 1]
               w == s.mem["z"]
               n == Clz(w[k - 1])
               t == 2^(n % WordBits)
               lifted == CHOOSE f : Lifting(f, k, s.mem, n)
               new == lifted[k].mem
    <3>1. k \in 1..MaxWords
      BY <1>3, <2>2 DEF Parameters
    <3>2. outcome(k, x) = << Left(m, new, "z", k), WordBits * s.r + n >>
      BY <2>2 DEF outcome
    <3>3. m \in Alone /\ Value(m["z"], k) = x
      BY WordsValue DEF Alone
    <3> HIDE DEF m
    <3>4. Rounds(rounds, k, m)
      <4>1. \E f : Rounds(f, k, m)
        BY <3>1, <3>3, RoundsExist
      <4> QED BY <4>1
    <3> HIDE DEF rounds
    <3>5. Normal(s, k, m, x, k - 1)
      BY <1>3, <3>1, <3>3, <3>4, RoundsNormalize
    <3> HIDE DEF s
    <3>6. /\ s.mem \in Alone /\ s.r \in 0..(k - 1) /\ Value(w, k) = Pow(s.r) * x /\ w \in Row
          /\ (\A h \in k..MaxWords : w[h] = m["z"][h]) /\ (w[k - 1] = 0 => s.r = k - 1)
      BY <3>5 DEF Normal, Alone
    <3>7. /\ n \in 0..WordBits
          /\ t * Value(w, k) = x * 2^(WordBits * s.r + n) /\ t * Value(w, k) < Pow(k) /\ t * Value(w, k) \in Nat
          /\ WordBits * s.r + n = WordBits * k - bits(k, x)
      <4> DEFINE r == s.r
      <4>1. r \in 0..(k - 1) /\ Value(w, k) = Pow(r) * x /\ w \in Row /\ (w[k - 1] = 0 => r = k - 1)
        BY <3>6
      <4> HIDE DEF r, w
      <4>2. LET c_ == Clz(w[k - 1])
                t_ == 2^(c_ % WordBits)
                n_ == WordBits * r + c_
            IN  /\ c_ \in 0..WordBits
                /\ t_ * Value(w, k) = x * 2^n_ /\ t_ * Value(w, k) < Pow(k) /\ t_ * Value(w, k) \in Nat
                /\ n_ = WordBits * k - bits(k, x)
        BY <1>3, <3>1, <4>1, NormalizedBy, SMTT(30)
      <4> QED BY <4>2, Zenon DEF r
    <3> HIDE DEF n
    <3>8. Lifting(lifted, k, s.mem, n)
      <4>1. \E f : Lifting(f, k, s.mem, n)
        BY <3>6, <3>7, LiftingExists
      <4> QED BY <4>1
    <3> HIDE DEF lifted
    <3> DEFINE o == lifted[k].carry
    <3>9. /\ new \in Alone /\ o \in Nat
          /\ Value(new["z"], k) + Pow(k) * o = t * Value(w, k)
          /\ \A j \in k..MaxWords : new["z"][j] = w[j]
      <4> HIDE DEF t
      <4>1. \A u : u = 2^(n % WordBits) =>
               /\ lifted[k].mem \in Alone /\ lifted[k].carry \in Nat
               /\ Value(lifted[k].mem["z"], k) + Pow(k) * lifted[k].carry = u * Value(s.mem["z"], k)
               /\ \A j \in k..MaxWords : lifted[k].mem["z"][j] = s.mem["z"][j]
        BY <3>6, <3>7, <3>8, LiftedIs
      <4> QED BY <4>1 DEF t
    <3> DEFINE V == Value(new["z"], k)
               W == t * Value(w, k)
    <3>10. V \in Nat /\ Pow(k) \in Nat \ {0}
      <4>1. k \in 0..(MaxWords + 1) /\ new["z"] \in Row
        BY <1>3, <3>9 DEF Alone, Parameters
      <4>2. V \in 0..(Pow(k) - 1)
        BY <4>1, ValueSteps
      <4> HIDE DEF V
      <4> QED BY <1>3, <4>2, PowSteps
    <3>11. V = W
      <4> DEFINE P == Pow(k)
      <4>1. V + P * o = W /\ W < P /\ V \in Nat /\ P \in Nat \ {0} /\ o \in Nat
        BY <3>7, <3>9, <3>10
      <4> HIDE DEF V, W, P, o
      <4>2. ASSUME o # 0 PROVE FALSE
        <5>1. P * o >= P * 1
          BY <4>1, <4>2
        <5> QED BY <4>1, <5>1
      <4>3. o = 0
        BY <4>2
      <4>4. P * 0 = 0
        BY <4>1
      <4> QED BY <4>1, <4>3, <4>4
    <3>12. Left(m, new, "z", k) = V
      <4>1. \A j \in k..MaxWords : new["z"][j] = m["z"][j]
        BY <3>6, <3>9
      <4> HIDE DEF new
      <4> QED BY <4>1 DEF Left
    <3> DEFINE e == WordBits * s.r + n
    <3>13. outcome(k, x)[1] = V /\ outcome(k, x)[2] = e
      BY <3>2, <3>12
    <3>14. W = x * 2^e /\ e = WordBits * k - bits(k, x)
      BY <3>7
    <3> HIDE DEF V, W, e, bits
    <3> QED BY <3>11, <3>13, <3>14
  <2> QED BY <2>1, <2>2
<1> DEFINE a == outcome(k, x)
<1>6. call' = [function |-> "normalize", of |-> << k, x >>, result |-> a]
      /\ a[2] = WordBits * k - bits(k, x) /\ a[1] = x * 2^a[2]
  BY <1>4, <1>5
<1> HIDE DEF a
<1> QED BY <1>6 DEF Contract!Normalize, Contract!Is, Contract!result, Contract!carry, Contract!x, Contract!k,
      Contract!bits, Contract!Bits

ScanPromise ==
    \/ Contract!Eq \/ Contract!Ge \/ Contract!Gt \/ Contract!Le \/ Contract!Lt
    \/ Contract!Even \/ Contract!Odd \/ Contract!Iszero \/ Contract!Nonzero
    \/ Contract!Cld \/ Contract!Digitsize \/ Contract!Ctd \/ Contract!Digit
    \/ Contract!Clz \/ Contract!Bitsize \/ Contract!Ctz
    \/ Contract!Bitfield \/ Contract!Normalize \/ Contract!OfWord \/ Contract!Pow2

LEMMA ScanStep == Sizes /\ LongBits \in Nat /\ ScansNext => ScanPromise'
  BY SizesSuffice, EqPromise, GePromise, GtPromise, LePromise, LtPromise, ParityPromise, ZeroPromise,
     WordCountPromise, CtdPromise, DigitPromise, BitCountPromise, CtzPromise,
     BitfieldPromise, NormalizePromise, OfWordPromise, Pow2Promise
  DEF ScansNext, ScanPromise

\* For every size of a word and any lengths, equal or not: a comparison answers
\* as the numbers compare, a test as the number is; the words and the bits above
\* the highest and below the lowest that is not zero, the word at an index and
\* the bits from an index on, also behind the end, are those of the number; a
\* word, and a power of two, is the number written, and normalizing shifts the
\* highest bit to the top and returns by how much.
THEOREM ScansKeepPromise ==
  Sizes /\ LongBits \in Nat => (call = NoCall /\ [][ScansNext]_call => [](call = NoCall \/ Contract!Promise))
<1> SUFFICES ASSUME Sizes, LongBits \in Nat
             PROVE  call = NoCall /\ [][ScansNext]_call => [](call = NoCall \/ Contract!Promise)
  OBVIOUS
<1> DEFINE Inv == call = NoCall \/ ScanPromise
<1>1. call = NoCall => Inv
  OBVIOUS
<1>2. Inv /\ [ScansNext]_call => Inv'
  <2>1. CASE ScansNext
    BY <2>1, ScanStep
  <2>2. CASE UNCHANGED call
    <3>1. ScanPromise => ScanPromise'
      BY <2>2 DEF ScanPromise, Contract!Eq, Contract!Ge, Contract!Gt, Contract!Le, Contract!Lt,
         Contract!Even, Contract!Odd, Contract!Iszero, Contract!Nonzero, Contract!Cld, Contract!Digitsize,
         Contract!Ctd, Contract!Digit, Contract!Is, Contract!result, Contract!k, Contract!x, Contract!y,
         Contract!If, Contract!Words, Contract!WordsBelow, Contract!Clz, Contract!Bitsize, Contract!Ctz,
         Contract!Bits, Contract!BitsBelow, Contract!bits, Contract!Bitfield, Contract!Normalize,
         Contract!OfWord, Contract!Pow2, Contract!carry, Contract!R
    <3> QED BY <2>2, <3>1 DEF NoCall
  <2> QED BY <2>1, <2>2
<1>3. Inv => call = NoCall \/ Contract!Promise
  BY DEF ScanPromise, Contract!Promise
<1> HIDE DEF Inv
<1> QED BY <1>1, <1>2, <1>3, PTL

-----------------------------------------------------------------------------
(***************************************************************************)
(* The functions of MultiplyAccumulate: two buffers, of lengths of their   *)
(* own, and words that are written upwards                                 *)
(***************************************************************************)
PairNames == { "x", "z" }
Pairs == [PairNames -> Row]

\* The first n words of z have been written: with what is left over they are
\* the total.
Written(mem, new, z, n, high, total) ==
    /\ new \in Pairs
    /\ \A b \in PairNames, j \in 0..MaxWords : b # z \/ j >= n => new[b][j] = mem[b][j]
    /\ high \in Int /\ total \in Int
    /\ Value(new[z], n) + Pow(n) * high = total

\* One step of a loop: the next word, and what it leaves for the one after
LEMMA WrittenStep ==
  ASSUME Parameters, NEW mem, NEW new, NEW z \in PairNames, NEW n \in 0..MaxWords, NEW high, NEW total,
         Written(mem, new, z, n, high, total),
         NEW d \in Word, NEW h \in Int, NEW v \in Int, v + high = d + B * h
  PROVE  Written(mem, Store(new, z, n, d), z, n + 1, h, total + Pow(n) * v)
<1> DEFINE s == Store(new, z, n, d)
           P == Pow(n)
           V == Value(new[z], n)
<1>1. new \in Pairs /\ high \in Int /\ total \in Int /\ V + P * high = total
  BY DEF Written
<1>2. new \in [PairNames -> Row]
  BY <1>1 DEF Pairs
<1>3. /\ s \in Pairs
      /\ \A b \in PairNames, j \in 0..MaxWords : s[b][j] = IF b = z /\ j = n THEN d ELSE new[b][j]
  BY <1>2, StoredWord DEF Pairs
<1> HIDE DEF s
<1>4. new[z] \in Row /\ s[z] \in Row
  BY <1>1, <1>3 DEF Pairs
<1>5. n \in 0..(MaxWords + 1) /\ \A j \in 0..(n - 1) : s[z][j] = new[z][j]
  BY <1>3 DEF Parameters
<1>6. Value(s[z], n) = V
  BY <1>4, <1>5, ValueCongruence
<1>7. Value(s[z], n + 1) = V + P * d
  <2>1. s[z][n] = d
    BY <1>3
  <2> QED BY <1>4, <1>6, <2>1, ValueSteps
<1>8. P \in Nat /\ Pow(n + 1) = B * P
  BY PowSteps DEF Parameters
<1>9. V \in Int
  BY <1>4, <1>5, ValueSteps
<1> HIDE DEF V, P
<1>10. (V + P * d) + (B * P) * h = total + P * v
  <2>1. P * (d + B * h) = P * d + (B * P) * h
    BY <1>8 DEF Word, Parameters
  <2>2. P * (v + high) = P * v + P * high
    BY <1>1, <1>8
  <2>3. P * d \in Int /\ (B * P) * h \in Int /\ P * v \in Int /\ P * high \in Int
    BY <1>1, <1>8 DEF Word, Parameters
  <2>4. P * d + (B * P) * h = P * v + P * high
    BY <2>1, <2>2
  <2> QED BY <1>1, <1>9, <2>3, <2>4
<1>11. ASSUME NEW b \in PairNames, NEW j \in 0..MaxWords, b # z \/ j >= n + 1
       PROVE  s[b][j] = mem[b][j]
  <2>1. ~ (b = z /\ j = n) /\ (b # z \/ j >= n)
    BY <1>11 DEF Parameters
  <2>2. s[b][j] = new[b][j]
    BY <1>3, <2>1
  <2>3. new[b][j] = mem[b][j]
    BY <2>1 DEF Written
  <2> QED BY <2>2, <2>3
<1>12. total + P * v \in Int
  BY <1>1, <1>8
<1>13. Value(s[z], n + 1) + Pow(n + 1) * h = total + P * v
  BY <1>7, <1>8, <1>10
<1> QED BY <1>3, <1>11, <1>12, <1>13 DEF Written, s, P

\* What is read back at the end
LEMMA WrittenLeft ==
  ASSUME Parameters, NEW mem, NEW new, NEW z \in PairNames, NEW p \in 0..MaxWords, NEW high, NEW total,
         Written(mem, new, z, p, high, total)
  PROVE  /\ Left(mem, new, z, p) \in 0..(Pow(p) - 1)
         /\ Left(mem, new, z, p) + Pow(p) * high = total
<1>1. Left(mem, new, z, p) = Value(new[z], p)
  <2>1. \A j \in p..MaxWords : new[z][j] = mem[z][j]
    BY DEF Written, Parameters
  <2> QED BY <2>1 DEF Left
<1>2. new[z] \in Row /\ p \in 0..(MaxWords + 1)
  BY DEF Written, Pairs, Parameters
<1>3. Value(new[z], p) \in 0..(Pow(p) - 1)
  BY <1>2, ValueSteps
<1> QED BY <1>1, <1>3 DEF Written

LEMMA NothingWritten ==
  ASSUME Parameters, NEW mem \in Pairs, NEW z \in PairNames, NEW high \in Int
  PROVE  Written(mem, mem, z, 0, high, high)
<1>1. Value(mem[z], 0) = 0 /\ Pow(0) = 1
  <2>1. mem[z] \in Row
    BY DEF Pairs
  <2> QED BY <2>1, ValueSteps, PowSteps
<1> QED BY <1>1 DEF Written

\* A word and what goes into the next
LEMMA WordOf ==
  ASSUME Parameters, NEW t \in Int
  PROVE  /\ t = (t % B) + B * (t \div B) /\ t % B \in Word /\ t \div B \in Int
         /\ t \in Nat => t \div B \in Nat
<1>1. t = B * (t \div B) + (t % B) /\ t % B \in Word /\ t \div B \in Int
  BY DEF Parameters, Word
<1>2. t \in Nat => t \div B \in Nat
  BY FactsAssumptions, Facts!WordOfNumber
<1>3. B * (t \div B) \in Int
  BY <1>1 DEF Parameters
<1> QED BY <1>1, <1>2, <1>3 DEF Word

LEMMA PairHolds ==
  ASSUME Parameters, NEW n \in 0..MaxWords, NEW x \in Numbers(n), NEW p \in 0..MaxWords, NEW y \in Numbers(p)
  PROVE  /\ Pair(n, x, p, y) \in Pairs
         /\ Pair(n, x, p, y)["x"] = Words(x, n) /\ Pair(n, x, p, y)["z"] = Words(y, p)
<1>1. Words(x, n) \in Row /\ Words(y, p) \in Row
  BY WordsValue
<1> QED BY <1>1 DEF Pair, Pairs, PairNames

\* The words that both have are those of the number cut to the length of the
\* result.
LEMMA CutValue ==
  ASSUME Parameters, NEW n \in 0..MaxWords, NEW x \in Numbers(n), NEW p \in 0..MaxWords
  PROVE  /\ Smaller(n, p) = Smaller(p, n) /\ Smaller(n, p) \in 0..p /\ Smaller(n, p) \in 0..n
         /\ Value(Words(x, n), Smaller(n, p)) = x % Pow(p)
<1>1. n \in Nat /\ p \in Nat /\ n \in 0..n
  BY DEF Parameters
<1>2. Smaller(n, p) = Smaller(p, n) /\ Smaller(n, p) \in 0..p /\ Smaller(n, p) \in 0..n
  BY <1>1 DEF Smaller
<1>3. CASE n < p
  <2>1. Value(Words(x, n), n) = x
    BY WordsValue
  <2>2. x \in 0..(Pow(n) - 1) /\ Pow(n) \in Nat /\ Pow(p) \in Nat /\ Pow(n) <= Pow(p)
    BY <1>1, <1>3, PowSteps, PowGrows DEF Numbers
  <2>3. x % Pow(p) = x
    BY <2>2
  <2> QED BY <1>2, <1>3, <2>1, <2>3 DEF Smaller
<1>4. CASE ~ n < p
  <2>1. p \in 0..n
    BY <1>1, <1>4
  <2> QED BY <1>2, <1>4, <2>1, WordsValue DEF Smaller
<1> QED BY <1>2, <1>3, <1>4

\* Only the words m..p - 1 of z differ: the first of them is high, the others zero.
WithZeros(old, new, z, m, p, high) ==
    \A b \in PairNames, j \in 0..MaxWords :
        new[b][j] = IF b = z /\ m <= j /\ j < p THEN (IF j = m THEN high ELSE 0) ELSE old[b][j]

\* The words of z from m on: what is left over, then zeros
LEMMA PaddedIs ==
  ASSUME Parameters, NEW mem, NEW new, NEW z \in PairNames, NEW p \in 0..MaxWords, NEW m \in 0..p,
         NEW high \in Word, NEW total, Written(mem, new, z, m, high, total)
  PROVE  /\ Written(mem, Padded(new, z, m, p, high), z, p, IF p > m THEN 0 ELSE high, total)
         /\ WithZeros(new, Padded(new, z, m, p, high), z, m, p, high)
<1> DEFINE k == IF p > m THEN p - m ELSE 0
           d(j) == IF m + j = m THEN high ELSE 0
           G(s, j) == Store(s, z, m + j, d(j))
           C(s) == s = [j \in 0..k |-> IF j = 0 THEN new
                                       ELSE Store(s[j - 1], z, m + (j - 1), IF m + (j - 1) = m THEN high ELSE 0)]
           f == CHOOSE s : C(s)
           g == [j \in 0..(k - 1) |-> [s \in Pairs |-> G(s, j)]]
<1>1. Padded(new, z, m, p, high) = f[k]
  BY DEF Padded, Over, Up
<1>2. k \in Nat /\ m + k = p /\ m \in Nat /\ 0 \in 0..k /\ k \in 0..k /\ p \in 0..MaxWords
  BY DEF Parameters
<1>3. new \in Pairs /\ total \in Int
  BY DEF Written
<1> HIDE DEF k
<1>4. ASSUME NEW j \in 0..(k - 1) PROVE m + j \in 0..MaxWords /\ d(j) \in Word
  BY <1>2 DEF Word, Parameters
<1>5. ASSUME NEW j \in 0..(k - 1), NEW s \in Pairs PROVE G(s, j) \in Pairs
  <2> HIDE DEF d
  <2> QED BY <1>4, StoredWord DEF Pairs
<1>6. g \in [0..(k - 1) -> [Pairs -> Pairs]]
  <2> HIDE DEF G
  <2> QED BY <1>5
<1>7. PICK r : Recursive(r, k, Pairs, new, g)
  <2> HIDE DEF g
  <2> QED BY <1>2, <1>3, <1>6, LoopExists, Zenon
<1>8. C(r)
  <2>1. r \in [0..k -> Pairs] /\ r = [j \in 0..k |-> IF j = 0 THEN new ELSE g[j - 1][r[j - 1]]]
    BY <1>7 DEF Recursive
  <2>2. ASSUME NEW j \in 0..k, j # 0 PROVE g[j - 1][r[j - 1]] = G(r[j - 1], j - 1)
    <3>1. j - 1 \in 0..(k - 1) /\ j - 1 \in 0..k
      BY <1>2, <2>2
    <3>2. r[j - 1] \in Pairs
      <4> HIDE DEF g
      <4> QED BY <2>1, <3>1
    <3> HIDE DEF G
    <3> QED BY <3>1, <3>2
  <2>3. r = [j \in 0..k |-> IF j = 0 THEN new ELSE G(r[j - 1], j - 1)]
    <3> HIDE DEF G, g
    <3> QED BY <2>1, <2>2
  <2> QED BY <2>3
<1>9. C(f)
  BY <1>8
<1>10. f[0] = new /\ \A j \in 0..(k - 1) : f[j + 1] = G(f[j], j)
  <2>1. f[0] = new
    <3> HIDE DEF f
    <3> QED BY <1>2, <1>9
  <2>2. ASSUME NEW j \in 0..(k - 1) PROVE f[j + 1] = G(f[j], j)
    <3>1. j + 1 \in 0..k /\ j + 1 # 0 /\ (j + 1) - 1 = j
      BY <1>2
    <3> HIDE DEF f
    <3> QED BY <1>9, <3>1
  <2> QED BY <2>1, <2>2
<1> HIDE DEF f, g, C
<1> DEFINE Now(s, n) == \A b \in PairNames, j \in 0..MaxWords :
                           s[b][j] = IF b = z /\ m <= j /\ j < n THEN (IF j = m THEN high ELSE 0) ELSE new[b][j]
           T == { j \in 0..k : Written(mem, f[j], z, m + j, IF j > 0 THEN 0 ELSE high, total) /\ Now(f[j], m + j) }
<1>11. 0 \in T
  <2>1. m + 0 = m /\ \A j \in 0..MaxWords : ~ (m <= j /\ j < m)
    BY <1>2 DEF Parameters
  <2>2. Now(new, m)
    BY <2>1
  <2> HIDE DEF Now
  <2> QED BY <1>2, <1>10, <2>1, <2>2
<1>12. ASSUME NEW j \in 0..(k - 1), j \in T PROVE j + 1 \in T
  <2> DEFINE h == IF j > 0 THEN 0 ELSE high
  <2>1. Written(mem, f[j], z, m + j, h, total) /\ f[j + 1] = Store(f[j], z, m + j, d(j))
    BY <1>10, <1>12
  <2>2. 0 + h = d(j) + B * 0
    BY <1>2 DEF Word, Parameters
  <2>3. total + Pow(m + j) * 0 = total
    BY <1>2, <1>3, PowSteps
  <2>4. Written(mem, Store(f[j], z, m + j, d(j)), z, (m + j) + 1, 0, total + Pow(m + j) * 0)
    <3>1. m + j \in 0..MaxWords /\ d(j) \in Word
      BY <1>4
    <3> DEFINE v == 0
               q == 0
    <3>2. v + h = d(j) + B * q /\ v \in Int /\ q \in Int
      BY <2>2
    <3> HIDE DEF d, h, v, q
    <3>3. Written(mem, Store(f[j], z, m + j, d(j)), z, (m + j) + 1, q, total + Pow(m + j) * v)
      BY <2>1, <3>1, <3>2, WrittenStep
    <3> QED BY <3>3 DEF v, q
  <2>5. (m + j) + 1 = m + (j + 1) /\ j + 1 \in 0..k /\ j + 1 > 0
    BY <1>2
  <2>6. Now(f[j + 1], (m + j) + 1)
    <3> DEFINE at == m + j
               w == d(j)
    <3>1. at \in 0..MaxWords /\ w \in Word /\ w = (IF at = m THEN high ELSE 0) /\ at >= m
      BY <1>2, <1>4
    <3>2. f[j] \in [PairNames -> Row] /\ f[j + 1] = Store(f[j], z, at, w) /\ Now(f[j], at)
      BY <1>12, <2>1 DEF Written, Pairs
    <3> HIDE DEF at, w, Now
    <3>3. \A b \in PairNames, a \in 0..MaxWords : f[j + 1][b][a] = IF b = z /\ a = at THEN w ELSE f[j][b][a]
      BY <3>1, <3>2, StoredWord
    <3>4. \A a \in 0..MaxWords : a < at + 1 <=> a < at \/ a = at
      BY <3>1 DEF Parameters
    <3>5. ASSUME NEW b \in PairNames, NEW a \in 0..MaxWords
          PROVE  f[j + 1][b][a] = IF b = z /\ m <= a /\ a < at + 1 THEN (IF a = m THEN high ELSE 0) ELSE new[b][a]
      <4>1. f[j][b][a] = IF b = z /\ m <= a /\ a < at THEN (IF a = m THEN high ELSE 0) ELSE new[b][a]
        BY <3>2 DEF Now
      <4>2. CASE b = z /\ a = at
        BY <3>1, <3>3, <3>4, <4>2
      <4>3. CASE ~ (b = z /\ a = at)
        BY <3>3, <3>4, <4>1, <4>3
      <4> QED BY <4>2, <4>3
    <3> QED BY <3>5 DEF Now, at
  <2> HIDE DEF d, h, Now
  <2> QED BY <2>1, <2>3, <2>4, <2>5, <2>6
<1>13. k \in T
  <2>1. 0..k \subseteq T
    <3> HIDE DEF T
    <3> QED BY <1>2, <1>11, <1>12, LoopInduction
  <2> QED BY <1>2, <2>1
<1>14. k > 0 <=> p > m
  BY DEF k
<1>15. Written(mem, f[k], z, p, IF p > m THEN 0 ELSE high, total) /\ Now(f[k], p)
  <2> HIDE DEF Now
  <2> QED BY <1>2, <1>13, <1>14
<1> QED BY <1>1, <1>15 DEF WithZeros

\* x times a word, also where it replaces x
LEMMA MultipliedIs ==
  ASSUME Parameters, NEW mem \in Pairs, NEW z \in PairNames, NEW m \in 0..MaxWords, NEW c \in Word
  PROVE  LET s == Multiplied(mem, z, m, c)
         IN  Written(mem, s.mem, z, m, s.high, c * Value(mem["x"], m)) /\ s.high \in Word
<1> DEFINE S == [mem : Pairs, high : Word]
           e == [mem |-> mem, high |-> 0]
           W(s, j) == c * X(s.mem, j) + s.high
           G(s, j) == [mem |-> Store(s.mem, z, j, W(s, j) % B), high |-> W(s, j) \div B]
           C(s) == s = [j \in 0..m |->
                         IF j = 0 THEN [mem |-> mem, high |-> 0]
                         ELSE LET t == c * X(s[j - 1].mem, j - 1) + s[j - 1].high
                              IN  [mem |-> Store(s[j - 1].mem, z, j - 1, t % B), high |-> t \div B]]
           f == CHOOSE s : C(s)
           g == [j \in 0..(m - 1) |-> [s \in S |-> G(s, j)]]
<1>1. Multiplied(mem, z, m, c) = f[m]
  BY DEF Multiplied, Up
<1>2. m \in Nat /\ 0 \in 0..m /\ m \in 0..m /\ e \in S
  BY DEF Word, Parameters
<1>3. ASSUME NEW v \in Word, NEW h \in Word
      PROVE  /\ c * v + h \in Int
             /\ (c * v + h) % B \in Word /\ (c * v + h) \div B \in Word
             /\ c * v + h = ((c * v + h) % B) + B * ((c * v + h) \div B)
  <2> DEFINE t == c * v + h
  <2>1. c \in 0..(B - 1) /\ v \in 0..(B - 1) /\ h \in 0..(B - 1) /\ B \in Nat
    BY DEF Word, Parameters
  <2>2. t \in Nat /\ t < B * B
    <3>1. c * v <= (B - 1) * v /\ c * v \in Nat
      BY <2>1
    <3>2. (B - 1) * v <= (B - 1) * (B - 1)
      BY <2>1
    <3>3. (B - 1) * (B - 1) = B * B - 2 * B + 1 /\ (B - 1) * v \in Int /\ B * B \in Int
      BY <2>1
    <3> QED BY <2>1, <3>1, <3>2, <3>3
  <2> HIDE DEF t
  <2>3. t = (t % B) + B * (t \div B) /\ t % B \in Word /\ t \div B \in Nat
    BY <2>2, WordOf
  <2>4. t \div B < B
    <3> DEFINE q == t \div B
    <3>1. SUFFICES ASSUME q >= B PROVE FALSE
      BY <2>1, <2>3
    <3> HIDE DEF q
    <3>2. B * q >= B * B /\ B * q \in Int /\ B * B \in Int
      BY <2>1, <2>3, <3>1 DEF q
    <3>3. t = (t % B) + B * q /\ t % B \in Nat
      BY <2>3 DEF q, Word
    <3> QED BY <2>2, <3>2, <3>3
  <2>5. t \div B \in Word
    BY <2>1, <2>3, <2>4 DEF Word
  <2> QED BY <2>2, <2>3, <2>5 DEF t
<1>4. ASSUME NEW j \in 0..(m - 1), NEW s \in S PROVE G(s, j) \in S
  <2>1. j \in 0..MaxWords
    BY <1>2 DEF Parameters
  <2>2. s.mem \in Pairs /\ s.high \in Word
    OBVIOUS
  <2>3. X(s.mem, j) \in Word
    BY <2>1, <2>2 DEF X, Pairs, PairNames, Row
  <2>4. W(s, j) % B \in Word /\ W(s, j) \div B \in Word
    BY <1>3, <2>2, <2>3
  <2> HIDE DEF W
  <2>5. Store(s.mem, z, j, W(s, j) % B) \in Pairs
    BY <2>1, <2>2, <2>4, StoredWord DEF Pairs
  <2> QED BY <2>4, <2>5
<1>5. g \in [0..(m - 1) -> [S -> S]]
  <2> HIDE DEF G, S
  <2> QED BY <1>4
<1>6. PICK r : Recursive(r, m, S, e, g)
  <2> HIDE DEF g, e, S
  <2> QED BY <1>2, <1>5, LoopExists, Zenon
<1>7. C(r)
  <2> HIDE DEF S
  <2>1. r \in [0..m -> S] /\ r = [j \in 0..m |-> IF j = 0 THEN e ELSE g[j - 1][r[j - 1]]]
    BY <1>6 DEF Recursive
  <2>2. ASSUME NEW j \in 0..m, j # 0 PROVE g[j - 1][r[j - 1]] = G(r[j - 1], j - 1)
    <3>1. j - 1 \in 0..(m - 1) /\ j - 1 \in 0..m
      BY <1>2, <2>2
    <3>2. r[j - 1] \in S
      <4> HIDE DEF g, e
      <4> QED BY <2>1, <3>1
    <3> HIDE DEF G
    <3> QED BY <3>1, <3>2
  <2>3. r = [j \in 0..m |-> IF j = 0 THEN e ELSE G(r[j - 1], j - 1)]
    <3> HIDE DEF G, g, e
    <3> QED BY <2>1, <2>2
  <2> QED BY <2>3
<1>8. C(f)
  BY <1>7
<1>9. f[0] = e /\ \A j \in 0..(m - 1) : f[j + 1] = G(f[j], j)
  <2>1. f[0] = e
    <3> HIDE DEF f
    <3> QED BY <1>2, <1>8
  <2>2. ASSUME NEW j \in 0..(m - 1) PROVE f[j + 1] = G(f[j], j)
    <3>1. j + 1 \in 0..m /\ j + 1 # 0 /\ (j + 1) - 1 = j
      BY <1>2
    <3> HIDE DEF f
    <3> QED BY <1>8, <3>1
  <2> QED BY <2>1, <2>2
<1> HIDE DEF f, g, C, S
<1> DEFINE A(j) == c * Value(mem["x"], j)
           T == { j \in 0..m : Written(mem, f[j].mem, z, j, f[j].high, A(j)) /\ f[j].high \in Word }
<1>10. mem["x"] \in Row
  BY DEF Pairs, PairNames
<1>11. 0 \in T
  <2>1. A(0) = 0 /\ 0 \in Word
    BY <1>10, ValueSteps DEF Word, Parameters
  <2>2. Written(mem, mem, z, 0, 0, 0)
    BY NothingWritten
  <2> HIDE DEF A
  <2> QED BY <1>2, <1>9, <2>1, <2>2
<1>12. ASSUME NEW j \in 0..(m - 1), j \in T PROVE j + 1 \in T
  <2> DEFINE x == mem["x"][j]
             h == f[j].high
             t == c * x + h
  <2>1. j \in 0..MaxWords /\ j \in 0..(MaxWords + 1) /\ j + 1 \in 0..m /\ j \in Nat
    BY <1>2 DEF Parameters
  <2>2. Written(mem, f[j].mem, z, j, h, A(j)) /\ h \in Word
    BY <1>12
  <2>3. X(f[j].mem, j) = x /\ x \in Word
    <3>1. f[j].mem["x"][j] = mem["x"][j]
      BY <2>1, <2>2 DEF Written, PairNames
    <3> QED BY <1>10, <2>1, <3>1 DEF X, Row
  <2>4. f[j + 1] = [mem |-> Store(f[j].mem, z, j, t % B), high |-> t \div B]
    BY <1>9, <2>3
  <2>5. t % B \in Word /\ t \div B \in Word /\ t = (t % B) + B * (t \div B)
    BY <1>3, <2>2, <2>3
  <2>6. A(j) + Pow(j) * (c * x) = A(j + 1)
    <3>1. Value(mem["x"], j + 1) = Value(mem["x"], j) + Pow(j) * x
      BY <1>10, <2>1, ValueSteps
    <3>2. Value(mem["x"], j) \in Int /\ Pow(j) \in Nat /\ c \in Int /\ x \in Int
      <4>1. Value(mem["x"], j) \in 0..(Pow(j) - 1)
        BY <1>10, <2>1, ValueSteps
      <4> QED BY <2>1, <2>3, <4>1, PowSteps DEF Word
    <3> HIDE DEF x
    <3> QED BY <3>1, <3>2
  <2>7. c * x \in Int /\ t \div B \in Int
    BY <2>3, <2>5 DEF Word
  <2>8. Written(mem, Store(f[j].mem, z, j, t % B), z, j + 1, t \div B, A(j) + Pow(j) * (c * x))
    <3> DEFINE v == c * x
               q == t \div B
               d == t % B
    <3>1. v + h = d + B * q
      BY <2>5
    <3> HIDE DEF v, q, d, A, t, x, h
    <3> QED BY <2>1, <2>2, <2>5, <2>7, <3>1, WrittenStep DEF v, q, d
  <2> HIDE DEF A, t, x, h
  <2> QED BY <2>1, <2>4, <2>5, <2>6, <2>8
<1>13. m \in T
  <2>1. 0..m \subseteq T
    <3> HIDE DEF T
    <3> QED BY <1>2, <1>11, <1>12, LoopInduction
  <2> QED BY <1>2, <2>1
<1> QED BY <1>1, <1>13

\* The words of x, unchanged
LEMMA MovedIs ==
  ASSUME Parameters, NEW mem \in Pairs, NEW z \in PairNames, NEW m \in 0..MaxWords
  PROVE  Written(mem, Moved(mem, z, m), z, m, 0, Value(mem["x"], m))
<1> DEFINE G(s, j) == Store(s, z, j, X(s, j))
           C(s) == s = [j \in 0..m |-> IF j = 0 THEN mem ELSE Store(s[j - 1], z, j - 1, X(s[j - 1], j - 1))]
           f == CHOOSE s : C(s)
           g == [j \in 0..(m - 1) |-> [s \in Pairs |-> G(s, j)]]
<1>1. Moved(mem, z, m) = f[m]
  BY DEF Moved, Up
<1>2. m \in Nat /\ 0 \in 0..m /\ m \in 0..m
  BY DEF Parameters
<1>3. ASSUME NEW j \in 0..(m - 1), NEW s \in Pairs PROVE G(s, j) \in Pairs
  <2>1. j \in 0..MaxWords
    BY <1>2 DEF Parameters
  <2>2. X(s, j) \in Word
    BY <2>1 DEF X, Pairs, PairNames, Row
  <2> QED BY <2>1, <2>2, StoredWord DEF Pairs
<1>4. g \in [0..(m - 1) -> [Pairs -> Pairs]]
  <2> HIDE DEF G
  <2> QED BY <1>3
<1>5. PICK r : Recursive(r, m, Pairs, mem, g)
  <2> HIDE DEF g
  <2> QED BY <1>2, <1>4, LoopExists, Zenon
<1>6. C(r)
  <2>1. r \in [0..m -> Pairs] /\ r = [j \in 0..m |-> IF j = 0 THEN mem ELSE g[j - 1][r[j - 1]]]
    BY <1>5 DEF Recursive
  <2>2. ASSUME NEW j \in 0..m, j # 0 PROVE g[j - 1][r[j - 1]] = G(r[j - 1], j - 1)
    <3>1. j - 1 \in 0..(m - 1) /\ j - 1 \in 0..m
      BY <1>2, <2>2
    <3>2. r[j - 1] \in Pairs
      <4> HIDE DEF g
      <4> QED BY <2>1, <3>1
    <3> HIDE DEF G
    <3> QED BY <3>1, <3>2
  <2>3. r = [j \in 0..m |-> IF j = 0 THEN mem ELSE G(r[j - 1], j - 1)]
    <3> HIDE DEF G, g
    <3> QED BY <2>1, <2>2
  <2> QED BY <2>3
<1>7. C(f)
  BY <1>6
<1>8. f[0] = mem /\ \A j \in 0..(m - 1) : f[j + 1] = G(f[j], j)
  <2>1. f[0] = mem
    <3> HIDE DEF f
    <3> QED BY <1>2, <1>7
  <2>2. ASSUME NEW j \in 0..(m - 1) PROVE f[j + 1] = G(f[j], j)
    <3>1. j + 1 \in 0..m /\ j + 1 # 0 /\ (j + 1) - 1 = j
      BY <1>2
    <3> HIDE DEF f
    <3> QED BY <1>7, <3>1
  <2> QED BY <2>1, <2>2
<1> HIDE DEF f, g, C
<1> DEFINE A(j) == Value(mem["x"], j)
           T == { j \in 0..m : Written(mem, f[j], z, j, 0, A(j)) }
<1>9. mem["x"] \in Row
  BY DEF Pairs, PairNames
<1>10. 0 \in T
  <2>1. A(0) = 0
    BY <1>9, ValueSteps
  <2>2. Written(mem, mem, z, 0, 0, 0)
    BY NothingWritten
  <2> HIDE DEF A
  <2> QED BY <1>2, <1>8, <2>1, <2>2
<1>11. ASSUME NEW j \in 0..(m - 1), j \in T PROVE j + 1 \in T
  <2> DEFINE d == mem["x"][j]
             q == 0
  <2>1. j \in 0..MaxWords /\ j + 1 \in 0..m
    BY <1>2 DEF Parameters
  <2>2. Written(mem, f[j], z, j, q, A(j))
    BY <1>11
  <2>3. X(f[j], j) = d /\ d \in Word
    <3>1. f[j]["x"][j] = d
      BY <2>1, <2>2 DEF Written, PairNames
    <3> QED BY <1>9, <2>1, <3>1 DEF X, Row
  <2>4. f[j + 1] = Store(f[j], z, j, d)
    BY <1>8, <2>3
  <2>5. A(j + 1) = A(j) + Pow(j) * d
    BY <1>9, <2>1, ValueSteps
  <2>6. d + q = d + B * q /\ d \in Int /\ q \in Int
    BY <2>3 DEF Word, Parameters
  <2> HIDE DEF A, d, q
  <2>7. Written(mem, Store(f[j], z, j, d), z, j + 1, q, A(j) + Pow(j) * d)
    BY <2>1, <2>2, <2>3, <2>6, WrittenStep
  <2> QED BY <2>1, <2>4, <2>5, <2>7 DEF q
<1>12. m \in T
  <2>1. 0..m \subseteq T
    <3> HIDE DEF T
    <3> QED BY <1>2, <1>10, <1>11, LoopInduction
  <2> QED BY <1>2, <2>1
<1> QED BY <1>1, <1>12

LEMMA CmulPromise == Parameters /\ Cmul => Contract!Cmul'
<1> SUFFICES ASSUME Parameters, Cmul PROVE Contract!Cmul'
  OBVIOUS
<1> DEFINE Returns(p, n, x, c, z) ==
             LET mem == Pair(n, x, p, 0)
                 m == Smaller(n, p)
                 s == Multiplied(mem, z, m, c)
             IN  Call("cmul", << p, x, c >>,
                      << Left(mem, Padded(s.mem, z, m, p, s.high), z, p), IF p > m THEN 0 ELSE s.high >>)
<1>1. PICK p \in 0..MaxWords, n \in 0..MaxWords :
        \E x \in Numbers(n), c \in 0..(B - 1), z \in { "x", "z" } : Returns(p, n, x, c, z)
  BY DEF Cmul, Lengths
<1>2. PICK x \in Numbers(n), c \in Word, z \in PairNames : Returns(p, n, x, c, z)
  BY <1>1 DEF Word, PairNames
<1> DEFINE mem == Pair(n, x, p, 0)
           m == Smaller(n, p)
           s == Multiplied(mem, z, m, c)
           h == IF p > m THEN 0 ELSE s.high
           r == Left(mem, Padded(s.mem, z, m, p, s.high), z, p)
<1>3. Call("cmul", << p, x, c >>, << r, h >>)
  BY <1>2
<1>4. m \in 0..p /\ m \in 0..MaxWords /\ Value(Words(x, n), m) = x % Pow(p)
  BY CutValue DEF Parameters
<1>5. mem \in Pairs /\ mem["x"] = Words(x, n)
  BY PowPositive, PairHolds
<1> HIDE DEF mem, m
<1>6. Written(mem, s.mem, z, m, s.high, c * Value(mem["x"], m)) /\ s.high \in Word
  BY <1>4, <1>5, MultipliedIs
<1> HIDE DEF s
<1>7. Written(mem, Padded(s.mem, z, m, p, s.high), z, p, h, c * Value(mem["x"], m))
  BY <1>4, <1>6, PaddedIs
<1>8. r + Pow(p) * h = c * (x % Pow(p))
  <2> HIDE DEF h
  <2> QED BY <1>4, <1>5, <1>7, WrittenLeft
<1> HIDE DEF r, h
<1> QED BY <1>3, <1>8, ContractPow DEF Call, Contract!Cmul, Contract!Is, Contract!result, Contract!carry,
      Contract!x, Contract!y, Contract!k, Contract!R

LEMMA CopyPromise == Parameters /\ Copy => Contract!Copy'
<1> SUFFICES ASSUME Parameters, Copy PROVE Contract!Copy'
  OBVIOUS
<1> DEFINE Returns(k, n, x, z) ==
             LET mem == Pair(n, x, k, 0)
                 m == Smaller(k, n)
             IN  Call("copy", << k, x >>, << Left(mem, Padded(Moved(mem, z, m), z, m, k, 0), z, k) >>)
<1>1. PICK k \in 0..MaxWords, n \in 0..MaxWords :
        \E x \in Numbers(n), z \in { "x", "z" } : Returns(k, n, x, z)
  BY DEF Copy, Lengths
<1>2. PICK x \in Numbers(n), z \in PairNames : Returns(k, n, x, z)
  BY <1>1 DEF PairNames
<1> DEFINE mem == Pair(n, x, k, 0)
           m == Smaller(k, n)
           new == Padded(Moved(mem, z, m), z, m, k, 0)
           r == Left(mem, new, z, k)
           v == Value(mem["x"], m)
           h == IF k > m THEN 0 ELSE 0
<1>3. Call("copy", << k, x >>, << r >>)
  BY <1>2
<1>4. m \in 0..k /\ m \in 0..MaxWords /\ Value(Words(x, n), m) = x % Pow(k)
  <2>1. Smaller(n, k) = Smaller(k, n) /\ Smaller(n, k) \in 0..k /\ Value(Words(x, n), Smaller(n, k)) = x % Pow(k)
    BY CutValue
  <2> QED BY <2>1 DEF Parameters
<1>5. mem \in Pairs /\ mem["x"] = Words(x, n)
  BY PowPositive, PairHolds
<1> HIDE DEF mem, m
<1>6. Written(mem, Moved(mem, z, m), z, m, 0, v)
  BY <1>4, <1>5, MovedIs
<1>7. Written(mem, new, z, k, h, v)
  <2>1. 0 \in Word
    BY DEF Word, Parameters
  <2> HIDE DEF v
  <2> QED BY <1>4, <1>6, <2>1, PaddedIs
<1>8. r + Pow(k) * h = v /\ r \in 0..(Pow(k) - 1)
  <2> HIDE DEF h, v, new
  <2> QED BY <1>7, WrittenLeft
<1>9. Pow(k) \in Nat /\ h = 0
  BY PowPositive
<1> HIDE DEF r, h
<1>10. r = x % Pow(k)
  BY <1>4, <1>5, <1>8, <1>9
<1> QED BY <1>3, <1>10, ContractPow DEF Call, Contract!Copy, Contract!Is, Contract!result,
      Contract!x, Contract!k, Contract!R

\* x shifted up, also where it replaces x
LEMMA ShiftedIs ==
  ASSUME Sizes, NEW mem \in Pairs, NEW z \in PairNames, NEW m \in 0..MaxWords, NEW c \in 0..(WordBits - 1)
  PROVE  LET s == Shifted(mem, z, m, c)
         IN  Written(mem, s.mem, z, m, s.high, Value(mem["x"], m) * 2^c) /\ s.high \in Word
<1> USE SizesSuffice
<1> DEFINE P == 2^c
           q == 2^(WordBits - c)
           Out(w) == IF c = 0 THEN 0 ELSE w \div 2^(WordBits - c)
           S == [mem : Pairs, high : 0..(P - 1)]
           e == [mem |-> mem, high |-> 0]
           W(s, j) == ((X(s.mem, j) * P) % B) + s.high
           G(s, j) == [mem |-> Store(s.mem, z, j, W(s, j)), high |-> Out(X(s.mem, j))]
           C(s) == s = [j \in 0..m |->
                         IF j = 0 THEN [mem |-> mem, high |-> 0]
                         ELSE LET t == X(s[j - 1].mem, j - 1)
                              IN  [mem |-> Store(s[j - 1].mem, z, j - 1, ((t * 2^c) % B) + s[j - 1].high),
                                   high |-> IF c = 0 THEN 0 ELSE t \div 2^(WordBits - c)]]
           f == CHOOSE s : C(s)
           g == [j \in 0..(m - 1) |-> [s \in S |-> G(s, j)]]
<1>1. Shifted(mem, z, m, c) = f[m]
  BY DEF Shifted, Up
<1>2. m \in Nat /\ 0 \in 0..m /\ m \in 0..m /\ WordBits \in Nat /\ c \in 0..WordBits /\ B \in Nat /\ B > 1
  BY DEF Sizes, Parameters
<1>3. P \in Nat \ {0} /\ q \in Nat \ {0} /\ P * q = B
  BY <1>2, PowersMatch
<1>4. \A w \in Word : Out(w) = w \div q
  <2> SUFFICES ASSUME NEW w \in Word, c = 0 PROVE w \div q = 0
    OBVIOUS
  <2>1. P = 1
    OBVIOUS
  <2>2. 0 \in 0..(P - 1)
    BY <2>1
  <2> HIDE DEF q
  <2>3. w \div q \in 0..(P - 1)
    <3> HIDE DEF P
    <3> QED BY <1>3, <2>2, ShiftedWord
  <2> QED BY <2>1, <2>3
<1> HIDE DEF q, Out
<1>5. ASSUME NEW w \in Word, NEW h \in 0..(P - 1)
      PROVE  /\ ((w * P) % B) + h \in Word /\ Out(w) \in 0..(P - 1)
             /\ w * P + h = (((w * P) % B) + h) + B * Out(w)
  <2> HIDE DEF P
  <2> QED BY <1>3, <1>4, ShiftedWord
<1>6. e \in S
  BY <1>3
<1>7. ASSUME NEW j \in 0..(m - 1), NEW s \in S PROVE G(s, j) \in S
  <2>1. j \in 0..MaxWords
    BY <1>2 DEF Parameters
  <2>2. s.mem \in Pairs /\ s.high \in 0..(P - 1)
    OBVIOUS
  <2>3. X(s.mem, j) \in Word
    BY <2>1, <2>2 DEF X, Pairs, PairNames, Row
  <2>4. W(s, j) \in Word /\ Out(X(s.mem, j)) \in 0..(P - 1)
    BY <1>5, <2>2, <2>3
  <2> HIDE DEF W, P
  <2>5. Store(s.mem, z, j, W(s, j)) \in Pairs
    BY <2>1, <2>2, <2>4, StoredWord DEF Pairs
  <2> QED BY <2>4, <2>5
<1>8. g \in [0..(m - 1) -> [S -> S]]
  <2> HIDE DEF G, S
  <2> QED BY <1>7
<1>9. PICK r : Recursive(r, m, S, e, g)
  <2> HIDE DEF g, e, S
  <2> QED BY <1>2, <1>6, <1>8, LoopExists, Zenon
<1>10. C(r)
  <2> HIDE DEF S
  <2>1. r \in [0..m -> S] /\ r = [j \in 0..m |-> IF j = 0 THEN e ELSE g[j - 1][r[j - 1]]]
    BY <1>9 DEF Recursive
  <2>2. ASSUME NEW j \in 0..m, j # 0 PROVE g[j - 1][r[j - 1]] = G(r[j - 1], j - 1)
    <3>1. j - 1 \in 0..(m - 1) /\ j - 1 \in 0..m
      BY <1>2, <2>2
    <3>2. r[j - 1] \in S
      <4> HIDE DEF g, e
      <4> QED BY <2>1, <3>1
    <3> HIDE DEF G
    <3> QED BY <3>1, <3>2
  <2>3. r = [j \in 0..m |-> IF j = 0 THEN e ELSE G(r[j - 1], j - 1)]
    <3> HIDE DEF G, g, e
    <3> QED BY <2>1, <2>2
  <2> QED BY <2>3 DEF Out
<1>11. C(f)
  BY <1>10
<1>12. f[0] = e /\ \A j \in 0..(m - 1) : f[j + 1] = G(f[j], j)
  <2>1. f[0] = e
    <3> HIDE DEF f
    <3> QED BY <1>2, <1>11
  <2>2. ASSUME NEW j \in 0..(m - 1) PROVE f[j + 1] = G(f[j], j)
    <3>1. j + 1 \in 0..m /\ j + 1 # 0 /\ (j + 1) - 1 = j
      BY <1>2
    <3> HIDE DEF f
    <3> QED BY <1>11, <3>1 DEF Out
  <2> QED BY <2>1, <2>2
<1> HIDE DEF f, g, C, S
<1> DEFINE A(j) == Value(mem["x"], j) * P
           T == { j \in 0..m : Written(mem, f[j].mem, z, j, f[j].high, A(j)) /\ f[j].high \in 0..(P - 1) }
<1>13. mem["x"] \in Row
  BY DEF Pairs, PairNames
<1>14. 0 \in T
  <2>1. A(0) = 0 /\ 0 \in 0..(P - 1)
    BY <1>3, <1>13, ValueSteps
  <2>2. Written(mem, mem, z, 0, 0, 0)
    BY NothingWritten
  <2> HIDE DEF A, P
  <2> QED BY <1>2, <1>12, <2>1, <2>2
<1>15. ASSUME NEW j \in 0..(m - 1), j \in T PROVE j + 1 \in T
  <2> DEFINE x == mem["x"][j]
             h == f[j].high
             d == ((x * P) % B) + h
             v == x * P
             out == Out(x)
  <2>1. j \in 0..MaxWords /\ j \in 0..(MaxWords + 1) /\ j + 1 \in 0..m /\ j \in Nat
    BY <1>2 DEF Parameters
  <2>2. Written(mem, f[j].mem, z, j, h, A(j)) /\ h \in 0..(P - 1)
    BY <1>15
  <2>3. X(f[j].mem, j) = x /\ x \in Word
    <3>1. f[j].mem["x"][j] = mem["x"][j]
      BY <2>1, <2>2 DEF Written, PairNames
    <3> QED BY <1>13, <2>1, <3>1 DEF X, Row
  <2>4. f[j + 1] = [mem |-> Store(f[j].mem, z, j, d), high |-> out]
    BY <1>12, <2>3
  <2>5. d \in Word /\ out \in 0..(P - 1) /\ v + h = d + B * out
    BY <1>5, <2>2, <2>3
  <2>6. A(j) + Pow(j) * v = A(j + 1)
    <3>1. Value(mem["x"], j + 1) = Value(mem["x"], j) + Pow(j) * x
      BY <1>13, <2>1, ValueSteps
    <3>2. Value(mem["x"], j) \in Int /\ Pow(j) \in Nat /\ x \in Int
      <4>1. Value(mem["x"], j) \in 0..(Pow(j) - 1)
        BY <1>13, <2>1, ValueSteps
      <4> QED BY <2>1, <2>3, <4>1, PowSteps DEF Word
    <3> HIDE DEF x, P
    <3> QED BY <1>3, <3>1, <3>2
  <2>7. v \in Int /\ out \in Int
    <3> HIDE DEF x, P
    <3> QED BY <1>3, <2>3, <2>5 DEF Word
  <2> HIDE DEF A, x, h, d, v, out, P
  <2>8. Written(mem, Store(f[j].mem, z, j, d), z, j + 1, out, A(j) + Pow(j) * v)
    BY <2>1, <2>2, <2>5, <2>7, WrittenStep
  <2> QED BY <2>1, <2>4, <2>5, <2>6, <2>8
<1>16. m \in T
  <2>1. 0..m \subseteq T
    <3> HIDE DEF T
    <3> QED BY <1>2, <1>14, <1>15, LoopInduction
  <2> QED BY <1>2, <2>1
<1>17. f[m].high \in Word
  <2>1. f[m].high \in 0..(P - 1)
    BY <1>16
  <2>2. P <= B
    <3> HIDE DEF P
    <3>1. P * q >= P * 1
      BY <1>3
    <3> QED BY <1>3, <3>1
  <2> HIDE DEF P
  <2> QED BY <1>2, <1>3, <2>1, <2>2 DEF Word
<1> QED BY <1>1, <1>16, <1>17

LEMMA ShlSmallPromise == Sizes /\ ShlSmall => Contract!ShlSmall'
<1> SUFFICES ASSUME Sizes, ShlSmall PROVE Contract!ShlSmall'
  OBVIOUS
<1> USE SizesSuffice
<1> DEFINE Returns(p, n, x, c, z) ==
             LET mem == Pair(n, x, p, 0)
                 m == Smaller(n, p)
                 s == Shifted(mem, z, m, c)
             IN  Call("shl_small", << p, x, c >>,
                      << Left(mem, Padded(s.mem, z, m, p, s.high), z, p), IF p > m THEN 0 ELSE s.high >>)
<1>1. PICK p \in 0..MaxWords, n \in 0..MaxWords :
        \E x \in Numbers(n), c \in 0..(WordBits - 1), z \in { "x", "z" } : Returns(p, n, x, c, z)
  BY DEF ShlSmall, Lengths
<1>2. PICK x \in Numbers(n), c \in 0..(WordBits - 1), z \in PairNames : Returns(p, n, x, c, z)
  BY <1>1 DEF PairNames
<1> DEFINE mem == Pair(n, x, p, 0)
           m == Smaller(n, p)
           s == Shifted(mem, z, m, c)
           h == IF p > m THEN 0 ELSE s.high
           r == Left(mem, Padded(s.mem, z, m, p, s.high), z, p)
           total == Value(mem["x"], m) * 2^c
<1>3. Call("shl_small", << p, x, c >>, << r, h >>)
  BY <1>2
<1>4. m \in 0..p /\ m \in 0..MaxWords /\ Value(Words(x, n), m) = x % Pow(p)
  BY CutValue DEF Parameters
<1>5. mem \in Pairs /\ mem["x"] = Words(x, n)
  BY PowPositive, PairHolds
<1> HIDE DEF mem, m
<1>6. Written(mem, s.mem, z, m, s.high, total) /\ s.high \in Word
  BY <1>4, <1>5, ShiftedIs
<1> HIDE DEF s, total
<1>7. Written(mem, Padded(s.mem, z, m, p, s.high), z, p, h, total)
  BY <1>4, <1>6, PaddedIs
<1>8. r + Pow(p) * h = total
  <2> HIDE DEF h
  <2> QED BY <1>7, WrittenLeft
<1>9. total = (x % Pow(p)) * 2^c
  BY <1>4, <1>5 DEF total
<1> HIDE DEF r, h
<1> QED BY <1>3, <1>8, <1>9, ContractPow DEF Call, Contract!ShlSmall, Contract!Is, Contract!result, Contract!carry,
      Contract!x, Contract!y, Contract!k, Contract!R

Sums == [mem : Pairs, high : Nat, carry : Nat]

\* The high word and the carry flag are what is left together.
LEMMA MultiplyAddIs ==
  ASSUME Parameters, NEW mem \in Pairs, NEW m \in 0..MaxWords, NEW c \in Word, NEW complement \in BOOLEAN,
         NEW start \in Nat
  PROVE  LET s == MultiplyAdd(mem, m, c, complement, start)
             how == IF complement THEN "complement" ELSE "same"
         IN  /\ s \in Sums
             /\ Written(mem, s.mem, "z", m, s.high + s.carry,
                        Value(mem["z"], m) + c * ReadValue(how, mem["x"], m) + start)
<1> DEFINE how == IF complement THEN "complement" ELSE "same"
           e == [mem |-> mem, high |-> start, carry |-> 0]
           Product(s, j) == c * (IF complement THEN B - 1 - X(s.mem, j) ELSE X(s.mem, j))
           W(s, j) == s.mem["z"][j] + s.high + s.carry
           U(s, j) == (W(s, j) % B) + (Product(s, j) % B)
           G(s, j) == [mem |-> Store(s.mem, "z", j, U(s, j) % B),
                       high |-> (Product(s, j) \div B) + (W(s, j) \div B), carry |-> U(s, j) \div B]
           C(s) == s = [j \in 0..m |->
                         IF j = 0 THEN [mem |-> mem, high |-> start, carry |-> 0]
                         ELSE LET product == c * (IF complement THEN B - 1 - X(s[j - 1].mem, j - 1)
                                                                ELSE X(s[j - 1].mem, j - 1))
                                  t == s[j - 1].mem["z"][j - 1] + s[j - 1].high + s[j - 1].carry
                                  u == (t % B) + (product % B)
                              IN  [mem |-> Store(s[j - 1].mem, "z", j - 1, u % B),
                                   high |-> (product \div B) + (t \div B), carry |-> u \div B]]
           f == CHOOSE s : C(s)
           g == [j \in 0..(m - 1) |-> [s \in Sums |-> G(s, j)]]
<1>1. MultiplyAdd(mem, m, c, complement, start) = f[m]
  BY DEF MultiplyAdd, Up
<1>2. m \in Nat /\ 0 \in 0..m /\ m \in 0..m /\ e \in Sums /\ "z" \in PairNames /\ "x" \in PairNames
  BY DEF Parameters, Sums, PairNames
<1>3. ASSUME NEW t \in Nat, NEW a \in Nat
      PROVE  LET u == (t % B) + (a % B)
             IN  /\ u % B \in Word /\ (a \div B) + (t \div B) \in Nat /\ u \div B \in Nat
                 /\ a + t = (u % B) + B * (((a \div B) + (t \div B)) + (u \div B))
  BY FactsAssumptions, Facts!WordAndCarry DEF Word, Facts!Word
<1>4. ASSUME NEW j \in 0..(m - 1), NEW s \in Sums
      PROVE  /\ W(s, j) \in Nat /\ Product(s, j) \in Nat
             /\ U(s, j) % B \in Word /\ G(s, j) \in Sums
  <2>1. j \in 0..MaxWords
    BY <1>2 DEF Parameters
  <2>2. s.mem \in Pairs /\ s.high \in Nat /\ s.carry \in Nat
    BY DEF Sums
  <2>3. X(s.mem, j) \in Word /\ s.mem["z"][j] \in Word
    BY <2>1, <2>2 DEF X, Pairs, PairNames, Row
  <2>4. W(s, j) \in Nat
    BY <2>2, <2>3 DEF Word
  <2>5. Product(s, j) \in Nat
    <3> DEFINE w == IF complement THEN B - 1 - X(s.mem, j) ELSE X(s.mem, j)
    <3>1. w \in Nat /\ c \in Nat
      BY <2>3 DEF Word, Parameters
    <3> HIDE DEF w
    <3>2. c * w \in Nat
      BY <3>1
    <3> QED BY <3>2 DEF w
  <2> DEFINE t == W(s, j)
             a == Product(s, j)
             d == U(s, j) % B
             h == (Product(s, j) \div B) + (W(s, j) \div B)
             q == U(s, j) \div B
  <2>6. d \in Word /\ h \in Nat /\ q \in Nat
    <3> HIDE DEF W, Product
    <3> QED BY <1>3, <2>4, <2>5
  <2>7. G(s, j) = [mem |-> Store(s.mem, "z", j, d), high |-> h, carry |-> q]
    OBVIOUS
  <2> HIDE DEF d, h, q, G
  <2>8. Store(s.mem, "z", j, d) \in Pairs
    BY <1>2, <2>1, <2>2, <2>6, StoredWord DEF Pairs
  <2>9. G(s, j) \in Sums
    BY <2>6, <2>7, <2>8 DEF Sums
  <2> QED BY <2>4, <2>5, <2>6, <2>9 DEF d
<1>5. g \in [0..(m - 1) -> [Sums -> Sums]]
  <2> HIDE DEF G, W, U, Product
  <2> QED BY <1>4
<1>6. PICK r : Recursive(r, m, Sums, e, g)
  <2> HIDE DEF g, e
  <2> QED BY <1>2, <1>5, LoopExists, Zenon
<1>7. r \in [0..m -> Sums] /\ r = [j \in 0..m |-> IF j = 0 THEN e ELSE g[j - 1][r[j - 1]]]
  BY <1>6 DEF Recursive
<1>8. C(r)
  <2>1. ASSUME NEW j \in 0..m, j # 0 PROVE g[j - 1][r[j - 1]] = G(r[j - 1], j - 1)
    <3>1. j - 1 \in 0..(m - 1) /\ j - 1 \in 0..m
      BY <1>2, <2>1
    <3>2. r[j - 1] \in Sums
      <4> HIDE DEF g, e
      <4> QED BY <1>7, <3>1
    <3> HIDE DEF G
    <3> QED BY <3>1, <3>2
  <2>2. r = [j \in 0..m |-> IF j = 0 THEN e ELSE G(r[j - 1], j - 1)]
    <3> HIDE DEF G, g, e
    <3> QED BY <1>7, <2>1
  <2> QED BY <2>2
<1>9. f = [j \in 0..m |-> IF j = 0 THEN e ELSE G(f[j - 1], j - 1)]
  <2>1. C(f)
    BY <1>8
  <2> HIDE DEF f
  <2> QED BY <2>1
<1>10. f[0] = e /\ \A j \in 0..(m - 1) : f[j + 1] = G(f[j], j)
  <2>1. f[0] = e
    <3> HIDE DEF f, e, G
    <3> QED BY <1>2, <1>9
  <2>2. ASSUME NEW j \in 0..(m - 1) PROVE f[j + 1] = G(f[j], j)
    <3>1. j + 1 \in 0..m /\ j + 1 # 0 /\ (j + 1) - 1 = j
      BY <1>2
    <3> HIDE DEF f, e, G
    <3> QED BY <1>9, <3>1
  <2> QED BY <2>1, <2>2
<1> HIDE DEF f, g, C
<1> DEFINE A(j) == Value(mem["z"], j) + c * ReadValue(how, mem["x"], j) + start
           T == { j \in 0..m : f[j] \in Sums /\ Written(mem, f[j].mem, "z", j, f[j].high + f[j].carry, A(j)) }
<1>11. mem["x"] \in Row /\ mem["z"] \in Row
  BY DEF Pairs, PairNames
<1>12. 0 \in T
  <2>1. A(0) = start
    <3>1. Value(mem["z"], 0) = 0 /\ ReadValue(how, mem["x"], 0) = 0
      <4> HIDE DEF how
      <4> QED BY <1>11, ValueSteps, ReadSteps
    <3> QED BY <3>1 DEF Word
  <2>2. Written(mem, mem, "z", 0, start, start)
    BY <1>2, NothingWritten
  <2>3. e.mem = mem /\ e.high + e.carry = start
    OBVIOUS
  <2> HIDE DEF A, e
  <2> QED BY <1>2, <1>10, <2>1, <2>2, <2>3
<1>13. ASSUME NEW j \in 0..(m - 1), j \in T PROVE j + 1 \in T
  <2> DEFINE s == f[j]
             z == mem["z"][j]
             x == Read(how, mem["x"][j])
             h == s.high + s.carry
             d == U(s, j) % B
             q == ((Product(s, j) \div B) + (W(s, j) \div B)) + (U(s, j) \div B)
             v == z + c * x
  <2>1. j \in 0..MaxWords /\ j \in 0..(MaxWords + 1) /\ j + 1 \in 0..m /\ j \in Nat
    BY <1>2 DEF Parameters
  <2>2. s \in Sums /\ Written(mem, s.mem, "z", j, h, A(j))
    BY <1>13
  <2>3. s.mem["z"][j] = z /\ s.mem["x"][j] = mem["x"][j] /\ z \in Word
    <3>1. s.mem["z"][j] = z /\ s.mem["x"][j] = mem["x"][j]
      <4> HIDE DEF A, h, s
      <4> QED BY <2>1, <2>2 DEF Written, PairNames
    <3> QED BY <1>11, <2>1, <3>1 DEF Row
  <2>4. f[j + 1] = G(s, j) /\ G(s, j) \in Sums /\ d \in Word
    <3>1. f[j + 1] = G(f[j], j) /\ f[j] \in Sums
      <4> HIDE DEF G
      <4> QED BY <1>10, <1>13
    <3>2. G(f[j], j) \in Sums /\ U(f[j], j) % B \in Word
      <4> HIDE DEF G, W, U, Product
      <4> QED BY <1>4, <3>1
    <3> HIDE DEF G, W, U, Product
    <3> QED BY <3>1, <3>2
  <2>5. W(s, j) = z + h /\ Product(s, j) = c * x
    <3>1. s.high \in Nat /\ s.carry \in Nat /\ z \in Nat
      BY <2>2, <2>3 DEF Sums, Word
    <3>2. W(s, j) = z + h
      BY <2>3, <3>1
    <3>3. Product(s, j) = c * x
      BY <2>3 DEF X, Read
    <3> QED BY <3>2, <3>3
  <2>6. W(s, j) \in Nat /\ Product(s, j) \in Nat
    <3> HIDE DEF G, s, W, Product, U
    <3> QED BY <1>4, <2>2
  <2>7. Product(s, j) + W(s, j) = d + B * q /\ q \in Nat
    <3> HIDE DEF W, Product
    <3>1. /\ (Product(s, j) \div B) + (W(s, j) \div B) \in Nat /\ U(s, j) \div B \in Nat
          /\ Product(s, j) + W(s, j) = d + B * q
      BY <1>3, <2>6
    <3> QED BY <3>1
  <2>8. G(s, j).mem = Store(s.mem, "z", j, d) /\ G(s, j).high + G(s, j).carry = q
    OBVIOUS
  <2>9. A(j) + Pow(j) * v = A(j + 1)
    <3> DEFINE R == ReadValue(how, mem["x"], j)
               Z == Value(mem["z"], j)
               P == Pow(j)
    <3>1. /\ Value(mem["z"], j + 1) = Z + P * z
          /\ ReadValue(how, mem["x"], j + 1) = R + P * x
      <4> HIDE DEF how
      <4> QED BY <1>11, <2>1, ValueSteps, ReadSteps
    <3>2. Z \in Int /\ R \in Int /\ P \in Nat /\ x \in Int /\ z \in Int /\ c \in Int
      <4> HIDE DEF how
      <4>1. Z \in 0..(P - 1) /\ R \in 0..(P - 1) /\ x \in Word
        BY <1>11, <2>1, ValueSteps, ReadSteps
      <4> QED BY <2>1, <2>3, <4>1, PowSteps DEF Word
    <3> HIDE DEF R, Z, P, x, z, how
    <3>3. c * (R + P * x) = c * R + P * (c * x)
      BY <3>2
    <3>4. P * (z + c * x) = P * z + P * (c * x)
      BY <3>2
    <3>5. c * R \in Int /\ P * z \in Int /\ P * (c * x) \in Int
      BY <3>2
    <3>6. (Z + c * R + start) + P * v = (Z + P * z) + c * (R + P * x) + start
      BY <3>2, <3>3, <3>4, <3>5
    <3> QED BY <3>1, <3>6 DEF R, Z, P
  <2>10. v + h = d + B * q /\ v \in Int
    <3>1. z \in Nat /\ h \in Nat /\ c * x \in Nat
      <4>1. h \in Nat
        BY <2>2 DEF Sums
      <4> HIDE DEF x, h
      <4> QED BY <2>3, <2>5, <2>6, <4>1 DEF Word
    <3> DEFINE a == c * x
    <3>2. a + (z + h) = d + B * q
      BY <2>5, <2>7
    <3>3. z + a + h = a + (z + h) /\ z + a \in Int
      <4> HIDE DEF a, z, h
      <4> QED BY <3>1 DEF a
    <3> QED BY <3>2, <3>3
  <2> HIDE DEF A, x, z, h, d, v, q, s, G, W, U, Product
  <2>11. Written(mem, Store(s.mem, "z", j, d), "z", j + 1, q, A(j) + Pow(j) * v)
    BY <1>2, <2>1, <2>2, <2>4, <2>7, <2>10, WrittenStep
  <2> QED BY <2>1, <2>4, <2>8, <2>9, <2>11
<1>14. m \in T
  <2>1. 0..m \subseteq T
    <3> HIDE DEF T
    <3> QED BY <1>2, <1>12, <1>13, LoopInduction
  <2> QED BY <1>2, <2>1
<1> QED BY <1>1, <1>14

\* The carry goes through the words of z above those of x.
LEMMA CarriedIs ==
  ASSUME Parameters, NEW mem \in Pairs, NEW p \in 0..MaxWords, NEW m \in 0..p, NEW s \in Sums, NEW total,
         Written(mem, s.mem, "z", m, s.high + s.carry, total)
  PROVE  LET r == Carried(s, m, p)
         IN  /\ r \in Sums
             /\ Written(mem, r.mem, "z", p, r.high + r.carry, total + (Value(mem["z"], p) - Value(mem["z"], m)))
<1> DEFINE k == IF p > m THEN p - m ELSE 0
           W(r, j) == r.mem["z"][m + j] + r.high + r.carry
           G(r, j) == [mem |-> Store(r.mem, "z", m + j, W(r, j) % B), high |-> 0, carry |-> W(r, j) \div B]
           C(r) == r = [j \in 0..k |->
                         IF j = 0 THEN s
                         ELSE LET t == r[j - 1].mem["z"][m + (j - 1)] + r[j - 1].high + r[j - 1].carry
                              IN  [mem |-> Store(r[j - 1].mem, "z", m + (j - 1), t % B), high |-> 0,
                                   carry |-> t \div B]]
           f == CHOOSE r : C(r)
           g == [j \in 0..(k - 1) |-> [r \in Sums |-> G(r, j)]]
<1>1. Carried(s, m, p) = f[k]
  BY DEF Carried, Over, Up
<1>2. k \in Nat /\ m + k = p /\ m \in Nat /\ 0 \in 0..k /\ k \in 0..k /\ p \in 0..MaxWords /\ "z" \in PairNames
  BY DEF Parameters, PairNames
<1> HIDE DEF k
<1>3. ASSUME NEW j \in 0..(k - 1), NEW r \in Sums
      PROVE  /\ W(r, j) \in Nat /\ W(r, j) % B \in Word /\ W(r, j) \div B \in Nat
             /\ W(r, j) = (W(r, j) % B) + B * (W(r, j) \div B) /\ G(r, j) \in Sums
  <2> DEFINE t == W(r, j)
  <2>1. m + j \in 0..MaxWords
    BY <1>2 DEF Parameters
  <2>2. r.mem \in Pairs /\ r.high \in Nat /\ r.carry \in Nat
    BY DEF Sums
  <2>3. r.mem["z"][m + j] \in Word
    BY <2>1, <2>2 DEF Pairs, PairNames, Row
  <2>4. t \in Nat
    BY <2>2, <2>3 DEF Word
  <2> HIDE DEF t
  <2>5. t % B \in Word /\ t \div B \in Nat /\ t = (t % B) + B * (t \div B)
    BY <2>4, WordOf
  <2>6. Store(r.mem, "z", m + j, t % B) \in Pairs
    BY <1>2, <2>1, <2>2, <2>5, StoredWord DEF Pairs
  <2>7. [mem |-> Store(r.mem, "z", m + j, t % B), high |-> 0, carry |-> t \div B] \in Sums
    BY <2>5, <2>6 DEF Sums
  <2> QED BY <2>4, <2>5, <2>7 DEF t
<1>4. g \in [0..(k - 1) -> [Sums -> Sums]]
  <2> HIDE DEF G, W
  <2> QED BY <1>3
<1>5. PICK r : Recursive(r, k, Sums, s, g)
  <2> HIDE DEF g
  <2> QED BY <1>2, <1>4, LoopExists, Zenon
<1>6. r \in [0..k -> Sums] /\ r = [j \in 0..k |-> IF j = 0 THEN s ELSE g[j - 1][r[j - 1]]]
  BY <1>5 DEF Recursive
<1>7. C(r)
  <2>1. ASSUME NEW j \in 0..k, j # 0 PROVE g[j - 1][r[j - 1]] = G(r[j - 1], j - 1)
    <3>1. j - 1 \in 0..(k - 1) /\ j - 1 \in 0..k
      BY <1>2, <2>1
    <3>2. r[j - 1] \in Sums
      <4> HIDE DEF g
      <4> QED BY <1>6, <3>1
    <3> HIDE DEF G
    <3> QED BY <3>1, <3>2
  <2>2. r = [j \in 0..k |-> IF j = 0 THEN s ELSE G(r[j - 1], j - 1)]
    <3> HIDE DEF G, g
    <3> QED BY <1>6, <2>1
  <2> QED BY <2>2
<1>8. C(f)
  BY <1>7
<1>9. f[0] = s /\ \A j \in 0..(k - 1) : f[j + 1] = G(f[j], j)
  <2>1. f[0] = s
    <3> HIDE DEF f
    <3> QED BY <1>2, <1>8
  <2>2. ASSUME NEW j \in 0..(k - 1) PROVE f[j + 1] = G(f[j], j)
    <3>1. j + 1 \in 0..k /\ j + 1 # 0 /\ (j + 1) - 1 = j
      BY <1>2
    <3> HIDE DEF f
    <3> QED BY <1>8, <3>1
  <2> QED BY <2>1, <2>2
<1> HIDE DEF f, g, C
<1> DEFINE A(j) == total + (Value(mem["z"], m + j) - Value(mem["z"], m))
           T == { j \in 0..k : /\ f[j] \in Sums
                               /\ Written(mem, f[j].mem, "z", m + j, f[j].high + f[j].carry, A(j)) }
<1>10. mem["z"] \in Row /\ total \in Int
  BY DEF Pairs, PairNames, Written
<1>11. \A j \in 0..k : m + j \in 0..(MaxWords + 1) /\ Value(mem["z"], m + j) \in Int
  <2> SUFFICES ASSUME NEW j \in 0..k PROVE m + j \in 0..(MaxWords + 1) /\ Value(mem["z"], m + j) \in Int
    OBVIOUS
  <2>1. m + j \in 0..(MaxWords + 1)
    BY <1>2 DEF Parameters
  <2>2. Value(mem["z"], m + j) \in 0..(Pow(m + j) - 1)
    BY <1>10, <2>1, ValueSteps
  <2> QED BY <2>1, <2>2
<1>12. 0 \in T
  <2>1. A(0) = total /\ m + 0 = m
    <3>1. m + 0 = m /\ Value(mem["z"], m + 0) \in Int
      BY <1>2, <1>11
    <3> QED BY <1>10, <3>1
  <2> HIDE DEF A
  <2> QED BY <1>2, <1>9, <2>1
<1>13. ASSUME NEW j \in 0..(k - 1), j \in T PROVE j + 1 \in T
  <2> DEFINE n == m + j
             v == mem["z"][n]
             h == f[j].high + f[j].carry
             d == W(f[j], j) % B
             q == W(f[j], j) \div B
  <2>1. n \in 0..MaxWords /\ j + 1 \in 0..k /\ j \in 0..k /\ m + (j + 1) = n + 1
    BY <1>2 DEF Parameters
  <2>2. f[j] \in Sums /\ Written(mem, f[j].mem, "z", n, h, A(j))
    BY <1>13
  <2>3. f[j].mem["z"][n] = v /\ v \in Int
    <3>1. f[j].mem["z"][n] = v
      <4> HIDE DEF A, h, n
      <4> QED BY <1>2, <2>1, <2>2 DEF Written
    <3>2. v \in Word
      <4> HIDE DEF n
      <4> QED BY <1>10, <2>1 DEF Row
    <3> QED BY <3>1, <3>2 DEF Word
  <2>4. W(f[j], j) = v + h
    <3>1. f[j].high \in Nat /\ f[j].carry \in Nat
      BY <2>2 DEF Sums
    <3> QED BY <2>3, <3>1
  <2>5. d \in Word /\ q \in Nat /\ W(f[j], j) = d + B * q /\ G(f[j], j) \in Sums
    <3> HIDE DEF W, G
    <3> QED BY <1>3, <2>2
  <2>6. v + h = d + B * q
    BY <2>4, <2>5
  <2>7. f[j + 1] = [mem |-> Store(f[j].mem, "z", n, d), high |-> 0, carry |-> q]
    BY <1>9
  <2>8. f[j + 1] \in Sums
    <3> HIDE DEF G, W
    <3> QED BY <1>9, <2>5
  <2>9. A(j) + Pow(n) * v = A(j + 1)
    <3> DEFINE w == Pow(n) * v
    <3>1. Value(mem["z"], n + 1) = Value(mem["z"], n) + w
      <4> HIDE DEF n
      <4> QED BY <1>10, <2>1, ValueSteps
    <3>2. Value(mem["z"], m + (j + 1)) = Value(mem["z"], m + j) + w
      BY <2>1, <3>1
    <3>3. w \in Int /\ Value(mem["z"], m + j) \in Int /\ Value(mem["z"], m) \in Int
      <4>1. m + 0 = m /\ Value(mem["z"], m + 0) \in Int /\ Value(mem["z"], m + j) \in Int
        BY <1>2, <1>11, <2>1
      <4>2. Pow(n) \in Nat
        BY <2>1, PowSteps
      <4> HIDE DEF n, v
      <4>3. w \in Int
        BY <2>3, <4>2
      <4> QED BY <4>1, <4>3
    <3> HIDE DEF w, n, v
    <3>4. A(j) + w = A(j + 1)
      BY <1>10, <3>2, <3>3
    <3> QED BY <3>4 DEF w
  <2>10. q \in Int /\ 0 + q = q
    BY <2>5
  <2> HIDE DEF A, n, v, h, d, q, W, G
  <2>11. Written(mem, Store(f[j].mem, "z", n, d), "z", n + 1, q, A(j) + Pow(n) * v)
    BY <1>2, <2>1, <2>2, <2>3, <2>5, <2>6, <2>10, WrittenStep
  <2> QED BY <2>1, <2>7, <2>8, <2>9, <2>10, <2>11
<1>14. k \in T
  <2>1. 0..k \subseteq T
    <3> HIDE DEF T
    <3> QED BY <1>2, <1>12, <1>13, LoopInduction
  <2> QED BY <1>2, <2>1
<1>15. f[k] \in Sums /\ Written(mem, f[k].mem, "z", p, f[k].high + f[k].carry, A(k))
  <2> HIDE DEF A
  <2> QED BY <1>2, <1>14
<1>16. A(k) = total + (Value(mem["z"], p) - Value(mem["z"], m))
  BY <1>2
<1> HIDE DEF A
<1> QED BY <1>1, <1>15, <1>16

\* A borrow, which counts negative, goes through them.
LEMMA BorrowedIs ==
  ASSUME Parameters, NEW mem \in Pairs, NEW p \in 0..MaxWords, NEW m \in 0..p, NEW new, NEW borrow \in Word,
         NEW total, Written(mem, new, "z", m, -borrow, total)
  PROVE  LET r == Borrowed(new, m, p, borrow)
         IN  /\ r.borrow \in Word
             /\ Written(mem, r.mem, "z", p, -r.borrow, total + (Value(mem["z"], p) - Value(mem["z"], m)))
<1> DEFINE k == IF p > m THEN p - m ELSE 0
           S == [mem : Pairs, borrow : Word]
           e == [mem |-> new, borrow |-> borrow]
           W(r, j) == r.mem["z"][m + j] - r.borrow
           G(r, j) == [mem |-> Store(r.mem, "z", m + j, W(r, j) % B), borrow |-> Flag(W(r, j) < 0)]
           C(r) == r = [j \in 0..k |->
                         IF j = 0 THEN [mem |-> new, borrow |-> borrow]
                         ELSE LET t == r[j - 1].mem["z"][m + (j - 1)] - r[j - 1].borrow
                              IN  [mem |-> Store(r[j - 1].mem, "z", m + (j - 1), t % B), borrow |-> Flag(t < 0)]]
           f == CHOOSE r : C(r)
           g == [j \in 0..(k - 1) |-> [r \in S |-> G(r, j)]]
<1>1. Borrowed(new, m, p, borrow) = f[k]
  BY DEF Borrowed, Over, Up
<1>2. k \in Nat /\ m + k = p /\ m \in Nat /\ 0 \in 0..k /\ k \in 0..k /\ p \in 0..MaxWords /\ "z" \in PairNames
  BY DEF Parameters, PairNames
<1>3. e \in S
  BY DEF Written
<1> HIDE DEF k
<1>4. ASSUME NEW v \in Word, NEW b \in Word
      PROVE  /\ (v - b) % B \in Word /\ Flag(v - b < 0) \in Word
             /\ v + (-b) = ((v - b) % B) + B * (-Flag(v - b < 0))
  <2> DEFINE t == v - b
  <2>1. t \in Int /\ t >= 1 - B /\ t <= B - 1 /\ B \in Nat /\ B > 1 /\ v + (-b) = t
    BY DEF Word, Parameters
  <2> HIDE DEF t
  <2>2. CASE t < 0
    <3>1. (B * (-1) + (t + B)) % B = t + B
      <4> DEFINE a == -1
                 d == t + B
      <4>1. d \in 0..(B - 1) /\ a \in Int /\ B \in Nat \ {0}
        BY <2>1, <2>2
      <4> HIDE DEF a, d
      <4>2. (B * a + d) % B = d
        BY <4>1, FactsAssumptions, Facts!DivModUnique
      <4> QED BY <4>2 DEF a, d
    <3>2. B * (-1) + (t + B) = t
      BY <2>1
    <3>3. t % B = t + B /\ B * (-1) = -B
      BY <2>1, <3>1, <3>2
    <3> QED BY <2>1, <2>2, <3>3 DEF Flag, Word, t
  <2>3. CASE t >= 0
    <3>1. t % B = t
      BY <2>1, <2>3
    <3>2. B * (-0) = 0
      BY <2>1
    <3> QED BY <2>1, <2>3, <3>1, <3>2 DEF Flag, Word, t
  <2> QED BY <2>1, <2>2, <2>3
<1>5. ASSUME NEW j \in 0..(k - 1), NEW r \in S PROVE G(r, j) \in S
  <2> DEFINE d == W(r, j) % B
             b == Flag(W(r, j) < 0)
  <2>1. m + j \in 0..MaxWords
    BY <1>2 DEF Parameters
  <2>2. r.mem \in Pairs /\ r.borrow \in Word
    OBVIOUS
  <2>3. r.mem["z"][m + j] \in Word
    BY <2>1, <2>2 DEF Pairs, PairNames, Row
  <2>4. d \in Word /\ b \in Word
    BY <1>4, <2>2, <2>3
  <2> HIDE DEF d, b
  <2>5. Store(r.mem, "z", m + j, d) \in Pairs
    BY <1>2, <2>1, <2>2, <2>4, StoredWord DEF Pairs
  <2>6. [mem |-> Store(r.mem, "z", m + j, d), borrow |-> b] \in S
    BY <2>4, <2>5
  <2> QED BY <2>6 DEF d, b
<1>6. g \in [0..(k - 1) -> [S -> S]]
  <2> HIDE DEF G, S
  <2> QED BY <1>5
<1>7. PICK r : Recursive(r, k, S, e, g)
  <2> HIDE DEF g, e, S
  <2> QED BY <1>2, <1>3, <1>6, LoopExists, Zenon
<1>8. r \in [0..k -> S] /\ r = [j \in 0..k |-> IF j = 0 THEN e ELSE g[j - 1][r[j - 1]]]
  BY <1>7 DEF Recursive
<1>9. C(r)
  <2> HIDE DEF S
  <2>1. ASSUME NEW j \in 0..k, j # 0 PROVE g[j - 1][r[j - 1]] = G(r[j - 1], j - 1)
    <3>1. j - 1 \in 0..(k - 1) /\ j - 1 \in 0..k
      BY <1>2, <2>1
    <3>2. r[j - 1] \in S
      <4> HIDE DEF g, e
      <4> QED BY <1>8, <3>1
    <3> HIDE DEF G
    <3> QED BY <3>1, <3>2
  <2>2. r = [j \in 0..k |-> IF j = 0 THEN e ELSE G(r[j - 1], j - 1)]
    <3> HIDE DEF G, g, e
    <3> QED BY <1>8, <2>1
  <2> QED BY <2>2
<1>10. C(f)
  BY <1>9
<1>11. f[0] = e /\ \A j \in 0..(k - 1) : f[j + 1] = G(f[j], j)
  <2>1. f[0] = e
    <3> HIDE DEF f
    <3> QED BY <1>2, <1>10
  <2>2. ASSUME NEW j \in 0..(k - 1) PROVE f[j + 1] = G(f[j], j)
    <3>1. j + 1 \in 0..k /\ j + 1 # 0 /\ (j + 1) - 1 = j
      BY <1>2
    <3> HIDE DEF f
    <3> QED BY <1>10, <3>1
  <2> QED BY <2>1, <2>2
<1> HIDE DEF f, g, C, S
<1> DEFINE A(j) == total + (Value(mem["z"], m + j) - Value(mem["z"], m))
           T == { j \in 0..k : f[j].borrow \in Word /\ Written(mem, f[j].mem, "z", m + j, -f[j].borrow, A(j)) }
<1>12. mem["z"] \in Row /\ total \in Int
  BY DEF Pairs, PairNames, Written
<1>13. \A j \in 0..k : m + j \in 0..(MaxWords + 1) /\ Value(mem["z"], m + j) \in Int
  <2> SUFFICES ASSUME NEW j \in 0..k PROVE m + j \in 0..(MaxWords + 1) /\ Value(mem["z"], m + j) \in Int
    OBVIOUS
  <2>1. m + j \in 0..(MaxWords + 1)
    BY <1>2 DEF Parameters
  <2>2. Value(mem["z"], m + j) \in 0..(Pow(m + j) - 1)
    BY <1>12, <2>1, ValueSteps
  <2> QED BY <2>1, <2>2
<1>14. 0 \in T
  <2>1. A(0) = total /\ m + 0 = m
    <3>1. m + 0 = m /\ Value(mem["z"], m + 0) \in Int
      BY <1>2, <1>13
    <3> QED BY <1>12, <3>1
  <2> HIDE DEF A
  <2> QED BY <1>2, <1>11, <2>1
<1>15. ASSUME NEW j \in 0..(k - 1), j \in T PROVE j + 1 \in T
  <2> DEFINE n == m + j
             v == mem["z"][n]
             b == f[j].borrow
             h == -b
             d == (v - b) % B
             q == -Flag(v - b < 0)
  <2>1. n \in 0..MaxWords /\ j + 1 \in 0..k /\ j \in 0..k /\ m + (j + 1) = n + 1
    BY <1>2 DEF Parameters
  <2>2. b \in Word /\ Written(mem, f[j].mem, "z", n, h, A(j))
    BY <1>15
  <2>3. f[j].mem["z"][n] = v /\ v \in Word
    <3>1. f[j].mem["z"][n] = v
      <4> HIDE DEF A, h, n
      <4> QED BY <1>2, <2>1, <2>2 DEF Written
    <3> HIDE DEF n
    <3> QED BY <1>12, <2>1, <3>1 DEF Row
  <2>4. d \in Word /\ Flag(v - b < 0) \in Word /\ v + h = d + B * q
    <3> HIDE DEF v, b
    <3> QED BY <1>4, <2>2, <2>3
  <2>5. f[j + 1] = [mem |-> Store(f[j].mem, "z", n, d), borrow |-> Flag(v - b < 0)]
    BY <1>11, <2>3
  <2>6. A(j) + Pow(n) * v = A(j + 1)
    <3> DEFINE w == Pow(n) * v
    <3>1. Value(mem["z"], n + 1) = Value(mem["z"], n) + w
      <4> HIDE DEF n
      <4> QED BY <1>12, <2>1, ValueSteps
    <3>2. Value(mem["z"], m + (j + 1)) = Value(mem["z"], m + j) + w
      BY <2>1, <3>1
    <3>3. w \in Int /\ Value(mem["z"], m + j) \in Int /\ Value(mem["z"], m) \in Int
      <4>1. m + 0 = m /\ Value(mem["z"], m + 0) \in Int /\ Value(mem["z"], m + j) \in Int
        BY <1>2, <1>13, <2>1
      <4>2. Pow(n) \in Nat
        BY <2>1, PowSteps
      <4> HIDE DEF n, v
      <4>3. w \in Int
        BY <2>3, <4>2 DEF Word
      <4> QED BY <4>1, <4>3
    <3> HIDE DEF w, n, v
    <3>4. A(j) + w = A(j + 1)
      BY <1>12, <3>2, <3>3
    <3> QED BY <3>4 DEF w
  <2>7. v \in Int /\ q \in Int
    <3> HIDE DEF v, b
    <3> QED BY <2>3, <2>4 DEF Word
  <2>8. f[j + 1].borrow \in Word /\ -f[j + 1].borrow = q /\ f[j + 1].mem = Store(f[j].mem, "z", n, d)
    <3> HIDE DEF d, n, v, b
    <3> QED BY <2>4, <2>5
  <2> HIDE DEF A, n, v, h, d, q, b
  <2>9. Written(mem, Store(f[j].mem, "z", n, d), "z", n + 1, q, A(j) + Pow(n) * v)
    BY <1>2, <2>1, <2>2, <2>4, <2>7, WrittenStep
  <2> QED BY <2>1, <2>6, <2>8, <2>9
<1>16. k \in T
  <2>1. 0..k \subseteq T
    <3> HIDE DEF T
    <3> QED BY <1>2, <1>14, <1>15, LoopInduction
  <2> QED BY <1>2, <2>1
<1>17. f[k].borrow \in Word /\ Written(mem, f[k].mem, "z", p, -f[k].borrow, A(k))
  <2> HIDE DEF A
  <2> QED BY <1>2, <1>16
<1>18. A(k) = total + (Value(mem["z"], p) - Value(mem["z"], m))
  BY <1>2
<1> HIDE DEF A
<1> QED BY <1>1, <1>17, <1>18

\* Where no word has been written, z is as it was.
LEMMA Unwritten ==
  ASSUME Parameters, NEW mem \in Pairs, NEW new, NEW z \in PairNames, NEW high, NEW total,
         Written(mem, new, z, 0, high, total), NEW p \in 0..MaxWords
  PROVE  Written(mem, new, z, p, 0, Value(mem[z], p)) /\ high = total
<1>1. new \in Pairs /\ \A b \in PairNames, j \in 0..MaxWords : new[b][j] = mem[b][j]
  BY DEF Written
<1>2. new[z] \in Row /\ mem[z] \in Row /\ p \in 0..(MaxWords + 1) /\ \A j \in 0..(p - 1) : new[z][j] = mem[z][j]
  BY <1>1 DEF Pairs, Parameters
<1>3. Value(new[z], p) = Value(mem[z], p)
  BY <1>2, ValueCongruence
<1>4. Value(new[z], p) \in Int /\ Pow(p) \in Nat
  <2>1. Value(new[z], p) \in 0..(Pow(p) - 1)
    BY <1>2, ValueSteps
  <2> QED BY <2>1, PowPositive
<1>5. Value(new[z], 0) = 0 /\ Pow(0) = 1
  BY <1>2, ValueSteps, PowSteps
<1>6. high = total
  BY <1>5 DEF Written
<1> QED BY <1>1, <1>3, <1>4, <1>6 DEF Written

\* What is left over of a product with a word, and a number, is a word.
LEMMA HighIsWord ==
  ASSUME Parameters, NEW P \in Nat \ {0}, NEW c \in Word, NEW v \in 0..(P - 1), NEW y \in 0..(P - 1),
         NEW h \in Nat, NEW q \in 0..(P - 1)
  PROVE  /\ q + P * h = y + c * v => h < B
         /\ q + P * h = y + c * (P - 1 - v) + c => h <= c
<1>1. c \in 0..(B - 1) /\ B \in Nat /\ P * h \in Nat /\ c * v \in Nat /\ c * P \in Nat
  BY DEF Word, Parameters
<1>2. c * v <= c * (P - 1) /\ c * (P - 1) = c * P - c
  BY <1>1
<1>3. c * (P - 1 - v) = c * P - c - c * v
  BY <1>1
<1>4. ASSUME h > c PROVE P * h >= c * P + P
  <2>1. P * h >= P * (c + 1) /\ P * (c + 1) = c * P + P
    BY <1>1, <1>4
  <2> QED BY <2>1
<1>5. h > c => /\ q + P * h # y + c * v
               /\ q + P * h # y + c * (P - 1 - v) + c
  BY <1>1, <1>2, <1>3, <1>4
<1> QED BY <1>1, <1>5

LEMMA CmaddPromise == Parameters /\ SmallWords \in 0..MaxWords /\ Cmadd => Contract!Cmadd'
<1> SUFFICES ASSUME Parameters, SmallWords \in 0..MaxWords, Cmadd PROVE Contract!Cmadd'
  OBVIOUS
<1> DEFINE Returns(p, n, x, y, c) ==
             LET mem == Pair(n, x, p, y)
                 m == Smaller(n, p)
                 s == MultiplyAdd(mem, m, c, FALSE, 0)
                 r == IF m = 0 THEN s ELSE Carried(s, m, p)
             IN  Call("cmadd", << p, y, c, x >>, << Left(mem, r.mem, "z", p), (r.high + r.carry) % B >>)
<1>1. PICK p \in 0..SmallWords, n \in 0..SmallWords :
        \E x \in Numbers(n), y \in Numbers(p), c \in 0..(B - 1) : Returns(p, n, x, y, c)
  BY DEF Cmadd
<1>2. PICK x \in Numbers(n), y \in Numbers(p), c \in Word : Returns(p, n, x, y, c)
  BY <1>1 DEF Word
<1>3. p \in 0..MaxWords /\ n \in 0..MaxWords
  BY DEF Parameters
<1> DEFINE mem == Pair(n, x, p, y)
           m == Smaller(n, p)
           s == MultiplyAdd(mem, m, c, FALSE, 0)
           r == IF m = 0 THEN s ELSE Carried(s, m, p)
           h == r.high + r.carry
           v == x % Pow(p)
           P == Pow(p)
           z == Left(mem, r.mem, "z", p)
<1>4. Call("cmadd", << p, y, c, x >>, << z, h % B >>)
  BY <1>2
<1>5. m \in 0..p /\ m \in 0..MaxWords /\ Value(Words(x, n), m) = v
  BY <1>3, CutValue DEF Parameters
<1>6. mem \in Pairs /\ mem["x"] = Words(x, n) /\ Value(mem["z"], p) = y /\ mem["x"] \in Row
  BY <1>3, PairHolds, WordsValue
<1>7. P \in Nat \ {0} /\ y \in 0..(P - 1) /\ v \in 0..(P - 1)
  <2>1. P \in Nat \ {0} /\ x \in Nat
    BY <1>3, PowPositive DEF Numbers
  <2> HIDE DEF P
  <2> QED BY <2>1 DEF Numbers, P
<1> HIDE DEF mem, m, v
<1>8. s \in Sums /\ Written(mem, s.mem, "z", m, s.high + s.carry, Value(mem["z"], m) + c * v + 0)
  <2>1. 0 \in Nat /\ FALSE \in BOOLEAN
    OBVIOUS
  <2>2. ReadValue(IF FALSE THEN "complement" ELSE "same", mem["x"], m) = v
    BY <1>5, <1>6 DEF ReadValue
  <2> QED BY <1>5, <1>6, <2>1, <2>2, MultiplyAddIs
<1> HIDE DEF s
<1>9. c * v \in Nat /\ y \in Int
  BY <1>7 DEF Word, Parameters
<1>10. r \in Sums /\ Written(mem, r.mem, "z", p, h, y + c * v)
  <2>1. CASE m = 0
    <3>1. v = 0 /\ Value(mem["z"], 0) = 0
      <4>1. mem["z"] \in Row
        BY <1>6 DEF Pairs, PairNames
      <4> QED BY <1>5, <1>6, <2>1, <4>1, ValueSteps
    <3>2. Written(mem, s.mem, "z", 0, s.high + s.carry, 0)
      BY <1>8, <2>1, <3>1 DEF Word
    <3>3. s.high + s.carry = 0 /\ Written(mem, s.mem, "z", p, 0, y)
      BY <1>3, <1>6, <3>2, Unwritten DEF PairNames
    <3>4. r = s /\ h = 0 /\ y + c * v = y
      BY <1>9, <2>1, <3>1, <3>3 DEF Word
    <3> QED BY <1>8, <3>3, <3>4
  <2>2. CASE m # 0
    <3> DEFINE w == Value(mem["z"], m)
    <3>1. r = Carried(s, m, p)
      BY <2>2
    <3>2. r \in Sums /\ Written(mem, r.mem, "z", p, h, (w + c * v + 0) + (Value(mem["z"], p) - w))
      <4> DEFINE total == w + c * v + 0
      <4>1. Written(mem, s.mem, "z", m, s.high + s.carry, total)
        BY <1>8
      <4> HIDE DEF total, w, r
      <4> QED BY <1>3, <1>5, <1>6, <1>8, <3>1, <4>1, CarriedIs DEF total, w
    <3>3. w \in Int
      <4>1. mem["z"] \in Row /\ m \in 0..(MaxWords + 1)
        BY <1>5, <1>6 DEF Pairs, PairNames, Parameters
      <4>2. w \in 0..(Pow(m) - 1)
        BY <4>1, ValueSteps
      <4> QED BY <4>2
    <3> HIDE DEF w, r
    <3>4. (w + c * v + 0) + (Value(mem["z"], p) - w) = y + c * v
      BY <1>6, <1>9, <3>3
    <3> QED BY <3>2, <3>4
  <2> QED BY <2>1, <2>2
<1> HIDE DEF r
<1>11. z \in 0..(P - 1) /\ z + P * h = y + c * v
  BY <1>3, <1>10, WrittenLeft DEF PairNames
<1>12. h \in Nat
  BY <1>10 DEF Sums
<1> HIDE DEF h, z, P
<1>13. h < B
  BY <1>7, <1>11, <1>12, HighIsWord
<1>14. h % B = h
  BY <1>12, <1>13 DEF Parameters
<1> QED BY <1>4, <1>11, <1>14, ContractPow DEF Call, Contract!Cmadd, Contract!Is, Contract!result, Contract!carry,
      Contract!x, Contract!y, Contract!k, Contract!R, P, v

LEMMA CmnegaddPromise == Parameters /\ SmallWords \in 0..MaxWords /\ Cmnegadd => Contract!Cmnegadd'
<1> SUFFICES ASSUME Parameters, SmallWords \in 0..MaxWords, Cmnegadd PROVE Contract!Cmnegadd'
  OBVIOUS
<1> DEFINE Returns(p, n, x, y, c) ==
             LET mem == Pair(n, x, p, y)
                 m == Smaller(n, p)
                 s == MultiplyAdd(mem, m, c, TRUE, c)
                 r == Borrowed(s.mem, m, p, (c - s.high - s.carry) % B)
             IN  Call("cmnegadd", << p, y, c, x >>,
                      IF m = 0 THEN << Left(mem, mem, "z", p), 0 >>
                               ELSE << Left(mem, r.mem, "z", p), r.borrow >>)
<1>1. PICK p \in 0..SmallWords, n \in 0..SmallWords :
        \E x \in Numbers(n), y \in Numbers(p), c \in 0..(B - 1) : Returns(p, n, x, y, c)
  BY DEF Cmnegadd
<1>2. PICK x \in Numbers(n), y \in Numbers(p), c \in Word : Returns(p, n, x, y, c)
  BY <1>1 DEF Word
<1>3. p \in 0..MaxWords /\ n \in 0..MaxWords
  BY DEF Parameters
<1> DEFINE mem == Pair(n, x, p, y)
           m == Smaller(n, p)
           s == MultiplyAdd(mem, m, c, TRUE, c)
           borrow == (c - s.high - s.carry) % B
           r == Borrowed(s.mem, m, p, borrow)
           new == IF m = 0 THEN mem ELSE r.mem
           b == IF m = 0 THEN 0 ELSE r.borrow
           v == x % Pow(p)
           P == Pow(p)
           z == Left(mem, new, "z", p)
<1>4. Call("cmnegadd", << p, y, c, x >>, << z, b >>)
  BY <1>2
<1>5. m \in 0..p /\ m \in 0..MaxWords /\ Value(Words(x, n), m) = v
  BY <1>3, CutValue DEF Parameters
<1>6. mem \in Pairs /\ mem["x"] = Words(x, n) /\ Value(mem["z"], p) = y /\ mem["x"] \in Row /\ mem["z"] \in Row
  <2>1. mem \in Pairs /\ mem["x"] = Words(x, n) /\ Value(mem["z"], p) = y
    BY <1>3, PairHolds, WordsValue
  <2> HIDE DEF mem
  <2> QED BY <2>1 DEF Pairs, PairNames
<1>7. v \in Int /\ y \in Int /\ c \in Nat /\ c < B /\ B \in Nat /\ B > 1 /\ P \in Nat \ {0}
  <2>1. P \in Nat \ {0} /\ x \in Nat
    BY <1>3, PowPositive DEF Numbers
  <2> HIDE DEF P
  <2> QED BY <2>1 DEF Numbers, P, Word, Parameters
<1> HIDE DEF mem, m, v
<1>8. Written(mem, new, "z", p, -b, y - c * v) /\ b \in Int
  <2>1. CASE m = 0
    <3>1. Written(mem, mem, "z", 0, 0, 0) /\ "z" \in PairNames
      BY <1>6, NothingWritten DEF PairNames
    <3>2. Written(mem, mem, "z", p, 0, y)
      BY <1>3, <1>6, <3>1, Unwritten
    <3>3. v = 0
      BY <1>5, <1>6, <2>1, ValueSteps
    <3>4. new = mem /\ b = 0
      BY <2>1
    <3> HIDE DEF new, b
    <3>5. c * v = 0
      BY <1>7, <3>3
    <3>6. y - c * v = y /\ -b = 0 /\ b \in Int
      <4>1. y - c * v = y - 0
        BY <3>5
      <4>2. y - 0 = y
        BY <1>7
      <4>3. b \in Int
        BY <3>4
      <4> DEFINE a == -b
      <4>4. a + b = 0 /\ a \in Int
        BY <4>3
      <4> HIDE DEF a
      <4>5. a = 0
        BY <3>4, <4>3, <4>4
      <4> QED BY <4>1, <4>2, <4>3, <4>5 DEF a
    <3> QED BY <3>2, <3>4, <3>6
  <2>2. CASE m # 0
    <3> DEFINE w == Value(mem["z"], m)
               Q == Pow(m)
               h == s.high + s.carry
               u == Value(s.mem["z"], m)
    <3>1. s \in Sums /\ Written(mem, s.mem, "z", m, h, w + c * (Q - 1 - v) + c)
      <4>1. TRUE \in BOOLEAN
        OBVIOUS
      <4>2. ReadValue(IF TRUE THEN "complement" ELSE "same", mem["x"], m) = Q - 1 - v
        BY <1>5, <1>6 DEF ReadValue
      <4> QED BY <1>5, <1>6, <1>7, <4>1, <4>2, MultiplyAddIs
    <3>2. w \in 0..(Q - 1) /\ u \in 0..(Q - 1) /\ v \in 0..(Q - 1) /\ Q \in Nat \ {0}
      <4>1. m \in 0..(MaxWords + 1) /\ s.mem["z"] \in Row
        <5> DEFINE a == s.mem
        <5>1. a \in Pairs
          <6> HIDE DEF s
          <6> QED BY <3>1 DEF Sums
        <5> HIDE DEF a
        <5>2. a["z"] \in Row
          BY <5>1 DEF Pairs, PairNames
        <5>3. m \in 0..(MaxWords + 1)
          BY <1>5 DEF Parameters
        <5> QED BY <5>2, <5>3 DEF a
      <4> HIDE DEF s
      <4> QED BY <1>5, <1>6, <4>1, ValueSteps, PowPositive
    <3>3. h \in Nat /\ u + Q * h = w + c * (Q - 1 - v) + c /\ c - s.high - s.carry = c - h
      <4> HIDE DEF s
      <4>1. s.high \in Nat /\ s.carry \in Nat
        BY <3>1 DEF Sums
      <4>2. c - s.high - s.carry = c - h
        BY <1>7, <4>1
      <4>3. u + Q * h = w + c * (Q - 1 - v) + c
        <5> HIDE DEF w, h
        <5> QED BY <3>1 DEF Written
      <4> QED BY <4>1, <4>2, <4>3
    <3> HIDE DEF w, Q, h, u
    <3>4. h <= c
      BY <3>2, <3>3, HighIsWord
    <3>5. borrow = c - h /\ borrow \in Word
      <4>1. borrow = (c - h) % B
        BY <3>3
      <4>2. c - h \in 0..(B - 1)
        BY <1>7, <3>3, <3>4
      <4>3. (c - h) % B = c - h
        BY <1>7, <4>2
      <4> HIDE DEF borrow
      <4> QED BY <4>1, <4>2, <4>3 DEF Word
    <3> HIDE DEF borrow
    <3>6. u + Q * (-borrow) = w - c * v /\ w - c * v \in Int /\ -borrow \in Int
      <4>1. Q * (-borrow) = Q * h - c * Q
        BY <1>7, <3>2, <3>3, <3>5
      <4>2. c * (Q - 1 - v) = c * Q - c - c * v
        BY <1>7, <3>2
      <4>3. Q * h \in Int /\ c * Q \in Int /\ c * v \in Int
        BY <1>7, <3>2, <3>3
      <4> QED BY <1>7, <3>2, <3>3, <3>5, <4>1, <4>2, <4>3
    <3>7. Written(mem, s.mem, "z", m, -borrow, w - c * v)
      BY <3>1, <3>6 DEF Written, u, Q
    <3> HIDE DEF s
    <3>8. /\ r.borrow \in Word
          /\ Written(mem, r.mem, "z", p, -r.borrow, (w - c * v) + (Value(mem["z"], p) - w))
      BY <1>3, <1>5, <1>6, <3>5, <3>7, BorrowedIs DEF w
    <3> HIDE DEF r
    <3>9. new = r.mem /\ b = r.borrow
      BY <2>2
    <3>10. (w - c * v) + (Value(mem["z"], p) - w) = y - c * v
      <4>1. c * v \in Int
        BY <1>7
      <4> QED BY <1>6, <1>7, <3>2, <4>1
    <3> QED BY <3>8, <3>9, <3>10 DEF Word
  <2> QED BY <2>1, <2>2
<1> HIDE DEF new, b
<1>9. z + P * (-b) = y - c * v /\ z \in Int
  <2>1. z \in 0..(P - 1) /\ z + P * (-b) = y - c * v
    BY <1>3, <1>8, WrittenLeft DEF PairNames
  <2> QED BY <2>1
<1> HIDE DEF z, P
<1>10. z - P * b = y - c * v
  <2>1. P * (-b) = -(P * b) /\ P * b \in Int
    BY <1>7, <1>8
  <2> QED BY <1>9, <2>1
<1> QED BY <1>4, <1>10, ContractPow DEF Call, Contract!Cmnegadd, Contract!Is, Contract!result, Contract!carry,
      Contract!x, Contract!y, Contract!k, Contract!R, P, v

(***************************************************************************)
(* The shift down: what is kept of a word goes into the one below          *)
(***************************************************************************)
LEMMA KeptWord ==
  ASSUME Sizes, NEW c \in 0..(WordBits - 1), NEW w \in Word
  PROVE  LET P == 2^c
             q == IF c = 0 THEN 1 ELSE 2^(WordBits - c)
         IN  /\ w % P \in 0..(P - 1) /\ w = P * (w \div P) + (w % P) /\ w \div P \in Nat
             /\ Kept(w, c) \in Word /\ Kept(w, c) \div q = w % P
             /\ P * Kept(w, c) = B * (w % P)
             /\ \A v \in Word : (v \div P) + Kept(w, c) \in Word
<1> USE SizesSuffice
<1> DEFINE P == 2^c
           q == 2^(WordBits - c)
           r == w % P
           a == w \div P
<1>1. WordBits \in Nat /\ c \in 0..WordBits /\ w \in Nat /\ 0 \in Word /\ B \in Nat \ {0}
  BY DEF Sizes, Word, Parameters
<1>2. P \in Nat \ {0} /\ q \in Nat \ {0} /\ P * q = B
  BY <1>1, PowersMatch
<1>3. q * P = B
  <2> HIDE DEF P, q
  <2> QED BY <1>2
<1>4. ASSUME NEW v \in Word, NEW u \in Word
      PROVE  v \div P \in 0..(q - 1) /\ ((u * q) % B) + (v \div P) \in Word
  <2> HIDE DEF P, q
  <2>1. 0 \in 0..(q - 1)
    BY <1>2
  <2>2. v \div P \in 0..(q - 1)
    BY <1>2, <1>3, <2>1, ShiftedWord
  <2> QED BY <1>2, <1>3, <2>2, ShiftedWord
<1>5. (w * q) % B = q * r
  <2> HIDE DEF P, q
  <2>1. 0 \in 0..(q - 1)
    BY <1>2
  <2>2. w * q + 0 = (((w * q) % B) + 0) + B * (w \div P)
    BY <1>2, <1>3, <2>1, ShiftedWord
  <2>3. w = P * a + r /\ a \in Int /\ r \in Int
    BY <1>1, <1>2
  <2>4. (w * q) % B \in Int /\ w * q \in Int
    BY <1>1, <1>2
  <2> HIDE DEF a, r
  <2>5. w * q = B * a + q * r
    <3>1. (P * a + r) * q = (P * q) * a + q * r
      BY <1>2, <2>3
    <3> QED BY <1>2, <2>3, <3>1
  <2>6. B * a \in Int /\ q * r \in Int
    BY <1>1, <1>2, <2>3
  <2> QED BY <2>2, <2>4, <2>5, <2>6 DEF a
<1>6. r \in 0..(P - 1) /\ w = P * a + r /\ a \in Nat
  <2>1. r \in 0..(P - 1) /\ w = P * a + r
    <3> HIDE DEF P
    <3> QED BY <1>1, <1>2
  <2>2. a \in 0..(q - 1)
    BY <1>4
  <2> QED BY <2>1, <2>2
<1>7. CASE c = 0
  <2>1. P = 1
    BY <1>7
  <2>2. r = 0
    BY <1>6, <2>1
  <2>3. Kept(w, c) = 0
    BY <1>7 DEF Kept
  <2>4. \A v \in Word : v \div P = v /\ v + 0 = v
    BY <2>1 DEF Word, Parameters
  <2>5. 0 \div 1 = 0 /\ P * 0 = B * 0
    BY <1>1, <2>1
  <2> QED BY <1>1, <1>6, <1>7, <2>2, <2>3, <2>4, <2>5
<1>8. CASE c # 0
  <2>1. Kept(w, c) = q * r
    BY <1>5, <1>8 DEF Kept
  <2>2. \A v \in Word : (v \div P) + Kept(w, c) \in Word
    <3> SUFFICES ASSUME NEW v \in Word PROVE (v \div P) + Kept(w, c) \in Word
      OBVIOUS
    <3>1. v \div P \in Int /\ q * r \in Int /\ ((w * q) % B) + (v \div P) \in Word
      <4>1. v \div P \in 0..(q - 1) /\ ((w * q) % B) + (v \div P) \in Word
        BY <1>4
      <4>2. q * r \in Int
        <5> HIDE DEF P, q, r
        <5> QED BY <1>2, <1>6
      <4> QED BY <4>1, <4>2
    <3>2. (v \div P) + q * r = q * r + (v \div P)
      BY <3>1
    <3> QED BY <1>5, <2>1, <3>1, <3>2
  <2>3. Kept(w, c) \in Word
    <3>1. 0 \div P = 0
      <4> HIDE DEF P
      <4> QED BY <1>2
    <3>2. q * r \in Int
      <4> HIDE DEF P, q, r
      <4> QED BY <1>2, <1>6
    <3>3. (0 \div P) + Kept(w, c) \in Word
      BY <1>1, <2>2
    <3> QED BY <2>1, <3>1, <3>2, <3>3
  <2>4. (q * r) \div q = r
    <3> DEFINE e == 0
    <3>1. e \in 0..(q - 1) /\ r \in Int
      BY <1>2, <1>6
    <3>2. q * r + e = q * r
      <4> HIDE DEF P, q, r
      <4> QED BY <1>2, <3>1
    <3> HIDE DEF P, q, r, e
    <3>3. (q * r + e) \div q = r
      BY <1>1, <1>2, <3>1, FactsAssumptions, Facts!DivModUnique
    <3> QED BY <3>2, <3>3
  <2>5. P * (q * r) = B * r
    <3> HIDE DEF P, q, r
    <3>1. P * (q * r) = (P * q) * r
      BY <1>2, <1>6
    <3> QED BY <1>2, <3>1
  <2> QED BY <1>6, <1>8, <2>1, <2>2, <2>3, <2>4, <2>5
<1> QED BY <1>7, <1>8

\* Each word from the top down, with what is kept of the one above it
LEMMA ShiftedDownIs ==
  ASSUME Sizes, NEW mem \in Pairs, NEW z \in PairNames, NEW m \in 0..MaxWords, NEW c \in 0..(WordBits - 1),
         NEW w \in Row, \A j \in 0..(m - 1) : mem["x"][j] = w[j]
  PROVE  LET s == ShiftedDown(mem, z, m, c, Kept(w[m], c))
         IN  /\ s.mem \in Pairs /\ s.high = Kept(w[0], c)
             /\ \A j \in 0..MaxWords :
                   s.mem[z][j] = IF j < m THEN (w[j] \div 2^c) + Kept(w[j + 1], c) ELSE mem[z][j]
<1> USE SizesSuffice
<1> DEFINE S == [mem : Pairs, high : { Kept(v, c) : v \in Word }]
           high == Kept(w[m], c)
           e == [mem |-> mem, high |-> high]
           at(j) == m - 1 - j
           G(s, j) == [mem |-> Store(s.mem, z, m - 1 - j, (X(s.mem, m - 1 - j) \div 2^c) + s.high),
                       high |-> Kept(X(s.mem, m - 1 - j), c)]
           C(s) == s = [j \in 0..m |->
                         IF j = 0 THEN [mem |-> mem, high |-> high]
                         ELSE LET t == X(s[j - 1].mem, m - 1 - (j - 1))
                              IN  [mem |-> Store(s[j - 1].mem, z, m - 1 - (j - 1), (t \div 2^c) + s[j - 1].high),
                                   high |-> Kept(t, c)]]
           f == CHOOSE s : C(s)
           g == [j \in 0..(m - 1) |-> [s \in S |-> G(s, j)]]
<1>1. ShiftedDown(mem, z, m, c, Kept(w[m], c)) = f[m]
  BY DEF ShiftedDown, Down, Up
<1>2. m \in Nat /\ 0 \in 0..m /\ m \in 0..m
  BY DEF Parameters
<1>3. \A j \in 0..MaxWords : w[j] \in Word
  BY DEF Row
<1>4. e \in S
  BY <1>3
<1>5. ASSUME NEW j \in 0..(m - 1) PROVE at(j) \in 0..MaxWords /\ at(j) \in 0..(m - 1) /\ at(j) + 1 = m - j
  BY <1>2 DEF Parameters
<1>6. ASSUME NEW j \in 0..(m - 1), NEW s \in S PROVE G(s, j) \in S
  <2> DEFINE t == X(s.mem, m - 1 - j)
             d == (t \div 2^c) + s.high
  <2>1. s.mem \in Pairs /\ m - 1 - j \in 0..MaxWords
    BY <1>5
  <2>2. PICK v \in Word : s.high = Kept(v, c)
    OBVIOUS
  <2>3. t \in Word
    BY <2>1 DEF X, Pairs, PairNames, Row
  <2> HIDE DEF t
  <2>4. d \in Word
    BY <2>2, <2>3, KeptWord
  <2> HIDE DEF d
  <2>5. Store(s.mem, z, m - 1 - j, d) \in Pairs
    BY <2>1, <2>4, StoredWord DEF Pairs
  <2>6. [mem |-> Store(s.mem, z, m - 1 - j, d), high |-> Kept(t, c)] \in S
    BY <2>3, <2>5
  <2> QED BY <2>6 DEF d, t
<1>7. g \in [0..(m - 1) -> [S -> S]]
  <2> HIDE DEF G, S
  <2> QED BY <1>6
<1>8. PICK r : Recursive(r, m, S, e, g)
  <2> HIDE DEF g, e, S
  <2> QED BY <1>2, <1>4, <1>7, LoopExists, Zenon
<1>9. r \in [0..m -> S] /\ r = [j \in 0..m |-> IF j = 0 THEN e ELSE g[j - 1][r[j - 1]]]
  BY <1>8 DEF Recursive
<1>10. C(r)
  <2> HIDE DEF S
  <2>1. ASSUME NEW j \in 0..m, j # 0 PROVE g[j - 1][r[j - 1]] = G(r[j - 1], j - 1)
    <3>1. j - 1 \in 0..(m - 1) /\ j - 1 \in 0..m
      BY <1>2, <2>1
    <3>2. r[j - 1] \in S
      <4> HIDE DEF g, e
      <4> QED BY <1>9, <3>1
    <3> HIDE DEF G
    <3> QED BY <3>1, <3>2
  <2>2. r = [j \in 0..m |-> IF j = 0 THEN e ELSE G(r[j - 1], j - 1)]
    <3> HIDE DEF G, g, e
    <3> QED BY <1>9, <2>1
  <2> QED BY <2>2
<1>11. C(f)
  BY <1>10
<1>12. f[0] = e /\ \A j \in 0..(m - 1) : f[j + 1] = G(f[j], j)
  <2>1. f[0] = e
    <3> HIDE DEF f
    <3> QED BY <1>2, <1>11
  <2>2. ASSUME NEW j \in 0..(m - 1) PROVE f[j + 1] = G(f[j], j)
    <3>1. j + 1 \in 0..m /\ j + 1 # 0 /\ (j + 1) - 1 = j
      BY <1>2
    <3> HIDE DEF f
    <3> QED BY <1>11, <3>1
  <2> QED BY <2>1, <2>2
<1> HIDE DEF f, g, C, S
<1> DEFINE D(j) == (w[j] \div 2^c) + Kept(w[j + 1], c)
           T == { n \in 0..m :
                    /\ f[n].mem \in Pairs /\ f[n].high = Kept(w[m - n], c)
                    /\ \A b \in PairNames, j \in 0..MaxWords :
                          f[n].mem[b][j] = IF b = z /\ m - n <= j /\ j < m THEN D(j) ELSE mem[b][j] }
<1>13. 0 \in T
  <2>1. m - 0 = m /\ \A j \in 0..MaxWords : ~ (m - 0 <= j /\ j < m)
    BY <1>2 DEF Parameters
  <2> HIDE DEF D
  <2> QED BY <1>2, <1>12, <2>1
<1>14. ASSUME NEW n \in 0..(m - 1), n \in T PROVE n + 1 \in T
  <2> DEFINE a == m - 1 - n
  <2>1. n + 1 \in 0..m /\ a \in 0..MaxWords /\ a \in 0..(m - 1) /\ a + 1 = m - n /\ m - (n + 1) = a /\ a + 1 \in 0..MaxWords
    BY <1>2 DEF Parameters
  <2>2. /\ f[n].mem \in Pairs /\ f[n].high = Kept(w[a + 1], c)
        /\ \A b \in PairNames, j \in 0..MaxWords :
              f[n].mem[b][j] = IF b = z /\ a + 1 <= j /\ j < m THEN D(j) ELSE mem[b][j]
    BY <1>14, <2>1
  <2>3. X(f[n].mem, a) = w[a]
    <3>1. ~ (a + 1 <= a) /\ "x" \in PairNames
      BY <2>1 DEF PairNames
    <3>2. f[n].mem["x"][a] = mem["x"][a]
      <4> HIDE DEF D, a
      <4> QED BY <2>1, <2>2, <3>1
    <3> HIDE DEF a
    <3> QED BY <2>1, <3>2 DEF X
  <2>4. f[n + 1] = [mem |-> Store(f[n].mem, z, a, D(a)), high |-> Kept(w[a], c)]
    <3>1. f[n + 1] = G(f[n], n)
      <4> HIDE DEF G
      <4> QED BY <1>12
    <3>2. G(f[n], n) = [mem |-> Store(f[n].mem, z, a, D(a)), high |-> Kept(w[a], c)]
      BY <2>2, <2>3
    <3> QED BY <3>1, <3>2
  <2>5. D(a) \in Word
    <3>1. w[a] \in Word /\ w[a + 1] \in Word
      BY <1>3, <2>1
    <3> HIDE DEF a
    <3> QED BY <3>1, KeptWord
  <2> HIDE DEF D, a
  <2>6. /\ f[n + 1].mem \in Pairs
        /\ \A b \in PairNames, j \in 0..MaxWords :
              f[n + 1].mem[b][j] = IF b = z /\ j = a THEN D(a) ELSE f[n].mem[b][j]
    <3> DEFINE s == f[n].mem
               d == D(a)
    <3>1. s \in [PairNames -> Row] /\ d \in Word
      BY <2>2, <2>5 DEF Pairs
    <3> HIDE DEF s, d
    <3>2. Store(s, z, a, d) \in [PairNames -> Row]
      BY <2>1, <3>1, StoredWord
    <3>3. \A b \in PairNames, j \in 0..MaxWords :
                Store(s, z, a, d)[b][j] = IF b = z /\ j = a THEN d ELSE s[b][j]
      BY <2>1, <3>1, StoredWord
    <3>4. f[n + 1].mem = Store(s, z, a, d)
      BY <2>4 DEF s, d
    <3> QED BY <3>2, <3>3, <3>4 DEF Pairs, s, d
  <2>7. ASSUME NEW b \in PairNames, NEW j \in 0..MaxWords
        PROVE  f[n + 1].mem[b][j] = IF b = z /\ m - (n + 1) <= j /\ j < m THEN D(j) ELSE mem[b][j]
    <3>1. f[n].mem[b][j] = IF b = z /\ a + 1 <= j /\ j < m THEN D(j) ELSE mem[b][j]
      BY <2>2
    <3>2. CASE j = a
      BY <2>1, <2>6, <3>1, <3>2
    <3>3. CASE j # a
      <4>1. a <= j <=> a + 1 <= j
        BY <2>1, <3>3
      <4>2. f[n + 1].mem[b][j] = f[n].mem[b][j]
        BY <2>6, <3>3
      <4> QED BY <2>1, <3>1, <4>1, <4>2
    <3> QED BY <3>2, <3>3
  <2>8. f[n + 1].high = Kept(w[m - (n + 1)], c)
    BY <2>1, <2>4
  <2> QED BY <2>1, <2>6, <2>7, <2>8
<1>15. m \in T
  <2>1. 0..m \subseteq T
    <3> HIDE DEF T
    <3> QED BY <1>2, <1>13, <1>14, LoopInduction
  <2> QED BY <1>2, <2>1
<1>16. m - m = 0 /\ \A j \in 0..MaxWords : 0 <= j
  BY <1>2 DEF Parameters
<1> QED BY <1>1, <1>15, <1>16

\* The words that a shift down leaves, and what the lowest one shifts out
LEMMA ShiftedDownSum ==
  ASSUME Sizes, NEW c \in 0..(WordBits - 1), NEW w \in Row, NEW v \in Row, NEW m \in 0..MaxWords,
         \A j \in 0..(m - 1) : v[j] = (w[j] \div 2^c) + Kept(w[j + 1], c)
  PROVE  2^c * Value(v, m) + (w[0] % 2^c) = Value(w, m) + Pow(m) * (w[m] % 2^c)
<1> USE SizesSuffice
<1> DEFINE P == 2^c
           r == w[0] % P
           T == { j \in 0..m : P * Value(v, j) + r = Value(w, j) + Pow(j) * (w[j] % P) }
<1>1. m \in Nat /\ 0 \in 0..m /\ m \in 0..m /\ 0 \in 0..MaxWords /\ \A j \in 0..MaxWords : w[j] \in Word
  BY DEF Parameters, Row
<1>2. P \in Nat
  <2>1. c \in Nat
    OBVIOUS
  <2> QED BY <2>1, TwicePower
<1>3. \A d \in Word : /\ d % P \in Int /\ d \div P \in Int /\ d = P * (d \div P) + (d % P)
                      /\ Kept(d, c) \in Int /\ P * Kept(d, c) = B * (d % P)
  <2> SUFFICES ASSUME NEW d \in Word
               PROVE  /\ d % P \in Int /\ d \div P \in Int /\ d = P * (d \div P) + (d % P)
                      /\ Kept(d, c) \in Int /\ P * Kept(d, c) = B * (d % P)
    OBVIOUS
  <2>1. /\ d % P \in 0..(P - 1) /\ d = P * (d \div P) + (d % P) /\ d \div P \in Nat
        /\ Kept(d, c) \in Word /\ P * Kept(d, c) = B * (d % P)
    BY KeptWord
  <2> HIDE DEF P
  <2> QED BY <2>1 DEF Word
<1> HIDE DEF P
<1>4. 0 \in T
  <2>1. Value(v, 0) = 0 /\ Value(w, 0) = 0 /\ Pow(0) = 1
    BY ValueSteps, PowSteps
  <2>2. r \in Int
    BY <1>1, <1>3
  <2> QED BY <1>1, <1>2, <2>1, <2>2
<1>5. ASSUME NEW j \in 0..(m - 1), j \in T PROVE j + 1 \in T
  <2> DEFINE Q == Pow(j)
             V == Value(v, j)
             W == Value(w, j)
             a == w[j] \div P
             b == w[j] % P
             k == Kept(w[j + 1], c)
             e == w[j + 1] % P
  <2>1. j \in 0..MaxWords /\ j \in 0..(MaxWords + 1) /\ j \in Nat /\ j + 1 \in 0..MaxWords /\ j + 1 \in 0..m
    BY <1>1 DEF Parameters
  <2>2. Value(v, j + 1) = V + Q * (a + k) /\ Value(w, j + 1) = W + Q * w[j]
    BY <2>1, ValueSteps DEF P
  <2>3. Q \in Nat /\ Pow(j + 1) = B * Q /\ B \in Nat
    BY <2>1, PowSteps DEF Parameters
  <2>4. V \in Int /\ W \in Int
    <3>1. V \in 0..(Q - 1) /\ W \in 0..(Q - 1)
      BY <2>1, ValueSteps
    <3> QED BY <3>1
  <2>5. a \in Int /\ b \in Int /\ w[j] = P * a + b
    BY <1>1, <1>3, <2>1
  <2>6. k \in Int /\ e \in Int /\ P * k = B * e
    BY <1>1, <1>3, <2>1
  <2>7. r \in Int
    BY <1>1, <1>3
  <2>8. P * V + r = W + Q * b
    BY <1>5
  <2> HIDE DEF Q, V, W, a, b, k, e, r, T
  <2>9. P * (V + Q * (a + k)) + r = (W + Q * w[j]) + (B * Q) * e
    <3>1. P * (V + Q * (a + k)) = P * V + Q * (P * a) + Q * (P * k)
      BY <1>2, <2>3, <2>4, <2>5, <2>6
    <3>2. Q * w[j] = Q * (P * a) + Q * b
      <4>1. Q * (P * a + b) = Q * (P * a) + Q * b
        BY <1>2, <2>3, <2>5
      <4> QED BY <2>5, <4>1
    <3>3. Q * (P * k) = (B * Q) * e
      <4>1. Q * (B * e) = (B * Q) * e
        BY <2>3, <2>6
      <4> QED BY <2>6, <4>1
    <3>4. Q * (P * a) \in Int /\ Q * (P * k) \in Int /\ Q * b \in Int /\ P * V \in Int
      BY <1>2, <2>3, <2>4, <2>5, <2>6
    <3> QED BY <2>4, <2>7, <2>8, <3>1, <3>2, <3>3, <3>4
  <2>10. P * Value(v, j + 1) + r = Value(w, j + 1) + Pow(j + 1) * (w[j + 1] % P)
    BY <2>2, <2>3, <2>9 DEF e
  <2> QED BY <2>1, <2>10 DEF T
<1>6. m \in T
  <2>1. 0..m \subseteq T
    <3> HIDE DEF T
    <3> QED BY <1>1, <1>4, <1>5, LoopInduction
  <2> QED BY <1>1, <2>1
<1> QED BY <1>6 DEF P

\* A number and its words up to the length of the result, one further, and
\* what is above
LEMMA CutAbove ==
  ASSUME Parameters, NEW n \in 0..MaxWords, NEW x \in Numbers(n), NEW p \in 0..MaxWords
  PROVE  LET m == Smaller(n, p)
             w == Extended(x, n)
         IN  \E X3 \in Nat : /\ x = Value(w, m) + Pow(m) * (B * X3 + w[m])
                             /\ n <= p => X3 = 0 /\ w[m] = 0
<1> DEFINE m == Smaller(n, p)
           w == Extended(x, n)
<1>1. n \in Nat /\ p \in Nat /\ x \in Nat
  BY DEF Numbers, Parameters
<1>2. w \in Row /\ \A k \in n..MaxWords : Value(w, k) = x
  BY ExtendedValue
<1>3. \A j \in 0..MaxWords : w[j] = IF j < n THEN Words(x, n)[j] ELSE 0
  BY DEF Extended
<1> HIDE DEF w
<1>4. CASE n <= p
  <2>1. m = n
    BY <1>1, <1>4 DEF Smaller
  <2>2. w[n] = 0 /\ Value(w, n) = x
    BY <1>1, <1>2, <1>3 DEF Parameters
  <2>3. x = x + Pow(n) * (B * 0 + 0)
    <3>1. Pow(n) \in Nat
      BY PowPositive
    <3> QED BY <1>1, <3>1 DEF Parameters
  <2>4. 0 \in Nat
    OBVIOUS
  <2> HIDE DEF m
  <2> QED BY <2>1, <2>2, <2>3, <2>4 DEF m, w
<1>5. CASE p < n
  <2> DEFINE R == Pow(p)
             u == x \div R
             X3 == u \div B
  <2>1. m = p
    BY <1>1, <1>5 DEF Smaller
  <2>2. R \in Nat \ {0} /\ B \in Nat \ {0}
    BY PowPositive DEF Parameters
  <2>3. Value(w, p) = x % R
    <3>1. p \in 0..n /\ p \in 0..(MaxWords + 1)
      BY <1>1, <1>5 DEF Parameters
    <3>2. Words(x, n) \in Row /\ Value(Words(x, n), p) = x % R
      BY <3>1, WordsValue
    <3>3. \A j \in 0..(p - 1) : w[j] = Words(x, n)[j]
      <4> SUFFICES ASSUME NEW j \in 0..(p - 1) PROVE w[j] = Words(x, n)[j]
        OBVIOUS
      <4>1. j \in 0..MaxWords /\ j < n
        BY <1>1, <1>5 DEF Parameters
      <4> QED BY <1>3, <4>1
    <3> QED BY <1>2, <3>1, <3>2, <3>3, ValueCongruence
  <2>4. w[p] = u % B
    <3>1. w[p] = Words(x, n)[p]
      BY <1>3, <1>5
    <3>2. Words(x, n)[p] = (x \div R) % B
      BY <1>5 DEF Words
    <3> QED BY <3>1, <3>2
  <2>5. x = R * u + (x % R) /\ u \in Int /\ x % R \in 0..(R - 1)
    <3> HIDE DEF R
    <3> QED BY <1>1, <2>2
  <2>6. u \in Nat
    <3> HIDE DEF u, R
    <3>1. ASSUME u < 0 PROVE FALSE
      <4>1. R * u <= -R
        BY <2>2, <2>5, <3>1
      <4> QED BY <1>1, <2>2, <2>5, <4>1
    <3> QED BY <2>5, <3>1
  <2>7. u = B * X3 + (u % B) /\ X3 \in Nat
    <3> HIDE DEF u
    <3>1. u = (u % B) + B * (u \div B) /\ u \div B \in Nat /\ u % B \in Word
      BY <2>6, WordOf
    <3>2. B * (u \div B) \in Int
      BY <3>1 DEF Parameters
    <3> QED BY <3>1, <3>2 DEF Word
  <2>8. x = Value(w, p) + R * (B * X3 + w[p])
    <3>1. R * u \in Int /\ x % R \in Int
      <4> HIDE DEF R, u
      <4> QED BY <2>2, <2>5
    <3> HIDE DEF R, u, X3
    <3>2. x = (x % R) + R * u
      BY <2>5, <3>1
    <3> QED BY <2>3, <2>4, <2>7, <3>2
  <2>9. ~ n <= p
    BY <1>1, <1>5
  <2> HIDE DEF X3, R, m
  <2> QED BY <2>1, <2>7, <2>8, <2>9 DEF R, m, w
<1> QED BY <1>1, <1>4, <1>5

\* The words of z above those of x are cleared before the shift.
LEMMA PaddedWithZeros ==
  ASSUME Parameters, NEW mem \in Pairs, NEW z \in PairNames, NEW p \in 0..MaxWords, NEW m \in 0..p
  PROVE  /\ Padded(mem, z, m, p, 0) \in Pairs
         /\ \A b \in PairNames, j \in 0..MaxWords :
               Padded(mem, z, m, p, 0)[b][j] = IF b = z /\ m <= j /\ j < p THEN 0 ELSE mem[b][j]
<1> DEFINE total == Value(mem[z], m)
           h == 0
<1>1. Written(mem, mem, z, m, h, total)
  <2>1. mem[z] \in Row /\ m \in 0..(MaxWords + 1)
    BY DEF Pairs, Parameters
  <2>2. Value(mem[z], m) \in Int /\ Pow(m) \in Nat
    <3>1. Value(mem[z], m) \in 0..(Pow(m) - 1)
      BY <2>1, ValueSteps
    <3>2. m \in 0..MaxWords
      BY DEF Parameters
    <3> HIDE DEF total
    <3>3. Pow(m) \in Nat
      BY <3>2, PowPositive
    <3> QED BY <3>1, <3>3
  <2> QED BY <2>2 DEF Written
<1>2. h \in Word
  BY DEF Word, Parameters
<1> HIDE DEF total, h
<1>3. /\ Written(mem, Padded(mem, z, m, p, h), z, p, IF p > m THEN 0 ELSE h, total)
      /\ WithZeros(mem, Padded(mem, z, m, p, h), z, m, p, h)
  BY <1>1, <1>2, PaddedIs
<1>4. Padded(mem, z, m, p, h) \in Pairs
  BY <1>3 DEF Written
<1>5. h = 0
  BY DEF h
<1> HIDE DEF h
<1> QED BY <1>3, <1>4, <1>5 DEF WithZeros

LEMMA ShrSmallPromise == Sizes /\ ShrSmall => Contract!ShrSmall'
<1> SUFFICES ASSUME Sizes, ShrSmall PROVE Contract!ShrSmall'
  OBVIOUS
<1> USE SizesSuffice
<1> DEFINE Returns(p, n, x, c, z) ==
             LET mem == Pair(n, x, p, 0)
                 m == Smaller(n, p)
                 s == ShiftedDown(Padded(mem, z, m, p, 0), z, m, c, IF p < n THEN Kept(X(mem, p), c) ELSE 0)
             IN  Call("shr_small", << p, x, c >>,
                      << Left(mem, s.mem, z, p), s.high \div (IF c = 0 THEN 1 ELSE 2^(WordBits - c)) >>)
<1>1. PICK p \in 0..MaxWords, n \in 0..MaxWords :
        \E x \in Numbers(n), c \in 0..(WordBits - 1), z \in { "x", "z" } : Returns(p, n, x, c, z)
  BY DEF ShrSmall, Lengths
<1>2. PICK x \in Numbers(n), c \in 0..(WordBits - 1), z \in PairNames : Returns(p, n, x, c, z)
  BY <1>1 DEF PairNames
<1> DEFINE mem == Pair(n, x, p, 0)
           m == Smaller(n, p)
           high == IF p < n THEN Kept(X(mem, p), c) ELSE 0
           pad == Padded(mem, z, m, p, 0)
           s == ShiftedDown(pad, z, m, c, high)
           w == Extended(x, n)
           P == 2^c
           one == IF c = 0 THEN 1 ELSE 2^(WordBits - c)
           r == Left(mem, s.mem, z, p)
           carry == s.high \div one
<1>3. Call("shr_small", << p, x, c >>, << r, carry >>)
  BY <1>2
<1>4. m \in 0..p /\ m \in 0..n /\ m \in 0..MaxWords /\ p \in Nat /\ n \in Nat /\ p \in 0..MaxWords
  BY CutValue DEF Parameters
<1>5. mem \in Pairs /\ mem["x"] = Words(x, n)
  BY PowPositive, PairHolds
<1>6. w \in Row /\ \A j \in 0..MaxWords : w[j] = IF j < n THEN Words(x, n)[j] ELSE 0
  <2>1. w \in Row
    BY ExtendedValue
  <2> QED BY <2>1 DEF Extended
<1>7. PICK X3 \in Nat : /\ x = Value(w, m) + Pow(m) * (B * X3 + w[m])
                        /\ n <= p => X3 = 0 /\ w[m] = 0
  BY CutAbove
<1>8. p < n => m = p
  BY <1>4 DEF Smaller
<1> HIDE DEF mem, w, m
<1>9. high = Kept(w[m], c)
  <2>1. CASE p < n
    <3>1. X(mem, p) = w[m]
      BY <1>5, <1>6, <1>8, <2>1 DEF X
    <3> QED BY <2>1, <3>1
  <2>2. CASE ~ p < n
    <3>1. w[m] = 0
      BY <1>4, <1>7, <2>2
    <3>2. Kept(0, c) = 0
      <4>1. CASE c = 0
        BY <4>1 DEF Kept
      <4>2. CASE c # 0
        <5> DEFINE q == 2^(WordBits - c)
        <5>1. q \in Nat
          <6>1. WordBits \in Nat /\ c \in 0..WordBits
            BY DEF Sizes
          <6> QED BY <6>1, PowersMatch
        <5> HIDE DEF q
        <5>2. (0 * q) % B = 0
          BY <5>1 DEF Parameters
        <5> QED BY <4>2, <5>2 DEF Kept, q
      <4> QED BY <4>1, <4>2
    <3> QED BY <2>2, <3>1, <3>2
  <2> QED BY <2>1, <2>2
<1>10. /\ pad \in Pairs
       /\ \A b \in PairNames, j \in 0..MaxWords :
             pad[b][j] = IF b = z /\ m <= j /\ j < p THEN 0 ELSE mem[b][j]
  BY <1>4, <1>5, PaddedWithZeros
<1> HIDE DEF pad, high
<1>11. /\ s.mem \in Pairs /\ s.high = Kept(w[0], c)
       /\ \A j \in 0..MaxWords :
             s.mem[z][j] = IF j < m THEN (w[j] \div P) + Kept(w[j + 1], c) ELSE pad[z][j]
  <2>1. ASSUME NEW j \in 0..(m - 1) PROVE pad["x"][j] = w[j]
    <3>1. j \in 0..MaxWords /\ ~ (m <= j) /\ j < n /\ "x" \in PairNames
      BY <1>4 DEF PairNames, Parameters
    <3> QED BY <1>5, <1>6, <1>10, <3>1
  <2> QED BY <1>4, <1>6, <1>9, <1>10, <2>1, ShiftedDownIs
<1> HIDE DEF s
<1> DEFINE v == s.mem[z]
           V == Value(v, m)
<1>12. v \in Row
  <2> DEFINE b == s.mem
  <2>1. b \in Pairs
    BY <1>11
  <2> HIDE DEF b
  <2>2. b[z] \in Row
    BY <2>1 DEF Pairs
  <2> QED BY <2>2 DEF b
<1>13. r = V /\ r \in 0..(Pow(p) - 1)
  <2>1. \A j \in p..MaxWords : v[j] = mem[z][j]
    <3> SUFFICES ASSUME NEW j \in p..MaxWords PROVE v[j] = mem[z][j]
      OBVIOUS
    <3>1. j \in 0..MaxWords /\ ~ j < m /\ ~ j < p
      BY <1>4 DEF Parameters
    <3> QED BY <1>10, <1>11, <3>1
  <2>2. r = Value(v, p)
    BY <2>1 DEF Left
  <2>3. \A j \in m..(p - 1) : v[j] = 0
    <3> SUFFICES ASSUME NEW j \in m..(p - 1) PROVE v[j] = 0
      OBVIOUS
    <3>1. j \in 0..MaxWords /\ ~ j < m /\ m <= j /\ j < p
      BY <1>4 DEF Parameters
    <3> QED BY <1>10, <1>11, <3>1
  <2> HIDE DEF v, r
  <2>4. Value(v, p) = V
    BY <1>4, <1>12, <2>3, ZerosAbove
  <2>5. Value(v, p) \in 0..(Pow(p) - 1)
    <3>1. p \in 0..(MaxWords + 1)
      BY <1>4 DEF Parameters
    <3> QED BY <1>12, <3>1, ValueSteps
  <2> QED BY <2>2, <2>4, <2>5
<1> HIDE DEF r
<1>14. P * V + (w[0] % P) = Value(w, m) + Pow(m) * (w[m] % P)
  <2>1. ASSUME NEW j \in 0..(m - 1) PROVE v[j] = (w[j] \div 2^c) + Kept(w[j + 1], c)
    <3>1. j \in 0..MaxWords /\ j < m
      BY <1>4 DEF Parameters
    <3> QED BY <1>11, <3>1
  <2> HIDE DEF v
  <2> QED BY <1>4, <1>6, <1>12, <2>1, ShiftedDownSum
<1>15. carry = w[0] % P /\ w[0] % P \in 0..(P - 1) /\ w[m] \in Nat
  <2>1. w[0] \in Word /\ w[m] \in Word
    BY <1>4, <1>6 DEF Row, Parameters
  <2>2. w[0] % P \in 0..(P - 1) /\ Kept(w[0], c) \div one = w[0] % P
    BY <2>1, KeptWord
  <2> HIDE DEF P, one
  <2> QED BY <1>11, <2>1, <2>2 DEF Word
<1> HIDE DEF carry
<1>16. PICK H \in Nat : x \div P = V + Pow(m) * H /\ x % P = w[0] % P /\ (X3 = 0 /\ w[m] = 0 => H = 0)
  <2> DEFINE q == 2^(WordBits - c)
             W == Value(w, m)
             d == w[m]
             Q == Pow(m)
             e == w[0] % P
  <2>1. P \in Nat \ {0} /\ q \in Nat \ {0} /\ P * q = B
    <3>1. WordBits \in Nat /\ c \in 0..WordBits
      BY DEF Sizes
    <3> QED BY <3>1, PowersMatch
  <2>2. V \in Nat /\ W \in Int /\ Q \in Nat
    <3>1. m \in 0..(MaxWords + 1)
      BY <1>4 DEF Parameters
    <3>2. V \in 0..(Q - 1) /\ W \in 0..(Q - 1)
      BY <1>6, <1>12, <3>1, ValueSteps
    <3> QED BY <1>4, <3>2, PowPositive
  <2>3. x \in Nat /\ d \in Nat /\ e \in 0..(P - 1)
    BY <1>15 DEF Numbers
  <2>4. P * V + e = W + Q * (d % P) /\ x = W + Q * (B * X3 + d)
    BY <1>7, <1>14
  <2> HIDE DEF P, q, V, W, d, Q, e, s
  <2>t. Facts!ShiftedBy(P, q, Q, V, W, e, X3, d, x)
    BY <2>1, <2>2, <2>3, <2>4 DEF Facts!ShiftedBy
  <2>5. \E H \in Nat : x \div P = V + Q * H /\ x % P = e /\ (X3 = 0 /\ d = 0 => H = 0)
    BY <2>t, FactsAssumptions, Facts!ShiftOfNumber
  <2> QED BY <2>5 DEF e, d, Q
<1> HIDE DEF V, P
<1>17. r = (x \div P) % Pow(p)
  <2> DEFINE R == Pow(p)
  <2>1. R \in Nat \ {0} /\ r \in 0..(R - 1) /\ r = V
    BY <1>4, <1>13, PowPositive
  <2>2. CASE n <= p
    <3>1. H = 0
      BY <1>7, <1>16, <2>2
    <3>2. Pow(m) * 0 = 0
      BY <1>4, PowPositive
    <3>3. x \div P = r
      BY <1>16, <2>1, <3>1, <3>2
    <3> HIDE DEF R
    <3>4. r % R = r
      BY <2>1
    <3> QED BY <3>3, <3>4 DEF R
  <2>3. CASE p < n
    <3>1. x \div P = r + R * H
      BY <1>8, <1>16, <2>1, <2>3
    <3> HIDE DEF R
    <3>2. r + R * H = R * H + r /\ H \in Int
      BY <2>1
    <3>3. (R * H + r) % R = r
      BY <2>1, <3>2, FactsAssumptions, Facts!DivModUnique
    <3> QED BY <3>1, <3>2, <3>3 DEF R
  <2> QED BY <1>4, <2>2, <2>3
<1> QED BY <1>3, <1>15, <1>16, <1>17, ContractPow DEF Call, Contract!ShrSmall, Contract!Is, Contract!result,
      Contract!carry, Contract!x, Contract!y, Contract!k, Contract!R, P

(***************************************************************************)
(* Products by columns                                                     *)
(***************************************************************************)
\* The sum of the first k terms, the word of v with index s, the products of column c,
\* and the part of the product of two numbers that the columns below c make up
Total(f, k) == Facts!Sigma(f, k)
Dig(v, s) == Facts!DigitOf(v, s)
Products(x, y, c) == Facts!Products(x, y, c)
Parts(x, y, c) == Facts!Parts(x, y, c)
Below(x, y, c) == Facts!Below(x, y, c)

LEMMA TotalSteps ==
  ASSUME Parameters, NEW f \in [Nat -> Nat]
  PROVE  Total(f, 0) = 0 /\ \A n \in Nat : Total(f, n + 1) = Total(f, n) + f[n] /\ Total(f, n) \in Nat
BY FactsAssumptions, Facts!SigmaSteps DEF Total

\* Further terms only add, and those that are zero do not count.
LEMMA TotalMonotone ==
  ASSUME Parameters, NEW f \in [Nat -> Nat], NEW a \in Nat, NEW b \in Nat, a <= b
  PROVE  Total(f, a) <= Total(f, b)
BY FactsAssumptions, Facts!SigmaMonotone DEF Total

LEMMA TotalSame ==
  ASSUME Parameters, NEW f \in [Nat -> Nat], NEW a \in Nat, NEW b \in Nat, a <= b,
         \A q \in a..(b - 1) : f[q] = 0
  PROVE  Total(f, b) = Total(f, a)
BY FactsAssumptions, Facts!SigmaSame DEF Total

\* The weights of words are multiplied by adding their indices.
LEMMA PowsAdd ==
  ASSUME Parameters, NEW n \in Nat, NEW t \in Nat
  PROVE  Pow(n + t) = Pow(n) * Pow(t)
<1>1. Facts!Pow[n] * Facts!Pow[t] = Facts!Pow[n + t]
  BY FactsAssumptions, Facts!PowSum, Zenon
<1> QED BY <1>1, FactsPow

\* One more word of a number
LEMMA DigSteps ==
  ASSUME Parameters, NEW v \in Nat
  PROVE  \A h \in Nat : Dig(v, h) = (v \div Pow(h)) % B /\ Dig(v, h) \in 0..(B - 1) /\ Dig(v, h) \in Nat
<1>1. \A h \in Nat : Facts!DigitOf(v, h) \in 0..(B - 1) /\ Facts!DigitOf(v, h) \in Nat
  BY FactsAssumptions, Facts!DigitSteps, Zenon
<1> QED BY <1>1, FactsPow DEF Dig, Facts!DigitOf

LEMMA ProductTypes ==
  ASSUME Parameters, NEW x \in Nat, NEW y \in Nat, NEW c \in Nat
  PROVE  Products(x, y, c) \in [Nat -> Nat] /\ Parts(x, y, c) \in [Nat -> Nat]
BY FactsAssumptions, Facts!ProductTypes DEF Products, Parts

\* A column adds its products; what is missing of the product has the weight of the next.
LEMMA ColumnAdds ==
  ASSUME Parameters, NEW x \in Nat, NEW y \in Nat, NEW c \in Nat
  PROVE  Below(x, y, c + 1) = Below(x, y, c) + Pow(c) * Total(Products(x, y, c), c + 1)
<1>1. Facts!Below(x, y, c + 1) = Facts!Below(x, y, c) + Facts!Pow[c] * Facts!Sigma(Facts!Products(x, y, c), c + 1)
  BY FactsAssumptions, Facts!ColumnAdds, Zenon
<1> QED BY <1>1, FactsPow DEF Below, Total, Products

LEMMA ProductSplit ==
  ASSUME Parameters, NEW x \in Nat, NEW y \in Nat, NEW c \in Nat
  PROVE  Below(x, y, c) \in Nat /\ \E K \in Nat : x * y = Below(x, y, c) + Pow(c) * K
<1>1. Facts!Below(x, y, c) \in Nat /\ Facts!Remains(x, y, c)
  BY FactsAssumptions, Facts!ProductRest, Zenon
<1> QED BY <1>1, FactsPow DEF Below, Facts!Remains

\* No column is reached by more terms than x has words.
LEMMA ColumnBound ==
  ASSUME Parameters, NEW m \in 0..MaxWords, NEW x \in Numbers(m), NEW y \in Nat, NEW c \in Nat
  PROVE  Total(Products(x, y, c), c + 1) \in 0..(m * ((B - 1) * (B - 1)))
<1>1. m \in Nat /\ x \in 0..(Facts!Pow[m] - 1)
  BY FactsPow DEF Numbers, Parameters
<1> QED BY <1>1, FactsAssumptions, Facts!ColumnBound DEF Total, Products

\* The range of three words, and the accumulator over k products of a column
Room == B * B * B
Adding(s, x, y, col, lo, k, start) ==
    s = [q \in 0..k |-> IF q = 0 THEN start
                        ELSE (s[q - 1] + (x[lo + (q - 1)] * y[col - (lo + (q - 1))])) % (B * B * B)]

\* .. of which the products are the terms of f
Adds(s, x, y, col, lo, k, start, f) ==
    /\ col \in Nat /\ lo \in Nat /\ k \in Nat /\ start \in Nat /\ f \in [Nat -> Nat]
    /\ \A q \in lo..(lo + k - 1) : x[q] * y[col - q] = f[q]
    /\ Adding(s, x, y, col, lo, k, start)

LEMMA AddingIs ==
  ASSUME Parameters, NEW col, NEW lo, NEW k, NEW x, NEW y, NEW f, NEW start, NEW s,
         Adds(s, x, y, col, lo, k, start, f), start + (Total(f, lo + k) - Total(f, lo)) < Room
  PROVE  s[k] = start + (Total(f, lo + k) - Total(f, lo))
<1> USE DEF Adds
<1> DEFINE full == Room
           a == Total(f, lo)
           T == { j \in 0..k : s[j] = start + (Total(f, lo + j) - a) }
<1>1. full \in Nat \ {0} /\ a \in Nat
  BY TotalSteps DEF Parameters, Room
<1>2. 0 \in T
  <2>1. s[0] = start
    BY DEF Adding
  <2>2. lo + 0 = lo /\ start + (a - a) = start
    BY <1>1
  <2> HIDE DEF a
  <2>3. Total(f, lo + 0) = a
    BY <2>2 DEF a
  <2> QED BY <2>1, <2>2, <2>3
<1>3. ASSUME NEW j \in 0..(k - 1), j \in T PROVE j + 1 \in T
  <2> DEFINE t == Total(f, lo + j)
             d == f[lo + j]
             u == Total(f, (lo + j) + 1)
             e == Total(f, lo + k)
  <2>1. /\ j \in Nat /\ j + 1 \in 0..k /\ (j + 1) - 1 = j /\ j + 1 # 0
        /\ lo + j \in lo..(lo + k - 1) /\ lo + j \in Nat /\ lo + (j + 1) = (lo + j) + 1
    OBVIOUS
  <2>2. s[j + 1] = (s[j] + (x[lo + j] * y[col - (lo + j)])) % full
    BY <2>1 DEF Adding, Room
  <2>3. s[j + 1] = (s[j] + d) % full
    BY <2>1, <2>2
  <2>4. u = t + d /\ t \in Nat /\ d \in Nat
    BY <2>1, TotalSteps
  <2>5. u <= e /\ a <= t
    <3>1. Total(f, (lo + j) + 1) <= Total(f, lo + k)
      BY <2>1, TotalMonotone
    <3>2. Total(f, lo) <= Total(f, lo + j)
      BY <2>1, TotalMonotone
    <3> QED BY <3>1, <3>2
  <2>6. s[j] = start + (t - a) /\ e \in Nat /\ start + (e - a) < full
    BY <1>3, <2>1, TotalSteps
  <2> HIDE DEF t, d, u, e, a, full
  <2>7. s[j] + d = start + (u - a) /\ start + (u - a) \in 0..(full - 1)
    BY <1>1, <2>4, <2>5, <2>6
  <2>8. s[j + 1] = start + (u - a)
    <3> DEFINE v == start + (u - a)
    <3>1. v \in 0..(full - 1) /\ s[j + 1] = v % full
      BY <2>3, <2>7
    <3> HIDE DEF v
    <3>2. v % full = v
      BY <1>1, <3>1
    <3> QED BY <3>1, <3>2 DEF v
  <2> QED BY <2>1, <2>8 DEF u
<1>4. k \in T
  <2>1. 0..k \subseteq T
    <3> HIDE DEF T
    <3> QED BY <1>2, <1>3, LoopInduction
  <2> QED BY <2>1
<1> QED BY <1>4

\* The loop is a function of the products added.
LEMMA AddingExists ==
  ASSUME Parameters, NEW col \in Nat, NEW lo \in Nat, NEW k \in Nat, NEW x, NEW y, NEW f \in [Nat -> Nat],
         \A q \in lo..(lo + k - 1) : x[q] * y[col - q] = f[q], NEW start \in Nat
  PROVE  \E s : Adding(s, x, y, col, lo, k, start)
<1> DEFINE full == B * B * B
           g == [j \in 0..(k - 1) |-> [v \in Nat |-> (v + f[lo + j]) % full]]
<1>1. full \in Nat \ {0}
  BY DEF Parameters
<1>2. g \in [0..(k - 1) -> [Nat -> Nat]]
  <2> HIDE DEF full
  <2>1. ASSUME NEW j \in 0..(k - 1), NEW v \in Nat PROVE (v + f[lo + j]) % full \in Nat
    <3>1. v + f[lo + j] \in Nat
      OBVIOUS
    <3> DEFINE u == v + f[lo + j]
    <3> HIDE DEF u
    <3>2. u \in Nat
      BY <3>1 DEF u
    <3>3. u % full \in Nat
      BY <1>1, <3>2
    <3> QED BY <3>3 DEF u
  <2> QED BY <2>1
<1>3. PICK s : Recursive(s, k, Nat, start, g)
  <2> HIDE DEF g
  <2> QED BY <1>2, LoopExists, Zenon
<1>4. s \in [0..k -> Nat] /\ s = [j \in 0..k |-> IF j = 0 THEN start ELSE g[j - 1][s[j - 1]]]
  BY <1>3 DEF Recursive
<1>5. ASSUME NEW q \in 0..k, q # 0
      PROVE  g[q - 1][s[q - 1]] = (s[q - 1] + (x[lo + (q - 1)] * y[col - (lo + (q - 1))])) % full
  <2>1. q - 1 \in 0..(k - 1) /\ q - 1 \in 0..k /\ lo + (q - 1) \in lo..(lo + k - 1)
    BY <1>5
  <2>2. s[q - 1] \in Nat
    BY <1>4, <2>1
  <2>3. x[lo + (q - 1)] * y[col - (lo + (q - 1))] = f[lo + (q - 1)]
    BY <2>1
  <2>4. g[q - 1][s[q - 1]] = (s[q - 1] + f[lo + (q - 1)]) % full
    <3> HIDE DEF full
    <3> QED BY <2>1, <2>2
  <2> HIDE DEF full, g
  <2> QED BY <2>3, <2>4
<1>6. s = [q \in 0..k |-> IF q = 0 THEN start
                          ELSE (s[q - 1] + (x[lo + (q - 1)] * y[col - (lo + (q - 1))])) % full]
  <2> HIDE DEF g, full
  <2> QED BY <1>4, <1>5
<1>7. Adding(s, x, y, col, lo, k, start)
  BY <1>6 DEF Adding
<1> QED BY <1>7

\* The accumulator holds a number whether or not it overflows.
LEMMA AddingNat ==
  ASSUME Parameters, NEW col \in Nat, NEW lo \in Nat, NEW k \in Nat, NEW x, NEW y, NEW f \in [Nat -> Nat],
         \A q \in lo..(lo + k - 1) : x[q] * y[col - q] = f[q], NEW start \in Nat,
         NEW s, Adding(s, x, y, col, lo, k, start)
  PROVE  s[k] \in Nat
<1> DEFINE full == B * B * B
           T == { j \in 0..k : s[j] \in Nat }
<1>1. full \in Nat \ {0}
  BY DEF Parameters
<1>2. 0 \in T
  <2>1. s[0] = start
    BY DEF Adding
  <2> QED BY <2>1
<1>3. ASSUME NEW j \in 0..(k - 1), j \in T PROVE j + 1 \in T
  <2>1. j + 1 \in 0..k /\ (j + 1) - 1 = j /\ j + 1 # 0 /\ lo + j \in lo..(lo + k - 1) /\ lo + j \in Nat
    OBVIOUS
  <2>2. s[j + 1] = (s[j] + (x[lo + j] * y[col - (lo + j)])) % full
    BY <2>1 DEF Adding
  <2> HIDE DEF full
  <2> DEFINE u == s[j] + f[lo + j]
  <2>3. u \in Nat /\ s[j + 1] = u % full
    BY <1>3, <2>1, <2>2
  <2> HIDE DEF u
  <2>4. u % full \in Nat
    BY <1>1, <2>3
  <2> QED BY <2>1, <2>3, <2>4
<1>4. 0..k \subseteq T
  <2> HIDE DEF T
  <2> QED BY <1>2, <1>3, LoopInduction
<1> QED BY <1>4

\* Words that are those of x, and of y, as far as a column needs them
Sources(v, w, x, m, y, n) ==
    /\ m \in 0..MaxWords /\ x \in Numbers(m) /\ n \in 0..MaxWords /\ y \in Numbers(n)
    /\ \A q \in 0..(m - 1) : v[q] = Dig(x, q)
    /\ \A q \in 0..(n - 1) : w[q] = Dig(y, q)

\* The products up to that of word h - 1 of x, of which most are zero for a column
\* beyond the length of x or y
ColumnOf(v, w, x, m, y, n, col, h, start) ==
    Sources(v, w, x, m, y, n) /\ col \in Nat /\ h \in 0..(col + 1) /\ start \in Nat

LEMMA ColumnIs ==
  ASSUME Parameters, NEW v, NEW w, NEW x, NEW y, NEW m, NEW n, NEW col, NEW h, NEW start,
         ColumnOf(v, w, x, m, y, n, col, h, start)
  PROVE  LET value == Column(v, w, col, Larger(0, col + 1 - n), Smaller(h, m), start)
             sum == start + Total(Products(x, y, col), h)
         IN  value \in Nat /\ (sum < Room => value = sum)
<1>0. Sources(v, w, x, m, y, n) /\ col \in Nat /\ h \in 0..(col + 1) /\ start \in Nat
  BY DEF ColumnOf
<1> USE <1>0
<1> DEFINE lo == Larger(0, col + 1 - n)
           hi == Smaller(h, m)
           k == IF hi > lo THEN hi - lo ELSE 0
           f == Products(x, y, col)
           c == CHOOSE s : Adding(s, v, w, col, lo, k, start)
           value == Column(v, w, col, lo, hi, start)
           sum == start + Total(f, h)
<1>1. /\ m \in Nat /\ n \in Nat /\ x \in Nat /\ y \in Nat
      /\ m \in 0..MaxWords /\ x \in Numbers(m) /\ n \in 0..MaxWords /\ y \in Numbers(n)
      /\ \A q \in 0..(m - 1) : v[q] = Dig(x, q)
      /\ \A q \in 0..(n - 1) : w[q] = Dig(y, q)
  BY DEF Sources, Numbers, Parameters
<1>2. /\ lo \in Nat /\ hi \in Nat /\ hi <= h /\ hi <= m /\ k \in Nat /\ (hi = h \/ hi = m)
      /\ \A q \in Nat : q < lo <=> q < col + 1 - n
  BY <1>1 DEF Larger, Smaller
<1>3. f \in [Nat -> Nat]
  BY <1>1, ProductTypes
<1>4. \A q \in 0..col : f[q] = Dig(x, q) * Dig(y, col - q)
  BY DEF Products, Dig, Facts!Products
<1>5. value = c[k]
  BY DEF Column, Over, Up, Adding
<1> HIDE DEF f, c, value, k, lo, hi
<1>6. \A q \in lo..(lo + k - 1) : v[q] * w[col - q] = f[q]
  <2> SUFFICES ASSUME NEW q \in lo..(lo + k - 1) PROVE v[q] * w[col - q] = f[q]
    OBVIOUS
  <2>1. q < hi /\ q \in Nat
    BY <1>2 DEF k
  <2>2. q \in 0..(m - 1) /\ q \in 0..col /\ ~(q < col + 1 - n) /\ col - q \in 0..(n - 1)
    BY <1>1, <1>2, <2>1
  <2> QED BY <1>1, <1>4, <2>2
<1>7. Adding(c, v, w, col, lo, k, start) /\ c[k] \in Nat
  <2>1. \E s : Adding(s, v, w, col, lo, k, start)
    BY <1>2, <1>3, <1>6, AddingExists
  <2>2. Adding(c, v, w, col, lo, k, start)
    BY <2>1 DEF c
  <2> QED BY <1>2, <1>3, <1>6, <2>2, AddingNat
<1>8. \A q \in 0..col : q < col + 1 - n \/ q >= m => f[q] = 0
  <2> SUFFICES ASSUME NEW q \in 0..col, q < col + 1 - n \/ q >= m PROVE f[q] = 0
    OBVIOUS
  <2>1. q \in Nat /\ col - q \in Nat
    OBVIOUS
  <2>2. Dig(x, q) \in Nat /\ Dig(y, col - q) \in Nat
    BY <1>1, <2>1, DigSteps
  <2>3. CASE q < col + 1 - n
    <3>1. ~(col - q < n)
      BY <1>1, <2>3
    <3>2. Dig(y, col - q) = 0
      BY <1>1, <2>1, <3>1, DigitIs, DigSteps
    <3> QED BY <1>4, <2>2, <3>2
  <2>4. CASE q >= m
    <3>1. ~(q < m)
      BY <1>1, <2>4
    <3>2. Dig(x, q) = 0
      BY <1>1, <2>1, <3>1, DigitIs, DigSteps
    <3> QED BY <1>4, <2>2, <3>2
  <2> QED BY <2>3, <2>4
<1>9. Total(f, lo + k) - Total(f, lo) = Total(f, h)
  <2>1. h \in Nat /\ Total(f, 0) = 0 /\ Total(f, h) \in Nat /\ Total(f, lo) \in Nat
    BY <1>2, <1>3, TotalSteps
  <2>2. CASE hi > lo
    <3>1. lo + k = hi
      BY <1>2, <2>2 DEF k
    <3>2. \A q \in 0..(lo - 1) : f[q] = 0
      BY <1>2, <1>8, <2>2
    <3>3. Total(f, lo) = Total(f, 0)
      BY <1>2, <1>3, <3>2, TotalSame
    <3>4. \A q \in hi..(h - 1) : f[q] = 0
      BY <1>1, <1>2, <1>8
    <3>5. Total(f, h) = Total(f, hi)
      BY <1>2, <1>3, <2>1, <3>4, TotalSame
    <3> QED BY <2>1, <3>1, <3>3, <3>5
  <2>3. CASE ~(hi > lo)
    <3>1. lo + k = lo
      BY <1>2, <2>3 DEF k
    <3>2. \A q \in 0..(h - 1) : f[q] = 0
      BY <1>1, <1>2, <1>8, <2>3
    <3>3. Total(f, h) = Total(f, 0)
      BY <1>3, <2>1, <3>2, TotalSame
    <3> QED BY <2>1, <3>1, <3>3
  <2> QED BY <2>2, <2>3
<1>10. ASSUME sum < Room PROVE c[k] = sum
  <2>1. start + (Total(f, lo + k) - Total(f, lo)) < Room
    BY <1>9, <1>10
  <2>2. c[k] = start + (Total(f, lo + k) - Total(f, lo))
    <3>1. Adds(c, v, w, col, lo, k, start, f)
      BY <1>2, <1>3, <1>6, <1>7 DEF Adds
    <3> QED BY <2>1, <3>1, AddingIs
  <2> QED BY <1>9, <2>2
<1> QED BY <1>5, <1>7, <1>10 DEF value, lo, hi, f

\* The buffers when only z has been written, and a column's word stored
ZBuffers(D, mem) == { b \in [D -> Row] : \A n \in D \ {"z"} : b[n] = mem[n] }
ColumnStored(s, j, v) == [mem |-> Store(s.mem, "z", j, v % B), high |-> v \div B]
ColumnReached(D, mem, s, j, limit) ==
    /\ s.mem \in ZBuffers(D, mem) /\ s.high \in 0..limit
    /\ \A t \in j..MaxWords : s.mem["z"][t] = mem["z"][t]

\* Each column adds to what the one before has left over.
Columns(D, mem, p, f, add, total, limit) ==
    /\ "z" \in D /\ mem \in [D -> Row] /\ p \in 0..MaxWords /\ limit \in Nat
    /\ add \in [Nat -> Nat] /\ total \in [Nat -> Nat] /\ total[0] = 0
    /\ \A j \in 0..(p - 1) : /\ total[j + 1] = total[j] + Pow(j) * add[j]
                             /\ limit + add[j] < B * (limit + 1)
    /\ f[0] = [mem |-> mem, high |-> 0]
    /\ \A j \in 0..(p - 1) : ColumnReached(D, mem, f[j], j, limit)
                             => f[j + 1] = ColumnStored(f[j], j, f[j].high + add[j])

\* Two rows of words are the same if their words are.
LEMMA SameRow == \A u, w \in Row : (\A t \in 0..MaxWords : u[t] = w[t]) => u = w
<1> SUFFICES ASSUME NEW u \in [0..MaxWords -> Word], NEW w \in [0..MaxWords -> Word],
                    \A t \in 0..MaxWords : u[t] = w[t]
             PROVE  u = w
  BY DEF Row
<1>1. u = [t \in 0..MaxWords |-> u[t]] /\ w = [t \in 0..MaxWords |-> w[t]]
  OBVIOUS
<1>2. [t \in 0..MaxWords |-> u[t]] = [t \in 0..MaxWords |-> w[t]]
  OBVIOUS
<1> QED BY <1>1, <1>2

\* One more column: its word is stored and the rest is left over.
LEMMA ColumnStep ==
  ASSUME Parameters, NEW D, NEW mem, NEW p, NEW f, NEW add, NEW total, NEW limit,
         Columns(D, mem, p, f, add, total, limit), NEW j \in 0..(p - 1),
         ColumnReached(D, mem, f[j], j, limit), Value(f[j].mem["z"], j) + Pow(j) * f[j].high = total[j]
  PROVE  /\ ColumnReached(D, mem, f[j + 1], j + 1, limit)
         /\ Value(f[j + 1].mem["z"], j + 1) + Pow(j + 1) * f[j + 1].high = total[j + 1]
<1> DEFINE b == f[j].mem
           c == f[j + 1].mem
           h == f[j].high
           a == add[j]
           v == h + a
           d == v % B
           q == v \div B
           P == Pow(j)
           V == Value(b["z"], j)
<1>1. /\ "z" \in D /\ p \in 0..MaxWords /\ limit \in Nat /\ a \in Nat /\ total[j] \in Nat
      /\ total[j + 1] = total[j] + P * a /\ limit + a < B * (limit + 1)
      /\ f[j + 1] = ColumnStored(f[j], j, v)
      /\ j \in Nat /\ j \in 0..MaxWords /\ j \in 0..(MaxWords + 1) /\ MaxWords \in Nat
  BY DEF Columns, Parameters
<1>2. b \in [D -> Row] /\ (\A n \in D \ {"z"} : b[n] = mem[n]) /\ h \in 0..limit
  BY DEF ColumnReached, ZBuffers
<1>3. c = Store(b, "z", j, d) /\ f[j + 1].high = q
  BY <1>1 DEF ColumnStored
<1>4. v \in Nat /\ v < B * (limit + 1)
  BY <1>1, <1>2 DEF Parameters
<1>5. v = d + B * q /\ d \in Word /\ q \in Nat
  <2> HIDE DEF v
  <2> QED BY <1>4, WordOf
<1> HIDE DEF q, d, v
<1>6. q \in 0..limit
  <2>1. SUFFICES ASSUME q >= limit + 1 PROVE FALSE
    BY <1>1, <1>5
  <2>2. B * q >= B * (limit + 1) /\ B * q \in Nat
    BY <1>1, <1>5, <2>1 DEF Parameters
  <2> QED BY <1>1, <1>4, <1>5, <2>2 DEF Word, Parameters
<1>7. /\ c \in [D -> Row]
      /\ \A n \in D, t \in 0..MaxWords : c[n][t] = IF n = "z" /\ t = j THEN d ELSE b[n][t]
  <2> DEFINE k == Store(b, "z", j, d)
  <2>1. /\ k \in [D -> Row]
        /\ \A n \in D, t \in 0..MaxWords : k[n][t] = IF n = "z" /\ t = j THEN d ELSE b[n][t]
    <3> HIDE DEF b, c
    <3> QED BY <1>1, <1>2, <1>5, StoredWord
  <2> HIDE DEF b, c, k
  <2>2. c = k
    BY <1>3 DEF k
  <2> QED BY <2>1, <2>2
<1>8. \A n \in D \ {"z"} : c[n] = mem[n]
  <2> SUFFICES ASSUME NEW n \in D \ {"z"} PROVE c[n] = mem[n]
    OBVIOUS
  <2>1. c[n] = b[n]
    <3> DEFINE u == c[n]
               w == b[n]
    <3>1. u \in Row /\ w \in Row
      BY <1>2, <1>7
    <3>2. \A t \in 0..MaxWords : u[t] = w[t]
      <4> HIDE DEF b, c
      <4> QED BY <1>7
    <3> HIDE DEF u, w
    <3>3. u = w
      BY <3>1, <3>2, SameRow
    <3> QED BY <3>3 DEF u, w
  <2> QED BY <1>2, <2>1
<1>9. \A t \in (j + 1)..MaxWords : c["z"][t] = mem["z"][t]
  <2> SUFFICES ASSUME NEW t \in (j + 1)..MaxWords PROVE c["z"][t] = mem["z"][t]
    OBVIOUS
  <2>1. t \in 0..MaxWords /\ t \in j..MaxWords /\ t # j
    BY <1>1
  <2> QED BY <1>1, <1>7, <2>1 DEF ColumnReached
<1>10. ColumnReached(D, mem, f[j + 1], j + 1, limit)
  BY <1>3, <1>6, <1>7, <1>8, <1>9 DEF ColumnReached, ZBuffers
<1>11. b["z"] \in Row /\ c["z"] \in Row /\ c["z"][j] = d /\ \A t \in 0..(j - 1) : c["z"][t] = b["z"][t]
  BY <1>1, <1>2, <1>7
<1>12. Value(c["z"], j + 1) = V + P * d
  <2>1. Value(c["z"], j) = V
    BY <1>1, <1>11, ValueCongruence
  <2>2. Value(c["z"], j + 1) = Value(c["z"], j) + P * c["z"][j]
    BY <1>1, <1>11, ValueSteps
  <2> QED BY <1>11, <2>1, <2>2
<1>13. V \in Int /\ P \in Nat /\ Pow(j + 1) = B * P
  BY <1>1, <1>11, ValueSteps, PowSteps
<1>14. (V + P * d) + (B * P) * q = (V + P * h) + P * a
  <2> HIDE DEF V, P, h, a
  <2>1. P * (d + B * q) = P * d + (B * P) * q
    BY <1>5, <1>13 DEF Word, Parameters
  <2>2. P * (h + a) = P * h + P * a
    BY <1>1, <1>2, <1>13
  <2>3. d + B * q = h + a
    BY <1>5 DEF v
  <2>4. P * d \in Int /\ (B * P) * q \in Int /\ P * h \in Int /\ P * a \in Int
    BY <1>1, <1>2, <1>5, <1>13 DEF Word, Parameters
  <2> QED BY <1>13, <2>1, <2>2, <2>3, <2>4
<1> QED BY <1>1, <1>3, <1>10, <1>12, <1>13, <1>14

\* The words left and what is left over are together the total of the columns.
LEMMA ColumnsLeft ==
  ASSUME Parameters, NEW D, NEW mem, NEW p, NEW f, NEW add, NEW total, NEW limit,
         Columns(D, mem, p, f, add, total, limit)
  PROVE  LET r == Left(mem, f[p].mem, "z", p)
         IN  r \in 0..(Pow(p) - 1) /\ f[p].high \in 0..limit /\ r + Pow(p) * f[p].high = total[p]
<1> DEFINE Reaches(j) == Value(f[j].mem["z"], j) + Pow(j) * f[j].high = total[j]
           T == { j \in 0..p : ColumnReached(D, mem, f[j], j, limit) /\ Reaches(j) }
<1>1. /\ p \in 0..MaxWords /\ p \in Nat /\ "z" \in D /\ mem \in [D -> Row] /\ limit \in Nat
      /\ total[0] = 0 /\ f[0] = [mem |-> mem, high |-> 0]
  BY DEF Columns, Parameters
<1>2. 0 \in T
  <2>1. ColumnReached(D, mem, f[0], 0, limit)
    BY <1>1 DEF ColumnReached, ZBuffers
  <2>2. Value(mem["z"], 0) = 0 /\ Pow(0) = 1
    <3>1. mem["z"] \in Row
      BY <1>1
    <3> QED BY <3>1, ValueSteps, PowSteps
  <2>3. Reaches(0)
    BY <1>1, <2>2
  <2> HIDE DEF Reaches
  <2> QED BY <1>1, <2>1, <2>3
<1>3. ASSUME NEW j \in 0..(p - 1), j \in T PROVE j + 1 \in T
  <2>1. j + 1 \in 0..p
    BY <1>1
  <2>2. ColumnReached(D, mem, f[j], j, limit) /\ Reaches(j)
    BY <1>3
  <2>3. ColumnReached(D, mem, f[j + 1], j + 1, limit) /\ Reaches(j + 1)
    BY <2>2, ColumnStep
  <2> HIDE DEF Reaches
  <2> QED BY <2>1, <2>3
<1>4. p \in T
  <2>1. 0..p \subseteq T
    <3> HIDE DEF T
    <3> QED BY <1>1, <1>2, <1>3, LoopInduction
  <2> QED BY <1>1, <2>1
<1> DEFINE c == f[p].mem
<1>5. c \in [D -> Row] /\ (\A t \in p..MaxWords : c["z"][t] = mem["z"][t]) /\ f[p].high \in 0..limit
  BY <1>4 DEF ColumnReached, ZBuffers
<1>6. Left(mem, c, "z", p) = Value(c["z"], p)
  BY <1>5 DEF Left
<1>7. Value(c["z"], p) \in 0..(Pow(p) - 1)
  <2>1. c["z"] \in Row /\ p \in 0..(MaxWords + 1)
    BY <1>1, <1>5 DEF Parameters
  <2> QED BY <2>1, ValueSteps
<1> QED BY <1>4, <1>5, <1>6, <1>7

\* The loop over the columns is a function, whatever a column adds up.
ColumnSums(D, mem, p, sum) ==
    /\ "z" \in D /\ mem \in [D -> Row] /\ p \in 0..MaxWords
    /\ sum \in [(0..(p - 1)) \X [mem : ZBuffers(D, mem), high : Nat] -> Nat]

ColumnLoop(D, mem, p, sum, f) ==
    /\ f \in [0..p -> [mem : ZBuffers(D, mem), high : Nat]]
    /\ f = [j \in 0..p |-> IF j = 0 THEN [mem |-> mem, high |-> 0]
                           ELSE ColumnStored(f[j - 1], j - 1, sum[<< j - 1, f[j - 1] >>])]

LEMMA ColumnsExist ==
  ASSUME Parameters, NEW D, NEW mem, NEW p, NEW sum, ColumnSums(D, mem, p, sum)
  PROVE  \E f : ColumnLoop(D, mem, p, sum, f)
<1>0. /\ "z" \in D /\ mem \in [D -> Row] /\ p \in 0..MaxWords
      /\ sum \in [(0..(p - 1)) \X [mem : ZBuffers(D, mem), high : Nat] -> Nat]
  BY DEF ColumnSums
<1> USE <1>0
<1> DEFINE S == [mem : ZBuffers(D, mem), high : Nat]
           e == [mem |-> mem, high |-> 0]
           G(s, j) == ColumnStored(s, j, sum[<< j, s >>])
           g == [j \in 0..(p - 1) |-> [s \in S |-> G(s, j)]]
<1>1. p \in Nat /\ e \in S
  BY DEF ZBuffers, Parameters
<1>2. ASSUME NEW j \in 0..(p - 1), NEW s \in S PROVE G(s, j) \in S
  <2> DEFINE v == sum[<< j, s >>]
  <2>1. v \in Nat /\ j \in 0..MaxWords /\ s.mem \in [D -> Row] /\ (\A n \in D \ {"z"} : s.mem[n] = mem[n])
    BY DEF ZBuffers, Parameters
  <2> HIDE DEF v
  <2> DEFINE d == v % B
             c == Store(s.mem, "z", j, d)
  <2>2. d \in Word /\ v \div B \in Nat
    BY <2>1, WordOf
  <2> HIDE DEF d
  <2>3. /\ c \in [D -> Row]
        /\ \A n \in D, t \in 0..MaxWords : c[n][t] = IF n = "z" /\ t = j THEN d ELSE s.mem[n][t]
    BY <2>1, <2>2, StoredWord
  <2> HIDE DEF c
  <2>4. \A n \in D \ {"z"} : c[n] = mem[n]
    <3> SUFFICES ASSUME NEW n \in D \ {"z"} PROVE c[n] = mem[n]
      OBVIOUS
    <3>1. c[n] = s.mem[n]
      <4> DEFINE u == c[n]
                 w == s.mem[n]
      <4>1. u \in Row /\ w \in Row
        BY <2>1, <2>3
      <4>2. \A t \in 0..MaxWords : u[t] = w[t]
        BY <2>3
      <4> HIDE DEF u, w
      <4>3. u = w
        BY <4>1, <4>2, SameRow
      <4> QED BY <4>3 DEF u, w
    <3> QED BY <2>1, <3>1
  <2>5. G(s, j) = [mem |-> c, high |-> v \div B]
    BY DEF ColumnStored, c, d, v
  <2>6. c \in ZBuffers(D, mem)
    BY <2>3, <2>4 DEF ZBuffers
  <2> QED BY <2>2, <2>5, <2>6
<1>3. g \in [0..(p - 1) -> [S -> S]]
  <2> HIDE DEF G, S
  <2> QED BY <1>2
<1>4. PICK r : Recursive(r, p, S, e, g)
  <2> HIDE DEF g, e, S
  <2> QED BY <1>1, <1>3, LoopExists, Zenon
<1> HIDE DEF S
<1>5. r \in [0..p -> S] /\ r = [j \in 0..p |-> IF j = 0 THEN e ELSE g[j - 1][r[j - 1]]]
  BY <1>4 DEF Recursive
<1>6. ASSUME NEW j \in 0..p, j # 0 PROVE g[j - 1][r[j - 1]] = G(r[j - 1], j - 1)
  <2>1. j - 1 \in 0..(p - 1) /\ j - 1 \in 0..p
    BY <1>1, <1>6
  <2>2. r[j - 1] \in S
    <3> HIDE DEF g, e
    <3> QED BY <1>5, <2>1
  <2> HIDE DEF G
  <2> QED BY <2>1, <2>2
<1>7. r = [j \in 0..p |-> IF j = 0 THEN e ELSE G(r[j - 1], j - 1)]
  <2> HIDE DEF G, g, e
  <2> QED BY <1>5, <1>6
<1>8. ColumnLoop(D, mem, p, sum, r)
  BY <1>5, <1>7 DEF S, ColumnLoop
<1> QED BY <1>8

\* The words of a number, as they are read from a buffer
LEMMA WordsAreSources ==
  ASSUME Parameters, NEW m \in 0..MaxWords, NEW x \in Numbers(m), NEW n \in 0..MaxWords, NEW y \in Numbers(n)
  PROVE  Sources(Words(x, m), Words(y, n), x, m, y, n)
<1>1. ASSUME NEW k \in 0..MaxWords, NEW v PROVE \A q \in 0..(k - 1) : Words(v, k)[q] = Dig(v, q)
  <2> SUFFICES ASSUME NEW q \in 0..(k - 1) PROVE Words(v, k)[q] = Dig(v, q)
    OBVIOUS
  <2>1. q \in 0..MaxWords /\ q < k
    BY DEF Parameters
  <2> QED BY <2>1, FactsPow DEF Words, Dig, Facts!DigitOf, Parameters
<1> QED BY <1>1 DEF Sources

\* What a column of words below B makes of what it starts with, if no more than B
\* terms reach it
LEMMA ColumnFits ==
  ASSUME Parameters, NEW m \in 0..MaxWords, m <= B, NEW x \in Numbers(m), NEW y \in Nat, NEW j \in Nat,
         NEW high \in 0..(m * (B - 1)), NEW w \in Word
  PROVE  LET limit == m * (B - 1)
             column == Total(Products(x, y, j), j + 1)
         IN  /\ limit \in Nat /\ column \in Nat /\ column <= m * ((B - 1) * (B - 1))
             /\ limit + (w + column) < B * (limit + 1)
             /\ (high + w) + column < Room
<1> DEFINE b == B - 1
           limit == m * b
           column == Total(Products(x, y, j), j + 1)
<1>1. b \in Nat /\ B = b + 1 /\ m \in Nat /\ w \in 0..b
  BY DEF Word, Parameters
<1>2. column \in 0..(m * (b * b))
  BY ColumnBound
<1> HIDE DEF b, column
<1>3. limit \in Nat /\ high \in 0..limit
  <2>1. limit \in Nat
    BY <1>1
  <2> QED BY <2>1 DEF b
<1>4. m * (b * b) = limit * b
  BY <1>1
<1>5. B * (limit + 1) = limit * b + limit + b + 1
  <2> HIDE DEF limit
  <2> QED BY <1>1, <1>3
<1>6. limit * b \in Nat
  <2> HIDE DEF limit
  <2> QED BY <1>1, <1>3
<1>7. column \in Nat /\ column <= limit * b
  BY <1>2, <1>4, <1>6
<1>8. limit + (w + column) < B * (limit + 1)
  <2> HIDE DEF limit
  <2> QED BY <1>1, <1>3, <1>5, <1>6, <1>7
<1>9. B * (limit + 1) <= Room
  <2>1. limit + 1 <= B * b + 1
    <3>1. m * b <= B * b
      BY <1>1 DEF Parameters
    <3> QED BY <1>1, <1>3, <3>1 DEF Parameters
  <2>2. B * b + 1 <= B * B
    <3>1. B * B = B * b + B /\ B * b \in Nat
      BY <1>1
    <3> QED BY <1>1, <3>1
  <2>3. limit + 1 <= B * B /\ B * B \in Nat /\ B \in Nat
    <3>1. B * b + 1 \in Nat /\ B * B \in Nat
      BY <1>1
    <3> HIDE DEF limit
    <3> QED BY <1>1, <1>3, <2>1, <2>2, <3>1 DEF Parameters
  <2> DEFINE a == limit + 1
             c == B * B
  <2>4. a \in Nat /\ a <= c /\ c \in Nat
    BY <1>3, <2>3
  <2> HIDE DEF a, c
  <2>5. B * a <= B * c
    BY <2>3, <2>4
  <2>6. B * c = Room
    BY <2>3 DEF c, Room
  <2> QED BY <2>5, <2>6 DEF a
<1>10. (high + w) + column < Room
  <2>1. B * (limit + 1) \in Nat /\ Room \in Nat
    <3>1. Room \in Nat
      BY DEF Room, Parameters
    <3> HIDE DEF limit
    <3> QED BY <1>1, <1>3, <3>1
  <2> HIDE DEF limit
  <2>2. (high + w) + column <= limit + (w + column)
    BY <1>1, <1>3, <1>7
  <2> QED BY <1>1, <1>3, <1>7, <1>8, <1>9, <2>1, <2>2
<1> QED BY <1>3, <1>4, <1>7, <1>8, <1>10 DEF b, column

\* What madd adds up in a column, and its loop over the columns
MaddColumn(s, j, m, n) ==
    Column(s.mem["x"], s.mem["y"], j, Larger(0, j + 1 - n), Smaller(j + 1, m), s.high + s.mem["z"][j])
MaddBuffers(p, m, n, x, y, z) == [x |-> Words(x, m), y |-> Words(y, n), z |-> Words(z, p)]
MaddLoop(f, p, m, n, mem) ==
    f = [j \in 0..p |-> IF j = 0 THEN [mem |-> mem, high |-> 0]
                        ELSE ColumnStored(f[j - 1], j - 1, MaddColumn(f[j - 1], j - 1, m, n))]

MaddNames == { "x", "y", "z" }

\* Of buffers where only z has been written, a column makes a number, and that
\* of its products if they leave it room.
LEMMA MaddColumnIs ==
  ASSUME Parameters, NEW p \in 0..MaxWords, NEW m \in 0..MaxWords, NEW n \in 0..MaxWords,
         NEW x \in Numbers(m), NEW y \in Numbers(n), NEW z \in Numbers(p), NEW j \in 0..(p - 1),
         NEW b \in ZBuffers(MaddNames, MaddBuffers(p, m, n, x, y, z)), NEW high \in Nat
  PROVE  LET v == MaddColumn([mem |-> b, high |-> high], j, m, n)
             sum == (high + b["z"][j]) + Total(Products(x, y, j), j + 1)
         IN  v \in Nat /\ (sum < Room => v = sum)
<1> DEFINE mem == MaddBuffers(p, m, n, x, y, z)
           start == high + b["z"][j]
           xw == Words(x, m)
           yw == Words(y, n)
           v == Column(xw, yw, j, Larger(0, j + 1 - n), Smaller(j + 1, m), start)
<1>1. b["x"] = xw /\ b["y"] = yw /\ b["z"] \in Row
  BY DEF ZBuffers, MaddBuffers, MaddNames
<1>2. j \in Nat /\ j \in 0..MaxWords /\ j + 1 \in 0..(j + 1)
  BY DEF Parameters
<1>3. start \in Nat
  <2> DEFINE w == b["z"]
  <2>1. w \in Row
    BY <1>1
  <2> HIDE DEF w
  <2>2. w[j] \in Word
    BY <1>2, <2>1 DEF Row
  <2> QED BY <2>2 DEF w, Word
<1>4. MaddColumn([mem |-> b, high |-> high], j, m, n) = v
  BY <1>1 DEF MaddColumn
<1>5. ColumnOf(xw, yw, x, m, y, n, j, j + 1, start)
  <2>1. Sources(xw, yw, x, m, y, n)
    BY WordsAreSources
  <2> QED BY <1>2, <1>3, <2>1 DEF ColumnOf
<1> HIDE DEF start, xw, yw
<1>6. v \in Nat /\ (start + Total(Products(x, y, j), j + 1) < Room => v = start + Total(Products(x, y, j), j + 1))
  BY <1>5, ColumnIs
<1> HIDE DEF v
<1> QED BY <1>4, <1>6 DEF start

\* The loop of madd is a function.
LEMMA MaddLoopExists ==
  ASSUME Parameters, NEW p \in 0..MaxWords, NEW m \in 0..MaxWords, NEW n \in 0..MaxWords,
         NEW x \in Numbers(m), NEW y \in Numbers(n), NEW z \in Numbers(p)
  PROVE  \E f : MaddLoop(f, p, m, n, MaddBuffers(p, m, n, x, y, z))
<1> DEFINE D == MaddNames
           mem == MaddBuffers(p, m, n, x, y, z)
           S == [mem : ZBuffers(D, mem), high : Nat]
           sum == [t \in (0..(p - 1)) \X S |-> MaddColumn(t[2], t[1], m, n)]
<1>1. mem \in [D -> Row] /\ "z" \in D
  <2>1. Words(x, m) \in Row /\ Words(y, n) \in Row /\ Words(z, p) \in Row
    BY WordsValue
  <2> QED BY <2>1 DEF MaddBuffers, MaddNames
<1>2. ASSUME NEW j \in 0..(p - 1), NEW s \in S PROVE MaddColumn(s, j, m, n) \in Nat
  <2> DEFINE b == s.mem
             h == s.high
  <2>1. b \in ZBuffers(D, mem) /\ h \in Nat /\ s = [mem |-> b, high |-> h]
    OBVIOUS
  <2> HIDE DEF b, h
  <2>2. MaddColumn([mem |-> b, high |-> h], j, m, n) \in Nat
    BY <2>1, MaddColumnIs
  <2> QED BY <2>1, <2>2
<1>3. ColumnSums(D, mem, p, sum)
  <2>1. sum \in [(0..(p - 1)) \X S -> Nat]
    <3> HIDE DEF S
    <3> QED BY <1>2
  <2> HIDE DEF mem, sum, D
  <2> QED BY <1>1, <2>1 DEF ColumnSums
<1> HIDE DEF mem, sum, D
<1>4. PICK f : ColumnLoop(D, mem, p, sum, f)
  BY <1>3, ColumnsExist
<1>a. /\ f \in [0..p -> S]
      /\ f = [j \in 0..p |-> IF j = 0 THEN [mem |-> mem, high |-> 0]
                             ELSE ColumnStored(f[j - 1], j - 1, sum[<< j - 1, f[j - 1] >>])]
  BY <1>4 DEF ColumnLoop
<1> HIDE DEF S
<1>5. ASSUME NEW j \in 0..p, j # 0
      PROVE  sum[<< j - 1, f[j - 1] >>] = MaddColumn(f[j - 1], j - 1, m, n)
  <2>1. j - 1 \in 0..(p - 1) /\ j - 1 \in 0..p
    BY <1>5 DEF Parameters
  <2>2. f[j - 1] \in S
    BY <1>a, <2>1
  <2> QED BY <2>1, <2>2 DEF sum
<1>6. f = [j \in 0..p |-> IF j = 0 THEN [mem |-> mem, high |-> 0]
                          ELSE ColumnStored(f[j - 1], j - 1, MaddColumn(f[j - 1], j - 1, m, n))]
  BY <1>a, <1>5
<1>7. MaddLoop(f, p, m, n, mem)
  BY <1>6 DEF MaddLoop
<1> QED BY <1>7 DEF mem

\* The parts of a product that the columns below p make up, and what z has held
MaddRun(f, p, m, n, x, y, z) ==
    /\ p \in 0..MaxWords /\ m \in 0..MaxWords /\ m <= B /\ n \in 0..MaxWords
    /\ x \in Numbers(m) /\ y \in Numbers(n) /\ z \in Numbers(p)
    /\ MaddLoop(f, p, m, n, MaddBuffers(p, m, n, x, y, z))

LEMMA MaddLeft ==
  ASSUME Parameters, NEW f, NEW p, NEW m, NEW n, NEW x, NEW y, NEW z, MaddRun(f, p, m, n, x, y, z)
  PROVE  LET r == Left(MaddBuffers(p, m, n, x, y, z), f[p].mem, "z", p)
         IN  r \in 0..(Pow(p) - 1) /\ f[p].high \in Nat /\ r + Pow(p) * f[p].high = z + Below(x, y, p)
<1>0. /\ p \in 0..MaxWords /\ m \in 0..MaxWords /\ m <= B /\ n \in 0..MaxWords
      /\ x \in Numbers(m) /\ y \in Numbers(n) /\ z \in Numbers(p)
      /\ MaddLoop(f, p, m, n, MaddBuffers(p, m, n, x, y, z))
  BY DEF MaddRun
<1> USE <1>0
<1> DEFINE D == MaddNames
           mem == MaddBuffers(p, m, n, x, y, z)
           w == Words(z, p)
           col(j) == Total(Products(x, y, j), j + 1)
           add == [j \in Nat |-> IF j < p THEN w[j] + col(j) ELSE 0]
           total == [j \in Nat |-> IF j <= p THEN Value(w, j) + Below(x, y, j) ELSE 0]
           limit == m * (B - 1)
<1>1. mem \in [D -> Row] /\ "z" \in D /\ mem["z"] = w /\ w \in Row /\ Value(w, p) = z
  <2>1. Words(x, m) \in Row /\ Words(y, n) \in Row /\ Words(z, p) \in Row /\ Value(Words(z, p), p) = z
    BY WordsValue
  <2> QED BY <2>1 DEF MaddBuffers, MaddNames
<1>2. x \in Nat /\ y \in Nat /\ p \in Nat /\ MaxWords \in Nat
  BY DEF Numbers, Parameters
<1>3. limit \in Nat
  BY DEF Parameters
<1> HIDE DEF w
<1>4. \A j \in 0..(p - 1) : w[j] \in Word /\ w[j] \in Nat
  BY <1>1, <1>2 DEF Row, Word
<1>5. \A j \in Nat : col(j) \in Nat
  <2> SUFFICES ASSUME NEW j \in Nat PROVE col(j) \in Nat
    OBVIOUS
  <2> DEFINE g == Products(x, y, j)
  <2>1. g \in [Nat -> Nat]
    BY <1>2, ProductTypes
  <2>2. j + 1 \in Nat
    OBVIOUS
  <2> HIDE DEF g
  <2>3. Total(g, j + 1) \in Nat
    BY <2>1, <2>2, TotalSteps
  <2> QED BY <2>3 DEF g
<1>6. \A j \in 0..p : Value(w, j) \in Nat /\ Below(x, y, j) \in Nat
  <2> SUFFICES ASSUME NEW j \in 0..p PROVE Value(w, j) \in Nat /\ Below(x, y, j) \in Nat
    OBVIOUS
  <2>1. j \in 0..(MaxWords + 1) /\ j \in Nat
    BY <1>2
  <2>2. Value(w, j) \in 0..(Pow(j) - 1)
    BY <1>1, <2>1, ValueSteps
  <2>3. Below(x, y, j) \in Nat
    BY <1>2, <2>1, ProductSplit
  <2> QED BY <2>2, <2>3
<1>7. add \in [Nat -> Nat] /\ \A j \in 0..(p - 1) : add[j] = w[j] + col(j)
  <2> HIDE DEF col
  <2>1. ASSUME NEW j \in Nat PROVE (IF j < p THEN w[j] + col(j) ELSE 0) \in Nat
    BY <1>2, <1>4, <1>5
  <2> QED BY <1>2, <2>1
<1>8. total \in [Nat -> Nat] /\ \A j \in 0..p : total[j] = Value(w, j) + Below(x, y, j)
  <2>1. ASSUME NEW j \in Nat PROVE (IF j <= p THEN Value(w, j) + Below(x, y, j) ELSE 0) \in Nat
    BY <1>2, <1>6
  <2> QED BY <1>2, <2>1
<1> HIDE DEF add, total
<1>9. total[0] = 0
  <2>1. Value(w, 0) = 0
    BY <1>1, ValueSteps
  <2>2. Below(x, y, 0) = 0
    <3>1. 0 \in Nat
      OBVIOUS
    <3>2. Parts(x, y, 0) \in [Nat -> Nat]
      BY <1>2, <3>1, ProductTypes
    <3> QED BY <3>2, TotalSteps DEF Below, Facts!Below, Total, Parts
  <2> QED BY <1>2, <1>8, <2>1, <2>2
<1>10. ASSUME NEW j \in 0..(p - 1)
       PROVE  total[j + 1] = total[j] + Pow(j) * add[j] /\ limit + add[j] < B * (limit + 1)
  <2>1. j \in Nat /\ j \in 0..MaxWords /\ j \in 0..p /\ j + 1 \in 0..p
    BY <1>2
  <2>2. Value(w, j + 1) = Value(w, j) + Pow(j) * w[j]
    BY <1>1, <2>1, ValueSteps
  <2>3. Below(x, y, j + 1) = Below(x, y, j) + Pow(j) * col(j)
    BY <1>2, <2>1, ColumnAdds
  <2>4. Pow(j) \in Nat
    BY <2>1, PowSteps
  <2>5. w[j] \in Word /\ w[j] \in Nat /\ col(j) \in Nat /\ add[j] = w[j] + col(j)
    BY <1>4, <1>5, <1>7, <2>1
  <2>6. limit + (w[j] + col(j)) < B * (limit + 1)
    <3>1. 0 \in 0..limit
      BY <1>3
    <3> QED BY <1>2, <2>1, <2>5, <3>1, ColumnFits
  <2> DEFINE P == Pow(j)
             a == w[j]
             b == col(j)
             U == Value(w, j)
             V == Below(x, y, j)
  <2>7. U \in Nat /\ V \in Nat /\ total[j] = U + V /\ total[j + 1] = (U + P * a) + (V + P * b)
    BY <1>6, <1>8, <2>1, <2>2, <2>3
  <2> HIDE DEF P, a, b, U, V
  <2>8. P \in Nat /\ a \in Nat /\ b \in Nat
    BY <2>4, <2>5 DEF P, a, b
  <2>9. P * (a + b) = P * a + P * b /\ P * a \in Nat /\ P * b \in Nat
    BY <2>8
  <2>10. total[j + 1] = total[j] + P * (a + b)
    BY <2>7, <2>9
  <2> QED BY <2>5, <2>6, <2>10 DEF P, a, b
<1>11. f[0] = [mem |-> mem, high |-> 0]
  BY <1>2 DEF MaddLoop
<1>12. ASSUME NEW j \in 0..(p - 1), ColumnReached(D, mem, f[j], j, limit)
       PROVE  f[j + 1] = ColumnStored(f[j], j, f[j].high + add[j])
  <2> DEFINE b == f[j].mem
             h == f[j].high
             s == [mem |-> b, high |-> h]
  <2>1. j + 1 \in 0..p /\ j + 1 # 0 /\ (j + 1) - 1 = j /\ j \in Nat /\ j \in j..MaxWords
    BY <1>2
  <2>2. f[j + 1] = ColumnStored(f[j], j, MaddColumn(f[j], j, m, n))
    BY <2>1 DEF MaddLoop
  <2>3. MaddColumn(f[j], j, m, n) = MaddColumn(s, j, m, n)
    BY DEF MaddColumn
  <2>4. b \in ZBuffers(D, mem) /\ h \in 0..limit /\ b["z"][j] = w[j]
    BY <1>1, <1>12, <2>1 DEF ColumnReached
  <2> HIDE DEF b, h, mem
  <2>5. h \in Nat
    BY <1>3, <2>4
  <2>6. w[j] \in Word /\ w[j] \in Nat /\ col(j) \in Nat /\ add[j] = w[j] + col(j)
    BY <1>4, <1>5, <1>7, <2>1
  <2>7. (h + w[j]) + col(j) < Room
    BY <1>2, <2>1, <2>4, <2>6, ColumnFits
  <2>8. MaddColumn(s, j, m, n) = (h + w[j]) + col(j)
    <3>1. (h + b["z"][j]) + Total(Products(x, y, j), j + 1) < Room
          => MaddColumn([mem |-> b, high |-> h], j, m, n)
             = (h + b["z"][j]) + Total(Products(x, y, j), j + 1)
      BY <2>4, <2>5, MaddColumnIs DEF mem
    <3> QED BY <2>4, <2>7, <3>1
  <2> HIDE DEF col
  <2>9. (h + w[j]) + col(j) = h + add[j]
    BY <2>5, <2>6
  <2> QED BY <2>2, <2>3, <2>8, <2>9 DEF h
<1>13. Columns(D, mem, p, f, add, total, limit)
  <2> HIDE DEF mem, D, limit
  <2> QED BY <1>1, <1>3, <1>7, <1>8, <1>9, <1>10, <1>11, <1>12 DEF Columns
<1>14. total[p] = z + Below(x, y, p)
  BY <1>1, <1>2, <1>8
<1> DEFINE r == Left(mem, f[p].mem, "z", p)
<1>15. r \in 0..(Pow(p) - 1) /\ f[p].high \in 0..limit /\ r + Pow(p) * f[p].high = total[p]
  <2> HIDE DEF mem, D, limit
  <2> QED BY <1>13, ColumnsLeft
<1>16. f[p].high \in Nat
  <2> HIDE DEF limit
  <2> QED BY <1>3, <1>15
<1> QED BY <1>14, <1>15, <1>16

\* The product of two numbers has no more words than they have together.
LEMMA ProductBound ==
  ASSUME Parameters, NEW m \in 0..MaxWords, NEW x \in Numbers(m), NEW n \in 0..MaxWords, NEW y \in Numbers(n)
  PROVE  x * y \in Nat /\ x * y < Pow(m + n)
<1> DEFINE P == Pow(m)
           Q == Pow(n)
<1>1. m \in Nat /\ n \in Nat /\ P \in Nat \ {0} /\ Q \in Nat \ {0} /\ Pow(m + n) = P * Q
  BY PowSteps, PowsAdd DEF Parameters
<1>2. x \in 0..(P - 1) /\ y \in 0..(Q - 1)
  BY DEF Numbers
<1> HIDE DEF P, Q
<1>3. x * y <= (P - 1) * (Q - 1) /\ x * y \in Nat
  <2>1. x * y <= x * (Q - 1) /\ x * (Q - 1) <= (P - 1) * (Q - 1) /\ x * (Q - 1) \in Int
    BY <1>1, <1>2
  <2>2. (P - 1) * (Q - 1) \in Int /\ x * y \in Nat
    BY <1>1, <1>2
  <2> QED BY <2>1, <2>2
<1>4. (P - 1) * (Q - 1) = P * Q - P - Q + 1 /\ P * Q \in Int
  BY <1>1
<1> QED BY <1>1, <1>3, <1>4

LEMMA MaddPromise == Parameters /\ SmallWords \in 0..MaxWords /\ SmallWords <= B /\ Madd => Contract!Madd'
<1> SUFFICES ASSUME Parameters, SmallWords \in 0..MaxWords, SmallWords <= B, Madd PROVE Contract!Madd'
  OBVIOUS
<1> DEFINE Returns(p, m, n, x, y, z) ==
             LET mem == MaddBuffers(p, m, n, x, y, z)
                 s == (CHOOSE g : MaddLoop(g, p, m, n, mem))[p]
             IN  Call("madd", << p, z, y, x, m + n >>, << Left(mem, s.mem, "z", p), s.high % B >>)
<1>1. PICK p \in 0..SmallWords, m \in 0..SmallWords, n \in 0..SmallWords :
        \E x \in Numbers(m), y \in Numbers(n), z \in Numbers(p) : Returns(p, m, n, x, y, z)
  BY DEF Madd, Up, MaddLoop, MaddBuffers, MaddColumn, ColumnStored
<1>2. PICK x \in Numbers(m), y \in Numbers(n), z \in Numbers(p) : Returns(p, m, n, x, y, z)
  BY <1>1
<1> DEFINE mem == MaddBuffers(p, m, n, x, y, z)
           f == CHOOSE g : MaddLoop(g, p, m, n, mem)
           s == f[p]
           r == Left(mem, s.mem, "z", p)
           h == s.high
           P == Pow(p)
<1>3. Call("madd", << p, z, y, x, m + n >>, << r, h % B >>)
  BY <1>2
<1>4. p \in 0..MaxWords /\ m \in 0..MaxWords /\ n \in 0..MaxWords /\ m <= B
  BY DEF Parameters
<1> HIDE DEF f, Returns
<1>5. MaddLoop(f, p, m, n, mem)
  <2>1. \E g : MaddLoop(g, p, m, n, mem)
    BY <1>4, MaddLoopExists
  <2> HIDE DEF mem
  <2> QED BY <2>1 DEF f
<1>6. r \in 0..(P - 1) /\ h \in Nat /\ r + P * h = z + Below(x, y, p)
  <2>1. MaddRun(f, p, m, n, x, y, z)
    BY <1>4, <1>5 DEF MaddRun
  <2> QED BY <2>1, MaddLeft
<1> HIDE DEF r, h, P
<1>7. P \in Nat \ {0} /\ z \in 0..(P - 1) /\ x \in Nat /\ y \in Nat /\ p \in Nat /\ m \in Nat /\ n \in Nat
  BY <1>4, PowPositive DEF Numbers, Parameters, P
<1>8. Below(x, y, p) \in Nat /\ \E k \in Nat : x * y = Below(x, y, p) + P * k
  <2>1. x \in Nat /\ y \in Nat /\ p \in Nat
    BY <1>7
  <2>2. Below(x, y, p) \in Nat /\ \E k \in Nat : x * y = Below(x, y, p) + Pow(p) * k
    BY <2>1, ProductSplit
  <2> QED BY <2>2 DEF P
<1>9. PICK k \in Nat : x * y = Below(x, y, p) + P * k
  BY <1>8
<1>10. x * y \in Nat /\ x * y < Pow(m + n)
  BY <1>4, ProductBound
<1>11. r = (z + x * y) % P /\ (x * y < P => r + P * (h % B) = z + x * y)
  <2> DEFINE v == x * y
             w == Below(x, y, p)
  <2>1. v \in Nat /\ w \in Nat /\ r + P * h = z + w /\ v = w + P * k
    BY <1>6, <1>8, <1>9, <1>10
  <2> HIDE DEF v, w
  <2>2. r = (z + v) % P /\ (v < P => r + P * (h % B) = z + v)
    <3>1. Facts!CutOff(P, r, h, z, v, w, k)
      BY <1>6, <1>7, <2>1 DEF Facts!CutOff
    <3> QED BY <3>1, FactsAssumptions, Facts!ProductAndRest
  <2> QED BY <2>2 DEF v
<1>12. m + n <= p => x * y < P
  <2> SUFFICES ASSUME m + n <= p PROVE x * y < P
    OBVIOUS
  <2>1. m + n \in 0..p
    BY <1>7
  <2>2. Pow(m + n) <= P
    BY <1>7, <2>1, PowGrows DEF P
  <2>3. m + n \in Nat
    BY <1>7
  <2> DEFINE t == m + n
  <2> HIDE DEF t
  <2>4. Pow(t) \in Nat
    BY <2>3, PowSteps DEF t
  <2> QED BY <1>7, <1>10, <2>2, <2>4 DEF t
<1>13. y * x = x * y
  BY <1>7
<1> QED BY <1>3, <1>11, <1>12, <1>13, ContractPow DEF Call, Contract!Madd, Contract!Is, Contract!result,
      Contract!carry, Contract!x, Contract!y, Contract!k, Contract!R, P

\* A column of a square: what occurs twice, and the square in the middle
LEMMA SquareColumn ==
  ASSUME Parameters, NEW x \in Nat, NEW j \in Nat
  PROVE  LET h == (j + 1) \div 2
             f == Products(x, x, j)
         IN  /\ h \in 0..(j + 1)
             /\ j % 2 = 0 => j = 2 * h /\ Total(f, j + 1) = 2 * Total(f, h) + Dig(x, h) * Dig(x, h)
             /\ j % 2 # 0 => Total(f, j + 1) = 2 * Total(f, h)
BY FactsAssumptions, Facts!SquareColumn DEF Total, Products, Dig

\* What sqr adds up in a column
SqrColumn(s, j, n) ==
    LET bottom == Larger(0, j + 1 - n)
        top == Smaller((j + 1) \div 2, n)
        middle == Larger(bottom, top)
        square == IF j % 2 = 0 /\ middle < n THEN s.mem["x"][middle] * s.mem["x"][middle] ELSE 0
        doubled == (2 * Column(s.mem["x"], s.mem["x"], j, bottom, top, 0)) % (B * B * B)
    IN  (doubled + s.high + square) % (B * B * B)
SqrLoop(f, p, n, mem) ==
    f = [j \in 0..p |-> IF j = 0 THEN [mem |-> mem, high |-> 0]
                        ELSE ColumnStored(f[j - 1], j - 1, SqrColumn(f[j - 1], j - 1, n))]

\* A column of a square is that of the product of a number with itself.
LEMMA SqrColumnIs ==
  ASSUME Parameters, NEW p \in 0..MaxWords, NEW n \in 0..MaxWords, NEW x \in Numbers(n), NEW j \in 0..(p - 1),
         NEW b \in ZBuffers(PairNames, Pair(n, x, p, 0)), NEW high \in Nat
  PROVE  LET v == SqrColumn([mem |-> b, high |-> high], j, n)
             sum == high + Total(Products(x, x, j), j + 1)
         IN  v \in Nat /\ (sum < Room => v = sum)
<1> DEFINE xw == Words(x, n)
           f == Products(x, x, j)
           h == (j + 1) \div 2
           bottom == Larger(0, j + 1 - n)
           top == Smaller(h, n)
           middle == Larger(bottom, top)
           square == IF j % 2 = 0 /\ middle < n THEN xw[middle] * xw[middle] ELSE 0
           half == Column(xw, xw, j, bottom, top, 0)
           doubled == (2 * half) % Room
           v == (doubled + high + square) % Room
           sum == high + Total(f, j + 1)
<1>1. b["x"] = xw
  BY DEF ZBuffers, Pair, PairNames
<1>2. SqrColumn([mem |-> b, high |-> high], j, n) = v
  BY <1>1 DEF SqrColumn, Room
<1>3. j \in Nat /\ n \in Nat /\ x \in Nat /\ Room \in Nat \ {0}
  BY DEF Numbers, Parameters, Room
<1>4. /\ h \in 0..(j + 1) /\ h \in Nat
      /\ j % 2 = 0 => j = 2 * h /\ Total(f, j + 1) = 2 * Total(f, h) + Dig(x, h) * Dig(x, h)
      /\ j % 2 # 0 => Total(f, j + 1) = 2 * Total(f, h)
  <2>1. h \in Nat
    BY <1>3
  <2> HIDE DEF h
  <2> QED BY <1>3, <2>1, SquareColumn DEF h
<1>5. ColumnOf(xw, xw, x, n, x, n, j, h, 0)
  <2>1. Sources(xw, xw, x, n, x, n)
    BY WordsAreSources
  <2> QED BY <1>3, <1>4, <2>1 DEF ColumnOf
<1>6. half \in Nat /\ (0 + Total(f, h) < Room => half = 0 + Total(f, h))
  <2> HIDE DEF xw, h
  <2> QED BY <1>5, ColumnIs
<1>7. Total(f, h) \in Nat /\ Total(f, j + 1) \in Nat
  <2>1. f \in [Nat -> Nat]
    BY <1>3, ProductTypes
  <2>2. j + 1 \in Nat
    BY <1>3
  <2> HIDE DEF f, h
  <2>3. Total(f, h) \in Nat
    BY <1>4, <2>1, TotalSteps
  <2>4. Total(f, j + 1) \in Nat
    BY <2>1, <2>2, TotalSteps
  <2> QED BY <2>3, <2>4
<1>8. square = IF j % 2 = 0 THEN Dig(x, h) * Dig(x, h) ELSE 0
  <2> HIDE DEF h
  <2>1. CASE j % 2 # 0
    BY <2>1
  <2>2. CASE j % 2 = 0 /\ h < n
    <3>1. middle = h
      BY <1>3, <1>4, <2>2 DEF Larger, Smaller
    <3>2. xw[h] = Dig(x, h)
      <4> HIDE DEF xw
      <4> QED BY <1>3, <1>4, <1>5, <2>2 DEF ColumnOf, Sources
    <3> QED BY <2>2, <3>1, <3>2
  <2>3. CASE j % 2 = 0 /\ ~(h < n)
    <3>1. ~(middle < n)
      BY <1>3, <1>4, <2>3 DEF Larger, Smaller
    <3>2. Dig(x, h) = 0
      BY <1>3, <1>4, <2>3, DigitIs, DigSteps
    <3> QED BY <2>3, <3>1, <3>2
  <2> QED BY <2>1, <2>2, <2>3
<1>9. Dig(x, h) \in Nat
  <2> HIDE DEF h
  <2> QED BY <1>3, <1>4, DigSteps
<1> DEFINE d == Dig(x, h)
           t == Total(f, h)
           u == Total(f, j + 1)
<1>10. /\ t \in Nat /\ u \in Nat /\ square \in Nat /\ u = 2 * t + square
       /\ half \in Nat /\ (0 + t < Room => half = 0 + t)
  <2>1. d * d \in Nat
    <3> HIDE DEF d
    <3> QED BY <1>9 DEF d
  <2> HIDE DEF f, h, square, half
  <2> QED BY <1>4, <1>6, <1>7, <1>8, <2>1
<1> HIDE DEF square, half, t, u
<1>11. doubled \in Nat /\ v \in Nat
  <2>1. doubled \in Nat
    BY <1>3, <1>10
  <2> HIDE DEF doubled
  <2>2. doubled + high + square \in Nat
    BY <1>10, <2>1
  <2> DEFINE a == doubled + high + square
  <2> HIDE DEF a
  <2>3. a \in Nat /\ a % Room \in Nat
    BY <1>3, <2>2 DEF a
  <2> QED BY <2>1, <2>3 DEF a
<1>12. ASSUME high + u < Room PROVE v = high + u
  <2>1. half = t /\ 2 * half \in 0..(Room - 1)
    BY <1>3, <1>10, <1>12
  <2>2. doubled = 2 * half
    <3> DEFINE a == 2 * half
    <3> HIDE DEF a
    <3>1. a \in 0..(Room - 1)
      BY <2>1 DEF a
    <3>2. a % Room = a
      BY <1>3, <3>1
    <3> QED BY <3>2 DEF a
  <2> HIDE DEF doubled
  <2> DEFINE a == doubled + high + square
  <2>3. a = high + u
    BY <1>10, <2>1, <2>2
  <2> HIDE DEF a
  <2>4. a \in 0..(Room - 1)
    BY <1>3, <1>10, <1>12, <2>3
  <2>5. a % Room = a
    BY <1>3, <2>4
  <2> QED BY <2>3, <2>5 DEF a
<1> HIDE DEF v
<1> QED BY <1>2, <1>11, <1>12 DEF u, f

\* The loop of sqr is a function.
LEMMA SqrLoopExists ==
  ASSUME Parameters, NEW p \in 0..MaxWords, NEW n \in 0..MaxWords, NEW x \in Numbers(n)
  PROVE  \E f : SqrLoop(f, p, n, Pair(n, x, p, 0))
<1> DEFINE D == PairNames
           mem == Pair(n, x, p, 0)
           S == [mem : ZBuffers(D, mem), high : Nat]
           sum == [t \in (0..(p - 1)) \X S |-> SqrColumn(t[2], t[1], n)]
<1>1. mem \in [D -> Row] /\ "z" \in D
  <2>1. Words(x, n) \in Row /\ Words(0, p) \in Row
    BY WordsValue, PowPositive
  <2> QED BY <2>1 DEF Pair, PairNames
<1>2. ASSUME NEW j \in 0..(p - 1), NEW s \in S PROVE SqrColumn(s, j, n) \in Nat
  <2> DEFINE b == s.mem
             h == s.high
  <2>1. b \in ZBuffers(D, mem) /\ h \in Nat /\ s = [mem |-> b, high |-> h]
    OBVIOUS
  <2> HIDE DEF b, h
  <2>2. SqrColumn([mem |-> b, high |-> h], j, n) \in Nat
    BY <2>1, SqrColumnIs
  <2> QED BY <2>1, <2>2
<1>3. ColumnSums(D, mem, p, sum)
  <2>1. sum \in [(0..(p - 1)) \X S -> Nat]
    <3> HIDE DEF S
    <3> QED BY <1>2
  <2> HIDE DEF mem, sum, D
  <2> QED BY <1>1, <2>1 DEF ColumnSums
<1> HIDE DEF mem, sum, D
<1>4. PICK f : ColumnLoop(D, mem, p, sum, f)
  BY <1>3, ColumnsExist
<1>a. /\ f \in [0..p -> S]
      /\ f = [j \in 0..p |-> IF j = 0 THEN [mem |-> mem, high |-> 0]
                             ELSE ColumnStored(f[j - 1], j - 1, sum[<< j - 1, f[j - 1] >>])]
  BY <1>4 DEF ColumnLoop
<1> HIDE DEF S
<1>5. ASSUME NEW j \in 0..p, j # 0
      PROVE  sum[<< j - 1, f[j - 1] >>] = SqrColumn(f[j - 1], j - 1, n)
  <2>1. j - 1 \in 0..(p - 1) /\ j - 1 \in 0..p
    BY <1>5 DEF Parameters
  <2>2. f[j - 1] \in S
    BY <1>a, <2>1
  <2> QED BY <2>1, <2>2 DEF sum
<1>6. f = [j \in 0..p |-> IF j = 0 THEN [mem |-> mem, high |-> 0]
                          ELSE ColumnStored(f[j - 1], j - 1, SqrColumn(f[j - 1], j - 1, n))]
  BY <1>a, <1>5
<1>7. SqrLoop(f, p, n, mem)
  BY <1>6 DEF SqrLoop
<1> QED BY <1>7 DEF mem

\* The parts of a square that the columns below p make up
LEMMA SqrLeft ==
  ASSUME Parameters, NEW p \in 0..MaxWords, NEW n \in 0..MaxWords, n <= B, NEW x \in Numbers(n), NEW f,
         SqrLoop(f, p, n, Pair(n, x, p, 0))
  PROVE  LET r == Left(Pair(n, x, p, 0), f[p].mem, "z", p)
         IN  r \in 0..(Pow(p) - 1) /\ f[p].high \in Nat /\ r + Pow(p) * f[p].high = Below(x, x, p)
<1> DEFINE D == PairNames
           mem == Pair(n, x, p, 0)
           add == [j \in Nat |-> Total(Products(x, x, j), j + 1)]
           total == [j \in Nat |-> Below(x, x, j)]
           limit == n * (B - 1)
<1>1. mem \in [D -> Row] /\ "z" \in D
  <2>1. Words(x, n) \in Row /\ Words(0, p) \in Row
    BY WordsValue, PowPositive
  <2> QED BY <2>1 DEF Pair, PairNames
<1>2. x \in Nat /\ p \in Nat /\ MaxWords \in Nat
  BY DEF Numbers, Parameters
<1>3. limit \in Nat
  BY DEF Parameters
<1>4. add \in [Nat -> Nat]
  <2> SUFFICES ASSUME NEW j \in Nat PROVE Total(Products(x, x, j), j + 1) \in Nat
    OBVIOUS
  <2> DEFINE g == Products(x, x, j)
  <2>1. g \in [Nat -> Nat]
    BY <1>2, ProductTypes
  <2>2. j + 1 \in Nat
    OBVIOUS
  <2> HIDE DEF g
  <2>3. Total(g, j + 1) \in Nat
    BY <2>1, <2>2, TotalSteps
  <2> QED BY <2>3 DEF g
<1>5. \A j \in Nat : Below(x, x, j) \in Nat
  BY <1>2, ProductSplit
<1>6. total \in [Nat -> Nat]
  BY <1>5
<1>7. total[0] = 0
  <2>1. 0 \in Nat
    OBVIOUS
  <2>2. Parts(x, x, 0) \in [Nat -> Nat]
    BY <1>2, <2>1, ProductTypes
  <2>3. Below(x, x, 0) = 0
    BY <2>2, TotalSteps DEF Below, Facts!Below, Total, Parts
  <2> QED BY <2>3
<1>8. 0 \in Word /\ 0 \in 0..limit
  BY <1>3 DEF Word, Parameters
<1>9. ASSUME NEW j \in 0..(p - 1)
      PROVE  total[j + 1] = total[j] + Pow(j) * add[j] /\ limit + add[j] < B * (limit + 1)
  <2> DEFINE col == Total(Products(x, x, j), j + 1)
  <2>1. j \in Nat /\ j + 1 \in Nat
    BY <1>2
  <2>2. Below(x, x, j + 1) = Below(x, x, j) + Pow(j) * col
    BY <1>2, <2>1, ColumnAdds
  <2>3. add[j] = col /\ col \in Nat
    BY <1>4, <2>1
  <2>4. limit + (0 + col) < B * (limit + 1)
    BY <1>2, <1>8, <2>1, ColumnFits
  <2>5. 0 + col = col
    <3> HIDE DEF col
    <3> QED BY <2>3
  <2> HIDE DEF col
  <2> QED BY <2>1, <2>2, <2>3, <2>4, <2>5
<1>10. f[0] = [mem |-> mem, high |-> 0]
  BY <1>2 DEF SqrLoop
<1>11. ASSUME NEW j \in 0..(p - 1), ColumnReached(D, mem, f[j], j, limit)
       PROVE  f[j + 1] = ColumnStored(f[j], j, f[j].high + add[j])
  <2> DEFINE b == f[j].mem
             h == f[j].high
             s == [mem |-> b, high |-> h]
             col == Total(Products(x, x, j), j + 1)
  <2>1. j + 1 \in 0..p /\ j + 1 # 0 /\ (j + 1) - 1 = j /\ j \in Nat
    BY <1>2
  <2>2. f[j + 1] = ColumnStored(f[j], j, SqrColumn(f[j], j, n))
    BY <2>1 DEF SqrLoop
  <2>3. SqrColumn(f[j], j, n) = SqrColumn(s, j, n)
    BY DEF SqrColumn
  <2>4. b \in ZBuffers(D, mem) /\ h \in 0..limit
    BY <1>11 DEF ColumnReached
  <2> HIDE DEF b, h, mem
  <2>5. h \in Nat
    BY <1>3, <2>4
  <2>6. add[j] = col /\ col \in Nat
    BY <1>4, <2>1
  <2>7. (h + 0) + col < Room
    BY <1>2, <1>8, <2>1, <2>4, ColumnFits
  <2>8. h + 0 = h
    BY <2>5
  <2>9. SqrColumn(s, j, n) = h + col
    <3>1. h + Total(Products(x, x, j), j + 1) < Room
          => SqrColumn([mem |-> b, high |-> h], j, n) = h + Total(Products(x, x, j), j + 1)
      BY <2>4, <2>5, SqrColumnIs DEF mem
    <3> QED BY <2>7, <2>8, <3>1
  <2> QED BY <2>2, <2>3, <2>6, <2>9 DEF h
<1>12. Columns(D, mem, p, f, add, total, limit)
  <2> HIDE DEF mem, D, limit, add, total
  <2> QED BY <1>1, <1>3, <1>4, <1>6, <1>7, <1>9, <1>10, <1>11 DEF Columns
<1>13. total[p] = Below(x, x, p)
  BY <1>2
<1> DEFINE r == Left(mem, f[p].mem, "z", p)
<1>14. r \in 0..(Pow(p) - 1) /\ f[p].high \in 0..limit /\ r + Pow(p) * f[p].high = total[p]
  <2> HIDE DEF mem, D, limit, add, total
  <2> QED BY <1>12, ColumnsLeft
<1>15. f[p].high \in Nat
  <2> HIDE DEF limit
  <2> QED BY <1>3, <1>14
<1> HIDE DEF total
<1> QED BY <1>13, <1>14, <1>15

LEMMA SqrPromise == Parameters /\ SmallWords \in 0..MaxWords /\ SmallWords <= B /\ Sqr => Contract!Sqr'
<1> SUFFICES ASSUME Parameters, SmallWords \in 0..MaxWords, SmallWords <= B, Sqr PROVE Contract!Sqr'
  OBVIOUS
<1> DEFINE Returns(p, n, x) ==
             LET mem == Pair(n, x, p, 0)
                 s == (CHOOSE g : SqrLoop(g, p, n, mem))[p]
             IN  Call("sqr", << p, x >>, << Left(mem, s.mem, "z", p) >>)
<1>1. PICK p \in 0..MaxWords, n \in 0..SmallWords : \E x \in Numbers(n) : Returns(p, n, x)
  BY DEF Sqr, Lengths, Up, SqrLoop, Pair, SqrColumn, ColumnStored
<1>2. PICK x \in Numbers(n) : Returns(p, n, x)
  BY <1>1
<1> DEFINE mem == Pair(n, x, p, 0)
           f == CHOOSE g : SqrLoop(g, p, n, mem)
           s == f[p]
           r == Left(mem, s.mem, "z", p)
           h == s.high
           P == Pow(p)
<1>3. Call("sqr", << p, x >>, << r >>)
  BY <1>2
<1>4. n \in 0..MaxWords /\ n <= B
  BY DEF Parameters
<1> HIDE DEF f, Returns
<1>5. SqrLoop(f, p, n, mem)
  <2>1. \E g : SqrLoop(g, p, n, mem)
    BY <1>4, SqrLoopExists
  <2> HIDE DEF mem
  <2> QED BY <2>1 DEF f
<1>6. r \in 0..(P - 1) /\ h \in Nat /\ r + P * h = Below(x, x, p)
  BY <1>4, <1>5, SqrLeft
<1> HIDE DEF r, h, P
<1>7. P \in Nat \ {0} /\ x \in Nat /\ p \in Nat /\ n \in Nat
  BY <1>4, PowPositive DEF Numbers, Parameters, P
<1>8. Below(x, x, p) \in Nat /\ \E k \in Nat : x * x = Below(x, x, p) + P * k
  <2>1. x \in Nat /\ x \in Nat /\ p \in Nat
    BY <1>7
  <2>2. Below(x, x, p) \in Nat /\ \E k \in Nat : x * x = Below(x, x, p) + Pow(p) * k
    BY <2>1, ProductSplit
  <2> QED BY <2>2 DEF P
<1>9. PICK k \in Nat : x * x = Below(x, x, p) + P * k
  BY <1>8
<1>10. r = (x * x) % P
  <2> DEFINE v == x * x
             w == Below(x, x, p)
  <2>1. v \in Nat /\ w \in Nat /\ r + P * h = 0 + w /\ v = w + P * k /\ 0 \in 0..(P - 1)
    BY <1>6, <1>7, <1>8, <1>9
  <2> HIDE DEF v, w
  <2>2. Facts!CutOff(P, r, h, 0, v, w, k)
    BY <1>6, <1>7, <2>1 DEF Facts!CutOff
  <2>3. r = (0 + v) % P
    BY <2>2, FactsAssumptions, Facts!ProductAndRest
  <2>4. 0 + v = v
    BY <2>1
  <2> QED BY <2>3, <2>4 DEF v
<1> QED BY <1>3, <1>10, ContractPow DEF Call, Contract!Sqr, Contract!Is, Contract!result,
      Contract!x, Contract!k, Contract!R, P

\* No more words than a word counts: an accumulator of three words has room for the
\* products of a column.
ProductSizes == Sizes /\ SmallWords \in 0..MaxWords /\ SmallWords <= B
MultiplyPromise ==
    \/ Contract!Cmul \/ Contract!Cmadd \/ Contract!Cmnegadd
    \/ Contract!Copy \/ Contract!ShlSmall \/ Contract!ShrSmall \/ Contract!Madd \/ Contract!Sqr

LEMMA MultiplyStep == ProductSizes /\ MultiplyNext => MultiplyPromise'
  BY SizesSuffice, CmulPromise, CmaddPromise, CmnegaddPromise, CopyPromise, ShlSmallPromise, ShrSmallPromise,
     MaddPromise, SqrPromise
     DEF ProductSizes, MultiplyNext, MultiplyPromise

\* For every size of a word and any lengths of the source and the result: with
\* a word times a number, also added or subtracted, the number that is left and
\* the word or the carry that is returned are together the exact value, shifts
\* by less than a word lose no bit and copies are cut or filled up, also where
\* the result is stored over the source; what the columns of a product leave is
\* the product and what was in z modulo the range of z, and the word that is
\* returned is what is above if the factors have no more words than z together.
THEOREM MultiplicationsKeepPromise ==
  ProductSizes => (call = NoCall /\ [][MultiplyNext]_call => [](call = NoCall \/ Contract!Promise))
<1> SUFFICES ASSUME ProductSizes
             PROVE  call = NoCall /\ [][MultiplyNext]_call => [](call = NoCall \/ Contract!Promise)
  OBVIOUS
<1> DEFINE Inv == call = NoCall \/ MultiplyPromise
<1>1. call = NoCall => Inv
  OBVIOUS
<1>2. Inv /\ [MultiplyNext]_call => Inv'
  <2>1. CASE MultiplyNext
    BY <2>1, MultiplyStep
  <2>2. CASE UNCHANGED call
    <3>1. MultiplyPromise => MultiplyPromise'
      BY <2>2 DEF MultiplyPromise, Contract!Cmul, Contract!Cmadd, Contract!Cmnegadd, Contract!Copy,
         Contract!ShlSmall, Contract!ShrSmall, Contract!Madd, Contract!Sqr, Contract!Is, Contract!result,
         Contract!carry, Contract!R, Contract!k, Contract!x, Contract!y
    <3> QED BY <2>2, <3>1 DEF NoCall
  <2> QED BY <2>1, <2>2
<1>3. Inv => call = NoCall \/ Contract!Promise
  BY DEF MultiplyPromise, Contract!Promise
<1> HIDE DEF Inv
<1> QED BY <1>1, <1>2, <1>3, PTL
=============================================================================
