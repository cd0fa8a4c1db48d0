---------------------------- MODULE CosimClient ----------------------------
(***************************************************************************)
(* common/cosim.ml: the HOL side of an instruction-executor session, and   *)
(* the processes it is played between.  The client starts the executor in  *)
(* a process group of its own, sends a request, waits for one line with a  *)
(* deadline, and gives the session up at the first sign of trouble: it     *)
(* closes the pipes, and a watchdog process terminates and then kills the  *)
(* group while the client waits for the executor to be gone.               *)
(*                                                                         *)
(* The executor is any program that keeps the promise of CosimExecutor; it *)
(* may be slow, die, ignore SIGTERM, and leave a worker process behind in  *)
(* its group.  A request is its number; an answer names the request it     *)
(* answers.  Lines arrive whole: a line cut short by the deadline and one  *)
(* that has not begun are given up alike.                                  *)
(***************************************************************************)
EXTENDS Integers, Sequences

CONSTANTS
    MaxRequests       \* bound: the requests of one session

ASSUME ClientAssumption == MaxRequests \in Nat \ {0}

Quit == 0
Eof == -1
Requests == { Quit, Eof } \cup 1..MaxRequests
Silence == [kind |-> "none", to |-> 0]
Ready == [kind |-> "READY", to |-> 0]
\* "short" is an OK with the wrong number of words, "other" no known line.
AnswersTo(r) ==
    IF r \in 1..MaxRequests
    THEN { [kind |-> k, to |-> r] : k \in {"OK", "TRAP", "ERROR", "short", "other"} }
    ELSE {}
Ends(r) == r \in { Quit, Eof }
Always(r) == TRUE

VARIABLES
    phase, request, answer,       \* the executor
    leader,           \* its first process: "running", "zombie", "reaped"
    worker,           \* whether another process of its group is alive
    to_child, from_child,         \* the two pipes
    open,             \* whether the client still holds its ends of the pipes
    pc,               \* of the client
    closed,           \* cosim_closed
    sent,             \* requests sent
    result,           \* what cosim_execute last returned or raised
    watchdog,         \* "none", "poll", "poll_again", "gone"
    interrupted       \* history: a signal has interrupted the wait for an answer

executor == << phase, request, answer >>
group == << leader, worker >>
pipes == << to_child, from_child, open >>
client == << pc, closed, sent, result >>
vars == << executor, group, pipes, client, watchdog, interrupted >>

Executor == INSTANCE CosimExecutor
    WITH Answers <- AnswersTo, Stops <- Ends, Mortal <- Always

Init ==
    /\ phase = "starting" /\ request = Eof /\ answer = Silence
    /\ leader = "running" /\ worker = FALSE
    /\ to_child = << >> /\ from_child = << >> /\ open = TRUE
    /\ pc = "greeting" /\ closed = FALSE /\ sent = 0 /\ result = Silence
    /\ watchdog = "none" /\ interrupted = FALSE

-----------------------------------------------------------------------------
(* The executor, behind its two pipes.                                     *)

ExecutorGreet ==
    /\ Executor!Greet
    /\ from_child' = Append(from_child, answer')
    /\ UNCHANGED << group, to_child, open, client, watchdog >>

\* The next line, or the end of the input once the client has closed its end.
ExecutorTake ==
    /\ Executor!Take
    /\ \/ /\ to_child # << >>
          /\ request' = Head(to_child) /\ to_child' = Tail(to_child)
          /\ worker' \in BOOLEAN
       \/ /\ to_child = << >> /\ ~open
          /\ request' = Eof
          /\ UNCHANGED << to_child, worker >>
    /\ UNCHANGED << leader, from_child, open, client, watchdog >>

ExecutorReply ==
    /\ Executor!Reply
    /\ from_child' = Append(from_child, answer')
    /\ worker' = FALSE
    /\ UNCHANGED << leader, to_child, open, client, watchdog >>

ExecutorStop ==
    /\ Executor!Stop
    /\ leader' = "zombie"
    /\ UNCHANGED << worker, pipes, client, watchdog >>

ExecutorDie ==
    /\ Executor!Die
    /\ leader' = "zombie"
    /\ UNCHANGED << worker, pipes, client, watchdog >>

WorkerExit ==
    /\ worker /\ worker' = FALSE
    /\ UNCHANGED << executor, leader, pipes, client, watchdog >>

\* A kill of the whole group.
Slain ==
    /\ phase' = "stopped" /\ UNCHANGED << request, answer >>
    /\ leader' = IF leader = "running" THEN "zombie" ELSE leader
    /\ worker' = FALSE

\* SIGTERM may be ignored, by either process.
Terminated ==
    /\ \/ leader = "running" /\ leader' = "zombie" /\ phase' = "stopped"
       \/ UNCHANGED << leader, phase >>
    /\ worker' \in { worker, FALSE }
    /\ UNCHANGED << request, answer >>

\* A zombie still counts for kill(2), until it has been waited for.
GroupAlive == leader # "reaped" \/ worker

-----------------------------------------------------------------------------
(* The client.                                                             *)

\* abort_cosim_executor: from here on nothing is read or written any more.
Abort ==
    /\ closed' = TRUE
    /\ open' = FALSE
    /\ pc' = "reap"

\* Mutant of ReadGreeting: a greeting that does not match leaves the child.
ReadGreetingLeak ==
    /\ pc = "greeting" /\ from_child # << >>
    /\ from_child' = Tail(from_child)
    /\ \/ pc' = "idle" /\ UNCHANGED << closed, open >>
       \/ pc' = "returned" /\ closed' = TRUE /\ open' = FALSE
    /\ UNCHANGED << executor, group, to_child, sent, result, watchdog >>

\* The greeting is as expected, or names another version, architecture or size.
ReadGreeting ==
    /\ pc = "greeting" /\ from_child # << >>
    /\ from_child' = Tail(from_child)
    /\ \/ pc' = "idle" /\ UNCHANGED << closed, open >>
       \/ Abort
    /\ UNCHANGED << executor, group, to_child, sent, result, watchdog >>

\* A pipe without a reader: SIGPIPE ends a client that does not ignore it.
Broken == leader # "running" /\ ~worker

\* cosim_execute, up to its wait.
Execute ==
    /\ pc = "idle" /\ ~closed /\ sent < MaxRequests
    /\ \/ /\ ~Broken
          /\ sent' = sent + 1
          /\ to_child' = Append(to_child, sent')
          /\ pc' = "awaiting" /\ result' = Silence
       \/ /\ Broken
          /\ pc' \in { "idle", "killed" } /\ result' = Silence
          /\ UNCHANGED << sent, to_child >>
    /\ UNCHANGED << executor, group, from_child, open, closed, watchdog >>

\* The states and codes cosim_execute refuses before it sends anything.
Refuse ==
    /\ pc = "idle"
    /\ result' = [kind |-> "refused", to |-> 0]
    /\ UNCHANGED << executor, group, pipes, pc, closed, sent, watchdog >>

\* Mutant of ReadAnswer: a state of another length is read as far as one of the
\* right length goes, and the rest of its line stays in the pipe.
ReadAnswerRest ==
    /\ pc = "awaiting" /\ from_child # << >>
    /\ from_child' = IF Head(from_child).kind = "short" THEN from_child ELSE Tail(from_child)
    /\ result' = Head(from_child)
    /\ pc' = "idle"
    /\ UNCHANGED << executor, group, to_child, open, closed, sent, watchdog >>

\* OK and TRAP are returned; the other lines are raised, with the session open.
ReadAnswer ==
    /\ pc = "awaiting" /\ from_child # << >>
    /\ from_child' = Tail(from_child)
    /\ result' = Head(from_child)
    /\ pc' = "idle"
    /\ UNCHANGED << executor, group, to_child, open, closed, sent, watchdog >>

\* Mutant of Timeout: a late answer is only reported, and the session goes on.
TimeoutOpen ==
    /\ pc \in { "greeting", "awaiting" }
    /\ pc' = "idle"
    /\ UNCHANGED << executor, group, pipes, closed, sent, result, watchdog >>

\* The deadline, which an answer that is already there may still miss.
Timeout ==
    /\ pc \in { "greeting", "awaiting" }
    /\ Abort
    /\ UNCHANGED << executor, group, to_child, from_child, sent, result, watchdog >>

\* read returns 0: the executor is gone, and with it whatever it had to say.
Terminate ==
    /\ pc \in { "greeting", "awaiting" }
    /\ leader # "running" /\ from_child = << >>
    /\ Abort
    /\ UNCHANGED << executor, group, to_child, from_child, sent, result, watchdog >>

\* An exception out of select, which no handler of cosim_read_line covers.  In
\* the wait for the greeting nobody holds the session yet, or will close it.
Interrupt ==
    /\ \/ pc = "awaiting" /\ pc' = "idle"
       \/ pc = "greeting" /\ pc' = "lost"
    /\ interrupted' = TRUE
    /\ UNCHANGED << executor, group, pipes, closed, sent, result, watchdog >>

\* close_cosim_executor, by the campaign or at exit: QUIT is sent at most once.
Close ==
    /\ pc = "idle"
    /\ \/ /\ closed
          /\ pc' = "returned"
          /\ UNCHANGED << to_child, open, closed >>
       \/ /\ ~closed /\ ~Broken
          /\ to_child' = Append(to_child, Quit)
          /\ Abort
       \/ /\ ~closed /\ Broken
          /\ \/ Abort
             \/ pc' = "killed" /\ UNCHANGED << open, closed >>
          /\ UNCHANGED to_child
    /\ UNCHANGED << executor, group, from_child, sent, result, watchdog >>

\* cosim_reap_or_kill: a watchdog, or, when fork fails, SIGKILL at once.
Reap ==
    /\ pc = "reap"
    /\ \/ /\ watchdog' = "poll"
          /\ UNCHANGED << executor, group >>
       \/ /\ Slain
          /\ UNCHANGED watchdog
    /\ pc' = "wait_leader"
    /\ UNCHANGED << pipes, closed, sent, result >>

WaitLeader ==
    /\ pc = "wait_leader" /\ leader = "zombie"
    /\ leader' = "reaped"
    /\ pc' = "wait_watchdog"
    /\ UNCHANGED << executor, worker, pipes, closed, sent, result, watchdog >>

\* Without a watchdog, what is left of the group is killed here.
WaitWatchdog ==
    /\ pc = "wait_watchdog"
    /\ \/ /\ watchdog = "gone" /\ UNCHANGED << executor, group >>
       \/ /\ watchdog = "none"
          /\ IF GroupAlive THEN Slain ELSE UNCHANGED << executor, group >>
    /\ pc' = "returned"
    /\ UNCHANGED << pipes, closed, sent, result, watchdog >>

\* The caller sees the exception, and may call again.
Return ==
    /\ pc = "returned" /\ pc' = "idle"
    /\ UNCHANGED << executor, group, pipes, closed, sent, result, watchdog >>

-----------------------------------------------------------------------------
(* The watchdog: two rounds of polls, SIGTERM after the first, SIGKILL     *)
(* after the second.                                                       *)

WatchdogSeesNone ==
    /\ watchdog \in { "poll", "poll_again" } /\ ~GroupAlive
    /\ watchdog' = "gone"
    /\ UNCHANGED << executor, group, pipes, client >>

WatchdogTerminates ==
    /\ watchdog = "poll" /\ GroupAlive
    /\ Terminated
    /\ watchdog' = "poll_again"
    /\ UNCHANGED << pipes, client >>

\* Mutant of WatchdogKills: the kill is for the executor and not its group.
WatchdogKillsLeader ==
    /\ watchdog = "poll_again" /\ GroupAlive
    /\ phase' = "stopped" /\ UNCHANGED << request, answer >>
    /\ leader' = IF leader = "running" THEN "zombie" ELSE leader
    /\ watchdog' = "gone"
    /\ UNCHANGED << worker, pipes, client >>

\* Mutant of WatchdogKills: SIGTERM once more.
WatchdogKillsPolitely ==
    /\ watchdog = "poll_again" /\ GroupAlive
    /\ Terminated
    /\ watchdog' = "gone"
    /\ UNCHANGED << pipes, client >>

WatchdogKills ==
    /\ watchdog = "poll_again" /\ GroupAlive
    /\ Slain
    /\ watchdog' = "gone"
    /\ UNCHANGED << pipes, client >>

-----------------------------------------------------------------------------
Uninterrupted == UNCHANGED interrupted
ExecutorNext ==
    /\ \/ ExecutorGreet \/ ExecutorTake \/ ExecutorReply \/ ExecutorStop \/ ExecutorDie
       \/ WorkerExit
    /\ Uninterrupted
ClientWaits == (ReadGreeting \/ ReadAnswer \/ Timeout \/ Terminate) /\ Uninterrupted
ClientReaps == (Reap \/ WaitLeader \/ WaitWatchdog \/ Return) /\ Uninterrupted
ClientCalled == (Execute \/ Refuse \/ Close) /\ Uninterrupted
WatchdogNext == (WatchdogSeesNone \/ WatchdogTerminates \/ WatchdogKills) /\ Uninterrupted
Done == pc \in { "killed", "lost" } /\ UNCHANGED vars

Next ==
    \/ ExecutorNext \/ ClientWaits \/ ClientReaps \/ ClientCalled \/ WatchdogNext
    \/ Interrupt \/ Done

\* Nothing is assumed of the executor, nor that the campaign asks or ends.
Spec ==
    /\ Init /\ [][Next]_vars
    /\ WF_vars(ClientWaits) /\ WF_vars(ClientReaps) /\ WF_vars(WatchdogNext)

-----------------------------------------------------------------------------
TypeOK ==
    /\ leader \in { "running", "zombie", "reaped" } /\ worker \in BOOLEAN
    /\ (leader = "running") = (phase # "stopped")
    /\ to_child \in Seq(Requests) /\ Len(from_child) <= MaxRequests
    /\ closed \in BOOLEAN /\ open \in BOOLEAN /\ interrupted \in BOOLEAN
    /\ sent \in 0..MaxRequests
    /\ watchdog \in { "none", "poll", "poll_again", "gone" }

(* What cosim_execute returns is the answer to the request it has just     *)
(* sent, however late the answers to earlier ones came (lines 278-285).    *)
ResultOfRequest == result.kind \in { "OK", "TRAP" } => result.to = sent

(* The same as long as no signal has interrupted the wait for an answer.   *)
ResultUnlessInterrupted == ~interrupted => ResultOfRequest

(* Between two calls an open session is in step: nothing is on its way in  *)
(* either direction, and the executor waits for a request.                 *)
InStep ==
    pc = "idle" /\ ~closed /\ ~interrupted =>
        to_child = << >> /\ from_child = << >> /\ phase \in { "idle", "stopped" }

(* When a session has been given up or closed, no process of the group is  *)
(* left, not even one that ignores SIGTERM or was left behind by the       *)
(* executor, and whether or not a watchdog could be started (114-138).     *)
GroupGone == pc = "returned" => leader = "reaped" /\ ~worker

(* Closing or giving up a session ends, and so does a request, whatever    *)
(* the executor does: the client comes back to its caller, without a       *)
(* session only where a signal has interrupted the wait for the greeting.  *)
ComesBack ==
    pc \in { "greeting", "awaiting", "reap", "wait_leader", "wait_watchdog" } ~>
        pc = "idle" \/ (pc = "lost" /\ interrupted)
=============================================================================
