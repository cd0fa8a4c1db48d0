------------------------ MODULE SimulatePersistent ------------------------
(***************************************************************************)
(* tools/simulate-persistent: the executor for AArch64 and x86-64.  A bash *)
(* script serves the protocol and runs, for each RUN, the one-case command *)
(* (arm/proofs/armsimulate or x86/proofs/x86simulate), which assembles the *)
(* code into a template, links it with simulator.c and runs the binary.    *)
(* Server, mktemp, rm, command and binary are processes of one group.  HUP, *)
(* INT and TERM reach the server alone or with the process it waits for,   *)
(* KILL the server or the command.                                         *)
(*                                                                         *)
(* A token is its `text`, the `bytes` it spells in hexadecimal (<< >> for  *)
(* anything else) and the `value` strtoul reads from it.  An instruction   *)
(* is two bytes, whose order matters.                                      *)
(***************************************************************************)
EXTENDS Integers, Sequences

CONSTANTS
    Tokens,          \* the lines that may arrive: sequences of tokens
    MaxWord,         \* ULONG_MAX
    StateWords,      \* STATE_WORDS, and STATESIZE of simulator.c
    UnitBytes,       \* CODE_UNIT_BYTES
    Names            \* the names mktemp chooses from

NoFile == 0
Eof == [eof |-> TRUE, tokens |-> << >>]
Lines == { [eof |-> FALSE, tokens |-> ts] : ts \in Tokens } \cup {Eof}

Silence == [kind |-> "none"]
Ready == [kind |-> "READY"]
OK(words) == [kind |-> "OK", words |-> words]
TRAP(status) == [kind |-> "TRAP", status |-> status]
ERROR(reason) == [kind |-> "ERROR", reason |-> reason]

-----------------------------------------------------------------------------
(* The tested code.  An increment, a copy; anything else is undefined.     *)

Defined(i) == i \in { << "1f", "20" >>, << "03", "03" >> }
Execute(i, r) ==
    IF i = << "1f", "20" >> THEN [r EXCEPT ![1] = (@ + 1) % (MaxWord + 1)]
    ELSE [r EXCEPT ![2] = r[1]]

Pairs(bytes) == [k \in 1..(Len(bytes) \div 2) |-> << bytes[2 * k - 1], bytes[2 * k] >>]
Faults(bytes) == \E i \in 1..Len(Pairs(bytes)) : ~Defined(Pairs(bytes)[i])
Effect(bytes, r) ==
    LET is == Pairs(bytes)
        x[i \in 0..Len(is)] == IF i = 0 THEN r ELSE Execute(is[i], x[i - 1])
    IN  x[Len(is)]

-----------------------------------------------------------------------------
VARIABLES
    pc,              \* of the server
    exiting,         \* whether it is in cleanup, its handler of EXIT
    line,            \* the request
    units,           \* CODE_ARGUMENT
    file,            \* REQUEST_OUTPUT
    files,           \* the request output files that exist
    output,          \* the words in the file of this request
    child,           \* the process the server has started, by its next step, or "none"
    made,            \* the file mktemp has created, until REQUEST_OUTPUT names it
    regs,            \* of the binary
    products,        \* whether the command's own temporary files exist
    status,          \* child_status
    signal,          \* the signal the server has yet to handle, or 0
    handled,         \* history: how many signals it has handled
    lost,            \* history: the file of an mktemp that was ended before it told the name
    answer

server == << exiting, line, units, file >>
command == << output, regs, products, status >>
signals == << signal, handled, lost >>
vars == << pc, server, files, child, made, command, signals, answer >>

Mktemp == { "mktemp", "name" }
Binary == { "run", "harness", "print" }
LegacyCommand == { "build", "remove" } \cup Binary

Waiting == { "naming", "wait", "removing" }      \* for mktemp, the command, rm
Ended == { "exited", "killed" }

Init ==
    /\ pc = "send_ready" /\ exiting = FALSE /\ line = Eof
    /\ units = << >> /\ file = NoFile /\ files = {} /\ output = << >>
    /\ child = "none" /\ made = NoFile /\ regs = << >> /\ products = FALSE /\ status = 0
    /\ signal = 0 /\ handled = 0 /\ lost = NoFile /\ answer = Silence

-----------------------------------------------------------------------------
(* The server.  bash handles a signal between two commands, so none of its *)
(* commands starts while one is pending.                                   *)

Answering(a) == answer' = a /\ pc' = "read_line"

SendReady ==
    /\ pc = "send_ready" /\ signal = 0
    /\ Answering(Ready)
    /\ UNCHANGED << server, files, child, made, command, signals >>

ReadLine ==
    /\ pc = "read_line" /\ signal = 0
    /\ line' \in Lines
    /\ pc' = "command"
    /\ answer' = Silence
    /\ UNCHANGED << exiting, units, file, files, child, made, command, signals >>

\* Mutant of CodeArgument: the bytes of a unit in the order they came.
CodeArgumentBigEndian(bytes) ==
    [u \in 1..(Len(bytes) \div UnitBytes) |->
        [b \in 1..UnitBytes |-> bytes[(u - 1) * UnitBytes + b]]]

\* The words .inst takes, or the bytes .byte takes: each unit's bytes reversed.
CodeArgument(bytes) ==
    [u \in 1..(Len(bytes) \div UnitBytes) |->
        [b \in 1..UnitBytes |-> bytes[u * UnitBytes + 1 - b]]]

IsCode(t) == t.bytes # << >> /\ Len(t.bytes) % UnitBytes = 0

Text(i) == IF i <= Len(line.tokens) THEN line.tokens[i].text ELSE ""

Command ==
    /\ pc = "command" /\ signal = 0
    /\ LET ts == line.tokens IN
       \/ /\ line.eof \/ Text(1) = "QUIT"
          /\ exiting' = TRUE /\ pc' = "cleanup" /\ UNCHANGED << units, answer >>
       \/ /\ ~line.eof /\ Text(1) \notin {"QUIT", "RUN"}
          /\ Answering(ERROR("unknown-command")) /\ UNCHANGED << exiting, units >>
       \/ /\ Text(1) = "RUN" /\ Len(ts) # StateWords + 2
          /\ Answering(ERROR("wrong-input-state-size")) /\ UNCHANGED << exiting, units >>
       \/ /\ Text(1) = "RUN" /\ Len(ts) = StateWords + 2 /\ ~IsCode(ts[2])
          /\ Answering(ERROR("malformed-code")) /\ UNCHANGED << exiting, units >>
       \/ /\ Text(1) = "RUN" /\ Len(ts) = StateWords + 2 /\ IsCode(ts[2])
          /\ units' = CodeArgument(ts[2].bytes)
          /\ pc' = "mktemp" /\ UNCHANGED << exiting, answer >>
    /\ UNCHANGED << line, file, files, child, made, command, signals >>

StartMktemp ==
    /\ pc = "mktemp" /\ signal = 0
    /\ child' = "mktemp"
    /\ pc' = "naming"
    /\ UNCHANGED << server, files, made, command, signals, answer >>

\* The assignment, with the name or with nothing.  No handler runs before it.
TakeName ==
    /\ pc = "assign"
    /\ file' = made /\ made' = NoFile
    /\ pc' = "start"
    /\ UNCHANGED << exiting, line, units, files, child, command, signals, answer >>

NoTempfile ==
    /\ pc = "start" /\ signal = 0 /\ file = NoFile
    /\ Answering(ERROR("tempfile"))
    /\ UNCHANGED << server, files, child, made, command, signals >>

StartChild ==
    /\ pc = "start" /\ signal = 0 /\ file # NoFile
    /\ child' = "build" /\ status' = 0
    /\ pc' = "wait"
    /\ UNCHANGED << server, files, made, output, regs, products, signals, answer >>

\* What a binary without its command does to the file from here on is not read.
Collect ==
    /\ pc = "collect" /\ signal = 0
    /\ answer' = IF output = << >> THEN TRAP(status)
                 ELSE IF Len(output) # StateWords THEN ERROR("wrong-output-state-size")
                 ELSE OK(output)
    /\ child' = "none"
    /\ pc' = "rm"
    /\ UNCHANGED << server, files, made, command, signals >>

StartRm ==
    /\ pc = "rm" /\ signal = 0
    /\ child' = "rm"
    /\ pc' = "removing"
    /\ UNCHANGED << server, files, made, command, signals, answer >>

ForgetFile ==
    /\ pc = "forget" /\ signal = 0
    /\ file' = NoFile
    /\ pc' = IF exiting THEN "exited" ELSE "read_line"
    /\ UNCHANGED << exiting, line, units, files, child, made, command, signals, answer >>

\* On exit, by QUIT, by the end of the input or by the handler of a signal.
Cleanup ==
    /\ pc = "cleanup" /\ signal = 0
    /\ pc' = IF file = NoFile THEN "exited" ELSE "rm"
    /\ UNCHANGED << server, files, child, made, command, signals, answer >>

\* Mutant of HandleSignal: it does not wait for the process it has started.
HandleSignalAtOnce ==
    /\ signal # 0 /\ pc \notin { "assign" } \cup Ended
    /\ pc' = (IF exiting THEN "exited" ELSE "cleanup") /\ exiting' = TRUE
    /\ signal' = 0 /\ handled' = handled + 1
    /\ UNCHANGED << line, units, file, files, child, made, command, lost, answer >>

\* Mutant of HandleSignal: no handler, so that bash ends at once.
HandleSignalDefault ==
    /\ signal # 0 /\ pc \notin { "assign" } \cup Waiting \cup Ended
    /\ pc' = "exited" /\ exiting' = TRUE
    /\ signal' = 0 /\ handled' = handled + 1 /\ child' = "none"
    /\ UNCHANGED << line, units, file, files, made, command, lost, answer >>

\* Mutant of HandleSignal: the signal is taken note of, and forgotten.
HandleSignalIgnore ==
    /\ signal # 0 /\ pc \notin { "assign" } \cup Waiting \cup Ended
    /\ signal' = 0
    /\ UNCHANGED << pc, server, files, child, made, command, handled, lost, answer >>

\* Between two commands, and in `read`; not while it waits for a process.  The
\* handlers are still set in cleanup, where `exit` leaves what has yet to be done.
HandleSignal ==
    /\ signal # 0 /\ pc \notin { "assign" } \cup Waiting \cup Ended
    /\ pc' = (IF exiting THEN "exited" ELSE "cleanup") /\ exiting' = TRUE
    /\ signal' = 0 /\ handled' = handled + 1 /\ child' = "none"
    /\ UNCHANGED << line, units, file, files, made, command, lost, answer >>

-----------------------------------------------------------------------------
(* mktemp and rm, each of which the server waits for.                      *)

\* Mutant of CreateFile: one file for all requests, appended to.
CreateFileShared ==
    /\ child = "mktemp"
    /\ made' \in Names \ files
    /\ files' = files \cup { made' }
    /\ child' = "name"
    /\ UNCHANGED << pc, server, command, signals, answer >>

\* A new empty file, or none and a status that says so.
CreateFile ==
    /\ child = "mktemp"
    /\ \/ /\ made' \in Names \ files
          /\ files' = files \cup { made' }
          /\ output' = << >>
          /\ child' = "name" /\ UNCHANGED pc
       \/ /\ child' = "none" /\ pc' = "assign"
          /\ UNCHANGED << made, files, output >>
    /\ UNCHANGED << server, regs, products, status, signals, answer >>

PrintName ==
    /\ child = "name"
    /\ child' = "none" /\ pc' = "assign"
    /\ UNCHANGED << server, files, made, command, signals, answer >>

RemoveFile ==
    /\ child = "rm"
    /\ files' = files \ { file }
    /\ child' = "none" /\ pc' = "forget"
    /\ UNCHANGED << server, made, command, signals, answer >>

-----------------------------------------------------------------------------
(* The command, and the binary it builds.                                  *)

\* A step that fails does not stop the script: the binary is an empty file.
Build ==
    /\ child = "build"
    /\ products' = TRUE
    /\ child' \in { "run", "remove" }
    /\ UNCHANGED << pc, server, files, made, output, regs, status, signals, answer >>

Least(a, b) == IF a <= b THEN a ELSE b

\* The binary ends, and the command goes on if it is still there.
BinaryEnds == child' = IF pc = "wait" THEN "remove" ELSE "none"

\* main: the words from the command line.  COSIM_RUN may fail with a message.
Main ==
    /\ child = "run"
    /\ \/ /\ regs' = [i \in 1..StateWords |-> Least(line.tokens[i + 2].value, MaxWord)]
          /\ child' = "harness" /\ UNCHANGED output
       \/ /\ output' = << 0 >>
          /\ BinaryEnds /\ UNCHANGED regs
    /\ UNCHANGED << pc, server, files, made, products, status, signals, answer >>

\* The assembler lays the units down with the least significant byte first.
Assembled ==
    [k \in 1..(Len(units) * UnitBytes) |->
        units[(k - 1) \div UnitBytes + 1][UnitBytes - ((k - 1) % UnitBytes)]]

\* A fault ends the process in its handler, before anything is printed.
Harness ==
    /\ child = "harness"
    /\ \/ /\ Faults(Assembled)
          /\ BinaryEnds /\ UNCHANGED regs
       \/ /\ ~Faults(Assembled)
          /\ regs' = Effect(Assembled, regs)
          /\ child' = "print"
    /\ UNCHANGED << pc, server, files, made, output, products, status, signals, answer >>

\* The words fit into the buffer of stdout, which is written when main returns.
PrintState ==
    /\ child = "print"
    /\ output' = regs
    /\ BinaryEnds
    /\ UNCHANGED << pc, server, files, made, regs, products, status, signals, answer >>

\* rm of the build products, the end of the command, and of the server's wait.
\* The status is that of rm -f, not of the binary.
RemoveProducts ==
    /\ child = "remove"
    /\ products' = FALSE /\ child' = "none"
    /\ pc' = "collect"
    /\ UNCHANGED << server, files, made, output, regs, status, signals, answer >>

-----------------------------------------------------------------------------
(* Signals.  One to the server alone waits for the process to end that the *)
(* server waits for; one to the group ends that process where it is.       *)

Signal ==
    /\ signal = 0 /\ pc \notin Ended
    /\ signal' \in {129, 130, 143}
    /\ UNCHANGED << pc, server, files, child, made, command, handled, lost, answer >>

SignalGroup ==
    /\ signal = 0 /\ pc \in Waiting
    /\ signal' \in {129, 130, 143}
    /\ lost' = IF child = "name" THEN made ELSE lost
    /\ made' = NoFile /\ child' = "none"
    /\ \/ pc = "naming" /\ pc' = "assign"
       \/ pc = "wait" /\ pc' = "collect"
       \/ pc = "removing" /\ pc' = "forget"
    /\ UNCHANGED << server, files, command, handled, answer >>

\* Of the command alone; its binary, if it runs, goes on.  Or of the binary.
KillCommand ==
    /\ pc = "wait"
    /\ \/ /\ status' = 137 /\ pc' = "collect"
          /\ child' = IF child \in Binary THEN child ELSE "none"
       \/ /\ child \in Binary /\ child' = "remove"
          /\ UNCHANGED << pc, status >>
    /\ UNCHANGED << server, files, made, output, regs, products, signals, answer >>

Kill ==
    /\ pc \notin Ended
    /\ pc' = "killed" /\ child' = "none"
    /\ UNCHANGED << server, files, made, command, signals, answer >>

Serve ==
    \/ SendReady \/ Command \/ StartMktemp \/ TakeName \/ NoTempfile \/ StartChild
    \/ Collect \/ StartRm \/ ForgetFile \/ Cleanup \/ HandleSignal
    \/ CreateFile \/ PrintName \/ RemoveFile
    \/ Build \/ Main \/ Harness \/ PrintState \/ RemoveProducts

Rest == pc \in Ended /\ UNCHANGED vars

Next == ReadLine \/ Serve \/ Signal \/ SignalGroup \/ KillCommand \/ Kill \/ Rest

Spec == Init /\ [][Next]_vars /\ WF_vars(Serve)

-----------------------------------------------------------------------------
(* What a request may be answered with.  A RUN that is in order may always *)
(* fail on the way, and such a failure is reported in one of four ways.    *)
Failures == { TRAP(0), TRAP(137), ERROR("tempfile"), ERROR("wrong-output-state-size") }

Ends(l) == l.eof \/ (l.tokens # << >> /\ l.tokens[1].text = "QUIT")

Meanings(l) ==
    LET ts == l.tokens IN
    CASE Ends(l) -> {}
      [] ~Ends(l) /\ (ts = << >> \/ ts[1].text # "RUN") -> { ERROR("unknown-command") }
      [] OTHER ->
           IF Len(ts) # StateWords + 2 THEN { ERROR("wrong-input-state-size") }
           ELSE IF ~IsCode(ts[2]) THEN { ERROR("malformed-code") }
           ELSE IF Faults(ts[2].bytes) THEN Failures
           ELSE { OK(Effect(ts[2].bytes, [i \in 1..StateWords |-> ts[i + 2].value])) }
                \cup Failures

phase ==
    CASE exiting \/ pc = "killed" -> "stopped"
      [] ~exiting /\ pc = "send_ready" -> "starting"
      [] ~exiting /\ pc \in {"read_line", "rm", "removing", "forget"} -> "idle"
      [] OTHER -> "busy"

-----------------------------------------------------------------------------
TypeOK ==
    /\ line \in Lines /\ exiting \in BOOLEAN
    /\ { file, made, lost } \subseteq Names \cup {NoFile} /\ files \subseteq Names
    /\ pc = "naming" <=> child \in Mktemp
    /\ pc = "removing" <=> child = "rm"
    /\ pc = "wait" => child \in LegacyCommand
    /\ pc = "collect" => child \in Binary \cup {"none"}
    /\ pc \notin Waiting \cup {"collect"} => child = "none"
    /\ signal \in {0, 129, 130, 143} /\ handled \in 0..2
    /\ products \in BOOLEAN /\ status \in {0, 137}

(* No request output file outlives its request, nor the server that ends   *)
(* (cleanup and its traps, lines 45-55), but for two windows: a signal to  *)
(* the group ends mktemp between the creation of the file and the printing *)
(* of its name (line 107), and a second signal ends cleanup.  Either       *)
(* leaves one file, and the session is over.                               *)
NoFileLeft ==
    /\ pc = "read_line" => files = {}
    /\ pc = "exited" => files \subseteq IF handled < 2 THEN { lost } ELSE { lost, file }
    /\ lost # NoFile => signal # 0 \/ handled > 0
    /\ \A f, g \in files : f = g

(* A signal ends the server, once the process it waits for has ended.      *)
SignalEnds == signal # 0 ~> pc \in Ended
=============================================================================
