---------------------------- MODULE CosimRunner ----------------------------
(***************************************************************************)
(* The persistent RV32IM cosimulation monitor: riscv/proofs/cosim_runner.c *)
(* with its start and trap glue riscv/proofs/cosim_start.S.  It reads one  *)
(* line at a time, installs the line's code in the one code slot, loads    *)
(* the line's machine state, enters the code with mret, and comes back by  *)
(* the trap handler.  Every buffer is static and survives from one request *)
(* to the next; an error leaves it half overwritten.                       *)
(*                                                                         *)
(* A token is what the three readers of a token see of it: `text` (what    *)
(* string_equal compares), `hex` (the instruction words of a token whose   *)
(* length is a positive multiple of eight digits, else << >>) and `digits` *)
(* (its decimal digits, or << >> when some character is not one).          *)
(* Instructions are the straight-line forms the harness sends, one for     *)
(* each way the glue treats a register.  Addresses in the slot are word    *)
(* indices, the first is 1.                                                *)
(***************************************************************************)
EXTENDS Integers, Sequences, SequencesExt, Functions

CONSTANTS
    Tokens,           \* the lines that may arrive: sequences of tokens
    MaxWord,          \* UINT32_MAX
    NScratch,         \* RV32_SCRATCH_WORDS
    LineSize,         \* RV32_LINE_SIZE
    ResponseSize,     \* RV32_RESPONSE_SIZE
    BufferWords,      \* sizeof(code_buffer) / 4
    SlotWords         \* (rv32_code_slot_end - rv32_code_slot) / 4

ASSUME RunnerAssumption ==
    /\ MaxWord \in Nat /\ MaxWord >= 9
    /\ NScratch \in Nat /\ NScratch >= 2
    /\ LineSize \in Nat /\ ResponseSize \in Nat
    /\ BufferWords \in Nat /\ SlotWords \in 1..MaxWord

TokenType == [text : STRING, hex : Seq(STRING), digits : Seq(0..9), length : Nat]

ASSUME TokensAssumption == Tokens \subseteq Seq(TokenType)

(* The transported registers, in protocol order.  Each stands for the      *)
(* registers the glue treats alike: s0 for ra, gp, tp and s0-s11, which    *)
(* the monitor context keeps; t0 for t0-t2, which the handler stashes; a0  *)
(* for a0-a7; t3 for t3-t6, which the handler reuses after the snapshot.   *)
Order == << "x0", "s0", "t0", "a0", "t3" >>
NRegs == Len(Order)
NState == NRegs + NScratch

Ebreak == "ebreak"
BadDigit == "bad"         \* eight characters, one of them no hex digit
Torn == "torn"            \* a word of which only some bytes were stored
Instructions == { "addi", "add", "mv", "sw", "lw", "illegal", Ebreak }

\* Register values of the monitor itself; no transported value is negative.
MonitorSP == -1
MonitorS0 == -2
ScratchSP == -3
TrapSP == -4

Eof == [eof |-> TRUE, tokens |-> << >>]
Lines == { [eof |-> FALSE, tokens |-> ts] : ts \in Tokens } \cup {Eof}

\* The characters of a line: its tokens and a space between any two.
LineLength(ts) ==
    FoldLeft(LAMBDA n, t : n + t.length, 0, ts) + (IF ts = << >> THEN 0 ELSE Len(ts) - 1)

Silence == [kind |-> "none"]
Ready == [kind |-> "READY"]
OK(words) == [kind |-> "OK", words |-> words]
TRAP(cause, value) == [kind |-> "TRAP", cause |-> cause, value |-> value]
ERROR(reason) == [kind |-> "ERROR", reason |-> reason]

\* The decimal digits of a word, of which there is room for ten.
Tens == << 10, 100, 1000, 10000, 100000, 1000000, 10000000, 100000000, 1000000000 >>
Digits(v) ==
    CHOOSE n \in 1..10 : (n = 10 \/ v < Tens[n]) /\ \A k \in 1..(n - 1) : v >= Tens[k]

\* The characters of an answer without its newline; the longest reason has 22.
WordsLength(words) ==
    LET length[i \in 0..Len(words)] ==
            IF i = 0 THEN 0 ELSE length[i - 1] + 1 + Digits(words[i])
    IN  length[Len(words)]
ResponseLength(a) ==
    CASE a.kind = "READY" -> 17
      [] a.kind = "OK" -> 2 + WordsLength(a.words)
      [] a.kind = "TRAP" -> 19 + Digits(a.cause) + Digits(a.value)
      [] a.kind = "ERROR" -> 6 + 22

\* `response` has room for the largest state, trap and reason, and a newline.
ASSUME ResponseAssumption ==
    /\ 2 + NState * (1 + Digits(MaxWord)) + 1 < ResponseSize
    /\ 19 + 1 + Digits(MaxWord) + 1 < ResponseSize
    /\ 6 + 22 + 1 < ResponseSize

\* Mutant of Sent: two characters are kept back for the end of the line.
SentTight(a) == IF ResponseLength(a) + 2 < ResponseSize THEN a ELSE [kind |-> "cut"]

\* What does not fit in `response` is left out, the newline first of all.
Sent(a) == IF ResponseLength(a) + 1 < ResponseSize THEN a ELSE [kind |-> "cut"]

-----------------------------------------------------------------------------
(* The processor: what one instruction does to registers and scratch, and  *)
(* which instructions trap.                                                *)

Traps(instr) == instr \notin Instructions \ { "illegal", Ebreak }

Execute(instr, m) ==
    LET r == m.reg IN
    CASE instr = "addi" -> [m EXCEPT !.reg.a0 = (r.a0 + 1) % (MaxWord + 1)]
      [] instr = "add"  -> [m EXCEPT !.reg.t3 = (r.t3 + r.t0) % (MaxWord + 1)]
      [] instr = "mv"   -> [m EXCEPT !.reg.s0 = r.t3]
      [] instr = "sw"   -> [m EXCEPT !.scratch[1] = r.t0]
      [] instr = "lw"   -> [m EXCEPT !.reg.t0 = m.scratch[2]]

Cause(instr) == IF instr = Ebreak THEN 3 ELSE 2
Value(instr, at) == IF instr = Ebreak THEN at ELSE 0

-----------------------------------------------------------------------------
VARIABLES
    pc,
    line,             \* input_line
    cursor,           \* the tokens next_token has returned
    code_buffer,
    code_size,
    state,            \* the transport buffer
    index,            \* the loop counter of execute_request
    slot,             \* rv32_code_slot, as stores see it
    fetched,          \* rv32_code_slot, as instruction fetch sees it
    expected,         \* rv32_expected_break0
    ip,               \* the program counter of the test code
    reg,              \* the registers
    scratch,          \* rv32_scratch
    context,          \* rv32_monitor_context
    mscratch, stash,  \* the CSR, and t0-t2 on the trap stack
    csr,              \* mepc, mcause, mtval
    trap,             \* rv32_trap_cause, _value and _status
    answer            \* the last line sent

request == << line, cursor >>
code == << code_buffer, code_size, slot, fetched, expected >>
transport == << state, index >>
machine == << ip, reg, scratch, context, mscratch, stash, csr, trap >>
vars == << pc, request, code, transport, machine, answer >>

Init ==
    /\ pc = "send_ready"
    /\ line = Eof /\ cursor = 0
    /\ code_buffer = [i \in 1..BufferWords |-> "zero"] /\ code_size = 0
    /\ state = [i \in 1..NState |-> 0] /\ index = 1
    /\ slot = [i \in 1..SlotWords |-> "zero"] /\ fetched = slot
    /\ expected = 0 /\ ip = 0
    /\ reg = [s0 |-> MonitorS0, t0 |-> 0, a0 |-> 0, t3 |-> 0, sp |-> MonitorSP]
    /\ scratch = [i \in 1..NScratch |-> 0]
    /\ context = [s0 |-> 0, sp |-> 0]
    /\ mscratch = 0 /\ stash = 0
    /\ csr = [mepc |-> 0, mcause |-> 0, mtval |-> 0]
    /\ trap = [cause |-> 0, value |-> 0, status |-> 0]
    /\ answer = Silence

SendReady ==
    /\ pc = "send_ready"
    /\ answer' = Sent(Ready)
    /\ pc' = "read_line"
    /\ UNCHANGED << request, code, transport, machine >>

Overlong(ts) == LineLength(ts) > LineSize - 1

\* The end of the input, and a line the buffer cannot hold, end the monitor.
ReadLine ==
    /\ pc = "read_line"
    /\ \E l \in Lines :
        /\ line' = l
        /\ pc' = IF l.eof \/ Overlong(l.tokens) THEN "semihost_exit" ELSE "command"
    /\ cursor' = 0
    /\ answer' = Silence
    /\ UNCHANGED << code, transport, machine >>

More == cursor < Len(line.tokens)
Token == line.tokens[cursor + 1]
Is(command) == Token.text = command

\* A refusal: the ERROR line, and back to the next request.
Refuse(reason) ==
    /\ answer' = Sent(ERROR(reason))
    /\ pc' = "read_line"

Command ==
    /\ pc = "command"
    /\ \/ /\ ~More
          /\ Refuse("empty-command")
          /\ UNCHANGED cursor
       \/ /\ More
          /\ cursor' = cursor + 1
          /\ \/ Is("QUIT") /\ pc' = "semihost_exit" /\ UNCHANGED answer
             \/ Is("RUN") /\ pc' = "decode_code" /\ UNCHANGED answer
             \/ ~Is("QUIT") /\ ~Is("RUN") /\ Refuse("unknown-command")
    /\ UNCHANGED << line, code, transport, machine >>

\* Words of `hex` before the first that holds something else than hex digits.
Decodable(hex) ==
    LET bad == { i \in 1..Len(hex) : hex[i] = BadDigit }
    IN  IF bad = {} THEN Len(hex) ELSE (CHOOSE i \in bad : \A j \in bad : i <= j) - 1

\* A bad digit is met after the words before it have been stored.
DecodeCode ==
    /\ pc = "decode_code"
    /\ \/ /\ ~More
          /\ Refuse("malformed-code")
          /\ UNCHANGED << cursor, code_buffer, code_size >>
       \/ /\ More /\ cursor' = cursor + 1
          /\ LET hex == Token.hex
                 n == Decodable(hex)
             IN  \/ /\ hex = << >> \/ Len(hex) > BufferWords
                    /\ Refuse("malformed-code")
                    /\ UNCHANGED << code_buffer, code_size >>
                 \/ /\ hex # << >> /\ Len(hex) <= BufferWords
                    /\ code_buffer' = [i \in 1..BufferWords |->
                                         IF i <= n THEN hex[i]
                                         ELSE IF i = n + 1 /\ n < Len(hex) THEN Torn
                                         ELSE code_buffer[i]]
                    /\ IF n < Len(hex)
                       THEN Refuse("malformed-code") /\ UNCHANGED code_size
                       ELSE /\ code_size' = Len(hex)
                            /\ pc' = "parse_word" /\ UNCHANGED answer
    /\ index' = 1
    /\ UNCHANGED << line, state, slot, fetched, expected, machine >>

NotAWord == -1

\* Mutant of NextDigit: the test lets a value through that the sum overflows.
NextDigitLoose(v, d) ==
    IF v = NotAWord \/ v > MaxWord \div 10 THEN NotAWord ELSE (v * 10 + d) % (MaxWord + 1)

\* Tested before the word could wrap.
NextDigit(v, d) ==
    IF v = NotAWord \/ v > (MaxWord - d) \div 10 THEN NotAWord
    ELSE (v * 10 + d) % (MaxWord + 1)

ParseU32(digits) ==
    LET value[i \in 0..Len(digits)] ==
            IF i = 0 THEN 0 ELSE NextDigit(value[i - 1], digits[i])
    IN  IF digits = << >> THEN NotAWord ELSE value[Len(digits)]

\* A word goes to its place in `state` at once: an error leaves those before it.
ParseWord ==
    /\ pc = "parse_word" /\ index <= NState
    /\ IF More /\ ParseU32(Token.digits) # NotAWord
       THEN /\ cursor' = cursor + 1
            /\ state' = [state EXCEPT ![index] = ParseU32(Token.digits)]
            /\ index' = index + 1
            /\ UNCHANGED << pc, answer >>
       ELSE /\ Refuse("malformed-input-state")
            /\ UNCHANGED << cursor, state, index >>
    /\ UNCHANGED << line, code, machine >>

CheckRequest ==
    /\ pc = "parse_word" /\ index = NState + 1
    /\ \/ /\ More
          /\ Refuse("wrong-input-state-size")
       \/ /\ ~More /\ state[1] # 0
          /\ Refuse("invalid-initial-state")
       \/ /\ ~More /\ state[1] = 0
          /\ pc' = "install_code" /\ UNCHANGED answer
    /\ UNCHANGED << request, code, transport, machine >>

\* What is beyond the ebreak is what an earlier request left there.
Installed ==
    [a \in 1..SlotWords |-> IF a <= code_size THEN code_buffer[a]
                            ELSE IF a = code_size + 1 THEN Ebreak ELSE slot[a]]

\* Mutant of InstallCode: no room is kept for the terminating ebreak.
InstallCodeFull ==
    /\ pc = "install_code"
    /\ \/ /\ code_size > SlotWords
          /\ Refuse("unsupported-code")
          /\ UNCHANGED << slot, fetched, expected >>
       \/ /\ code_size <= SlotWords
          /\ slot' = Installed
          /\ fetched' = slot'
          /\ expected' = code_size + 1
          /\ pc' = "execute" /\ UNCHANGED answer
    /\ UNCHANGED << request, code_buffer, code_size, transport, machine >>

\* Mutant of InstallCode: without fence.i the old instructions may be fetched.
InstallCodeUnfenced ==
    /\ pc = "install_code"
    /\ \/ /\ code_size + 1 > SlotWords
          /\ Refuse("unsupported-code")
          /\ UNCHANGED << slot, fetched, expected >>
       \/ /\ code_size + 1 <= SlotWords
          /\ slot' = Installed
          /\ fetched' \in { fetched, slot' }
          /\ expected' = code_size + 1
          /\ pc' = "execute" /\ UNCHANGED answer
    /\ UNCHANGED << request, code_buffer, code_size, transport, machine >>

\* The store of the code, the ebreak behind it, and fence.i.
InstallCode ==
    /\ pc = "install_code"
    /\ \/ /\ code_size + 1 > SlotWords
          /\ Refuse("unsupported-code")
          /\ UNCHANGED << slot, fetched, expected >>
       \/ /\ code_size + 1 <= SlotWords
          /\ slot' = Installed
          /\ fetched' = slot'
          /\ expected' = code_size + 1
          /\ pc' = "execute" /\ UNCHANGED answer
    /\ UNCHANGED << request, code_buffer, code_size, transport, machine >>

LoadScratch ==
    /\ pc = "execute"
    /\ scratch' = [i \in 1..NScratch |-> state[NRegs + i]]
    /\ pc' = "rv32_run"
    /\ UNCHANGED << request, code, transport, ip, reg, context, mscratch, stash, csr, trap,
                    answer >>

SaveMonitorContext(r) == [s0 |-> r.s0, sp |-> r.sp]
RestoreMonitorContext(r, c) == [r EXCEPT !.s0 = c.s0, !.sp = c.sp]

LoadTransportState(st) ==
    [s0 |-> st[2], t0 |-> st[3], a0 |-> st[4], t3 |-> st[5], sp |-> ScratchSP]
SaveTransportState(st, r, t0) ==
    [i \in 1..NState |->
        CASE i = 1 -> 0 [] i = 2 -> r.s0 [] i = 3 -> t0 [] i = 4 -> r.a0 [] i = 5 -> r.t3
          [] OTHER -> st[i]]

\* From the C code to mret: nothing of the monitor is left in a register.
Rv32Run ==
    /\ pc = "rv32_run"
    /\ context' = SaveMonitorContext(reg)
    /\ mscratch' = TrapSP
    /\ reg' = LoadTransportState(state)
    /\ ip' = 1
    /\ pc' = "test"
    /\ UNCHANGED << request, code, transport, scratch, stash, csr, trap, answer >>

\* Beyond the slot is memory that holds no instruction.
Fetch(a) == IF a \in 1..SlotWords THEN fetched[a] ELSE "zero"

TestStep ==
    /\ pc = "test" /\ ~Traps(Fetch(ip))
    /\ LET m == Execute(Fetch(ip), [reg |-> reg, scratch |-> scratch])
       IN  reg' = m.reg /\ scratch' = m.scratch
    /\ ip' = ip + 1
    /\ UNCHANGED << pc, request, code, transport, context, mscratch, stash, csr, trap, answer >>

TestTrap ==
    /\ pc = "test" /\ Traps(Fetch(ip))
    /\ csr' = [mepc |-> ip, mcause |-> Cause(Fetch(ip)), mtval |-> Value(Fetch(ip), ip)]
    /\ pc' = "stash"
    /\ UNCHANGED << request, code, transport, ip, reg, scratch, context, mscratch, stash,
                    trap, answer >>

\* The handler's own stack, and t0-t2 to work with; t0 becomes an address.
Stash ==
    /\ pc = "stash"
    /\ mscratch' = reg.sp
    /\ stash' = reg.t0
    /\ reg' = [reg EXCEPT !.sp = mscratch, !.t0 = 0]
    /\ pc' = "snapshot"
    /\ UNCHANGED << request, code, transport, ip, scratch, context, csr, trap, answer >>

\* Mutant of Snapshot: t0 is stored from the register the handler is using.
SnapshotLate ==
    /\ pc = "snapshot"
    /\ state' = SaveTransportState(state, reg, reg.t0)
    /\ pc' = "record"
    /\ UNCHANGED << request, code, index, machine, answer >>

Snapshot ==
    /\ pc = "snapshot"
    /\ state' = SaveTransportState(state, reg, stash)
    /\ pc' = "record"
    /\ UNCHANGED << request, code, index, machine, answer >>

\* Mutant of Record: any breakpoint counts as the end of the sequence.
RecordAnyBreak ==
    /\ pc = "record"
    /\ reg' = [reg EXCEPT !.t3 = csr.mepc]
    /\ trap' = [cause |-> csr.mcause, value |-> csr.mtval,
                status |-> IF csr.mcause = 3 THEN 0 ELSE 1]
    /\ pc' = "restore"
    /\ UNCHANGED << request, code, transport, ip, scratch, context, mscratch, stash, csr,
                    answer >>

\* Mutant of Record: the test goes on after a trap that was not expected.
RecordResume ==
    /\ pc = "record"
    /\ reg' = [reg EXCEPT !.t3 = csr.mepc]
    /\ trap' = [cause |-> csr.mcause, value |-> csr.mtval,
                status |-> IF csr.mcause = 3 /\ csr.mepc = expected THEN 0 ELSE 1]
    /\ pc' = IF trap'.status = 0 THEN "restore" ELSE "test"
    /\ UNCHANGED << request, code, transport, ip, scratch, context, mscratch, stash, csr,
                    answer >>

\* Only the breakpoint at the appended address is the expected end.
Record ==
    /\ pc = "record"
    /\ reg' = [reg EXCEPT !.t3 = csr.mepc]
    /\ trap' = [cause |-> csr.mcause, value |-> csr.mtval,
                status |-> IF csr.mcause = 3 /\ csr.mepc = expected THEN 0 ELSE 1]
    /\ pc' = "restore"
    /\ UNCHANGED << request, code, transport, ip, scratch, context, mscratch, stash, csr,
                    answer >>

\* Mutant of Restore: the callee-saved registers of the test code come back.
RestoreNoSaved ==
    /\ pc = "restore"
    /\ reg' = [reg EXCEPT !.sp = context.sp, !.a0 = trap.status]
    /\ pc' = "return"
    /\ UNCHANGED << request, code, transport, ip, scratch, context, mscratch, stash, csr,
                    trap, answer >>

Restore ==
    /\ pc = "restore"
    /\ reg' = [RestoreMonitorContext(reg, context) EXCEPT !.a0 = trap.status]
    /\ pc' = "return"
    /\ UNCHANGED << request, code, transport, ip, scratch, context, mscratch, stash, csr,
                    trap, answer >>

\* Back in execute_request: the scratch words join the state, whatever the trap.
Return ==
    /\ pc = "return"
    /\ trap' = [trap EXCEPT !.status = reg.a0]
    /\ state' = [i \in 1..NState |-> IF i > NRegs THEN scratch[i - NRegs] ELSE state[i]]
    /\ pc' = "answer"
    /\ UNCHANGED << request, code, index, ip, reg, scratch, context, mscratch, stash, csr,
                    answer >>

SendState ==
    /\ pc = "answer" /\ trap.status = 0
    /\ answer' = Sent(OK(state))
    /\ pc' = "read_line"
    /\ UNCHANGED << request, code, transport, machine >>

SendTrap ==
    /\ pc = "answer" /\ trap.status # 0
    /\ answer' = Sent(TRAP(trap.cause, trap.value))
    /\ pc' = "read_line"
    /\ UNCHANGED << request, code, transport, machine >>

SemihostExit ==
    /\ pc = "semihost_exit"
    /\ pc' = "exited"
    /\ UNCHANGED << request, code, transport, machine, answer >>

\* All that happens without the client.
Serve ==
    \/ Command \/ DecodeCode \/ ParseWord \/ CheckRequest \/ InstallCode \/ LoadScratch \/ Rv32Run
    \/ TestStep \/ TestTrap \/ Stash \/ Snapshot \/ Record \/ Restore \/ Return
    \/ SendState \/ SendTrap \/ SemihostExit

Exited == pc = "exited" /\ UNCHANGED vars

Next == SendReady \/ ReadLine \/ Serve \/ Exited

Spec == Init /\ [][Next]_vars

-----------------------------------------------------------------------------
(* What a request means, said without the monitor: the first thing wrong   *)
(* with the line, or what a fresh machine makes of the code.               *)

\* The number a token spells, whatever its size.
Spelled(digits) ==
    LET value[i \in 0..Len(digits)] == IF i = 0 THEN 0 ELSE value[i - 1] * 10 + digits[i]
    IN  value[Len(digits)]

IsWord(t) == t.digits # << >> /\ Spelled(t.digits) <= MaxWord

IsCode(t) ==
    /\ t.hex # << >> /\ Len(t.hex) <= BufferWords
    /\ BadDigit \notin Range(t.hex)

\* A fresh machine with the given state words, and after so many instructions,
\* of which one that traps changes nothing.
Fresh(words) ==
    [reg |-> [s0 |-> words[2], t0 |-> words[3], a0 |-> words[4], t3 |-> words[5],
              sp |-> ScratchSP],
     scratch |-> [i \in 1..NScratch |-> words[NRegs + i]]]
After(instrs, words) ==
    LET m[i \in 0..Len(instrs)] ==
            IF i = 0 THEN Fresh(words)
            ELSE IF Traps(instrs[i]) THEN m[i - 1] ELSE Execute(instrs[i], m[i - 1])
    IN  m

\* The code run from the given state words, up to the first trap.
Outcome(instrs, words) ==
    LET stops == { i \in 1..Len(instrs) : Traps(instrs[i]) }
        first == CHOOSE i \in stops : \A j \in stops : i <= j
        m == After(instrs, words)[Len(instrs)]
    IN  IF stops = {}
        THEN OK([i \in 1..NState |->
                    IF i > NRegs THEN m.scratch[i - NRegs]
                    ELSE << 0, m.reg.s0, m.reg.t0, m.reg.a0, m.reg.t3 >>[i]])
        ELSE TRAP(Cause(instrs[first]), Value(instrs[first], first))

Meaning(l) ==
    LET ts == l.tokens
        Word(i) == Spelled(ts[i + 2].digits)
    IN  IF ts = << >> THEN ERROR("empty-command")
        ELSE IF ts[1].text # "RUN" THEN ERROR("unknown-command")
        ELSE IF Len(ts) < 2 \/ ~IsCode(ts[2]) THEN ERROR("malformed-code")
        ELSE IF Len(ts) < NState + 2 \/ \E i \in 1..NState : ~IsWord(ts[i + 2])
             THEN ERROR("malformed-input-state")
        ELSE IF Len(ts) > NState + 2 THEN ERROR("wrong-input-state-size")
        ELSE IF Word(1) # 0 THEN ERROR("invalid-initial-state")
        ELSE IF Len(ts[2].hex) >= SlotWords THEN ERROR("unsupported-code")
        ELSE Outcome(ts[2].hex, [i \in 1..NState |-> Word(i)])

Ends(l) == l.eof \/ Overlong(l.tokens) \/ (l.tokens # << >> /\ l.tokens[1].text = "QUIT")
Meanings(l) == IF Ends(l) THEN {} ELSE { Meaning(l) }

phase ==
    CASE pc = "send_ready" -> "starting"
      [] pc = "read_line" -> "idle"
      [] pc = "exited" -> "stopped"
      [] OTHER -> "busy"

-----------------------------------------------------------------------------
TypeOK ==
    /\ line \in Lines /\ cursor \in 0..Len(line.tokens)
    /\ DOMAIN code_buffer = 1..BufferWords /\ code_size \in 0..BufferWords
    /\ state \in [1..NState -> 0..MaxWord] /\ index \in 1..NState + 1
    /\ DOMAIN slot = 1..SlotWords /\ DOMAIN fetched = 1..SlotWords
    /\ expected \in 0..SlotWords /\ ip \in 0..SlotWords
    /\ reg.sp \in {MonitorSP, ScratchSP, TrapSP}
    /\ scratch \in [1..NScratch -> 0..MaxWord]
    /\ stash \in 0..MaxWord
    /\ trap.status \in {0, 1}

(* The C code never runs on a register of the test: once the handler has   *)
(* returned, the stack pointer and the callee-saved registers are again    *)
(* those rv32_run was called with (cosim_start.S, lines 80-83).            *)
OutsideMonitor == { "test", "stash", "snapshot", "record", "restore" }
MonitorContext ==
    pc \notin OutsideMonitor => reg.s0 = MonitorS0 /\ reg.sp = MonitorSP

(* Every instruction fetched is one of the request, or the ebreak behind   *)
(* it: nothing that an earlier, longer request left in the slot, and       *)
(* nothing the instruction cache still holds (cosim_runner.c, 334-345).    *)
OnlyRequestedCode ==
    pc = "test" =>
        /\ ip \in 1..expected
        /\ Fetch(ip) = IF ip = expected THEN Ebreak ELSE line.tokens[2].hex[ip]
        /\ expected = Len(line.tokens[2].hex) + 1
=============================================================================
