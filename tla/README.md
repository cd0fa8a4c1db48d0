# TLA+ models of s2n-bignum

s2n-bignum is a library of big-integer and cryptographic routines written in
assembly for ARM and x86.  Each routine comes with a HOL Light proof of its
machine code.  The models here look at the same routines from the other side:
as algorithms over a word size, a memory and argument sizes that are all
parameters, so that TLC can walk through *every* call on a small machine and
TLAPS can prove the result for all machines.  The two agree by construction on
what is to be shown, because the contracts of the models are translated from
the statements of the HOL Light theorems.

## Inventory

A routine keeps no state between calls.  Its state is that of the running call:
program counter, registers, the carry flag and memory.  Routines interact
by calling each other (or by inlining a local copy) and through the buffers they
share: a result may be written in place of an operand, or over a scratch area
that the next routine reads.  Nothing in the library runs concurrently.

The cosimulation tools do.  `common/cosim.ml`, the HOL side, keeps a session with
an executor, which runs instructions on the processor so that the instruction
semantics can be compared with it.  The executor is `tools/simulate-persistent`,
a server that runs a one-case command (`armsimulate`, `x86simulate`) for each
request, or the RV32IM monitor `riscv/proofs/cosim_runner.c`, which keeps all its
buffers from one request to the next.  They talk in lines over two pipes; signals,
deadlines and killed processes come in between.  `tools/run-sematest.sh` starts
several simulators and waits for them.

| Component | State | Operations | What makes it hard | What makes it correct |
|---|---|---|---|---|
| `bignum_add`, `bignum_sub` (`arm/generic`) | counters, carry flag, memory | three loops over words, clamp of both sizes, tail | in place use; the flag across counter updates; zero sizes; the inverted borrow | the result modulo B^p, the exact carry out, nothing else changed, constant time |
| `bignum_mul` | column, three-word accumulator | columns of products | overflow of the accumulator; empty columns; reads outside the operands | the truncated product |
| `bignum_montredc` and its relatives | window with a top carry | copy, pad, clear the lowest word, shift, correct | the carry of a word that becomes zero; two carries into one bit; input shorter than the window | a reduced residue of x / B^p |
| `bignum_modexp` | three scratch numbers, bit counter | Montgomery products, selection, conversion | products are not reduced; buffers change roles; the result may replace the modulus | a^p mod m |
| multiply-accumulate (`cmul`, `cmadd`, `cmnegadd`, `madd`, `sqr`) | high word and flag | one pass in place and a tail | returned word absorbs the flag | exact value of result and returned word |
| modular add, subtract, double, negate | flag, mask | pass, comparison, masked correction | in place; the carry above the top word; zero input | a reduced result |
| optional operations, `mux` | mask | masked passes | masks in place of branches | the selected value and its carry |
| `modinv`, `coprime` | four numbers, 2x2 matrix, proxies | chunks of about 58 division-free steps | decisions taken on proxies; bounds of the cofactors | the inverse; the answer |
| `cdiv`, `cmod`, `divmod10` | remainder, reciprocal | estimates and corrections | estimates off by one; carries of the corrections | quotient and remainder |
| comparisons, shifts, counts, copies, tables | flag or index | one scan | all entries are read, one is kept | the value; constant time |
| field arithmetic (P-256, P-384, P-521, 25519, secp256k1, SM2) | registers | straight-line code | lazily reduced intermediate values | field operation |
| point operations, scalar multiplication | table, accumulator, sign | recoding into signed windows, table scans, doublings | exceptional cases of the addition; the top digit | the multiple of the point |
| rejection samplers (ML-KEM, ML-DSA) | count, read pointer | batches of candidates | writes beyond 256 entries into scratch | the first 256 accepted values in order |
| NTT, Keccak, AES-XTS | registers | transforms; ciphertext stealing | short last block | the standard's function |
| HOL Light framework (`common`, `arm/proofs`, `x86/proofs`) | - | definitions, proofs, instruction semantics | - | theorems; `SOUNDNESS.md` |
| `common/cosim.ml` | session, pipes, process group, watchdog | start, execute, close, give up | late answers, processes that ignore a signal, a signal during a wait | each result belongs to its request; nothing is left running |
| `tools/simulate-persistent`, `armsimulate`, `x86simulate` | request, temporary files, child | parse, build, run, print, clean up | a signal between any two steps; exit codes of three processes | one answer for each line; no file left |
| `riscv/proofs/cosim_runner.c`, `cosim_start.S` | line, code and state buffers, code slot, trap context | read, parse, install, enter, trap, print | half-overwritten buffers of a failed request; registers of two contexts | the answer depends on the request alone |
| `tools/run-sematest.sh` | children, shell options | launch, wait, inspect logs | children end in any order and manner | what the exit code means |
| tests, benchmarks, other tools, headers | - | - | - | - |

`PROJECT.json` lists these components with what is modelled of each, and the
hazards of the code at the lines where they bite.

## Plan

What was planned, in this order, and what became of it:

1. `Bignum`, `Ensures`: vocabulary and contract. *(done)*
2. `BignumAdd`, `BignumSub`, with proofs; constant time as a product of two
   runs. *(done)*
3. `BignumMul`, with proofs. *(done)*
4. `BignumMontredc`: the loop and its window, with proofs. *(done)*
5. `BignumModexp`: composition over the contracts of the subroutines, with
   proofs. *(done)*
6. `RunSematest`, with proofs. *(done)*
7. The cosimulation session: the promise of an executor, both executors as its
   refinements, the client composed with the promise. *(done, with proofs)*
8. `Library`: one call of each function, at a toy size, against the header's
   promise: multiply-accumulate, modular and optional operations, the Montgomery
   functions that `BignumModexp` assumes, scans, division, inverses; fields,
   points and scalars; samplers and coefficients. *(done, with the exceptions
   named at the end)*
9. `word_negmodinv` at full precision, each step squaring the error, as a theorem
   *(done, in `BignumMontredcProofs`)*; `bignum_madd` as a state machine with the
   proof of `bignum_mul`. *(open)*
10. x86 variants of `bignum_add`, `bignum_sub` and `bignum_mul` as refinements of
    the same contracts. *(open)*

11. What `Library` checks of loops over words, as theorems for every word size and
    length. *(done for the 38 functions of `OptionalOperations`, `Scans` and
    `MultiplyAccumulate`)*

Abstract specifications: `Ensures` serves every routine with a buffer result,
`CosimExecutor` both executors, and the modules named `...Contract` say what the
header promises.

## Modules

### `Bignum`

Words `0..B-1`, a flat memory of words, the value of k words at an address
(`bignum_from_memory`), the lowest digits, overlap and frames, after
`common/bignum.ml`, `common/overlap.ml` and `common/relational.ml`.  `B` is 2^64
in the library; the models assume only `B > 1`, and for Montgomery reduction that `B`
is a power of two up to 2^80 (`BinaryAssumption`): the inverse of a word is computed with
shifts, and has 80 correct bits.  Addresses count words: the
modelled routines access memory at word strides only, from aligned pointers.  Counters and
addresses are integers: arguments lie in memory, so that no counter reaches the
end of a 64-bit register.

### `Ensures`

The contract: `Init`, a step `Run` that changes memory inside the frame only, and
`Return`, which must establish the postcondition.  A routine implements it by

    Contract == INSTANCE Ensures WITH status <- ..., ret <- ..., Post <- ..., Frame <- ...
    Implements == Contract!Spec
    Terminates == Contract!Returns

Together they are what `ensures` of `relational.ml` says (a return is always
reached, and there post and frame hold).  The frame is stronger here: it holds at
every step.  The clauses about the code's own bytes, the stack pointer and the
registers an ABI allows to change are left out.

### `BignumAdd`, `BignumSub`

The program counter takes the source's labels, one action is one basic block, and
a block's conditional branch is the new value of `pc`.  Registers that change are
variables (`p`, `m`, `n`, `i`, the carry `cf`, in the subtraction also `a`, whose
value lives on from one block to another);
those that keep their value are read from the record `call`, which
also holds the memory at entry, so that postconditions can speak of it.  `Init` is
the precondition of the HOL Light theorem: any sizes, any contents, any flag, each
source disjoint from the result or starting where it starts.  `x0` holds `p` and
then the result, so `p` is the contract's return value.

`SourcesIntact` says that in-place use is safe: what is still to be read has
not been written.  `PartialSum` and `PartialDifference` relate the words written,
the carry wherever it lives at the moment (flag, mask or return register) and the
words read.

### `BignumAddConstantTime`

Two instances of `BignumAdd` in lockstep with the same sizes and pointers and
independent memories and flags (`LockstepSpec`).  `ConstantTime` compares what an
observer of branches and addresses sees; SOUNDNESS.md's notion of constant time, and the
one that `BIGNUM_MUL_SUBROUTINE_SAFE` and its kind prove by event traces.

### `BignumMul`

`OuterLoop` chooses the terms of a column, `InnerLoop` adds one product into the
accumulator `(c,h,l)`, every addition reduced modulo `B` as the instructions do,
`InnerEnd` writes a digit.  `PartialProduct` says that no carry is lost although
nothing tests for it.  `TypeOK` includes that loads stay inside `x` and `y`.  The
bound `MaxSize <= B + 1` is the number of terms that three words hold; sizes are
words, hence below `B` in the library.

### `BignumMontredc`

All blocks, including the inverse of the modulus' lowest word and the comparison
and correction at the end.  The carry flag is followed
where a later instruction reads it.  `Window` is the loop's invariant: the window shifted
up is the part of `x` it has passed plus a multiple of the modulus.
Two of its parts are invariants of their own: `TopCarryIsBit` is what the final
comparison relies on, `InverseOK` is the promise of `word_negmodinv`.

### `BignumModexp`

One level up: memory is one number for each buffer, and each of the four
subroutines is known from the contract proved for it.  `bignum_amontmul`
promises only a k-word number of the right residue, so the model lets *any* such number come
back; when a destination overlaps a source that it must be disjoint from, nothing is
promised and any number may come back, so that the model also answers for the
legality of the calls.  `PowerSoFar` holds between iterations, `Result` at the
return, also when the result's buffer is that of the base, the exponent or the
modulus.  `bignum_amontifier` may leave anything in its temporary buffer.  The
model does not cover an even modulus, of which the contract says nothing, nor a
result that overlaps an operand in part.  The routine's local copies of its
subroutines are, instruction for instruction, `bignum_amontifier`,
`bignum_amontmul`, `bignum_demont` and `bignum_mux`; that these keep the contracts
assumed here is checked in `MontgomeryNumbers` and `OptionalOperations`.

### `RunSematest`

The script's loop with the shell options as state, and the simulators, which end
at any time: with agreement, with an exception in the log, or killed.  Simulators
are not part of the script and their action `End` is external.

### `CosimExecutor`

What the client relies on: an executor greets once, then answers each request with
one line that depends on that request alone, or ends the session when the request
says so.  `Mortal` tells which executors may be killed from outside.

### `CosimRunner`

The RV32IM monitor with its trap glue.  One action is one phase between two points
where control can be lost: reading a line, parsing, copying the code into the slot,
entering by `mret`, one instruction of the code, the trap, the snapshot,
the response.  A decimal number is read digit by digit (`NextDigit`), with the test that
the code makes before it multiplies; that the sum never wraps is a theorem and not a
definition.  Every buffer survives a request, and an error leaves it half
overwritten, so that the question is whether anything of it can reach a later
answer.  `OnlyRequestedCode` says that what executes is the request's code,
`MonitorContext` that the monitor gets its registers back.  Registers are
represented by one of each kind that the glue treats alike.  The processor is
external.

### `SimulatePersistent`

The server script, the processes it waits for (`mktemp`, `rm` and the command it
starts for each request) and the binary the command builds, as one group.
`REQUEST_OUTPUT="$(mktemp)"` is four steps: bash starts `mktemp` (`StartMktemp`), which
creates a file (`CreateFile`) and tells its name (`PrintName`), and bash assigns what it
was told, perhaps nothing (`TakeName`).  `rm` and the assignment behind it are three.

A signal with a trap (HUP, INT, TERM) may arrive at any step.  `Signal` reaches the
server alone: bash handles it (`HandleSignal`) when the process it waits for has ended,
and before its next command.  `SignalGroup` also ends the process waited for where it
is: `mktemp` before or after it has created the file, `rm`, the command.  The traps are
still set in `cleanup` (`exiting`), where a second signal ends the script.  `KillCommand`
kills the command alone, whose binary goes on, or the binary alone; `Kill` the server.

`NoFileLeft` and `SignalEnds` are what the script's traps are for.  A file may be left,
and one only, in two cases, which the invariant names: a signal to the group ended
`mktemp` after it had created the file and before the server had its name (`lost`), or a
second signal arrived before the `rm` of `cleanup` had done its work.

### `CosimExecutors`, `MCCosimExecutors`

Either executor behind a session.  `AnswersItsRequest` is the safety part of
`CosimExecutor` under a refinement mapping, with the answer that a line *means*
(`Meanings`) defined apart from the buffers: each step of an executor is a step of the
promise, or one that the client cannot see.  `Answered` is the fairness of the promise
under the same mapping: a request is answered or ends the session.  The MC module
lists the lines: one for each way in which the programs treat a line differently.
`ScriptAssumption` and, in `CosimRunner`, `TokensAssumption` say what a line is made
of; `ResponseAssumption` that the monitor's `response` is long enough for whatever it may
have to say: in the source it has 4096 characters for at most 95 words of ten digits.

### `CosimClient`

The client, the pipes, the watchdog and the executor's process group, composed with
the *abstract* executor, which may be slow, die, ignore SIGTERM or leave a worker
process behind.  `InStep` is what keeps results and requests together; `GroupGone`
is what the watchdog is for.  `Interrupt` is an exception out of the `select` of
`cosim_read_line`: in the wait for an answer the session stays open, in the wait for the
greeting nobody holds it any more (`"lost"`), and nothing closes it.

### `Library` and the modules it instantiates

Most functions of the library are loops or straight lines of arithmetic that keep
no state between instructions worth observing; what can be wrong is the arithmetic,
at some operand that no test tries.  Here a call is one step (`Calls`): a caller
picks a family (a field, a group order, a curve, a word size, polynomials) and one
function with operands from the range the header allows, and the result must be what
the header promises.  The functions compute with the words, carries, masks and
estimates of the code; the promises are in numbers:

| Code | Functions as computed | Promise |
|---|---|---|
| P-256, SM2, P-384 fields and orders | `FieldMontgomery` | `FixedSizeContract` |
| P-521 | `FieldMersenne` | `FixedSizeContract` |
| 2^255-19 | `FieldCurve25519` | `FixedSizeContract` |
| secp256k1 | `FieldSecp256k1` | `FixedSizeContract` |
| orders near a power of two | `PowerOrders` | `FixedSizeContract` |
| Jacobian points, scalar multiplication | `JacobianPoints` over `Curve` | `FixedSizeContract` |
| modular and optional operations, `mux` | `WordLoops`, `OptionalOperations` | `GenericContract` |
| `cmul`, `cmadd`, `cmnegadd`, `madd`, `sqr`, shifts, copies | `MultiplyAccumulate` | `GenericContract` |
| division by a word, decimal digits | `WordDivision` | `GenericContract` |
| Montgomery functions of any length | `MontgomeryNumbers` | `GenericContract` |
| `modinv`, `coprime`, `word_divstep59` | `Inverses` | `GenericContract` |
| counts, comparisons, bit fields, normalization | `Scans` | `GenericContract` |
| functions of one word | `WordOperations` | `GenericContract` |
| byte order, tables | `MemoryLayout` | `GenericContract` |
| ML-KEM, ML-DSA samplers and coefficients | `Polynomials` | `PolynomialContract` |

In place use is part of it: a loop reads and writes named buffers, and the result may
name an operand's buffer.  Words behind the length that the caller gave are kept at ones,
to be noticed where they are read and missed where they are overwritten.  A mask made from
a word that is neither zero nor one, or an estimate that outgrows its word, gives a
result that no promise allows.

## Runs

| Run | Bounds | Shows |
|---|---|---|
| `BignumAdd` | B = 2, 5 words of memory, arguments of 0..3 words | contract, in-place safety, invariant, return |
| `BignumSub` | B = 3, 4 words of memory, arguments of 0..3 words | the same; with B = 3 a word is not its own negation |
| `BignumAddConstantTime` | B = 2, 3 words of memory, arguments of 0..3 words | no dependence on data |
| `BignumMul` | B = 2, 6 words of memory, arguments of 0..3 words | contract, accumulator, return |
| `BignumMontredc` | B = 4, 4 words of memory, arguments of 0..3 words | contract, window, inverse, top carry, return |
| `BignumModexp` | words of 2 bits, up to 2 of them, moduli 1, 3, 7, 9 and 15, all bases and exponents | power, reduced result, aliasing |
| `RunSematest` | 4 simulators | meaning of exit code 0, exit |
| `RunSematestAnnounced` | 3 simulators | finding, below |
| `CosimExecutors` | 19 lines for the monitor, 8 for the script, any number of requests | refinement: each answer is that of its request alone; code and context of the monitor; no file left but in the two cases named; answers come, and a signal ends the server |
| `CosimClient` | 3 requests in a session | results belong to requests, the session is in step, no process left, the client comes back |
| `CosimClientInterrupted` | 2 requests | finding, below |
| `Library` | 32 families, about two million calls | the header's promises, for fields, points, numbers and polynomials |

Why the bounds are enough.  In an addition with arguments of up to three words
every loop runs zero, one and more times, in every combination of m, n and p, and
five words of memory hold two disjoint arguments or three overlapping ones.
The word size only matters to a carry, which two values already produce; where it
matters more, it is larger: with three values the tail mask of the subtraction
differs from its negation, with four the inverse and the top carry are not
trivial; three words of x are needed to bring a second carry to the top of the
window.
Columns of `bignum_mul` with three terms are the most that B = 2 admits
(`ColumnAssumption`), and they fill the accumulator.  The moduli of
`BignumModexp` leave a residue one, two or three representatives, so an
almost-reduced product really differs from a reduced one; two words of two bits
make the exponent cross a word boundary.  The theorems below remove the bounds for
all five routines, for the executors and for the client.

The executors have no bound on the number of requests: their states repeat.  The
monitor's code buffer and slot hold three instructions, so that a request of three
decodes but leaves no room for the final `ebreak`; a word has four bits so that
decimal overflow is one digit away; a line limit of 60 characters admits every good
request and cuts the long one.  Three requests are enough for a late answer to meet
the second and an interrupt to shift the third.

The toy sizes of `Library` keep what the code relies on, not what the parameters look like:

- A field of the Montgomery family has as many words as the real one and a prime of the
  same form relative to them.  P-256 fits all pairs of operands (199 below 256); the
  others run one operand over everything and the other near the boundaries 0, p/2, p and
  r. SM2 appears twice: with half words of base 3 for everything but `triple`, whose
  quotient needs half words of 5 (`SM2Wide`).  curve25519 appears with many small words
  and with few large ones.
- An order is as far from the power of two as the estimates of its reduction need.
- Curves of order about 30 run every pair of points, in every Jacobian representation by
  two scales, through the sums and doublings; larger ones run every scalar. The order of
  a larger curve fills its bits as the real one does, because the signed windows depend
  on it.  P-384 never negates its scalar: this is safe because its order is 19 modulo
  32, more than half of the window's base, as 239 is 7 modulo 8. `p256_scalarmulbase` is
  safe because no block of the order's digits but the last exceeds half of its base,
  which is true of block sizes 2 to 31 and would first fail at 32; the toy order 509
  does so for block sizes 2 to 5.  Multiplication in P-521 would meet a doubling inside
  of an addition at the scalar n - 18, were it not negated first.
- Words have 2 bits where lengths and carries matter (all numbers of up to three words),
  3 where a word is estimated or inverted, 12 for decimal digits, which must fit into
  the part of a word that is divided at a time, and for `word_negmodinv`, whose steps
  all matter from 9 bits on, 16 for functions of one word, 10 and 13 for the packed
  registers of `word_divstep59`.  `bignum_modinv` gets 10 bits: the 6 bits between a
  word (64) and its chunk (58) are kept, which leaves a chunk of 4.
- Samplers have 4 entries where the code has 256, and vectors of 2 lanes; 16 candidates,
  accepted or not in every pattern, are enough to run past the entries into the scratch
  area. ML-KEM's 16-bit functions run on every 16-bit input, ML-DSA's 32-bit ones around
  each place where the quotient by twice GAMMA2 changes.


Each property of a passing run has a mutant in the module it is about: a plausible
slip in the code (a flag-setting decrement, a counter not advanced, an unclamped
size, a dropped carry) under which TLC finds the property violated.

### Fairness

`WF_vars(Next)` for the routines: a processor that runs a routine keeps executing
it, and each routine has exactly one enabled step until it returns.  For
`BignumModexp` a step is a call of a subroutine, which returns by its own
contract (`ensures` includes termination).  For the script: the shell keeps
running, and each simulator ends, since `simulator.ml` stops at a time limit
(`time_limit_sec`) and stops at the first disagreement.

For an executor: it runs until it waits for a line (`WF` on greeting and serving),
and nothing obliges the client to send one.  For the client: its own steps and the
watchdog's are taken when they are possible, a deadline included; *nothing* is
assumed of the executor, which is the point of `ComesBack`.  `Library` has no
liveness: its calls are single steps.

## Findings

`tools/run-sematest.sh` executes `set -e` only at the end of the loop's body (line
40).  In the first iteration a simulator that is killed by a signal, so that its
log has no `error:`, is announced as "finished successfully" (line 38) although
`wait` returned its failure (line 27), and if the others pass, the script exits with
0.  From the second iteration on the failing `wait` ends the script.  The run
`RunSematestAnnounced` has the trace; `SuccessMeans` states, and
`SuccessCorrect` proves, what an exit code of 0 does mean.

`common/cosim.ml` waits for the first byte of an answer in a `select` (line 172) outside
of the `try` whose handlers deal with an interrupted system call (191-193).  A signal
that the user's program handles by raising an exception, an interrupt from the keyboard
for instance, leaves `cosim_execute` there without giving the session up: it stays open,
and the next call reads the answer to the interrupted request.  `CosimClientInterrupted`
has the trace; `ResultUnlessInterrupted` is what holds.  During the greeting the same
exception leaves an executor running that no session owns: `start_cosim_executor` has
returned nothing and registered nothing with `at_exit`.

Noticed while reading, and not the subject of a run:

- `bignum_optneg` returns, by `include/s2n-bignum.h:758` ("nonzero input") and by its own
  comment (`arm/generic/bignum_optneg.S:6` and `12`, "equivalent to x is nonzero", and the
  same under `x86`), whether its input is nonzero.  The code returns the carry of the
  negation, which is 0 for *every* input if the flag p is zero (k = 1, x = 1, p = 0, for
  instance): the comments are false there.  `BIGNUM_OPTNEG_CORRECT`
  (`arm/proofs/bignum_optneg.ml:54`, `~(p = 0) /\ ~(a = 0)`) and the reference in
  `tests/test.c:10215` agree with the code.  It is the theorem's carry, not the comment's,
  that `GenericContract` promises of this function, that `NumbersKeepPromise` checks and
  that `OptionalOperationsKeepPromise` proves.
- A failed build in `armsimulate` is not noticed: the script goes on, runs an empty file,
  and ends with the status of its last command, `rm -f`, which is 0.  The server reports
  TRAP exit-0, as if the instruction had trapped; for the same reason the status in a
  TRAP is never that of a fault.
- `tools/simulate-persistent` leaves the file of `mktemp` in the two cases that
  `NoFileLeft` excepts; both need a signal within one system call or two.
- The header comment of `arm/mlkem/mlkem_rej_uniform_VARIABLE_TIME.S` gives `X0 = buf,
  X1 = r`; the prototype and the code have the two the other way round.
- `arm/mldsa/mldsa_poly_use_hint_88.S:59` says that 0x58160581 is 1477837185; it is
  1477838209, which is what the algorithm needs.
- The headers of `mldsa_rej_uniform_eta2` and `_eta4` speak of at most `outlen` entries
  written; all 256 are always stored.  The library header declares `buflen` as
  `unsigned` where the code uses the 64-bit register.
- `mldsa_chknorm` takes its bound as an unsigned 32-bit number and compares signed.
- `bignum_copy_row_from_table_16` and `_32` run their row loop at least once; a table
  without rows is excluded by the preconditions of their proofs.

## Proofs

| Module | Theorems |
|---|---|
| `BignumTheorems` | lemmas only: powers and sums as recursive functions, value of a memory block, its digits, carries and borrows, frames; the product of two numbers column by column; quotients, remainders and powers of two; that a loop is a function of its steps |
| `BignumAddProofs` | `TypeCorrect`, `SumCorrect`, `SourcesStayIntact`, `Correctness`, `ContractHolds`; `ConstantTimeHolds` of `BignumAddConstantTime` |
| `BignumSubProofs` | `TypeCorrect`, `DifferenceCorrect`, `SourcesStayIntact`, `Correctness`, `ContractHolds` |
| `BignumMulProofs` | `TypeCorrect`, `ProductCorrect`, `Correctness`, `ContractHolds` |
| `BignumMontredcProofs` | `TypeCorrect`, `InverseHolds`, `TopCarryHolds`, `WindowHolds`, `Correctness`, `ContractHolds` |
| `BignumModexpProofs` | `TypeCorrect`, `PowerSoFarHolds`, `ResultHolds` |
| `CosimExecutorsProofs` | `ParseCorrect`, `SessionTypeHolds`, `MonitorContextHolds`, `OnlyRequestedCodeHolds`, `NoFileLeftHolds`, `AnswersItsRequestHolds` |
| `ToolAndLoopProofs` | of `CosimClient`: `ResultHolds`, `InStepHolds`, `GroupGoneHolds`; of `RunSematest`: `SematestTypeCorrect`, `SuccessCorrect`; of the functions for numbers of any length: `OptionalOperationsKeepPromise`, `ScansKeepPromise`, `MultiplicationsKeepPromise` |

They assume `BaseAssumption` (B > 1), `SizeAssumption`, for the multiplication
`ColumnAssumption`, for Montgomery reduction `BinaryAssumption`, for the modular power
that words have at least one bit and moduli are odd (`ProblemAssumption`), and for
`run-sematest.sh` that N is a natural number: nothing about the size of memory or of the
operands.  About the executors they assume what the constants are (`RunnerAssumption`,
`TokensAssumption`, `ScriptAssumption`: a word holds a decimal digit, there are two
words of scratch for the two that instructions name, the state of the script has more
than one word) and `ResponseAssumption`; about the client, that some request is sent
(`ClientAssumption`).  Lines, names, buffers, the code slot and words may be of any
size.  About the functions for numbers of any length they assume only that a word has at
least one bit and the longest number some length (`Sizes`).  The additions of a product
also name the bound of their runs, `SmallWords`, which may be any length up to that and
up to B (`ProductSizes`): a column of B + 2 products could overflow the three words
of its accumulator, and the code relies on memory being smaller than 2^64 words.
Powers of two are the one thing about which `Sizes` needs a lemma of its own
(`TwicePower`): 2^n counts the subsets of n things, of which the library says that one
more thing doubles them.

*Addition and subtraction.*  `PartialSum` is not inductive alone.  `IInv` adds the
precondition of the call (`CallOK`, constant), the counters of each label (`Counters`:
how the remaining counts and the index add up to the clamped sizes, and that a loop's
count is not zero) and `PrefixWritten` (only the first `i` words of the result have
changed).  The last implies `SourcesIntact` for both ways of aliasing: a source in place
has its words at the indices not yet written, a disjoint one none at all.  Each loop
step then is the lemma `ChainStepHolds` (or its counterpart for borrows): one word with
its carry extends the sum by one digit.  At the return the invariant is the exact
postcondition, and `LowDigitsPrefix` turns values of prefixes into residues.

*Constant time.*  `SameControl`: the two runs agree on the registers that control
flow and addresses, and on p until it becomes the result.

*Multiplication.*  The product is summed twice, by columns as the routine does (`Terms`)
and by rows (`Rows`); `ColumnsStep` shows that adding a column adds what the rows grow
by, and `ProductSplit` that all columns before `col` are the product up to a multiple of
B^col.  The accumulator cannot overflow because of an invariant about its size
(`AtMost`): a column starts from at most two words, after t of its terms it holds at
most B^2 - 1 + t (B-1)^2, and with at most B + 1 terms this stays below B^3; the shift
at the end of the column leaves two words again.  `Loops` says where the pointers are,
which bounds every load.

*Montgomery reduction.*  `NegModInvCorrect` first: the start value has five correct bits
(a property of the 32 words modulo 32, whatever the others are), and each of the four
steps replaces an error e by its square, so that two to the 80th divides what is left.
`Window` is inductive only with more about the loops. `Balanced` names what the window
has lost: shifted up by the iterations done, it is the part of x it has passed plus a
multiple of the modulus, short of the dropped words, which are zero if the modulus is
odd (an even modulus is legal, promises nothing and yet has to keep types and frame, so
the invariant must hold for it too).  From the size of the balance follows that the top
carry is a bit.  `Inner` is the partial sum inside an iteration: the words moved so far,
the high word, the flag and the words not yet reached are the old window plus d times
the modulus.  `Subtracting` is that of the correction, where the comparison with the top
carry decides between zero and the modulus as the number subtracted.  `FrameInv` and
`Counters` keep the unread part of x intact, also if z is x, and every load inside it:
`TypeOK` says of each word that is loaded from x (`XLoads`) that it is one of the n words
of x and of its lowest k + p, and of the loops that their indices stay below k.

*Modular power.*  `PowerSoFar` speaks of one label; its inductive form `FormInv` says at
every label what the scratch buffers are: z is R^2 up to the modulus before the loop, x
the base in Montgomery form, y the square and z the product inside an iteration.  That
the numbers are only almost reduced is no obstacle, because congruences are all that
`FormProduct` (a Montgomery product of two numbers in Montgomery form is in Montgomery
form) needs, together with `SameCancel`: an odd modulus allows a power of two to be
cancelled.  `NextBit` and `BitFetched` connect the bit fetched from a word with the
exponent consumed so far; only the last conversion has to be reduced (`SameReduced`), as
its contract says.

*`run-sematest.sh`.*  `Progress`: what the iterations before i have established.

*The decimal reader.*  `ParseCorrect` compares the reader with the number that the
digits spell without a bound.  The value read is that number as long as it is a word,
and a refusal from then on (`NextDigitCapped` for one digit); the test made before the
multiplication is exact, so that the wrap modulo 2^32 in the code never happens.

*The monitor.*  None of the properties is inductive, because each is about one label and
the buffers live on between labels and between requests.  The inductive `MonitorInv`
says of each label which buffers belong to the present request, and thereby that what an
earlier request has left is in no other:

- `MonitorTypes`: buffers, indices and registers hold what their types say.
- `MonitorRequest`: what has been established about the line so far, and that the part
  of `code_buffer` and `state` that has been filled is the line's.  Nothing is said
  about the rest, which an earlier or a refused request has left.  From the installation
  on, the instructions that the processor fetches are those of the line and the `ebreak`
  (`Loaded`), which is `OnlyRequestedCode` before it is needed.
- `MonitorRun`: the machine is where the first `ip - 1` instructions of the line take a
  fresh machine (`Course`), and each phase of the trap handler has moved a part of it:
  t0 into the stash, the rest into `state`, the cause into `trap`.
- `MonitorKept`: the monitor's own registers are in the registers or in its context.

`OutcomeFacts` turns "the first k - 1 instructions do not trap and number k does" into
the meaning of the line, which knows nothing of a machine that steps.  What is sent fits
into the response (`StateSent`, `TrapSent`): the digits of a word are at most those of
the largest (`DigitsMonotonic`).

*The server script.*  `ScriptInv` is built in the same way.  `ScriptRequest` keeps the
bytes of the code argument, `ScriptRun` says that the output in the file, as far as
there is one, is an output of this request, and that each process of the command has the
registers that the one before gave it.  `NoFileLeft` needs `ScriptControl`, which says of
each step of the server whether it is in `cleanup` and how many signals it may have
handled, and `ScriptFiles`: at most one file exists, and it is the one in
`REQUEST_OUTPUT`, the one that a running `mktemp` is about to name, or the one that was
lost; between the last use of a file and the next `mktemp` there is none.
`AssembledBytes` shows that the byte order of the code argument (units, each reversed) and that of the assembler cancel.

*Both executors refine the promise.*  `AnswersItsRequestHolds` maps every step: in
`MonitorMoves` and `ScriptMoves` it is a greeting, a request taken, a reply from
`Meanings` of the line, a stop that the line asks for or that a signal forces, or
nothing the client can see.  That a reply is one of the meanings is `Refusal` where the
line is refused, since `MonitorRequest` says that nothing before it was wrong, and
`AnswerFacts` where the code has run.  The executor that is not the session's rests in
its initial state.

*The client.*  `InStep` and `ResultUnlessInterrupted` follow from `Session`: until a
signal has interrupted a wait, at most one line is on its way, and it is the greeting,
the request waited for, or its answer, according to where client and executor are.
`GroupGone` follows from `Processes`: a closed session has reached the label `returned`
only by a path on which the leader was reaped and the group was seen without a member,
or killed by a signal that cannot be ignored; the watchdog ends only so.  The executor
enters by the actions of its promise alone, which `AnswersItsRequestHolds` shows to be
those of either program.

*Functions for numbers of any length.*  `OptionalOperationsKeepPromise`,
`ScansKeepPromise` and `MultiplicationsKeepPromise` say of a caller, who calls any of
the functions with any operands again and again, that each call keeps the promise of
`GenericContract`.  They cover 38 functions: modular sums, differences,
doublings and negations, the optional operations, `mux` and `mux16`; all of `Scans`,
that is the comparisons, the tests for zero and for parity, the counts of words and of
bits, `digit`, `bitfield`, `of_word`, `pow2` and `normalize`; all of
`MultiplyAccumulate`, that is `cmul`, `cmadd`, `cmnegadd`, `madd`, `sqr`, `copy`,
`shl_small` and `shr_small`.  The hypotheses are that a word has at least one bit, that
the bounds of the operands are natural numbers and, for products, that none is longer
than B words.  In each the work is in the invariant of a loop (`LoopExists`: a loop is a
function of the words done; `LoopInduction`):

- Additions and subtractions are one chain (`Chain`): two operands, each read as it is,
  complemented, as zeros or as ones, and a carry.  After n words, what has been written
  plus the carry with the weight B^n is the sum of what has been read (`Summed`).  The
  words not yet reached are as they were (`Intact`), whence an operand may be
  overwritten.  What the last carry means is then arithmetic: `ReducedSum` where a
  modulus is added back, `DoubledIsSum` where the doubling and the comparison with the
  modulus are one loop and the bit shifted out is not in the chain's carry.
- A comparison is the borrow over the longer of the two lengths, with zeros above the
  shorter number (`Extended`, `NotLessIs`).  A scan remembers an index and a word
  (`Topmost`, `Bottommost`); these bound the number from both sides (`WordsOf`), or
  divide it (`TrailingWords`), which determines the count.
- A count of bits is the scan for a word and the count in that word: `ClzIs` bounds the
  word by powers of two; for the zeros below the lowest bit, `ZerosBelowIs` shows what
  word the subtraction of one leaves.  An odd number times 2^t is divided by 2^j for j up
  to t and no further (`RemaindersOf`), which carries the count from the word over to the
  number, as the bounds do for the highest bit.
- A bit field is cut from the two words that hold it (`Reading`): the shift by the index
  is one by words and one by bits (`DividedTwice`), and the second word contributes what
  the mask lets through (`FieldOf`), nothing if the field lies in one word.
- `normalize` moves the words k - 1 times by one place, or by none.  After j rounds the
  number has been multiplied by B^r, where r rounds have moved it, and if the highest
  word is still zero every round has (`Normal`, `RoundsNormalize`).  Then the bits are
  shifted (`LiftedIs`); `NormalizedBy` shows that nothing is shifted out and that the
  places add up to the header's count, also for zero (`BitsAre`).
- Products with a word, copies and shifts up write z from the lowest word on; what is
  left over is a word, a word and a flag, or a negative borrow (`Written`, whose step is
  `WrittenStep`).  `MultiplyAddIs` shows that `cmadd` loses nothing by adding the flag
  and the high word in two steps, `CmaddPromise` that the word returned cannot overflow,
  and `CmnegaddPromise` that complementing the source is made up for by the start value
  c and the final c - h.
- A shift down runs the other way: each word has the low bits of the one above it.
  Multiplied by 2^c the words telescope (`ShiftedDownSum`), and the word above the
  result, where the source is longer, is the one that a cut would lose
  (`ShiftOfNumber`).
- `madd` and `sqr` go by columns.  Each adds to what the one before has left over its
  products and, for `madd`, the word of z that it replaces (`Columns`, `ColumnStep`);
  what is left over is at most m (B - 1) for a source of m words, whence the accumulator
  has room (`ColumnFits`).  The products that a column leaves out because an index is
  beyond a source are zero (`ColumnIs`), so that all columns below p are the product up
  to a multiple of B^p (`ColumnAdds`, `ProductSplit`).  In a square a column reads the
  same from either end (`TotalMirrored`): half of it, doubled, and the square in the
  middle are the whole (`SquareColumn`).

Out of the prover's reach, and checked by TLC only, is liveness: `Terminates` of the
routines, `Exits`, `Answered` (the fairness of the promise, the other half of the
refinement), `SignalEnds` and `ComesBack`. The induction over data (that the value of a
block is the sum of its digits, or that a reader agrees with a definition, for every
length) is done without the library's induction theorems, on a set of numbers, from the
order of the naturals being well-founded (`SetInduction`, `UpToInduction`).
Model-checked only are the four invariants of `Library` as they stand, since each is
about many functions, most of them at word sizes that are part of the algorithm.  Of
`NumbersKeepPromise` the theorems above prove the part about loops over words; left to
TLC are, with `WordDivision`, `MontgomeryNumbers`, `Inverses` and `WordOperations`, the
estimates by which a word's quotient or inverse is found, which are exact only for words
of a certain size.

## Not modelled, and why

- NTT, Keccak and the body of AES: transforms without control that depends on data and
  with a size that is part of the algorithm, so that no small instance resembles them.
  The ciphertext stealing of AES-XTS is the one piece with control; it moves bytes
  between two blocks.
- Fixed-size fields: the inverses (`bignum_inv_*`, on `word_divstep59`'s matrix, which
  is modelled), square roots, the products without reduction under `fastmul`, and the
  variants that promise less than a reduced result.  Products are taken as numbers
  before their reduction; the Karatsuba and interleaved versions of the same product are
  not told apart.
- curve25519 and edwards25519 above the field: ladder and encoding.
- `word_recip`: its result is taken as the quotient its contract states; its steps have
  constants for 64 bits.
- `mlkem_mulcache_compute`, `mldsa_chknorm`, `mldsa_polyz_unpack_*`: a table lookup, a
  comparison, an unpacking.
- x86 variants: the same algorithms, with a borrow that is not inverted.  Planned as
  refinements of the same contracts.  The generated `x86_att` sources are those of
  `x86`.
- The HOL Light framework is a proof, not a program; what states contracts in it is
  translated in `Bignum` and `Ensures`.
- Tests, benchmarks and the other scripts call one routine, or one child process, after
  the other.
- In the cosimulation: how words are spelled, how the command is chosen; `.bss` is zero
  at the start; deadlines are events without a length.  Of the signals to
  `simulate-persistent`: a kill of `mktemp` or of `rm` alone, a second signal while the
  first is pending, and an INT to the script alone that comes when `mktemp` has told
  its name and not yet ended: bash forgets it, so that it is a step without effect and
  none that `SignalEnds` speaks of.  Of the client: an
  exception that a signal handler raises outside of the `select`, and its own end.
