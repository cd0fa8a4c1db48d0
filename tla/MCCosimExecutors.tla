------------------------- MODULE MCCosimExecutors -------------------------
(***************************************************************************)
(* The lines the executors are checked with.  For the monitor, a word has  *)
(* four bits, the scratch buffer two words, and code_buffer and slot both  *)
(* hold three instructions (the program: 128 each), so that a request of   *)
(* three is the one that decodes and cannot be installed.  For the script, *)
(* a state of two words of two bits, and code units of two bytes as on     *)
(* AArch64 (the program: four).                                            *)
(***************************************************************************)
EXTENDS CosimExecutors

Name(s) == [text |-> s, hex |-> << >>, digits |-> << >>, length |-> 4]
Hex(words) == [text |-> "other", hex |-> words, digits |-> << >>, length |-> 8 * Len(words)]
Ragged == [text |-> "other", hex |-> << >>, digits |-> << >>, length |-> 7]
Numeral(ds) == [text |-> "other", hex |-> << >>, digits |-> ds, length |-> Len(ds)]

\* A run of the code from x0 = 0, s0 = 2, t0 = 3, a0 = 15, t3 = 14, scratch 9, 0.
Inputs == << Numeral(<<0>>), Numeral(<<2>>), Numeral(<<3>>), Numeral(<<1, 5>>),
             Numeral(<<1, 4>>), Numeral(<<0, 9>>), Numeral(<<0>>) >>
Run(words, inputs) == << Name("RUN"), Hex(words) >> \o inputs
With(i, ds) == [Inputs EXCEPT ![i] = Numeral(ds)]

MCMonitorTokens ==
    { << >>,
      << Name("QUIT") >>,
      << Name("PING"), Numeral(<<1>>) >>,
      << Name("RUN") >>,
      << Name("RUN"), Ragged >> \o Inputs,
      Run(<< "mv", "bad" >>, Inputs),
      Run(<< "sw", "add" >>, Inputs),
      Run(<< "addi", "lw" >>, Inputs),
      Run(<< "mv" >>, With(3, <<5>>)),
      Run(<< "ebreak", "sw" >>, Inputs),
      Run(<< "illegal" >>, Inputs),
      Run(<< "mv", "mv", "mv" >>, Inputs),
      Run(<< "mv", "mv", "mv", "mv" >>, Inputs),
      Run(<< "mv" >>, With(1, <<1>>)),
      Run(<< "mv" >>, With(5, <<1, 6>>)),
      Run(<< "mv" >>, SubSeq(Inputs, 1, 6)),
      Run(<< "mv" >>, Inputs \o << Ragged >>),
      Run(<< "mv" >>, [Inputs EXCEPT ![4] = Ragged]),
      Run(<< "mv" >>, With(2, [i \in 1..40 |-> 0])) }

Keyword(s) == [text |-> s, bytes |-> << >>, value |-> 0]
Code(bytes) == [text |-> "other", bytes |-> bytes, value |-> 0]
ScriptWord(v) == [text |-> "other", bytes |-> << >>, value |-> v]
ScriptRun(bytes, x, y) == << Keyword("RUN"), Code(bytes), ScriptWord(x), ScriptWord(y) >>

MCScriptTokens ==
    { << >>, << Keyword("QUIT") >>, << Keyword("PING") >>,
      << Keyword("RUN"), Code(<< "1f", "20" >>), ScriptWord(1) >>,
      ScriptRun(<< "1f" >>, 0, 1),
      ScriptRun(<< "1f", "20" >>, 3, 1),
      ScriptRun(<< "1f", "20", "03", "03" >>, 1, 0),
      ScriptRun(<< "20", "1f" >>, 1, 0) }
=============================================================================
