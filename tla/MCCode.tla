------------------------------- MODULE MCCode -------------------------------
(***************************************************************************)
(* What programs do and what becomes of them, on small instances:          *)
(* MCLh5801's programs under interrupts, the disassembler's analyses of    *)
(* images of a few addresses, and BASIC listings of a few lines typed into *)
(* the ROM.                                                                *)
(***************************************************************************)
EXTENDS MCLh5801, Analyzer, TextLoader

CONSTANT Families  \* of "cpu", "analysis" and "loader"

VARIABLE family

all == <<family, cpuVars, analyzerVars, loaderVars>>

Instr(flow, length, target) == [flow |-> flow, length |-> length, target |-> target]
MCInstructions ==
  {Instr("undefined", 1, 0), Instr("sequential", 2, 0), Instr("return", 1, 0),
   Instr("jump", 2, 8), Instr("branch", 2, 11), Instr("call", 2, 10), Instr("vector call", 1, 10)}
MCEntry(length, address, index) == [length |-> length, address |-> address, index |-> index]
MCEntries ==
  {NoEntry, MCEntry(2, 20, "one letter"), MCEntry(3, 21, "right"), MCEntry(2, 21, "wrong")}

\* Four addresses, any instruction at each; then the tables of two pages.
MCProgram(code) ==
  [base |-> 8, size |-> 4, code |-> code, words |-> (10 :> 9), vectors |-> <<>>, sentinels |-> {},
   entry |-> [a \in 8..11 |-> NoEntry]]
MCModule(entry, base, sentinels) ==
  [base |-> base, size |-> 22 - base, words |-> <<>>, vectors |-> <<20, 21>>, sentinels |-> sentinels,
   code |-> [a \in base..21 |-> IF a = 20 THEN Instr("sequential", 1, 0) ELSE Instr("return", 1, 0)],
   entry |-> [a \in base..21 |-> IF a \in DOMAIN entry THEN entry[a] ELSE NoEntry]]

MCModules ==
  {MCModule(entry, base, sentinels) :
     entry \in [{9, 10, 11, 14, 17} -> MCEntries], base \in {7, 8}, sentinels \in {{8}, {8, 16}}}

MCAnalyses ==
  {<<"program", MCProgram(code), <<>>>> : code \in [8..11 -> MCInstructions]}
    \cup {<<"module", i, IF i.base = 7 THEN <<21>> ELSE <<>>>> : i \in MCModules}
    \cup {<<"base", i, <<>>>> : i \in {i \in MCModules : i.base = 8 /\ i.sentinels = {8}}}

MCBaseSearch == <<8, 9, 12>>

\* An image up to the last address, with a table in its only page.
MCTop ==
  {<<"module",
     [base |-> 24, size |-> 8, words |-> <<>>, vectors |-> <<>>, sentinels |-> {24},
      code |-> [a \in 24..31 |-> Instr("return", 1, 0)],
      entry |-> [a \in 24..31 |-> IF a \in {25, 27} THEN MCEntry(2, 30, "one letter") ELSE NoEntry]],
     s>> : s \in {<<>>, <<29>>}}

NoAnalysis == <<"program", MCProgram([a \in 8..11 |-> Instr("return", 1, 0)]), <<>>>>

\* A line of atoms: words of a token each, a small letter, spaces, a word of
\* which an atom is too long for any pass, a character without a key.  No
\* character comes twice in a line and its number.
MCLine(number, words) == [number |-> number, atoms |-> words]
MCLabel == (10 :> <<"1", "0">>) @@ (20 :> <<"2", "0">>)
MCLong  == <<<<"A", "a">>, <<" ">>, <<"B", "b">>, <<":">>, <<"x">>, <<"C", "c">>, <<"5">>>>
MCShort == <<<<"A", "a">>, <<"5">>>>
MCListings ==
  {<<MCLine(10, MCLong)>>, <<MCLine(10, MCShort), MCLine(20, MCLong)>>,
   <<MCLine(10, MCShort), MCLine(10, MCLong), MCLine(10, <<<<"6">>>>)>>, <<MCLine(20, MCLong \o <<<<"D", "d">>>>)>>,
   <<MCLine(0, MCShort), MCLine(10, MCShort)>>, <<MCLine(10, <<<<"x">>>>), MCLine(0, MCLong)>>,
   <<MCLine(10, <<<<"x">>, <<"A", "B", "C", "D", "E", "F">>, <<"5">>>>)>>,
   <<MCLine(10, <<<<"x">>, <<"6">>, <<" ">>, <<"3">>, <<":">>, <<"~">>, <<"5">>>>), MCLine(20, MCShort)>>}

\* The same word twice in a line.
MCRepeats == {<<MCLine(10, <<<<"A", "a">>, <<"5">>, <<":">>, <<"A", "a">>, <<"6">>>>)>>}

Init ==
  /\ family \in Families
  /\ CpuInit
  /\ family # "cpu" => m.me0[\h7800] = 0 /\ requestsLeft = 2
  /\ IF family = "analysis" THEN AnalyzerInit ELSE analysis = NoAnalysis /\ AnalyzerStart
  /\ IF family = "loader" THEN LoaderInit
     ELSE listing = <<>> /\ loading = "done" /\ LoaderStart /\ ~sml

Next ==
  \/ family = "cpu" /\ CpuNext /\ UNCHANGED <<family, analyzerVars, loaderVars>>
  \/ family = "analysis" /\ AnalyzerNext /\ UNCHANGED <<family, cpuVars, loaderVars>>
  \/ family = "loader" /\ LoaderNext /\ UNCHANGED <<family, cpuVars, analyzerVars>>

\* The fairness of CpuFairSpec, AnalyzerSpec and LoaderSpec: who can go on does.
Fairness ==
  \/ []<>CASE family = "cpu" -> ~Runnable [] family = "analysis" -> phase = "done" [] OTHER -> loading = "done"
  \/ []<><<UNCHANGED <<requestsLeft, ticksLeft>>>>_<<m, phase, page, worklist, loaderVars>>

Spec == Init /\ [][Next]_all /\ Fairness

\* An analysis by itself, with AnalyzerSpec's fairness: its loop goes on while it can.
Analyzing == family = "analysis" /\ AnalyzerNext /\ UNCHANGED <<family, cpuVars, loaderVars>>
AnalysisSpec == Init /\ [][Next]_all /\ WF_all(Analyzing)
=============================================================================
