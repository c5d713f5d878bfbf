---------------------------- MODULE DebugTarget ----------------------------
(***************************************************************************)
(* The emulator as a debugger sees it: once a frame it reads the command   *)
(* FIFO, carries out the lines it has read one by one, most of them with   *)
(* an answer that overwrites the one response file, and then runs a        *)
(* frame's instructions, under breakpoints once a debug command has come.  *)
(*                                                                         *)
(* The program is a loop of the places 0 to Places-1 entered at 0; two     *)
(* more places stand for the ROM, which goes where it likes.  What a       *)
(* command reads or writes of the memory is left out.                      *)
(***************************************************************************)
EXTENDS Integers, Sequences, FiniteSets

CONSTANTS
  Places,         \* instructions of the program
  StepsPerFrame   \* instructions of a frame: kCyclesPerFrame

ASSUME TargetAssumption == Places \in Nat \ {0} /\ StepsPerFrame \in Nat \ {0}

VARIABLES
  target,   \* pc, debugControlActive, debugRunning, breakpoints, lastStopReason
  fifo,     \* lines written and not yet read
  batch,    \* cmdBuf: lines of this frame still to be carried out
  frameAt,  \* where the frame is: "read" or "lines"
  file      \* what the response file says since a caller last looked at its time

targetVars == <<target, fifo, batch, frameAt, file>>

Program == 0..(Places - 1)
OutsidePlaces == {Places, Places + 1}
Entry == 0

Line(name, breaks) == [name |-> name, breaks |-> breaks]
Plain(name) == Line(name, {})
Answered(line) == line.name \notin {"call", "poke"}

\* An answer, by what the adapter's parsers find in it.
Empty == [kind |-> "empty", stopped |-> FALSE, reason |-> "", pc |-> -1]
Text(kind) == [Empty EXCEPT !.kind = kind]
Unchanged == Text("unchanged")
RegisterDump(t) == [Text("registers") EXCEPT !.pc = t.pc]
Status(t) == [kind |-> "status", stopped |-> ~t.running, reason |-> t.reason, pc |-> t.pc]

TargetInit ==
  /\ target \in [pc : OutsidePlaces, control : {FALSE}, running : {FALSE},
                 breaks : {{}}, reason : {"entry"}]
  /\ fifo = <<>> /\ batch = <<>> /\ frameAt = "read"
  /\ file = Unchanged

-----------------------------------------------------------------------------
\* Where n instructions from pc may lead.
After(pc, n) ==
  IF n = 0 THEN {pc} ELSE IF pc \in Program THEN {(pc + n) % Places} ELSE OutsidePlaces

SetBreakpoints(t, line) == {[t EXCEPT !.breaks = line.breaks, !.control = TRUE]}
Continue(t, line) ==
  {[t EXCEPT !.pc = pc, !.control = TRUE, !.running = TRUE, !.reason = ""] : pc \in After(t.pc, 1)}
Pause(t, line) == {[t EXCEPT !.control = TRUE, !.running = FALSE, !.reason = "paused"]}
DebugStep(t, line) ==
  {[t EXCEPT !.pc = pc, !.control = TRUE, !.running = FALSE, !.reason = "step"] : pc \in After(t.pc, 1)}
CallEntry(t, line) == {[t EXCEPT !.pc = Entry]}
Reads(t, line) == {t}

\* processCommand: what the machine may be after a line.
CarriedOut(t, line) ==
  CASE line.name = "setbreakpoints" -> SetBreakpoints(t, line)
    [] line.name = "continue" -> Continue(t, line)
    [] line.name = "pause" -> Pause(t, line)
    [] line.name = "debugstep" -> DebugStep(t, line)
    [] line.name = "call" -> CallEntry(t, line)
    [] OTHER -> Reads(t, line)

\* What a line may answer; a program or a ROM that cannot be read is an error.
AnswersTo(t, line) ==
  CASE line.name = "debugstatus" -> {Status(t)}
    [] line.name = "debugstep" -> {RegisterDump(t)}
    [] line.name = "peek" -> {Text("value")}
    [] line.name = "load" -> {Text("OK"), Text("ERR")}
    [] OTHER -> {Text("OK")}

\* The frame's reads take every line there is.
ReadLines ==
  /\ frameAt = "read"
  /\ batch' = fifo /\ fifo' = <<>> /\ frameAt' = "lines"
  /\ UNCHANGED <<target, file>>

\* A line; writeResponse overwrites the file.
CarryOut ==
  /\ frameAt = "lines" /\ batch # <<>>
  /\ batch' = Tail(batch)
  /\ target' \in CarriedOut(target, Head(batch))
  /\ IF Answered(Head(batch))
     THEN file' \in AnswersTo(target', Head(batch))
     ELSE UNCHANGED file
  /\ UNCHANGED <<fifo, frameAt>>

\* Instructions until the first whose place has a breakpoint.
Clear(t) == CHOOSE n \in 0..StepsPerFrame :
  /\ \A k \in 0..(n - 1) : After(t.pc, k) \cap t.breaks = {}
  /\ n = StepsPerFrame \/ After(t.pc, n) \cap t.breaks # {}

\* A frame's instructions: free, or under debug control and while it runs.
RunFrame ==
  /\ frameAt = "lines" /\ batch = <<>>
  /\ frameAt' = "read"
  /\ IF target.control
     THEN IF target.running
          THEN LET n == Clear(target) IN
               \E pc \in After(target.pc, n) :
                 target' = IF n < StepsPerFrame
                           THEN [target EXCEPT !.pc = pc, !.running = FALSE, !.reason = "breakpoint"]
                           ELSE [target EXCEPT !.pc = pc]
          ELSE UNCHANGED target
     ELSE \E pc \in After(target.pc, StepsPerFrame) : target' = [target EXCEPT !.pc = pc]
  /\ UNCHANGED <<fifo, batch, file>>

TargetNext == ReadLines \/ CarryOut \/ RunFrame
=============================================================================
