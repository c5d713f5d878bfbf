----------------------------- MODULE TimerPulse -----------------------------
(***************************************************************************)
(* The timer pulse TP of the uPD1990AC clock chip (Upd1990ac), as the I/O  *)
(* port shows it twice: as a level in OPB and as an edge in IF bit 1, the  *)
(* bit the ON key (BREAK) latches too.  BASIC's WAIT counts TP's periods   *)
(* in a loop of the ROM that polls both; the frame loop of main.cpp moves  *)
(* the chip's clock to the host's once a frame, between two instructions.  *)
(*                                                                         *)
(* Time is counted in units a little longer than one poll of the loop.     *)
(* Only what is left of it matters: the time since the chip was set, up to *)
(* whole periods, the age of OPB's last read, up to the debounce, and the  *)
(* time into the frame.  The ROM is not part of the repository: its loop   *)
(* LE89C-LE8BC is the one the comments and traces of the tests describe.   *)
(***************************************************************************)
EXTENDS Integers

CONSTANTS
  Half,      \* half a period of TP: 0.5 / tpRateHz_
  Debounce,  \* kTpResyncDebounceSeconds
  Spin,      \* from one read of OPB to the loop's next
  Gap,       \* from the loop's read of OPB to its read of IF
  Frame,     \* what a frame's instructions advance the clock: kCyclesPerFrame
  Ahead,     \* bound: how much longer than that a frame of the host may take
  Back       \* bound: how much shorter

ASSUME PulseAssumption ==
  /\ {Half, Debounce, Spin, Gap, Frame} \subseteq Nat \ {0}
  /\ {Ahead, Back} \subseteq Nat
  /\ Gap < Debounce /\ Debounce < Half /\ Back < Half /\ Back < Frame
  /\ Spin + Gap + Ahead <= Half /\ Spin + Gap < Frame

VARIABLES
  configured, \* tpConfigured_
  elapsed,    \* now() - tpEpoch_, whole periods dropped once past the first
  level,      \* tpLevel_
  pendingEdge, \* tpEdgePending_
  opbAge,     \* now() - lastOpbSyncTime_; Debounce if older, or never read
  flag,       \* IF bit 1, kTpFlagBit
  onKey,      \* onKeyLine_
  mi,         \* miPending_ of the CPU
  frame,      \* how far the frame's instructions are
  rom,        \* where the ROM is
  due,        \* time to the ROM's next read
  lead,       \* how far the clock was set back behind where it had been
  ticksOwed,   \* rising edges of TP so far, less those the ROM has counted
  keyed       \* ON went down since the ROM last cleared the flag

chip  == <<configured, elapsed, level, pendingEdge, opbAge>>
clock == <<frame, lead, ticksOwed>>
key   == <<onKey, mi, keyed>>
pulseVars  == <<chip, flag, clock, key, rom, due>>

\* run: before a statement's BREAK check; statement: past it, or at the
\* prompt; the others: in WAIT's loop.
RomPlaces == {"run", "statement", "high", "low", "check"}
InWait == rom \in {"high", "low", "check"}

PulseTypeOK ==
  /\ {configured, level, pendingEdge, flag, onKey, mi, keyed} \subseteq BOOLEAN
  /\ elapsed \in -Back..(4 * Half - 1)
  /\ opbAge \in 0..Debounce /\ frame \in 0..Frame
  /\ rom \in RomPlaces /\ due \in 0..(Spin + Gap)
  /\ lead \in 0..(Back + Ahead) /\ ticksOwed \in Int

PulseInit ==
  /\ configured = FALSE /\ elapsed = 0 /\ level = FALSE /\ pendingEdge = FALSE
  /\ opbAge = Debounce /\ flag = FALSE /\ onKey = FALSE /\ mi = FALSE
  /\ frame = 0 /\ rom = "run" /\ due = 0 /\ lead = 0 /\ ticksOwed = 0
  /\ keyed = FALSE

-----------------------------------------------------------------------------
(* The chip.                                                               *)

\* Slip: the half-period of twice the rate.
HighTwiceAsFast(t) == 2 * t >= Half /\ ((2 * t) \div Half) % 2 = 1

\* The level half-periods since the epoch give; before it, none has begun.
High(t) == t >= Half /\ (t \div Half) % 2 = 1

\* syncTp: the level now, and whether an edge is pending.
SyncedLevel(t)   == IF configured THEN High(t) ELSE level
SyncedPending(t) == pendingEdge \/ (configured /\ High(t) /\ ~level)

\* tp(), with the clock at t: a fresh sample, which takes the edge with it.
\* What it returns is TpBit.
TpBit(t) == SyncedLevel(t) \/ SyncedPending(t)
Tp(t) ==
  /\ level' = SyncedLevel(t)
  /\ pendingEdge' = FALSE
  /\ opbAge' = IF configured THEN 0 ELSE Debounce

\* Slip: no debounce.
TrustsNothing == FALSE

\* consumeRisingEdge() trusts OPB's read while that is young.
Trusts == opbAge < Debounce

Edge == IF Trusts THEN pendingEdge ELSE SyncedPending(elapsed)

\* Slip: reading IF clears the bit, whoever reads.
ReadIFClears ==
  /\ flag' = Edge
  /\ level' = IF Trusts THEN level ELSE SyncedLevel(elapsed)
  /\ pendingEdge' = FALSE
  /\ UNCHANGED <<configured, elapsed, opbAge>>

\* The port's read of IF: the edge is taken and latched; the bit stays.
ReadIF ==
  /\ flag' = (flag \/ Edge)
  /\ level' = IF Trusts THEN level ELSE SyncedLevel(elapsed)
  /\ pendingEdge' = FALSE
  /\ UNCHANGED <<configured, elapsed, opbAge>>

\* The port's read of OPB leaves IF alone.
ReadOPB == Tp(elapsed) /\ UNCHANGED <<configured, elapsed, flag>>

\* latchCommand, group 1: a TP rate.
SelectRate ==
  /\ configured' = TRUE
  /\ elapsed' = 0 /\ level' = FALSE /\ pendingEdge' = FALSE /\ opbAge' = Debounce

\* latchCommand, group 0: a register mode, which ends TP.
RegisterMode ==
  /\ configured' = FALSE
  /\ elapsed' = 0 /\ level' = FALSE /\ pendingEdge' = FALSE /\ opbAge' = Debounce

-----------------------------------------------------------------------------
(* The clock and the frame loop.                                           *)

Fold(t) == IF t >= 4 * Half THEN t - 2 * Half ELSE t

Larger(a, b) == IF a > b THEN a ELSE b

RisesUpTo(t) == (t + Half) \div (2 * Half)

\* The clock moves by d; ticksOwed counts the edges beyond where it had been.
Move(d) ==
  IF configured
  THEN LET was == elapsed + lead
           top == Larger(was, elapsed + d)
       IN /\ elapsed' = Fold(elapsed + d)
          /\ lead' = top - (elapsed + d)
          /\ ticksOwed' = ticksOwed + RisesUpTo(top) - RisesUpTo(was)
  ELSE UNCHANGED <<elapsed, lead, ticksOwed>>

\* An instruction's time: advanceManualClock.
Tick ==
  /\ frame < Frame /\ ~mi
  /\ InWait => due > 0
  /\ frame' = frame + 1
  /\ due' = IF InWait THEN due - 1 ELSE 0
  /\ Move(1)
  /\ opbAge' = IF configured /\ opbAge < Debounce THEN opbAge + 1 ELSE opbAge
  /\ UNCHANGED <<configured, level, pendingEdge, flag, key, rom>>

\* The next frame: useManualRtcClock re-anchors the clock, pollRtc samples.
NextFrame ==
  /\ frame = Frame
  /\ frame' = 0
  /\ \E d \in -Back..Ahead : Move(d) /\ Tp(elapsed + d)
  /\ UNCHANGED <<configured, flag, key, rom, due>>

-----------------------------------------------------------------------------
(* The ROM.                                                                *)

\* The interpreter's BREAK check at a statement's start (LC42A), or the
\* prompt's (LE269): IF alone; a BREAK found is cleared (LC4C6).
BreakCheck ==
  /\ rom = "run" /\ ~mi
  /\ level' = IF Trusts THEN level ELSE SyncedLevel(elapsed)
  /\ pendingEdge' = FALSE
  /\ flag' = FALSE
  /\ flag \/ Edge
  /\ keyed' = FALSE
  /\ UNCHANGED <<configured, elapsed, opbAge, clock, onKey, mi, rom, due>>

NoBreak ==
  /\ rom = "run" /\ ~mi
  /\ ~(flag \/ Edge)
  /\ ReadIF
  /\ rom' = "statement"
  /\ UNCHANGED <<clock, key, due>>

StartWait ==
  /\ rom = "statement" /\ ~mi
  /\ SelectRate
  /\ rom' = "high" /\ due' = Spin
  /\ lead' = 0 /\ ticksOwed' = 0
  /\ UNCHANGED <<flag, frame, key>>

OtherStatement ==
  /\ rom = "statement" /\ ~mi
  /\ rom' = "run"
  /\ UNCHANGED <<chip, flag, clock, key, due>>

\* The loop: until TP is low, then until it is high, with a look at IF
\* whenever it still is not.
PollHigh ==
  /\ rom = "high" /\ due = 0
  /\ ReadOPB
  /\ rom' = IF TpBit(elapsed) THEN "high" ELSE "low"
  /\ due' = Spin
  /\ UNCHANGED <<clock, key>>

PollLow ==
  /\ rom = "low" /\ due = 0
  /\ ~TpBit(elapsed)
  /\ ReadOPB
  /\ rom' = "check" /\ due' = Gap
  /\ UNCHANGED <<clock, key>>

\* A period counted; the loop goes on, or U has reached zero and WAIT ends
\* with a register-mode command (LE8C3).
CountTick(last) ==
  /\ rom = "low" /\ due = 0
  /\ TpBit(elapsed)
  /\ IF last THEN /\ RegisterMode
                  /\ rom' = "run" /\ due' = 0
                  /\ lead' = 0 /\ ticksOwed' = 0
             ELSE /\ Tp(elapsed) /\ UNCHANGED <<configured, elapsed>>
                  /\ rom' = "high" /\ due' = Spin
                  /\ ticksOwed' = ticksOwed - 1 /\ UNCHANGED lead
  /\ UNCHANGED <<flag, frame, key>>

CheckBreak ==
  /\ rom = "check" /\ due = 0
  /\ ReadIF
  /\ ~(flag \/ Edge)
  /\ rom' = "low" /\ due' = Spin
  /\ UNCHANGED <<clock, key>>

\* LE8B4: BREAK; the flag is left for the interpreter's own check.
AbortWait ==
  /\ rom = "check" /\ due = 0
  /\ flag \/ Edge
  /\ flag' = TRUE
  /\ RegisterMode
  /\ rom' = "run" /\ due' = 0 /\ lead' = 0 /\ ticksOwed' = 0
  /\ UNCHANGED <<frame, key>>

\* The maskable interrupt's handler (LE171) looks at another bit of IF. The
\* ROM waits with interrupts enabled: it is the CPU's next step.
HandleMI ==
  /\ mi
  /\ mi' = FALSE
  /\ ReadIF
  /\ UNCHANGED <<clock, onKey, keyed, rom, due>>

-----------------------------------------------------------------------------
(* The ON key, in the host's events between two frames: setOnKeyLine and   *)
(* requestMI.                                                              *)
PressOn ==
  /\ ~onKey /\ frame = Frame
  /\ onKey' = TRUE /\ flag' = TRUE /\ mi' = TRUE /\ keyed' = TRUE
  /\ UNCHANGED <<chip, clock, rom, due>>

ReleaseOn ==
  /\ onKey /\ frame = Frame
  /\ onKey' = FALSE
  /\ UNCHANGED <<chip, flag, clock, mi, keyed, rom, due>>

RomRuns ==
  /\ ~mi
  /\ \/ PollHigh \/ PollLow \/ CheckBreak \/ AbortWait
     \/ \E last \in BOOLEAN : CountTick(last)

PulseNext == Tick \/ NextFrame \/ RomRuns \/ StartWait \/ OtherStatement
          \/ BreakCheck \/ NoBreak \/ HandleMI \/ PressOn \/ ReleaseOn

PulseSpec == PulseInit /\ [][PulseNext]_pulseVars

(* Instructions run and frames follow each other; a BASIC program that is  *)
(* not in a WAIT, or the prompt, reaches its BREAK check: of the many      *)
(* instructions of a frame an interrupt takes a few, so that it cannot be  *)
(* kept from it by presses that come once a frame (hence SF).              *)
PulseFairSpec == PulseSpec /\ WF_pulseVars(Tick) /\ WF_pulseVars(NextFrame) /\ WF_pulseVars(RomRuns)
                 /\ WF_pulseVars(HandleMI)
                 /\ SF_pulseVars(BreakCheck) /\ SF_pulseVars(OtherStatement)

-----------------------------------------------------------------------------
\* BREAK is only ever the ON key: no tick of the clock chip shows up in the
\* flag the two share, in a WAIT, after it or at the prompt.
BreakOnlyByKey == flag => keyed

\* WAIT counts every period of TP once: none that has not begun, so that WAIT n
\* is no shorter than n/64 s of the chip's time, and none is missed - at most the
\* tick under way is uncounted.
TicksCountedOnce == ticksOwed \in 0..1

\* A BREAK is heard: the press stays in the flag, whoever reads it, until
\* the ROM has acted on it, a WAIT of any length in between or not.
BreakIsHeard == keyed ~> ~keyed

=============================================================================
