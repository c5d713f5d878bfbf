------------------------------- MODULE IoPort -------------------------------
(***************************************************************************)
(* The I/O controller's serial transmitter, and the clock chip behind its  *)
(* port C (src/src/bus: IoPortController, Upd1990ac).  The chip's time is  *)
(* shifted in and out a bit at a time, the LSB first; here it is Bits wide *)
(* (40 in the chip) and every content is a time.  Its timing pulse is      *)
(* module TimerPulse's.                                                    *)
(***************************************************************************)
EXTENDS Naturals, Sequences

CONSTANTS
  Bits,       \* width of the chip's shift register
  Selectors,  \* values of F's bits 2-0 the program writes
  Cycles,     \* cycles the machine runs at a time
  MaxOpcWrites, MaxSends, MaxTicks  \* bounds: writes to port C, bytes, seconds

ASSUME IoAssumption ==
  /\ Bits \in Nat \ {0} /\ Selectors \subseteq 0..7 /\ Cycles \subseteq Nat \ {0}
  /\ {MaxOpcWrites, MaxSends, MaxTicks} \subseteq Nat

VARIABLES
  fReg, td, txCycles,  \* register F's selector, IF's TD flag, txCyclesRemaining_
  sending,     \* history: a byte was written and TD has not been set since
  sentWith,    \* history: F's selector then
  prevStb, prevClk, mode, register,  \* the chip: pins, mode_, shiftRegister_
  clock,       \* the time it keeps
  shiftedIn,   \* history: bits clocked in since TIME SET
  shown,       \* history: bits seen on DATA OUT since a TIME READ, and the time then
  opcWrites, sends, ticks  \* counters

txVars == <<fReg, td, txCycles, sending, sentWith, sends>>
rtcVars == <<prevStb, prevClk, mode, register, clock, shiftedIn, shown, opcWrites, ticks>>
ioVars == <<txVars, rtcVars>>

Time == [1..Bits -> {0, 1}]
\* No time read, or another shift register than that.
NotShown == [time |-> <<>>, bits |-> <<>>]

IoInit ==
  /\ fReg = 0 /\ td = FALSE /\ txCycles = 0 /\ sending = FALSE /\ sentWith = 0 /\ sends = 0
  /\ prevStb = FALSE /\ prevClk = FALSE /\ mode = "hold"
  /\ register = [i \in 1..Bits |-> 0] /\ clock \in Time
  /\ shiftedIn = <<>> /\ shown = NotShown /\ opcWrites = 0 /\ ticks = 0

-----------------------------------------------------------------------------
(* The transmitter.                                                        *)

\* A uint8_t holds none of the last five.
Divisor == (<<1, 2, 128, 256, 512, 1024, 2048, 4096>>[fReg + 1]) % 256

WriteF(n) == fReg' = n /\ UNCHANGED <<td, txCycles, sending, sentWith, sends, rtcVars>>

\* Slip: a byte written during another waits for no time of its own.
SendNoRestart ==
  /\ sends < MaxSends /\ sends' = sends + 1
  /\ td' = FALSE /\ txCycles' = txCycles
  /\ sending' = TRUE /\ sentWith' = fReg
  /\ UNCHANGED <<fReg, rtcVars>>
Send ==
  /\ sends < MaxSends /\ sends' = sends + 1
  /\ td' = FALSE /\ txCycles' = 11 * Divisor
  /\ sending' = TRUE /\ sentWith' = fReg
  /\ UNCHANGED <<fReg, rtcVars>>

\* IF written: TD is whatever the program says.
WriteIf(b) == td' = b /\ UNCHANGED <<fReg, txCycles, sending, sentWith, sends, rtcVars>>

AdvanceCycles(n) ==
  /\ txCycles > 0
  /\ txCycles' = IF n >= txCycles THEN 0 ELSE txCycles - n
  /\ td' = (td \/ txCycles' = 0)
  /\ sending' = (sending /\ txCycles' > 0)
  /\ UNCHANGED <<fReg, sentWith, sends, rtcVars>>

-----------------------------------------------------------------------------
(* The clock chip: a write to port C moves its pins.                       *)

Modes == {"hold", "shift", "set", "read"}
Shifts(m) == m \in {"shift", "set"}

\* Slip: the time is taken over when TIME SET ends in HOLD only.
LatchedOnHold(m) ==
  [mode |-> m, reg |-> IF m = "read" THEN clock ELSE register,
   clock |-> IF mode = "set" /\ m = "hold" THEN register ELSE clock]
\* TIME READ takes the time as it stands before a TIME SET's is taken over.
Latched(m) ==
  [mode |-> m,
   reg |-> IF m = "read" THEN clock ELSE register,
   clock |-> IF mode = "set" /\ m # "set"
             THEN IF m = "read" THEN clock ELSE register
             ELSE clock]

\* A rising CLK, after a command latched by the same write.
ClkRises(clk) == clk /\ ~prevClk

WriteOpc(d, stb, clk, m) ==
  LET latched == stb /\ ~prevStb
      l == IF latched THEN Latched(m) ELSE [mode |-> mode, reg |-> register, clock |-> clock]
      shifted == ClkRises(clk) /\ Shifts(l.mode)
  IN
  /\ opcWrites < MaxOpcWrites /\ opcWrites' = opcWrites + 1
  /\ mode' = l.mode /\ clock' = l.clock
  /\ register' = IF shifted THEN Append(Tail(l.reg), d) ELSE l.reg
  /\ prevStb' = stb /\ prevClk' = clk
  /\ shiftedIn' = IF l.mode # "set" THEN <<>>
                  ELSE LET old == IF mode = "set" THEN shiftedIn ELSE <<>>
                       IN IF clk /\ ~prevClk THEN Append(old, d) ELSE old
  /\ shown' = IF latched /\ m = "read" THEN [time |-> clock, bits |-> <<>>]
              ELSE IF l.mode = "set" THEN NotShown
              ELSE IF shown # NotShown /\ l.mode = "shift" /\ clk /\ ~prevClk /\ Len(shown.bits) < Bits
              THEN [shown EXCEPT !.bits = Append(@, l.reg[1])] ELSE shown
  /\ UNCHANGED <<ticks, txVars>>

\* A second passes, in TIME SET too: the counter is held by being set after.
Tick ==
  /\ ticks < MaxTicks /\ ticks' = ticks + 1
  /\ clock' \in Time \ {clock}
  /\ UNCHANGED <<prevStb, prevClk, mode, register, shiftedIn, shown, opcWrites, txVars>>

TxNext ==
  \/ \E n \in Selectors : WriteF(n)
  \/ \E b \in BOOLEAN : WriteIf(b)
  \/ Send
  \/ \E n \in Cycles : AdvanceCycles(n)

\* The command lines matter when STB rises.
RtcNext ==
  \/ \E d \in {0, 1}, stb, clk \in BOOLEAN :
       \E m \in IF stb /\ ~prevStb THEN Modes ELSE {mode} : WriteOpc(d, stb, clk, m)
  \/ Tick

IoSpec == IoInit /\ [][TxNext \/ RtcNext]_ioVars

-----------------------------------------------------------------------------
\* "TD, set by hardware when a transmission finishes": a byte written is on its
\* way until TD was set, whatever is read, written or sent in between - with a
\* divisor of at most 128; a longer one does not fit the byte that holds it.
ShortBytesFinish == sending /\ sentWith <= 2 => txCycles > 0

\* The chip's time goes out and in whole.  What DATA OUT shows bit by bit is the
\* time of the last TIME READ, whatever the clock has done since; a whole time
\* shifted in is the chip's when TIME SET ends, TIME READ apart, which the chip
\* takes before it.
TimeGoesWhole ==
  [][ /\ \A i \in DOMAIN shown'.bits : shown'.bits[i] = shown'.time[i]
      /\ (mode = "set" /\ mode' \notin {"set", "read"} /\ Len(shiftedIn) >= Bits)
           => clock' = SubSeq(shiftedIn, Len(shiftedIn) - Bits + 1, Len(shiftedIn)) ]_ioVars
=============================================================================
