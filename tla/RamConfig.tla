------------------------------ MODULE RamConfig ------------------------------
(***************************************************************************)
(* What RAM the PC-1500 has: the base unit and the module in its one       *)
(* expansion port (src/src/bus/bus.h, Bus's setters), and how the ordinary *)
(* addresses 0000H-7FFFH decode under it.  Addresses are numbers.          *)
(***************************************************************************)
EXTENDS Naturals

K == 1024

\* A configuration: the unit (a PC-1500A or not), bytes of RAM in the
\* expansion window and at 0000H, and the two modules of their own.
Stock   == [unitA |-> FALSE, ext |-> 0, low |-> 0, ce163 |-> FALSE, ce155 |-> FALSE]

ExtBase(c) == IF c.unitA THEN 22 * K ELSE 18 * K
ExtWindow(c) == 28 * K - ExtBase(c)

SetUnit(c, a) ==
  LET d == [c EXCEPT !.unitA = a]
  IN IF c.ext > ExtWindow(d) THEN [d EXCEPT !.ext = ExtWindow(d)] ELSE d

SetExt(c, n) ==
  IF n = 0 THEN [c EXCEPT !.ext = 0]
  ELSE [c EXCEPT !.ext = n, !.ce163 = FALSE, !.ce155 = FALSE]

SetLow(c, n) == [c EXCEPT !.low = n, !.ce163 = FALSE, !.ce155 = FALSE]

SetCe163(c, on) ==
  IF on THEN [c EXCEPT !.ce163 = TRUE, !.low = 0, !.ext = 0, !.ce155 = FALSE]
  ELSE [c EXCEPT !.ce163 = FALSE]

SetCe155(c, on) ==
  IF on THEN [c EXCEPT !.ce155 = TRUE, !.low = 0, !.ext = 0, !.ce163 = FALSE]
  ELSE [c EXCEPT !.ce155 = FALSE]

\* A start, and the popup that applies a saved session's configuration.
Applied(c, w) ==
  SetCe155(SetCe163(SetLow(SetExt(SetUnit(c, w.unitA), w.ext), w.low), w.ce163), w.ce155)

-----------------------------------------------------------------------------
InLow(a)  == a < 16 * K
InExt(c, a) == a >= ExtBase(c) /\ a < 28 * K

Unmapped(c, a) ==
  \/ c.ce155 /\ \/ InLow(a) /\ a < 14 * K
                \/ InExt(c, a) /\ a - ExtBase(c) >= 6 * K
  \/ ~c.ce155 /\ \/ InLow(a) /\ a >= c.low /\ ~c.ce163
                 \/ InExt(c, a) /\ a - ExtBase(c) >= c.ext

\* 7000H-77FFH lacks address lines 9 and 10; 7C00H-7FFFH is 7800H-7BFFH on
\* a PC-1500.
\* Slip, once in the code: only 7000H-71FFH is taken for a copy, of 7600H.
EffectiveNarrow(c, a) ==
  IF a \in 28 * K .. 28 * K + 511 THEN a + 1536
  ELSE IF ~c.unitA /\ a \in 31 * K .. 32 * K - 1 THEN a - K ELSE a
Effective(c, a) ==
  IF a \in 28 * K .. 30 * K - 1 THEN 28 * K + 1536 + (a % 512)
  ELSE IF ~c.unitA /\ a \in 31 * K .. 32 * K - 1 THEN a - K ELSE a

\* CE-163's bank select.
TriggerBase(c) == IF c.unitA THEN 26 * K ELSE 22 * K
Trigger(c, a)  == c.ce163 /\ a \in TriggerBase(c) .. TriggerBase(c) + 2047

\* Where the ROM finds its reserve-key area, 8 bytes below the program.
ReserveBase(c) ==
  IF c.ce163 \/ c.low >= 16 * K THEN 0 ELSE IF c.ce155 THEN 14 * K ELSE 16 * K

-----------------------------------------------------------------------------
\* One expansion port: a CE-163 or a CE-155 is alone in it, and RAM in the
\* expansion window ends below 7000H.
OneModule(c) ==
  /\ c.ce163 => c.low = 0 /\ c.ext = 0 /\ ~c.ce155
  /\ c.ce155 => c.low = 0 /\ c.ext = 0
=============================================================================
