------------------------------- MODULE Lh5801 -------------------------------
(***************************************************************************)
(* The CPU (lh5801::CPU): its instructions, its three interrupts, HLT, the *)
(* polynomial timer and what a session file keeps of it.                   *)
(*                                                                         *)
(* An instruction is a function from one machine to the next; the opcode   *)
(* table follows its regular pattern: the high half of an opcode names the *)
(* register or the addressing mode, the low half the operation, and the FD *)
(* page does to ME1 what the first page does to ME0.  Cycles are left out: *)
(* the timer may tick, and a pin ask, after any instruction.               *)
(*                                                                         *)
(* The memories are the inputs' ROM and RAM; other addresses read as FFH.  *)
(***************************************************************************)
EXTENDS Naturals, Sequences, Bitwise

CONSTANTS
  Rom,     \* address -> byte: ME0's contents that no write changes
  Inputs,  \* what a behaviour starts with, see CpuInit
  KeysIn   \* readInputPort()

VARIABLES
  m,            \* the machine: registers, flags, flip-flops, timer, memories
  requests,     \* nmiPending_, timerInterruptPending_, miPending_
  requestsLeft, \* bound: how often the pins still ask
  ticksLeft,    \* bound: timer ticks still to come
  interrupted   \* what the handlers under way have interrupted (a ghost)

cpuVars == <<m, requests, requestsLeft, ticksLeft, interrupted>>

Byte == 0..255
Word == 0..65535

Registers == [a : Byte, x : Word, y : Word, u : Word, s : Word, p : Word,
              f : [c : BOOLEAN, v : BOOLEAN, z : BOOLEAN, h : BOOLEAN,
                   ie : BOOLEAN]]
Bits == {"halted", "bf", "disp", "pu", "pv"}

\* The registers an interrupt's handler must give back.
Context(n) == [r \in {"a", "x", "y", "u", "s", "p", "f"} |-> n[r]]

CpuTypeOK ==
  /\ Context(m) \in Registers
  /\ \A b \in Bits : m[b] \in BOOLEAN
  /\ m.timer \in 0..511
  /\ \A space \in {"me0", "me1"} : \A at \in DOMAIN m[space] : m[space][at] \in Byte
  /\ requests \subseteq {"NMI", "TIMER", "MI"}
  /\ \A i \in 1..Len(interrupted) :
       interrupted[i].by \in {"NMI", "TIMER", "MI"} /\ interrupted[i].was \in Registers

-----------------------------------------------------------------------------
(* Bytes, memory, registers.                                               *)

Lo(w) == w % 256
Hi(w) == w \div 256
Join(hi, lo) == 256 * hi + lo
Bit(b) == IF b THEN 1 ELSE 0
Swap(v) == 16 * (v % 16) + (v \div 16)
Inverse8(v) == 255 - v

Read(n, space, at) ==
  IF at \in DOMAIN n[space] THEN n[space][at]
  ELSE IF space = "me0" /\ at \in DOMAIN Rom THEN Rom[at] ELSE 255

Write(n, space, at, v) ==
  IF at \in DOMAIN n[space] THEN [n EXCEPT ![space][at] = v] ELSE n

ReadWord(n, at) == Join(Read(n, "me0", at), Read(n, "me0", (at + 1) % 65536))

Skip(n, k) == [n EXCEPT !.p = (@ + k) % 65536]

\* What fetch8() and fetch16() fetch; Skip goes with them.
Imm(n) == Read(n, "me0", n.p)
Imm16(n) == ReadWord(n, n.p)

Push8(n, v) == [Write(n, "me0", n.s, v) EXCEPT !.s = (@ + 65535) % 65536]
Push16(n, w) == Push8(Push8(n, Lo(w)), Hi(w))
Top(n, k) == Read(n, "me0", (n.s + k) % 65536)
Drop(n, k) == [n EXCEPT !.s = (@ + k) % 65536]

\* X, Y and U by their number in an opcode.
Name(r) == CASE r = 0 -> "x" [] r = 1 -> "y" [] OTHER -> "u"
SetLo(n, r, v) == [n EXCEPT ![Name(r)] = Join(Hi(@), v)]
SetHi(n, r, v) == [n EXCEPT ![Name(r)] = Join(v, Lo(@))]
Step16(n, r, d) == [n EXCEPT ![Name(r)] = (@ + d) % 65536]

-----------------------------------------------------------------------------
(* The ALU.                                                                *)

Sum(v, w, cin) == (v + w + Bit(cin)) % 256

\* doAdd()'s flags; IE stays.
AddFlags(f, v, w, cin) ==
  LET sum == Sum(v, w, cin) IN
  [f EXCEPT !.c = (v + w + Bit(cin) > 255),
            !.h = ((v % 16) + (w % 16) + Bit(cin) > 15),
            !.v = (v \div 128 = w \div 128 /\ sum \div 128 # v \div 128),
            !.z = (sum = 0)]

\* packFlags and unpackFlags: the T register.
Packed(f) == Bit(f.c) + 2 * Bit(f.ie) + 4 * Bit(f.z) + 8 * Bit(f.v)
               + 16 * Bit(f.h)
Unpacked(t) == [c |-> t % 2 = 1, ie |-> (t \div 2) % 2 = 1,
                z |-> (t \div 4) % 2 = 1, v |-> (t \div 8) % 2 = 1,
                h |-> (t \div 16) % 2 = 1]

Added(n, w, cin) ==
  [n EXCEPT !.a = Sum(n.a, w, cin), !.f = AddFlags(n.f, n.a, w, cin)]
Compared(n, v, w) == [n EXCEPT !.f = AddFlags(n.f, v, Inverse8(w), TRUE)]
Loaded(n, v) == [n EXCEPT !.a = v, !.f.z = (v = 0)]

\* daForAdd.  Slip: half-carry's and carry's corrections swapped.
AdjustSwapped(f) ==
  IF f.c THEN IF f.h THEN 0 ELSE 160 ELSE IF f.h THEN 250 ELSE 154
Adjust(f) ==
  IF f.c THEN IF f.h THEN 0 ELSE 250 ELSE IF f.h THEN 160 ELSE 154

\* DCA and DCS: the flags are those of the addition before the adjustment.
Adjusted(n) == [n EXCEPT !.a = (@ + Adjust(n.f)) % 256]
DecimalAdded(n, v) ==
  Adjusted(Added([n EXCEPT !.a = (@ + 102) % 256], v, n.f.c))
DecimalSubtracted(n, v) == Adjusted(Added(n, Inverse8(v), n.f.c))

\* SBC, ADC, LDA, CPA, AND, ORA, EOR and BIT (SBI ... BII) by low half.
Operate(n, lo, v) ==
  CASE lo \in {0, 1} -> Added(n, Inverse8(v), n.f.c)
    [] lo \in {2, 3} -> Added(n, v, n.f.c)
    [] lo \in {4, 5} -> Loaded(n, v)
    [] lo \in {6, 7} -> Compared(n, n.a, v)
    [] lo = 9  -> Loaded(n, n.a & v)
    [] lo = 11 -> Loaded(n, n.a | v)
    [] lo = 13 -> Loaded(n, n.a ^^ v)
    [] OTHER   -> [n EXCEPT !.f.z = ((n.a & v) = 0)]

\* ANI, ORI, BII and ADI on memory by low half; ADI without carry.
OperateMemory(n, lo, space, at, i) ==
  LET v == Read(n, space, at)
      Store(w) == [Write(n, space, at, w) EXCEPT !.f.z = (w = 0)]
  IN CASE lo = 9  -> Store(v & i)
       [] lo = 11 -> Store(v | i)
       [] lo = 13 -> [n EXCEPT !.f.z = ((v & i) = 0)]
       [] OTHER   -> [Write(n, space, at, Sum(v, i, FALSE))
                        EXCEPT !.f = AddFlags(n.f, v, i, FALSE)]

\* ROL, ROR, SHL, SHR: the bit that comes in, the new A, the flags.
ShiftedLeft(n, in) ==
  LET v == ((2 * n.a) % 256) + Bit(in) IN
  [n EXCEPT !.a = v,
            !.f.c = (n.a > 127), !.f.h = ((v \div 16) % 2 = 1),
            !.f.v = ((n.a > 127) # (v > 127)), !.f.z = (v = 0)]
ShiftedRight(n, in) ==
  LET v == (n.a \div 2) + 128 * Bit(in) IN
  [n EXCEPT !.a = v,
            !.f.c = (n.a % 2 = 1), !.f.h = ((v \div 8) % 2 = 1),
            !.f.v = FALSE, !.f.z = (v = 0)]

\* DRL and DRR: A takes the byte, the byte's digits move towards one of A's.
DigitsRotated(n, space, left) ==
  LET v == Read(n, space, n.x)
      w == IF left THEN 16 * (v % 16) + (n.a \div 16)
                   ELSE 16 * (n.a % 16) + (v \div 16)
  IN [Write(n, space, n.x, w) EXCEPT !.a = v]

-----------------------------------------------------------------------------
(* The opcode table.                                                       *)

Codes(his, los) == {16 * hi + lo : hi \in his, lo \in los}
Odd == {1, 3, 5, 7, 9, 11, 13, 15}

\* The memory operand: (R) by the high half, or (ab), fetched first.
Absolute(op) == op \div 16 \in {10, 14}
Address(n, op) ==
  IF Absolute(op) THEN Imm16(n) ELSE n[Name((op \div 16) % 4)]
Past(n, op) == IF Absolute(op) THEN Skip(n, 2) ELSE n

\* What both pages do, one with ME0 and the other with ME1.
AccWithMemory == Codes({0, 1, 2, 10}, Odd)
StoreA        == Codes({0, 1, 2, 10}, {14})
MemoryWithImm == Codes({4, 5, 6, 14}, {9, 11, 13, 15})
Decimal       == Codes({0, 1, 2, 8, 9, 10}, {12})
Digits        == {\hD7, \hD3}
OnMemory == AccWithMemory \cup StoreA \cup MemoryWithImm \cup Decimal \cup Digits

ExecMemory(n, space, op) ==
  LET hi == op \div 16  lo == op % 16
      at == IF op \in Decimal THEN n[Name(hi % 8)] ELSE Address(n, op)
      k  == Past(n, op)
      v  == Read(n, space, at)
  IN CASE op \in AccWithMemory -> Operate(k, lo, v)
       [] op \in StoreA        -> Write(k, space, at, n.a)
       [] op \in MemoryWithImm -> OperateMemory(Skip(k, 1), lo, space, at, Imm(k))
       [] op \in Decimal       -> IF hi > 7 THEN DecimalAdded(n, v)
                                            ELSE DecimalSubtracted(n, v)
       [] OTHER                -> DigitsRotated(n, space, op = \hD7)

\* The condition of a branch or of a conditional vector call.
Holds(f, lo) ==
  CASE lo = 1 -> ~f.c [] lo = 3  -> f.c
    [] lo = 5 -> ~f.h [] lo = 7  -> f.h
    [] lo = 9 -> ~f.z [] lo = 11 -> f.z
    [] lo = 13 -> ~f.v [] OTHER  -> f.v

Jump(n, w) == [n EXCEPT !.p = w]
Call(n, w) == Jump(Push16(n, n.p), w)
VectorCall(n, i) == [Call(n, ReadWord(n, \hFF00 + i)) EXCEPT !.f.z = FALSE]

\* By an offset, forwards or back.
Branch(n, back, i) == Skip(n, IF back THEN 65536 - i ELSE i)

Branches == Codes({8, 9}, Odd) \cup {\h8E, \h9E}
Vectors  == {v \in \hC0..\hF6 : v % 2 = 0}
VectorsIf == {\hC1, \hC3, \hC5, \hC7, \hC9, \hCB, \hCD, \hCF}

\* Calls, returns, jumps and branches of the first page.
Control == Branches \cup Vectors \cup VectorsIf
             \cup {\hBA, \hBE, \h9A, \h8A, \h88}

ExecControl(n, op) ==
  LET i == Imm(n)  n1 == Skip(n, 1) IN
  CASE op = \h8E \/ op = \h9E -> Branch(n1, op = \h9E, i)
    [] op \in Branches \ {\h8E, \h9E} ->
         IF Holds(n.f, op % 16) THEN Branch(n1, op \div 16 = 9, i) ELSE n1
    [] op \in Vectors   -> VectorCall(n, op)
    [] op \in VectorsIf -> IF op = \hCD \/ Holds(n.f, op % 16)
                           THEN VectorCall(n1, i) ELSE n1
    [] op = \hBA -> Jump(n, Imm16(n))
    [] op = \hBE -> Call(Skip(n, 2), Imm16(n))
    [] op = \h9A -> Drop(Jump(n, Join(Top(n, 1), Top(n, 2))), 2)
    [] op = \h8A -> [Drop(Jump(n, Join(Top(n, 1), Top(n, 2))), 3)
                       EXCEPT !.f = Unpacked(Top(n, 3))]
    [] OTHER ->                                                   \* LOP
         LET ul == Lo(n.u)
             n2 == SetLo(n1, 2, (ul + 255) % 256)
         IN IF ul # 0 THEN Branch(n2, TRUE, i) ELSE n2

-----------------------------------------------------------------------------
\* Registers and flags, first page.
AccWithRegister == Codes({0, 1, 2, 8, 9, 10}, {0, 2, 4, 6})
AccWithImm      == Codes({11}, Odd)
StoreInRegister == Codes({0, 1, 2}, {8, 10})
CompareRegister == Codes({4, 5, 6}, {12, 14})
LoadRegister    == Codes({4, 5, 6}, {8, 10})
IncDec          == Codes({4, 5, 6}, {0, 2, 4, 6})
AutoStep        == Codes({4, 5, 6}, {1, 3, 5, 7})

ExecRegister(n, op) ==
  LET hi == op \div 16  lo == op % 16  r == (hi % 8) % 4
      w  == n[Name(r)]
      i  == Imm(n)      n1 == Skip(n, 1)
      Low(v, cin) == [SetLo(n, r, Sum(Lo(w), v, cin))
                        EXCEPT !.f = AddFlags(n.f, Lo(w), v, cin)]
  IN CASE op \in AccWithRegister ->
            Operate(n, lo, IF hi > 7 THEN Hi(w) ELSE Lo(w))
       [] op \in AccWithImm      -> Operate(n1, lo, i)
       [] op \in StoreInRegister -> IF lo = 8 THEN SetHi(n, r, n.a) ELSE SetLo(n, r, n.a)
       [] op \in CompareRegister -> Compared(n1, IF lo = 12 THEN Hi(w) ELSE Lo(w), i)
       [] op \in LoadRegister    -> IF lo = 8 THEN SetHi(n1, r, i) ELSE SetLo(n1, r, i)
       [] op \in IncDec ->
            CASE lo = 0 -> Low(1, FALSE)       [] lo = 2 -> Low(254, TRUE)
              [] lo = 4 -> Step16(n, r, 1)     [] OTHER  -> Step16(n, r, 65535)
       [] OTHER ->                              \* SIN, SDE, LIN, LDE
            Step16(IF lo < 4 THEN Write(n, "me0", w, n.a)
                             ELSE Loaded(n, Read(n, "me0", w)),
                   r, IF lo \in {1, 5} THEN 1 ELSE 65535)

OnRegisters == AccWithRegister \cup AccWithImm \cup StoreInRegister
                 \cup CompareRegister \cup LoadRegister \cup IncDec \cup AutoStep

\* The other instructions of the first page.
ExecOther(n, op) ==
  CASE op = \hDD -> Added(n, 1, FALSE)              \* INC A
    [] op = \hDF -> Added(n, 254, TRUE)             \* DEC A
    [] op = \hF1 -> [n EXCEPT !.a = Swap(@)]        \* AEX
    [] op = \hDB -> ShiftedLeft(n, n.f.c)
    [] op = \hD9 -> ShiftedLeft(n, FALSE)
    [] op = \hD1 -> ShiftedRight(n, n.f.c)
    [] op = \hD5 -> ShiftedRight(n, FALSE)
    [] op \in {\hE1, \hE3} -> [n EXCEPT !.pu = (op = \hE1)]
    [] op \in {\hA8, \hB8} -> [n EXCEPT !.pv = (op = \hA8)]
    [] op \in {\hF9, \hFB} -> [n EXCEPT !.f.c = (op = \hFB)]
    [] op = \hAA -> [Skip(n, 2) EXCEPT !.s = Imm16(n)]
    [] op = \hF5 -> Step16(Step16(Write(n, "me0", n.y, Read(n, "me0", n.x)),
                                  0, 1), 1, 1)      \* TIN
    [] op = \hF7 -> Step16(Compared(n, n.a, Read(n, "me0", n.x)), 0, 1)  \* CIN
    [] OTHER -> n                                   \* NOP, undocumented

ExecPrimary(n, op) ==
  CASE op \in OnMemory    -> ExecMemory(n, "me0", op)
    [] op \in Control     -> ExecControl(n, op)
    [] op \in OnRegisters -> ExecRegister(n, op)
    [] OTHER              -> ExecOther(n, op)

-----------------------------------------------------------------------------
\* The FD page.  setTimerCounter's index into the table is the counter.
ExecFD(n, op) ==
  LET r == ((op \div 16) % 8) % 4
      w == n[Name(r)]
      High(v, cin) == [SetHi(n, r, Sum(Hi(w), v, cin))
                         EXCEPT !.f = AddFlags(n.f, Hi(w), v, cin)]
      Pop16 == Join(Top(n, 1), Top(n, 2))
  IN CASE op \in OnMemory -> ExecMemory(n, "me1", op)
       [] op \in Codes({12, 13, 14}, {10}) -> Step16(n, r, n.a)  \* ADR
       [] op \in Codes({4, 5, 6}, {0}) -> High(1, FALSE)
       [] op \in Codes({4, 5, 6}, {2}) -> High(254, TRUE)
       [] op \in {\h08, \h18, \h28} -> [n EXCEPT !.x = w]         \* LDX
       [] op = \h48 -> [n EXCEPT !.x = n.s]
       [] op = \h58 -> [n EXCEPT !.x = n.p]
       [] op \in {\h4A, \h5A, \h6A} -> [n EXCEPT ![Name(r)] = n.x] \* STX
       [] op = \h4E -> [n EXCEPT !.s = n.x]
       [] op = \h5E -> Jump(n, n.x)
       [] op = \hC8 -> Push8(n, n.a)
       [] op \in {\h88, \h98, \hA8} -> Push16(n, w)
       [] op = \h8A -> Loaded(Drop(n, 1), Top(n, 1))              \* POP A
       [] op \in {\h0A, \h1A, \h2A} -> [Drop(n, 2) EXCEPT ![Name(r)] = Pop16]
       [] op = \hEC -> [n EXCEPT !.f = Unpacked(n.a)]             \* ATT
       [] op = \hAA -> Loaded(n, Packed(n.f))                     \* TTA
       [] op = \hCE -> [n EXCEPT !.timer = n.a]                   \* AM0
       [] op = \hDE -> [n EXCEPT !.timer = n.a + 256]             \* AM1
       [] op \in {\hC0, \hC1} -> [n EXCEPT !.disp = (op = \hC1)]
       [] op \in {\h81, \hBE} -> [n EXCEPT !.f.ie = (op = \h81)]
       [] op = \h4C -> [n EXCEPT !.bf = FALSE]                    \* OFF
       [] op = \hB1 -> [n EXCEPT !.halted = TRUE]                 \* HLT
       [] op = \hBA -> Loaded(n, KeysIn)                          \* ITA
       [] OTHER -> n                                 \* ATP, CDV, undocumented

Executed(n) ==
  LET op == Imm(n)  n1 == Skip(n, 1) IN
  IF op = \hFD THEN ExecFD(Skip(n1, 1), Imm(n1)) ELSE ExecPrimary(n1, op)

-----------------------------------------------------------------------------
(* reset(), and the machine a behaviour starts with: an input says what    *)
(* RAM and ME1 hold, how often the pins ask and how long the timer runs.   *)
CpuInit ==
  \E in \in Inputs :
    /\ m = [a |-> 0, x |-> 0, y |-> 0, u |-> 0, s |-> 0,
            p |-> Join(Rom[\hFFFE], Rom[\hFFFF]),
            f |-> [c |-> FALSE, v |-> FALSE, z |-> FALSE, h |-> FALSE,
                   ie |-> FALSE],
            halted |-> FALSE, bf |-> FALSE, disp |-> FALSE, pu |-> FALSE,
            pv |-> FALSE, timer |-> 0, me0 |-> in.ram, me1 |-> in.ports]
    /\ requests = {} /\ interrupted = <<>>
    /\ requestsLeft = in.requests /\ ticksLeft = in.ticks

Vector(r) ==
  CASE r = "NMI" -> \hFFFC [] r = "TIMER" -> \hFFFA [] r = "MI" -> \hFFF8

\* step() looks at NMI, then at the timer's, then at MI's, HLT or not.  Slip:
\* HLT first.
TakenAwake ==
  CASE m.halted -> "none"
    [] ~m.halted /\ "NMI" \in requests -> "NMI"
    [] ~m.halted /\ "NMI" \notin requests /\ m.f.ie /\ "TIMER" \in requests -> "TIMER"
    [] ~m.halted /\ m.f.ie /\ requests = {"MI"} -> "MI"
    [] OTHER -> "none"
Taken ==
  CASE "NMI" \in requests -> "NMI"
    [] "NMI" \notin requests /\ m.f.ie /\ "TIMER" \in requests -> "TIMER"
    [] m.f.ie /\ requests = {"MI"} -> "MI"
    [] OTHER -> "none"

\* dispatchInterrupt().  Slip: IE is cleared before T is pushed.
PushedContext(n) == Push16(Push8(n, Packed(n.f)), n.p)
EnteredMasked(n, r) ==
  [PushedContext([n EXCEPT !.f.ie = FALSE])
     EXCEPT !.halted = FALSE, !.p = ReadWord(n, Vector(r))]
Entered(n, r) ==
  [PushedContext(n) EXCEPT !.f.ie = FALSE, !.halted = FALSE,
                           !.p = ReadWord(n, Vector(r))]

Interrupt ==
  /\ Taken # "none"
  /\ requests' = requests \ {Taken}
  /\ m' = Entered(m, Taken)
  /\ interrupted' = Append(interrupted, [by |-> Taken, was |-> Context(m)])
  /\ UNCHANGED <<requestsLeft, ticksLeft>>

\* An instruction; an RTI of a handler ends it.
Returns(n) == Imm(n) = \h8A
Instruction ==
  /\ Taken = "none"
  /\ ~m.halted
  /\ m' = Executed(m)
  /\ interrupted' = IF Returns(m) /\ interrupted # <<>>
                    THEN SubSeq(interrupted, 1, Len(interrupted) - 1)
                    ELSE interrupted
  /\ UNCHANGED <<requests, requestsLeft, ticksLeft>>

\* requestMI(), which is the ON key's, and requestNMI(), which only tests
\* call: the pins ask between two instructions, once the firmware has a stack.
Request ==
  /\ requestsLeft > 0 /\ m.s # 0
  /\ requestsLeft' = requestsLeft - 1
  /\ \E r \in {"NMI", "MI"} : requests' = requests \cup {r}
  /\ UNCHANGED <<m, ticksLeft, interrupted>>

\* kPolyCounterTable's successor; zero, the parked counter, stays.
Count(v) == ((2 * v) % 512) + ((v \div 256 + v \div 8) % 2)

TimerTick ==
  /\ ticksLeft > 0 /\ m.timer # 0
  /\ ticksLeft' = ticksLeft - 1
  /\ m' = [m EXCEPT !.timer = Count(@)]
  /\ requests' = IF Count(m.timer) = 511 THEN requests \cup {"TIMER"} ELSE requests
  /\ UNCHANGED <<requestsLeft, interrupted>>

\* saveState() and, in the next process, loadState(): each field by itself,
\* the flags as T.
Kept(reqs) == {r \in {"NMI", "TIMER", "MI"} : r \in reqs}
Reopen ==
  /\ m' = [m EXCEPT !.f = Unpacked(Packed(@))]
  /\ requests' = Kept(requests)
  /\ UNCHANGED <<requestsLeft, ticksLeft, interrupted>>

CpuNext == Interrupt \/ Instruction \/ Request \/ TimerTick \/ Reopen

CpuSpec == CpuInit /\ [][CpuNext]_cpuVars

\* The frame loop keeps stepping the CPU, halted or not: weak fairness of
\* Interrupt \/ Instruction, with its guard and its mark - the machine moves
\* and neither the pins' bound nor the timer's does - written out, for TLC
\* to evaluate them cheaply.
Runnable == Taken # "none" \/ ~m.halted
CpuFairSpec ==
  /\ CpuSpec
  /\ []<>~Runnable \/ []<><<UNCHANGED <<requestsLeft, ticksLeft>>>>_m

-----------------------------------------------------------------------------
\* An interrupt leaves no trace: when its handler returns, the interrupted
\* code goes on with the registers and the flags it had, whatever other
\* interrupt came in between.
InterruptsLeaveNoTrace ==
  [][Len(interrupted') < Len(interrupted)
       => Context(m') = interrupted[Len(interrupted)].was]_cpuVars

\* Every request gets its handler, out of HLT too, and none is lost to a
\* priority or to a session saved and loaded.
Serving(r) ==
  /\ interrupted # <<>> /\ interrupted[Len(interrupted)].by = r
  /\ m.p = ReadWord(m, Vector(r))
EveryRequestTaken ==
  \A r \in {"NMI", "TIMER", "MI"} : r \in requests ~> Serving(r)

=============================================================================
