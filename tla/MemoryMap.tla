------------------------------ MODULE MemoryMap ------------------------------
(***************************************************************************)
(* RAM as the CPU sees it through Bus (src/src/bus/bus.cpp, bus.h): reads  *)
(* and writes of 0000H-7FFFH, CE-163's two banks, the setters a user may   *)
(* call at any time, and saving and loading a session's memory.            *)
(*                                                                         *)
(* The addresses are a sample with every alias of each.  The reserve-key   *)
(* area is the byte 8 above its base; a program writes no 255 there        *)
(* ("real assignments never read back as all-FF").                         *)
(***************************************************************************)
EXTENDS RamConfig

CONSTANTS
  Addresses,   \* sample of 0..32767, with 8, 14 K + 8 and 16 K + 8
  ExtSizes, LowSizes,
  MaxWrites, MaxChanges  \* bounds: writes to RAM, changes of the configuration

ASSUME MemoryAssumption ==
  /\ Addresses \subseteq 0..(32 * K - 1) /\ {8, 14 * K + 8, 16 * K + 8} \subseteq Addresses
  /\ \A a \in Addresses : Effective(Stock, a) \in Addresses
  /\ ExtSizes \subseteq Nat /\ LowSizes \subseteq Nat
  /\ MaxWrites \in Nat /\ MaxChanges \in Nat

VARIABLES
  cfg,      \* the configuration
  me0, ce163Ram, ce163Bank,
  saved,    \* a state file's memory: [cfg, me0, ram, bank, last]
  last,     \* history: what a program wrote last, by place
  writes, changes  \* counters

memVars == <<cfg, me0, ce163Ram, ce163Bank, saved, last, writes, changes>>

Fill == 255
Never == 1

\* A place of a program's view: an address, told apart by what answers there.
Views == {"me0", "bank0", "bank1", "unitA"}
ViewOf(a) ==
  IF cfg.ce163 /\ InLow(a) THEN IF ce163Bank = 0 THEN "bank0" ELSE "bank1"
  ELSE IF cfg.unitA /\ a >= 31 * K THEN "unitA" ELSE "me0"

\* Two places of the same memory chip cell, by the hardware reference.
SamePlace(v, a, w, b) ==
  /\ v = w
  /\ \/ a = b
     \/ {a, b} \subseteq 28 * K .. 30 * K - 1 /\ a % 512 = b % 512
     \/ v = "me0" /\ {a, b} \subseteq 30 * K .. 32 * K - 1 /\ a % K = b % K /\ (a - b = K \/ b - a = K)

Seeded(c, m) ==
  LET r == ReserveBase(c) + 8 IN IF m[r] = Fill THEN [m EXCEPT ![r] = 0] ELSE m

MemInit ==
  /\ cfg = Stock
  /\ me0 = Seeded(Stock, [a \in Addresses |-> Fill])
  /\ ce163Ram = [b \in {0, 1} |-> [a \in Addresses |-> Fill]] /\ ce163Bank = 0
  /\ last = [v \in Views |-> [a \in Addresses |-> Never]]
  /\ saved = [cfg |-> cfg, me0 |-> me0, ram |-> ce163Ram, bank |-> 0, last |-> last]
  /\ writes = 0 /\ changes = 0

ReadME0(a) ==
  IF cfg.ce163 /\ InLow(a) THEN ce163Ram[ce163Bank][a]
  ELSE IF Unmapped(cfg, a) THEN Fill
  ELSE me0[Effective(cfg, a)]

Noted(a, x) ==
  last' = [v \in Views |-> [b \in Addresses |->
            IF SamePlace(ViewOf(a), a, v, b) THEN x ELSE last[v][b]]]

\* writeME0.  Each write has a value of its own, none of those above.
WriteME0(a) ==
  LET x == 256 + writes IN
  \/ /\ Trigger(cfg, a)
     /\ ce163Bank' = a % 2
     /\ UNCHANGED <<cfg, me0, ce163Ram, saved, last, writes, changes>>
  \/ /\ ~Trigger(cfg, a) /\ writes < MaxWrites
     /\ \/ /\ cfg.ce163 /\ InLow(a)
           /\ ce163Ram' = [ce163Ram EXCEPT ![ce163Bank][a] = x]
           /\ Noted(a, x) /\ UNCHANGED me0
        \/ /\ ~(cfg.ce163 /\ InLow(a)) /\ ~Unmapped(cfg, a)
           /\ me0' = [me0 EXCEPT ![Effective(cfg, a)] = x]
           /\ Noted(a, x) /\ UNCHANGED ce163Ram
     /\ writes' = writes + 1
     /\ UNCHANGED <<cfg, ce163Bank, saved, changes>>

\* The setters.  Those that may move the reserve area seed it.
Changed(c, m) ==
  /\ changes < MaxChanges /\ changes' = changes + 1
  /\ cfg' = c /\ me0' = m
  /\ UNCHANGED <<ce163Ram, ce163Bank, saved, last, writes>>

SetMachineVariant(a) == Changed(SetUnit(cfg, a), me0)
SetExtRamExtSize(n)  == Changed(SetExt(cfg, n), me0)
SetExtRam0000Size(n) == Changed(SetLow(cfg, n), Seeded(SetLow(cfg, n), me0))
SetCe163Enabled(on)  == Changed(SetCe163(cfg, on), Seeded(SetCe163(cfg, on), me0))

\* Slip: the area's new place is not seeded.
SetCe155Unseeded(on) == Changed(SetCe155(cfg, on), me0)
SetCe155Enabled(on)  == Changed(SetCe155(cfg, on), Seeded(SetCe155(cfg, on), me0))

SaveMemory ==
  /\ saved' = [cfg |-> cfg, me0 |-> me0, ram |-> ce163Ram, bank |-> ce163Bank, last |-> last]
  /\ UNCHANGED <<cfg, me0, ce163Ram, ce163Bank, last, writes, changes>>

\* Refused, and nothing touched, under another configuration.
LoadMemory ==
  /\ saved.cfg = cfg
  /\ me0' = Seeded(cfg, saved.me0) /\ ce163Ram' = saved.ram /\ ce163Bank' = saved.bank
  /\ last' = saved.last
  /\ UNCHANGED <<cfg, saved, writes, changes>>

MemNext ==
  \/ \E a \in Addresses : WriteME0(a)
  \/ \E a \in BOOLEAN : SetMachineVariant(a)
  \/ \E n \in ExtSizes : n <= ExtWindow(cfg) /\ SetExtRamExtSize(n)
  \/ \E n \in LowSizes : SetExtRam0000Size(n)
  \/ \E on \in BOOLEAN : SetCe163Enabled(on) \/ SetCe155Enabled(on)
  \/ SaveMemory \/ LoadMemory

MemSpec == MemInit /\ [][MemNext]_memVars

-----------------------------------------------------------------------------
\* Whatever RAM a program sees holds what was last written there, through any
\* of its addresses: across bank switches, modules taken out and put back
\* ("shrinking and growing back preserves whatever was there") and sessions.
MemoryRemembers ==
  \A a \in Addresses :
    last[ViewOf(a)][a] # Never /\ ~Unmapped(cfg, a) => ReadME0(a) = last[ViewOf(a)][a]

\* "At most one of these can be physically installed at a time", in any order
\* of the setters, and a window's RAM ends where the window does.
OneModuleInstalled == OneModule(cfg) /\ cfg.ext <= ExtWindow(cfg)

\* The ROM finds a valid reserve-key area wherever the configuration puts it.
Reserve == ReserveBase(cfg) + 8
ReserveValid == ReadME0(Reserve) # Fill

\* The same without a CE-163, whose own RAM nothing seeds (ReserveValid).
ReserveValidInRam == ~cfg.ce163 => ReserveValid
=============================================================================
