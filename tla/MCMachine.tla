----------------------------- MODULE MCMachine -----------------------------
(***************************************************************************)
(* The machine around the CPU, on small instances: its memory, its         *)
(* sessions, its keys, the serial transmitter and the clock chip.  A       *)
(* behaviour keeps to one of them: they share no state but the RAM         *)
(* configuration, which Session keeps for itself (a session's memory is    *)
(* one value there) and MemoryMap in detail.                               *)
(***************************************************************************)
EXTENDS MemoryMap, Session, Keys, IoPort, TLC

CONSTANTS Families  \* of the five below

VARIABLE family

\* Both ends of each window, a place of each of CE-155's blocks, CE-163's
\* trigger on either unit, and a place with all its aliases.
MCAddresses == {8, 14344, 16392, 18432, 22528, 22529, 26625, 28672, 29184, 30208, 30720, 31744}

Init ==
  /\ MemInit /\ SessionInit /\ KeysInit /\ IoInit
  /\ family \in Families
  /\ family # "sessions" => conf.autoSave /\ conf.path = CHOOSE f \in Files : TRUE
  /\ family # "clock" => clock = [i \in 1..Bits |-> 0]

Next ==
  /\ UNCHANGED family
  /\ \/ family = "memory" /\ MemNext /\ UNCHANGED <<sessionVars, keysVars, ioVars>>
     \/ family = "sessions" /\ SessionNext /\ UNCHANGED <<memVars, keysVars, ioVars>>
     \/ family = "keys" /\ KeysNext /\ UNCHANGED <<memVars, sessionVars, ioVars>>
     \/ family = "transmitter" /\ TxNext /\ UNCHANGED <<memVars, sessionVars, keysVars, rtcVars>>
     \/ family = "clock" /\ RtcNext /\ UNCHANGED <<memVars, sessionVars, keysVars, txVars>>

\* Nothing tells the state files apart.
Symmetry == Permutations(Files)

Spec == Init /\ [][Next]_<<family, memVars, sessionVars, keysVars, ioVars>>
=============================================================================
