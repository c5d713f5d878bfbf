----------------------------- MODULE RomStaging -----------------------------
(***************************************************************************)
(* STAGE: the expansion ROM copies itself, block by block, from the MCU's  *)
(* image (romImage_) into the module's SRAM and then runs from there       *)
(* (src/src/bus/expansion_mock.cpp, the ROM_* commands; bus.cpp reads and  *)
(* writes 8800H up).  BLKBD patches the keyboard loop into the image, a    *)
(* POWMAN wake takes it out again, and a power cycle or BREAK comes at any *)
(* step of a copy.  The routine is the ROM's own code and runs one command *)
(* at a time.  A checksum is the blocks it was made from.                  *)
(***************************************************************************)
EXTENDS Integers

CONSTANTS
  Blocks,   \* the blocks of the image, 1..6 in the code
  Patched   \* those the keyboard loop lies in

ASSUME BlocksAssumption ==
  /\ Blocks \subseteq Nat \ {0} /\ Patched \subseteq Blocks
  /\ \A b \in Blocks : b = 1 \/ b - 1 \in Blocks

VARIABLES
  remap,     \* remapActive_: 8800H up is the SRAM
  copying,   \* romCopyActive_
  block,     \* romCopyBlockIndex_
  verified,  \* romStagedVerified_
  loop,      \* kbdLoopInstalled_
  image,     \* romImage_: what each block holds
  sram,      \* sram_
  routine,   \* where the ROM's copy routine is
  window,    \* the block GET_BLOCK left in the data window
  summed     \* what the routine's checksum is made of

romVars == <<remap, copying, block, verified, loop, image, sram, routine, window, summed>>

Contents == {"blank", "built", "patched", "torn"}

Built == [b \in Blocks |-> "built"]
WithLoop == [b \in Blocks |-> IF b \in Patched THEN "patched" ELSE "built"]
Blank == [b \in Blocks |-> "blank"]

RomInit ==
  /\ remap = FALSE /\ copying = FALSE /\ block = 0 /\ verified = FALSE
  /\ loop = FALSE /\ image = Built /\ sram = Blank
  /\ routine = "idle" /\ window = "blank" /\ summed = Blank

\* What the CPU reads in block b: the SRAM, or the module's ROM with the
\* keyboard loop's bytes served over it.
Served(b) == IF remap THEN sram[b] ELSE IF loop THEN image[b] ELSE "built"

FromMcu ==
  /\ remap' = FALSE /\ copying' = FALSE /\ verified' = FALSE
  /\ routine' = "idle"
  /\ UNCHANGED <<block, loop, image, sram, window, summed>>

FromSram ==
  /\ routine = "idle"
  /\ remap' = TRUE
  /\ UNCHANGED <<copying, block, verified, loop, image, sram, routine, window, summed>>

\* Slip: the verdict on the last copy stands while the next is made.
CopyBeginVerified ==
  /\ routine = "idle"
  /\ remap' = TRUE /\ copying' = TRUE /\ block' = 0
  /\ routine' = "fetch" /\ summed' = Blank
  /\ UNCHANGED <<verified, loop, image, sram, window>>

CopyBegin ==
  /\ routine = "idle"
  /\ remap' = TRUE /\ copying' = TRUE /\ block' = 0 /\ verified' = FALSE
  /\ routine' = "fetch" /\ summed' = Blank
  /\ UNCHANGED <<loop, image, sram, window>>

CopyGetBlock ==
  /\ routine = "fetch" /\ copying /\ block + 1 \in Blocks
  /\ window' = image[block + 1]
  /\ block' = block + 1
  /\ routine' = "store"
  /\ UNCHANGED <<remap, copying, verified, loop, image, sram, summed>>

\* The routine's own loop over the block: the CPU's writes go to the SRAM
\* as long as it is mapped.
StoreBegins ==
  /\ routine = "store"
  /\ sram' = IF remap THEN [sram EXCEPT ![block] = "torn"] ELSE sram
  /\ routine' = "storing"
  /\ UNCHANGED <<remap, copying, block, verified, loop, image, window, summed>>

StoreEnds ==
  /\ routine = "storing"
  /\ sram' = IF remap THEN [sram EXCEPT ![block] = window] ELSE sram
  /\ summed' = [summed EXCEPT ![block] = window]
  /\ routine' = IF block + 1 \in Blocks THEN "fetch" ELSE "finish"
  /\ UNCHANGED <<remap, copying, block, verified, loop, image, window>>

CopyFinish ==
  /\ routine = "finish"
  /\ copying' = FALSE
  /\ verified' = (summed = image)
  /\ routine' = IF summed = image THEN "idle" ELSE "failed"
  /\ UNCHANGED <<remap, block, loop, image, sram, window, summed>>

KbdInstall ==
  /\ routine = "idle"
  /\ image' = WithLoop /\ loop' = TRUE /\ verified' = FALSE
  /\ UNCHANGED <<remap, copying, block, sram, routine, window, summed>>

\* The module sleeps only with its ROM staged (stepSleep).
PowmanWake ==
  /\ routine = "idle" /\ verified
  /\ loop' = FALSE /\ image' = Built
  /\ UNCHANGED <<remap, copying, block, verified, sram, routine, window, summed>>

\* Power-on; the SRAM and its mapping may have kept their power.
RomColdBoot ==
  /\ loop' = FALSE /\ image' = Built /\ routine' = "idle"
  /\ \/ UNCHANGED <<remap, copying, verified>>
     \/ remap' = FALSE /\ copying' = FALSE /\ verified' = FALSE
  /\ UNCHANGED <<block, sram, window, summed>>

\* Another module image is loaded (setRomImage).
SetRomImage ==
  /\ remap' = FALSE /\ copying' = FALSE /\ block' = 0 /\ verified' = FALSE
  /\ loop' = FALSE /\ image' = Built /\ sram' = Blank
  /\ routine' = "idle"
  /\ UNCHANGED <<window, summed>>

RomNext == \/ FromMcu \/ FromSram \/ CopyBegin \/ CopyGetBlock
           \/ StoreBegins \/ StoreEnds \/ CopyFinish
           \/ KbdInstall \/ PowmanWake \/ RomColdBoot \/ SetRomImage

RomSpec == RomInit /\ [][RomNext]_romVars

-----------------------------------------------------------------------------
RomTypeOK ==
  /\ remap \in BOOLEAN /\ copying \in BOOLEAN /\ verified \in BOOLEAN /\ loop \in BOOLEAN
  /\ block \in Blocks \union {0}
  /\ image \in {Built, WithLoop}
  /\ sram \in [Blocks -> Contents] /\ summed \in [Blocks -> Contents]
  /\ window \in Contents
  /\ routine \in {"idle", "fetch", "store", "storing", "finish", "failed"}

\* romStagedVerified_ can be trusted, as the boot hook and the sleep do:
\* when it is set the CPU runs from the SRAM, every block of it is of one
\* image, and that image has the keyboard loop if the loop is installed --
\* after aborted copies, power cuts, wakes and KBD_INSTALLs in any order.
StagedRomIsWhole ==
  verified => /\ remap
              /\ sram \in {Built, WithLoop}
              /\ loop => \A b \in Blocks : Served(b) = image[b]
=============================================================================
