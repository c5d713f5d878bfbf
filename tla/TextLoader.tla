------------------------------ MODULE TextLoader ------------------------------
(***************************************************************************)
(* typeBasicProgramText (src/src/basic/text_loader.cpp): a BASIC listing   *)
(* is typed into the ROM's line editor.  A line longer than the editor     *)
(* takes is entered in passes: as much as fits, then LIST, the end of the  *)
(* line and as much again.  After each pass what the ROM has stored is     *)
(* read back, for the ROM may turn a pass down or drop the end of it.      *)
(*                                                                         *)
(* A character is a model value or a string; the ROM's editor, its NEW and *)
(* its tokens are modelled from how the loader uses them.                  *)
(***************************************************************************)
EXTENDS Integers, Sequences, FiniteSets, SequencesExt

CONSTANTS
  Listings,   \* sequences of lines: [number, atoms], of the number 0 if none
  Limit,      \* the editor's characters: 79
  Budget,     \* kContinuationPassBudget
  Label,      \* a line number's characters
  MaxStalls,  \* retries without progress: 5
  Space,
  Capitals, Smalls,  \* the letters
  Spared,     \* characters of a keyword that its token spares
  Unmapped,   \* characters without a key
  Unstored

ASSUME LoaderAssumption ==
  /\ Limit \in Nat /\ Budget \in Nat /\ MaxStalls \in Nat
  /\ Capitals \cap Smalls = {}

VARIABLES
  listing, loading,  \* "new", "lines", "first", "pass" or "done"
  lineAt,    \* the line
  program,   \* the ROM's: a content for each number
  oddPass,   \* whether the passes entered so far are odd: each pass is a step
  sml,       \* the keyboard's mode, and the typer's copy of it
  rejectedLines,
  taken,     \* atomCount, then segIdx: atoms of the line entered
  carry, carryTarget, carryStalls, freshMost,  \* ..., maxFreshPackAtoms
  loaded     \* what typeBasicProgramText returned: "none", "yes" or "no"

passVars == <<taken, carry, carryTarget, carryStalls, freshMost>>
loaderVars == <<listing, loading, lineAt, program, oddPass, sml, rejectedLines, passVars, loaded>>

Numbers == {l.number : l \in UNION {Range(ls) : ls \in Listings}} \ {0}

NoPass == taken = 0 /\ carry = <<>> /\ carryTarget = 0 /\ carryStalls = 0 /\ freshMost = 0
LoaderStart ==
  /\ lineAt = 1 /\ oddPass = FALSE /\ sml \in BOOLEAN /\ rejectedLines = <<>> /\ NoPass /\ loaded = "none"
  /\ program = [n \in Numbers |-> Unstored]
LoaderInit == listing \in Listings /\ loading = "new" /\ LoaderStart

-----------------------------------------------------------------------------
source == listing[lineAt]
atoms == source.atoms
\* Atoms i to j, typed.
Typed(i, j) == FlattenSeq(SubSeq(atoms, i, j))
Content(l) == FlattenSeq(l.atoms)
Length(l) == Len(Content(l)) + IF l.number = 0 THEN 0 ELSE Len(Label[l.number]) + 1
\* A line as it is typed, and as it is read back: its number and a space in front.
Numbered(n, text) == Label[n] \o <<Space>> \o text

\* stripSpacesForCompare.
Strip(text) == SelectSeq(text, LAMBDA c : c # Space)
\* std::string::find.
Occurs(part, text) ==
  \E i \in 0..(Len(text) - Len(part)) : SubSeq(text, i + 1, i + Len(part)) = part
Found(part, line) == Occurs(Strip(part), Strip(line))

\* The line's own size byte, which counts its CR, and the end of the program.
StoredSize(text) == 1 + Len(SelectSeq(Strip(text), LAMBDA c : c \notin Spared))
ProgramEnd(p) == FoldSet(LAMBDA n, sum : sum + IF p[n] = Unstored THEN 0 ELSE 3 + StoredSize(p[n]), 0, Numbers)

\* What of a text is typed, and SmlAwareTyper's mode after it.
Keyed(text) ==
  LET bad == {i \in DOMAIN text : text[i] \in Unmapped}
  IN IF bad = {} THEN text ELSE SubSeq(text, 1, (CHOOSE i \in bad : \A j \in bad : i <= j) - 1)
Typable(text) == Keyed(text) = text
SmlAfter(text, mode) ==
  LET letters == SelectSeq(text, LAMBDA c : c \in Capitals \cup Smalls)
  IN IF letters = <<>> THEN mode ELSE Last(letters) \in Smalls

\* The loader gives up, with an error: the machine stays as it is.
GiveUp == loading' = "done" /\ loaded' = "no" /\ UNCHANGED passVars
Here == UNCHANGED <<listing, rejectedLines>>
NoPassEntered == UNCHANGED oddPass

-----------------------------------------------------------------------------
\* CL and NEW0.
TypeNew ==
  /\ loading = "new" /\ loading' = "lines"
  /\ program' = [n \in Numbers |-> Unstored] /\ sml' = FALSE
  /\ Here /\ NoPassEntered /\ UNCHANGED <<lineAt, passVars, loaded>>

\* A line that fits: what the ROM makes of it shows in the end of the program.
ShortLine ==
  /\ loading = "lines" /\ lineAt <= Len(listing) /\ Length(source) <= Limit
  /\ sml' = SmlAfter(Keyed(Content(source)), sml)
  /\ IF ~Typable(Content(source))
     THEN GiveUp /\ UNCHANGED <<lineAt, program, rejectedLines>>
     ELSE /\ \E accepts \in BOOLEAN :
               program' = IF accepts /\ source.number # 0
                          THEN [program EXCEPT ![source.number] = Content(source)] ELSE program
          /\ rejectedLines' = IF ProgramEnd(program') = ProgramEnd(program) THEN Append(rejectedLines, lineAt) ELSE rejectedLines
          /\ lineAt' = lineAt + 1 /\ UNCHANGED <<loading, passVars, loaded>>
  /\ NoPassEntered /\ UNCHANGED listing

\* typeLongLine: the most atoms the first pass may hold.
MaxPack ==
  LET fits == {n \in 0..Len(atoms) : Len(Numbered(source.number, Typed(1, n))) <= Limit}
  IN CHOOSE n \in fits : \A m \in fits : m <= n
LongLine ==
  /\ loading = "lines" /\ lineAt <= Len(listing) /\ Length(source) > Limit
  /\ IF source.number = 0 \/ MaxPack = 0 THEN GiveUp
     ELSE /\ loading' = "first" /\ taken' = MaxPack
          /\ UNCHANGED <<carry, carryTarget, carryStalls, freshMost, loaded>>
  /\ Here /\ NoPassEntered /\ UNCHANGED <<lineAt, program, sml>>

\* The first pass; turned down, it is entered with an atom less.
FirstPass ==
  LET text == Typed(1, taken) IN
  /\ loading = "first" /\ oddPass' = ~oddPass
  /\ sml' = SmlAfter(Keyed(text), sml)
  /\ IF ~Typable(text) THEN GiveUp /\ UNCHANGED program
     ELSE /\ \E accepts \in BOOLEAN :
               program' = IF accepts THEN [program EXCEPT ![source.number] = text] ELSE program
          /\ IF program'[source.number] # Unstored
                  /\ Found(Numbered(source.number, text), Numbered(source.number, program'[source.number]))
             THEN /\ loading' = "pass" /\ carry' = <<>> /\ carryStalls' = 0
                  /\ carryTarget' = taken /\ freshMost' = Len(atoms)
                  /\ UNCHANGED <<taken, loaded>>
             ELSE IF taken = 1 THEN GiveUp
             ELSE taken' = taken - 1 /\ UNCHANGED <<loading, carry, carryTarget, carryStalls, freshMost, loaded>>
  /\ Here /\ UNCHANGED lineAt

-----------------------------------------------------------------------------
\* A pass packs what is left of the last one, or fresh atoms: the last of them.
Fresh == carry = <<>>
Room == Budget - StoredSize(program[source.number])
PackedTo ==
  IF ~Fresh THEN carryTarget
  ELSE LET fits == {n \in taken..Len(atoms) : n - taken <= freshMost /\ Len(Typed(taken + 1, n)) <= Room}
       IN IF Room <= 0 THEN taken ELSE CHOOSE n \in fits : \A m \in fits : m <= n
PassText == IF Fresh THEN Typed(taken + 1, PackedTo) ELSE carry

\* Slip: what the ROM dropped is not looked for.
AcceptedWhole(text, line) == IF Found(SubSeq(text, 1, 1), line) THEN Len(text) ELSE 0
\* longestAcceptedPrefixLen: the line is searched with its number.
Accepted(text, line) ==
  LET found == {n \in 1..Len(text) : Found(SubSeq(text, 1, n), line)}
  IN IF found = {} THEN 0 ELSE CHOOSE n \in found : \A m \in found : m <= n

\* What the loader makes of the characters it finds stored.  Slip: a pass that
\* was turned down is tried again as it was.
MakeOfEndless(text, n) ==
  CASE n >= Len(text) ->
         taken' = PackedTo /\ carry' = <<>> /\ freshMost' = Len(atoms) /\ UNCHANGED <<loading, carryStalls, loaded>>
    [] n < Len(text) /\ Fresh /\ n = 0 /\ PackedTo - taken > 1 ->
         UNCHANGED <<loading, taken, carry, carryStalls, freshMost, loaded>>
    [] OTHER ->
         LET stalls == IF SubSeq(text, n + 1, Len(text)) = carry THEN carryStalls + 1 ELSE 0 IN
         /\ carry' = SubSeq(text, n + 1, Len(text)) /\ carryStalls' = stalls
         /\ IF stalls > MaxStalls THEN loading' = "done" /\ loaded' = "no" ELSE UNCHANGED <<loading, loaded>>
         /\ UNCHANGED <<taken, freshMost>>
MakeOf(text, n) ==
  CASE n >= Len(text) ->
         taken' = PackedTo /\ carry' = <<>> /\ freshMost' = Len(atoms) /\ UNCHANGED <<loading, carryStalls, loaded>>
    [] n < Len(text) /\ Fresh /\ n = 0 /\ PackedTo - taken > 1 ->
         freshMost' = PackedTo - taken - 1 /\ UNCHANGED <<loading, taken, carry, carryStalls, loaded>>
    [] OTHER ->
         LET stalls == IF SubSeq(text, n + 1, Len(text)) = carry THEN carryStalls + 1 ELSE 0 IN
         /\ carry' = SubSeq(text, n + 1, Len(text)) /\ carryStalls' = stalls
         /\ IF stalls > MaxStalls THEN loading' = "done" /\ loaded' = "no" ELSE UNCHANGED <<loading, loaded>>
         /\ UNCHANGED <<taken, freshMost>>

\* LIST, the end of the line, the text and ENTER, of which the ROM keeps some.
AppendPass ==
  /\ loading = "pass" /\ (taken < Len(atoms) \/ ~Fresh)
  /\ oddPass' = ~oddPass
  /\ IF PassText = <<>> THEN GiveUp /\ UNCHANGED <<program, sml>>
     ELSE /\ sml' = SmlAfter(Keyed(PassText), FALSE)
          /\ IF ~Typable(PassText) THEN GiveUp /\ UNCHANGED program
             ELSE /\ \E kept \in 0..Len(PassText) :
                       program' = [program EXCEPT ![source.number] = @ \o SubSeq(PassText, 1, kept)]
                  /\ MakeOf(PassText, Accepted(PassText, Numbered(source.number, program'[source.number])))
                  /\ carryTarget' = PackedTo
  /\ Here /\ UNCHANGED lineAt

LineEntered ==
  /\ loading = "pass" /\ taken = Len(atoms) /\ Fresh
  /\ loading' = "lines" /\ lineAt' = lineAt + 1
  /\ Here /\ NoPassEntered /\ UNCHANGED <<program, sml, passVars, loaded>>

\* The end: an error if a line was rejected, else back in capitals.
Finish ==
  /\ loading = "lines" /\ lineAt > Len(listing) /\ loading' = "done"
  /\ IF rejectedLines # <<>> THEN loaded' = "no" /\ UNCHANGED sml
     ELSE loaded' = "yes" /\ sml' = FALSE
  /\ Here /\ NoPassEntered /\ UNCHANGED <<lineAt, program, passVars>>

LoaderNext ==
  \/ TypeNew \/ ShortLine \/ LongLine \/ FirstPass \/ AppendPass \/ LineEntered \/ Finish

LoaderSpec == LoaderInit /\ [][LoaderNext]_loaderVars /\ WF_loaderVars(LoaderNext)

LoaderTypeOK ==
  /\ listing \in Listings /\ loading \in {"new", "lines", "first", "pass", "done"}
  /\ lineAt \in 1..(Len(listing) + 1) /\ oddPass \in BOOLEAN /\ sml \in BOOLEAN /\ loaded \in {"none", "yes", "no"}
  /\ loading # "done" => carryStalls <= MaxStalls

-----------------------------------------------------------------------------
\* A listing that is said to be loaded is in the machine, each line whole and no
\* line twice over: "a silently-truncated append is otherwise indistinguishable"
\* from a compact one (typeLongLine).
LoadedWhole ==
  loaded = "yes" =>
    \A i \in DOMAIN listing :
      (\A j \in (i + 1)..Len(listing) : listing[j].number # listing[i].number)
        => Strip(program[listing[i].number]) = Strip(Content(listing[i]))

\* The load ends, whatever the ROM makes of the passes.
LoadEnds == <>(loading = "done")
=============================================================================
