------------------------------- MODULE Analyzer -------------------------------
(***************************************************************************)
(* The disassembler's analysis of an image (src/src/disasm/analyzer.cpp):  *)
(* entry points from keyword tables, vectors and the caller, and from them *)
(* a traversal that tells code from data.                                  *)
(*                                                                         *)
(* Bytes are left out: an image says at each address which instruction the *)
(* bytes there decode to (opcode_table.h), which keyword-table entry they  *)
(* read as and whether the table's index points at it, and which word they *)
(* are.                                                                    *)
(***************************************************************************)
EXTENDS Integers, Sequences, FiniteSets, SequencesExt

CONSTANTS
  AddressSpace,  \* addresses: 2^16
  PageSize,      \* kPageSize
  Analyses,      \* <<mode, image, seeds>>
  BaseSearch,    \* kBaseKeywordIndexAddr, first and last candidate after it
  NoEntry

Addresses == 0..(AddressSpace - 1)
Flows == {"undefined", "sequential", "return", "jump", "branch", "call", "vector call"}

\* An image within the address space. An entry's bytes are the image's, and an
\* entry that ends at the last address is not followed by one at the first: that
\* takes an image of the whole address space.
ImageRight(i) ==
  LET places == i.base..(i.base + i.size - 1) IN
  /\ i.base \in Addresses /\ i.size \in Nat /\ i.base + i.size <= AddressSpace
  /\ i.code \in [places -> [flow : Flows, length : Nat \ {0}, target : Addresses]]
  /\ \A s \in DOMAIN i.words : i.words[s] \in Addresses
  /\ i.vectors \in Seq(Addresses)
  /\ i.sentinels \subseteq {a \in places : a % PageSize = 0}
  /\ \A a \in places : \/ i.entry[a] = NoEntry
                       \/ /\ i.entry[a].length \in Nat \ {0} /\ i.entry[a].address \in Addresses
                          /\ a + i.entry[a].length <= i.base + i.size
                          /\ i.base = 0 => a + i.entry[a].length < AddressSpace

ASSUME AnalyzerAssumption ==
  /\ AddressSpace \in Nat \ {0} /\ PageSize \in Nat \ {0} /\ AddressSpace % PageSize = 0
  /\ \A n \in 1..3 : BaseSearch[n] \in Addresses
  /\ \A x \in Analyses :
       x[1] \in {"program", "base", "module"} /\ ImageRight(x[2]) /\ x[3] \in Seq(Addresses)

VARIABLES
  analysis,  \* the call: mode, image and seeds
  phase,     \* "start", "pages", "traverse" or "done"
  page,      \* analyzeModuleRom's page
  tables,    \* the keyword tables found: their entries' addresses
  doubted,   \* lowConfidenceTables
  kind, labels, worklist

analyzerVars == <<analysis, phase, page, tables, doubted, kind, labels, worklist>>

mode == analysis[1]
image == analysis[2]
seeds == analysis[3]
End == image.base + image.size
InImage(a) == a >= image.base /\ a < End
Wrapped(a) == a % AddressSpace

AnalyzerStart ==
  /\ phase = "start" /\ page = 0 /\ tables = <<>> /\ doubted = <<>>
  /\ kind = [a \in image.base..(End - 1) |-> "unknown"]
  /\ labels = {} /\ worklist = <<>>
AnalyzerInit == analysis \in Analyses /\ AnalyzerStart

-----------------------------------------------------------------------------
\* parseKeywordTableAt: the entries from t on, each where the last one ends.
Chain(t) ==
  LET From[a \in Addresses] ==
        IF ~InImage(a) \/ image.entry[a] = NoEntry THEN <<>>
        ELSE <<a>> \o From[Wrapped(a + image.entry[a].length)]
  IN From[t]

\* indexValidatesCandidate: of the names with two letters, and of one at least,
\* the index has the address.
IndexValidates(entries) ==
  LET named == {a \in ToSet(entries) : image.entry[a].index # "one letter"} IN
  named # {} /\ \A a \in named : image.entry[a].index = "right"

Trusted(entries) == Len(entries) >= 2 \/ IndexValidates(entries)

\* Slip: the byte after the sentinel is not tried.
CandidatesFromTwo(first, last) == (first + 1)..last
Candidates(first, last) == first..last

\* findKeywordTableInPage: the first candidate to be trusted, or the longest.
TableIn(first, last) ==
  LET good == {t \in Candidates(first, last) : Trusted(Chain(t))}
  IN IF good = {} THEN <<>> ELSE Chain(CHOOSE t \in good : \A u \in good : t <= u)
BestRejected(first, last) ==
  LET entries(t) == Len(Chain(t))
      bad == {t \in Candidates(first, last) : entries(t) > 0}
  IN IF bad = {} THEN <<>>
     ELSE Chain(CHOOSE t \in bad : \A u \in bad : entries(t) > entries(u) \/ (entries(t) = entries(u) /\ t <= u))

Routines(entries) == [i \in DOMAIN entries |-> image.entry[entries[i]].address]
\* Addresses become labels and work.
Seeded(addresses) == labels' = labels \cup ToSet(addresses) /\ worklist' = worklist \o addresses

-----------------------------------------------------------------------------
AnalyzeProgram ==
  /\ phase = "start" /\ mode = "program" /\ phase' = "traverse"
  /\ Seeded(IF seeds = <<>> THEN <<image.base>> ELSE seeds)
  /\ UNCHANGED <<analysis, page, tables, doubted, kind>>

AnalyzeBaseRom ==
  /\ phase = "start" /\ mode = "base" /\ phase' = "traverse"
  /\ LET entries == IF InImage(BaseSearch[1]) THEN TableIn(BaseSearch[2], BaseSearch[3]) ELSE <<>> IN
       /\ tables' = IF entries = <<>> THEN <<>> ELSE <<entries>>
       /\ Seeded(seeds \o image.vectors \o Routines(entries))
  /\ UNCHANGED <<analysis, page, doubted, kind>>

AnalyzeModuleRom ==
  /\ phase = "start" /\ mode = "module" /\ phase' = "pages"
  /\ page' = LET first == image.base - (image.base % PageSize)
             IN IF first < image.base THEN Wrapped(first + PageSize) ELSE first
  /\ Seeded(seeds)
  /\ UNCHANGED <<analysis, tables, doubted, kind>>

\* A page, if it begins with the sentinel 55H.
ScanPage ==
  /\ phase = "pages" /\ page < End
  /\ page' = Wrapped(page + PageSize)
  /\ IF page \notin image.sentinels
     THEN UNCHANGED <<tables, doubted, labels, worklist>>
     ELSE LET pageEnd == IF Wrapped(page + PageSize) > End THEN End ELSE Wrapped(page + PageSize)
              entries == TableIn(page + 1, pageEnd - 1)
              rejected == BestRejected(page + 1, pageEnd - 1)
          IN IF entries # <<>>
             THEN tables' = Append(tables, entries) /\ Seeded(Routines(entries)) /\ UNCHANGED doubted
             ELSE /\ doubted' = IF rejected = <<>> THEN doubted ELSE Append(doubted, rejected)
                  /\ UNCHANGED <<tables, labels, worklist>>
  /\ UNCHANGED <<analysis, phase, kind>>

PagesEnd ==
  /\ phase = "pages" /\ page >= End /\ phase' = "traverse"
  /\ UNCHANGED <<analysis, page, tables, doubted, kind, labels, worklist>>

-----------------------------------------------------------------------------
\* decodeOne: undefined, or cut off by the image's end, it is not valid.
Valid(a) == image.code[a].flow # "undefined" /\ a + image.code[a].length <= End
After(a) == Wrapped(a + image.code[a].length)

\* A vector's target, if the image has the vector.
VectorTarget(slot) == IF slot \in DOMAIN image.words THEN <<image.words[slot]>> ELSE <<>>

\* Where the instruction at a may go other than on.
Targets(a) ==
  CASE image.code[a].flow \in {"jump", "branch", "call"} -> <<image.code[a].target>>
    [] image.code[a].flow = "vector call" -> VectorTarget(image.code[a].target)
    [] OTHER -> <<>>

\* Slip: a call is not returned from.
OnwardNotFromCalls(a) ==
  IF image.code[a].flow \in {"jump", "return", "call", "vector call"} THEN <<>> ELSE <<After(a)>>
Onward(a) == IF image.code[a].flow \in {"jump", "return"} THEN <<>> ELSE <<After(a)>>

\* traverse: the next address of the worklist.
Traverse ==
  /\ phase = "traverse" /\ worklist # <<>>
  /\ LET a == Head(worklist) IN
     IF ~InImage(a) \/ kind[a] # "unknown" \/ ~Valid(a)
     THEN worklist' = Tail(worklist) /\ UNCHANGED <<kind, labels>>
     ELSE /\ kind' = [b \in DOMAIN kind |->
                        CASE b = a -> "start"
                          [] b > a /\ b < a + image.code[a].length /\ kind[b] = "unknown" -> "continuation"
                          [] OTHER -> kind[b]]
          /\ labels' = labels \cup ToSet(Targets(a))
          /\ worklist' = Tail(worklist) \o Targets(a) \o Onward(a)
  /\ UNCHANGED <<analysis, phase, page, tables, doubted>>

AnalysisDone ==
  /\ phase = "traverse" /\ worklist = <<>> /\ phase' = "done"
  /\ UNCHANGED <<analysis, page, tables, doubted, kind, labels, worklist>>

AnalyzerNext ==
  \/ AnalyzeProgram \/ AnalyzeBaseRom \/ AnalyzeModuleRom
  \/ ScanPage \/ PagesEnd \/ Traverse \/ AnalysisDone

AnalyzerSpec == AnalyzerInit /\ [][AnalyzerNext]_analyzerVars /\ WF_analyzerVars(AnalyzerNext)

AnalyzerTypeOK ==
  /\ analysis \in Analyses /\ phase \in {"start", "pages", "traverse", "done"}
  /\ page \in Addresses
  /\ \A a \in DOMAIN kind : kind[a] \in {"unknown", "start", "continuation"}
  /\ labels \subseteq Addresses /\ worklist \in Seq(Addresses)

-----------------------------------------------------------------------------
\* Where a processor may be after the instruction at a, if there is one.
Successors(a) ==
  IF ~InImage(a) \/ ~Valid(a) THEN {}
  ELSE LET i == image.code[a] IN
       CASE i.flow = "return" -> {}
         [] i.flow = "jump" -> {i.target}
         [] i.flow = "vector call" -> {After(a)} \cup {image.words[s] : s \in DOMAIN image.words \cap {i.target}}
         [] i.flow \in {"branch", "call"} -> {i.target, After(a)}
         [] OTHER -> {After(a)}

EntryPoints ==
  ToSet(seeds)
    \cup (IF mode = "base" THEN ToSet(image.vectors) ELSE {})
    \cup (IF mode = "program" /\ seeds = <<>> THEN {image.base} ELSE {})
    \cup UNION {ToSet(Routines(t)) : t \in ToSet(tables)}

\* Where it may be after n instructions, or fewer; no path is longer than the image.
Within ==
  LET f[n \in 0..image.size] ==
        IF n = 0 THEN EntryPoints
        ELSE LET nearer == f[n - 1] IN nearer \cup UNION {Successors(a) : a \in nearer}
  IN f
Reachable == Within[image.size]

\* The traversal finds exactly the code: only what a processor can reach is
\* decoded; whatever follows from an entry point or a decoded instruction is
\* too, unless another instruction's bytes cover it; no other byte counts as an
\* instruction's; and the labels are the entry points and the targets (traverse).
FoundExactly ==
  phase = "done" =>
    LET starts == {a \in DOMAIN kind : kind[a] = "start"}
        follow == EntryPoints \cup UNION {Successors(a) : a \in starts}
    IN /\ starts \subseteq Reachable
       /\ \A a \in follow : InImage(a) /\ Valid(a) => kind[a] # "unknown"
       /\ \A b \in DOMAIN kind : kind[b] = "continuation" =>
            \E a \in starts : a < b /\ b < a + image.code[a].length
       /\ labels = EntryPoints \cup UNION {ToSet(Targets(a)) : a \in starts}

\* A keyword table that is found is found whole: it is no tail of a longer one
\* in its page, and a page with a chain of two entries, or an indexed one, has
\* one (findKeywordTableInPage).
TablesAreWhole ==
  phase = "done" /\ mode = "module" =>
    \A start \in image.sentinels :
      LET last == IF start + PageSize > End THEN End - 1 ELSE start + PageSize - 1
          chains == {t \in (start + 1)..last : Trusted(Chain(t))}
      IN /\ chains # {} => \E e \in ToSet(tables) : e[1] \in chains
         /\ \A e \in ToSet(tables), t \in chains :
              e[1] \in ToSet(Chain(t)) => t = e[1] \/ e[1] \notin (start + 1)..last

\* Both: the analysis of an image is exact.
AnalysisIsExact == FoundExactly /\ TablesAreWhole

\* analyzer.h: the pages looked at are those within the image.
AnalysisEnds == <>(phase = "done")
=============================================================================
