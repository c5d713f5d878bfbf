------------------------------- MODULE SdCard -------------------------------
(***************************************************************************)
(* The SD card of the CE-163WL mock (src/src/bus/expansion_mock.cpp): the  *)
(* directory tree under rootDir_, the one file SDSAVE and SDLOAD use, and  *)
(* the SDOPEN channels with their two positions (SDPRINT#/SDINPUT# values, *)
(* SDPUT/SDGET bytes), through a POWMAN sleep and a power cycle.           *)
(*                                                                         *)
(* A file is an inode with a sequence of units; an open stream keeps its   *)
(* inode when the name is removed or moved, as POSIX does.  A value is a   *)
(* chunk: a number is one unit (its tag and eight bytes), a string is its  *)
(* tag, its length and its characters.  A command that is refused and      *)
(* changes nothing is a stuttering step.                                   *)
(***************************************************************************)
EXTENDS Integers, Sequences, SequencesExt

CONSTANTS
  Channels,    \* the channel numbers (1..kMaxSdChannels)
  Inodes,      \* the files there is room for: numbers
  Paths,       \* the names the behaviours use, as sequences from the root
  Cards,       \* what the paths may name at first
  Args,        \* how commands write them: [abs, rest]
  MaxLen,      \* bound: units in a file
  MaxCommands, \* bound: commands in a behaviour
  None, Dir    \* a path with nothing, with a directory

ASSUME SdAssumption ==
  /\ Inodes \subseteq Nat
  /\ None \notin Inodes /\ Dir \notin Inodes /\ None # Dir
  /\ Cards \subseteq [Paths -> Inodes \cup {None, Dir}]

VARIABLES
  node,        \* what each path names
  content,     \* each inode's units
  cwd,         \* currentDir_
  file,        \* openFile_
  fileStatus,  \* fileStatus_
  chan,        \* channels_
  commands,    \* bound: commands so far
  touched      \* history: channels whose file another command has changed

sdVars == <<node, content, cwd, file, fileStatus, chan, commands, touched>>

Units == {"N", "S", "0", "1", "x"}

\* What SDPRINT# appends: a number, a string of one character.
Values == {<<"N">>, <<"S", "1", "x">>}

Closed == [open |-> FALSE, out |-> FALSE, inode |-> None, pos |-> 0]

Shut == [open |-> FALSE, writable |-> FALSE, inode |-> None, name |-> None,
         path |-> <<>>, readPos |-> 0, bytePos |-> 0]

-----------------------------------------------------------------------------
\* Names and the tree

Outside == <<"..">>

Resolve(a) ==
  LET base == IF a.abs THEN <<>> ELSE cwd
  IN IF a.rest # <<"..">> THEN base \o a.rest
     ELSE IF base = <<>> THEN Outside ELSE Front(base)

IsFile(p) == p \in Paths /\ node[p] \in Inodes

IsDir(p) == p = <<>> \/ (p \in Paths /\ node[p] = Dir)

\* A file can be made at p, or is there to be written.
Creatable(p) == p \in Paths /\ node[p] # Dir /\ IsDir(Front(p))

Destination(a, b) ==
  LET p == Resolve(b) IN IF IsDir(p) THEN Append(p, Last(Resolve(a))) ELSE p

InUse(i) == \/ \E p \in Paths : node[p] = i
            \/ file.open /\ file.inode = i
            \/ \E c \in Channels : chan[c].open /\ chan[c].inode = i

\* The inode a write at p goes to: the file's own, or the first free one.
Target(p) ==
  IF node[p] \in Inodes THEN {node[p]}
  ELSE {i \in Inodes : ~InUse(i) /\ \A j \in Inodes : ~InUse(j) => i <= j}

\* The files after a step: what no name and no stream holds is gone.
Keep(c) == content' = [i \in Inodes |-> IF InUse(i)' THEN c[i] ELSE <<>>]

On(i) == {c \in Channels : chan[c].open /\ chan[c].inode = i}

NamedBy(p) == {c \in Channels : chan[c].open /\ chan[c].path = p}

Put(s, pos, d) ==
  [i \in 1..(IF pos + Len(d) > Len(s) THEN pos + Len(d) ELSE Len(s)) |->
     IF i > pos /\ i <= pos + Len(d) THEN d[i - pos]
     ELSE IF i <= Len(s) THEN s[i] ELSE "0"]

-----------------------------------------------------------------------------
\* Values in a file

LengthOf(u) == IF u = "0" THEN 0 ELSE IF u = "1" THEN 1 ELSE 2

\* Where the chunk at pos claims to end: NoChunk if it has no header.
NoChunk == -1

ChunkEnd(s, pos) ==
  IF pos >= Len(s) THEN NoChunk
  ELSE IF s[pos + 1] = "N" THEN pos + 1
  ELSE IF s[pos + 1] = "S" /\ pos + 1 < Len(s) THEN pos + 2 + LengthOf(s[pos + 2])
  ELSE NoChunk

\* The chunk SDINPUT# gets at pos: to its end, or none.
ReadEnd(s, pos) ==
  LET end == ChunkEnd(s, pos) IN IF end <= Len(s) THEN end ELSE NoChunk

\* Slip: SDSKIP# steps over the headers and forgets the payloads.
SkipEndByHeader(s, pos, k) ==
  IF pos + k <= Len(s) THEN pos + k ELSE NoChunk

\* Where k chunks from pos end for SDSKIP#, which reads only the headers.
SkipEnd(s, pos, k) ==
  LET f[n \in 0..k] == IF n = 0 THEN pos
                       ELSE IF f[n - 1] = NoChunk THEN NoChunk
                       ELSE ChunkEnd(s, f[n - 1])
  IN f[k]

\* The positions at which a value of s begins, or the last one ends: those
\* in no set of places which only values that begin in the set end at.
Boundaries(s) ==
  LET values == {<<i, ReadEnd(s, i)>> : i \in 0..Len(s)}
  IN (0..Len(s)) \ UNION {P \in SUBSET (1..Len(s)) : \A v \in values : v[2] \in P => v[1] \in P}

Framed(s) == Len(s) \in Boundaries(s)

SdEof(c) == Len(content[chan[c].inode]) <= chan[c].readPos

-----------------------------------------------------------------------------
\* The card as it is found: a file on it holds two values.
FirstContent == <<"N", "S", "1", "x">>

SdInit ==
  /\ node \in Cards
  /\ content = [i \in Inodes |-> IF \E p \in Paths : node[p] = i THEN FirstContent ELSE <<>>]
  /\ cwd = <<>>
  /\ file = Closed
  /\ fileStatus = "closed"
  /\ chan = [c \in Channels |-> Shut]
  /\ commands = 0
  /\ touched = {}

\* SDSAVE's CREATE: the old stream is closed whether or not the new opens.
CreateFile(a) ==
  LET p == Resolve(a) IN
  /\ p \in Paths
  /\ \/ /\ Creatable(p)
        /\ \E i \in Target(p) :
             /\ node' = [node EXCEPT ![p] = i]
             /\ file' = [open |-> TRUE, out |-> TRUE, inode |-> i, pos |-> 0]
             /\ touched' = touched \union On(i)
             /\ fileStatus' = "write"
             /\ UNCHANGED <<cwd, chan>>
             /\ Keep([content EXCEPT ![i] = <<>>])
     \/ /\ ~Creatable(p)
        /\ file' = Closed
        /\ UNCHANGED <<node, cwd, fileStatus, chan, touched>>
        /\ Keep(content)

\* SDLOAD's OPEN (of a file's name: a directory's is not used).
OpenFile(a) ==
  LET p == Resolve(a) IN
  /\ p \in Paths /\ ~IsDir(p)
  /\ IF IsFile(p)
     THEN /\ file' = [open |-> TRUE, out |-> FALSE, inode |-> node[p], pos |-> 0]
          /\ fileStatus' = "read"
     ELSE file' = Closed /\ UNCHANGED fileStatus
  /\ UNCHANGED <<node, cwd, chan, touched>>
  /\ Keep(content)

WriteFile ==
  /\ fileStatus = "write" /\ file.open /\ file.pos < MaxLen
  /\ file' = [file EXCEPT !.pos = @ + 1]
  /\ touched' = touched \union On(file.inode)
  /\ UNCHANGED <<node, cwd, fileStatus, chan>>
  /\ Keep([content EXCEPT ![file.inode] = Put(@, file.pos, <<"0">>)])

ReadFile(n) ==
  /\ fileStatus = "read" /\ file.open
  /\ LET end == file.pos + n
         size == Len(content[file.inode])
     IN file' = [file EXCEPT !.pos = IF end < size THEN end ELSE IF @ < size THEN size ELSE @]
  /\ UNCHANGED <<node, content, cwd, fileStatus, chan, touched>>

CloseFile ==
  /\ file.open /\ fileStatus # "closed"
  /\ file' = Closed /\ fileStatus' = "closed"
  /\ UNCHANGED <<node, cwd, chan, touched>>
  /\ Keep(content)

-----------------------------------------------------------------------------
\* Directories

RemoveFile(a) ==
  LET p == Resolve(a) IN
  /\ IsFile(p)
  /\ node' = [node EXCEPT ![p] = None]
  /\ touched' = touched \union NamedBy(p)
  /\ UNCHANGED <<cwd, file, fileStatus, chan>>
  /\ Keep(content)

\* SDFORMAT: every regular file directly inside the root.
FormatCard ==
  /\ node' = [p \in Paths |-> IF Len(p) = 1 /\ IsFile(p) THEN None ELSE node[p]]
  /\ touched' = touched \union UNION {NamedBy(p) : p \in {q \in Paths : Len(q) = 1 /\ IsFile(q)}}
  /\ UNCHANGED <<cwd, file, fileStatus, chan>>
  /\ Keep(content)

ChangeDir(a) ==
  /\ IsDir(Resolve(a))
  /\ cwd' = Resolve(a)
  /\ UNCHANGED <<node, content, file, fileStatus, chan, touched>>

MakeDir(a) ==
  LET p == Resolve(a) IN
  /\ p \in Paths /\ node[p] = None /\ IsDir(Front(p))
  /\ node' = [node EXCEPT ![p] = Dir]
  /\ UNCHANGED <<content, cwd, file, fileStatus, chan, touched>>

\* fs::remove: an empty directory, the current one too, or a file.
RemoveDir(a) ==
  LET p == Resolve(a) IN
  /\ p \in Paths /\ node[p] # None
  /\ \A q \in Paths : Len(q) > Len(p) /\ SubSeq(q, 1, Len(p)) = p => node[q] = None
  /\ node' = [node EXCEPT ![p] = None]
  /\ touched' = touched \union NamedBy(p)
  /\ UNCHANGED <<cwd, file, fileStatus, chan>>
  /\ Keep(content)

CopyFile(a, b) ==
  LET s == Resolve(a)
      d == Destination(a, b)
  IN /\ IsFile(s) /\ s # d /\ Creatable(d)
     /\ \E i \in Target(d) :
          /\ node' = [node EXCEPT ![d] = i]
          /\ touched' = touched \union On(i)
          /\ UNCHANGED <<cwd, file, fileStatus, chan>>
          /\ Keep([content EXCEPT ![i] = content[node[s]]])

MoveFile(a, b) ==
  LET s == Resolve(a)
      d == Destination(a, b)
  IN /\ IsFile(s) /\ s # d /\ Creatable(d)
     /\ node' = [node EXCEPT ![d] = node[s], ![s] = None]
     /\ touched' = touched \union NamedBy(s) \union NamedBy(d)
     /\ UNCHANGED <<cwd, file, fileStatus, chan>>
     /\ Keep(content)

-----------------------------------------------------------------------------
\* Channels

Opened(i, a, w) == [open |-> TRUE, writable |-> w, inode |-> i, name |-> a,
                    path |-> Resolve(a), readPos |-> 0, bytePos |-> 0]

\* SDOPEN: the number's old file is closed first, also when this fails.
OpenChannel(c, a, w) ==
  LET p == Resolve(a) IN
  /\ p \in Paths /\ (IsDir(p) => w)
  /\ \/ /\ IsFile(p) \/ (w /\ Creatable(p))
        /\ \E i \in Target(p) :
             /\ node' = [node EXCEPT ![p] = i]
             /\ chan' = [chan EXCEPT ![c] = Opened(i, a, w)]
             /\ touched' = IF Framed(content[i]) THEN touched \ {c} ELSE touched \union {c}
        /\ UNCHANGED <<cwd, file, fileStatus>>
     \/ /\ ~IsFile(p) /\ ~(w /\ Creatable(p))
        /\ chan' = [chan EXCEPT ![c] = Shut]
        /\ touched' = touched \ {c}
        /\ UNCHANGED <<node, cwd, file, fileStatus>>
  /\ Keep(content)

\* SDCLOSE of one channel, or of all (channel 0).
CloseChannels(S) ==
  /\ chan' = [c \in Channels |-> IF c \in S THEN Shut ELSE chan[c]]
  /\ touched' = touched \ S
  /\ UNCHANGED <<node, cwd, file, fileStatus>>
  /\ Keep(content)

\* SDPRINT#: always at the end of the file.
PrintValue(c, v) ==
  LET i == chan[c].inode IN
  /\ chan[c].open /\ chan[c].writable
  /\ Len(content[i]) + Len(v) <= MaxLen
  /\ content' = [content EXCEPT ![i] = @ \o v]
  /\ UNCHANGED <<node, cwd, file, fileStatus, chan, touched>>

\* SDINPUT#: the position moves past a whole value only.
InputValue(c) ==
  LET end == ReadEnd(content[chan[c].inode], chan[c].readPos) IN
  /\ chan[c].open /\ end # NoChunk
  /\ chan' = [chan EXCEPT ![c].readPos = end]
  /\ UNCHANGED <<node, content, cwd, file, fileStatus, touched>>

\* SDSKIP#: all k values or none.
SkipValues(c, k) ==
  LET end == SkipEnd(content[chan[c].inode], chan[c].readPos, k) IN
  /\ chan[c].open /\ end # NoChunk
  /\ chan' = [chan EXCEPT ![c].readPos = end]
  /\ UNCHANGED <<node, content, cwd, file, fileStatus, touched>>

\* pos is a place in the file, or NoChunk for kSdPosCurrent.
At(c, pos) == IF pos = NoChunk THEN chan[c].bytePos ELSE pos

ReadBytes(c, pos, n) ==
  LET size == Len(content[chan[c].inode])
      at == At(c, pos)
      end == IF at + n < size THEN at + n ELSE size
  IN /\ chan[c].open
     /\ chan' = [chan EXCEPT ![c].bytePos = IF at < size THEN end ELSE at]
     /\ UNCHANGED <<node, content, cwd, file, fileStatus, touched>>

WriteBytes(c, pos, d) ==
  LET i == chan[c].inode
      at == At(c, pos)
  IN /\ chan[c].open /\ chan[c].writable
     /\ at + Len(d) <= MaxLen
     /\ content' = [content EXCEPT ![i] = Put(@, at, d)]
     /\ chan' = [chan EXCEPT ![c].bytePos = at + Len(d)]
     /\ touched' = touched \union On(i)
     /\ UNCHANGED <<node, cwd, file, fileStatus>>

\* Slip: the names are looked up again in the current directory.
ReopenByName ==
  /\ \E c \in Channels : chan[c].open
  /\ chan' = [c \in Channels |->
                IF ~chan[c].open THEN chan[c]
                ELSE IF IsFile(Resolve(chan[c].name))
                THEN [chan[c] EXCEPT !.inode = node[Resolve(chan[c].name)]]
                ELSE Shut]
  /\ touched' = touched \ {c \in Channels : ~IsFile(chan[c].path)}
  /\ UNCHANGED <<node, cwd, file, fileStatus>>
  /\ Keep(content)

\* The first command after a POWMAN sleep: every channel's file opened
\* again by its full path, the cursors kept.
Reopen ==
  /\ \E c \in Channels : chan[c].open
  /\ chan' = [c \in Channels |->
                IF ~chan[c].open THEN chan[c]
                ELSE IF IsFile(chan[c].path)
                THEN [chan[c] EXCEPT !.inode = node[chan[c].path]]
                ELSE Shut]
  /\ touched' = touched \ {c \in Channels : ~IsFile(chan[c].path)}
  /\ UNCHANGED <<node, cwd, file, fileStatus>>
  /\ Keep(content)

\* Power-on: the channels are gone and the card is mounted at its root.
SdColdBoot ==
  /\ chan' = [c \in Channels |-> Shut]
  /\ cwd' = <<>>
  /\ touched' = {}
  /\ UNCHANGED <<node, file, fileStatus>>
  /\ Keep(content)

-----------------------------------------------------------------------------
FileCommand == \/ WriteFile \/ CloseFile \/ FormatCard
               \/ ReadFile(2)
               \/ \E a \in Args : \/ CreateFile(a) \/ OpenFile(a) \/ RemoveFile(a)
                                  \/ ChangeDir(a) \/ MakeDir(a) \/ RemoveDir(a)
               \/ \E a, b \in Args : CopyFile(a, b) \/ MoveFile(a, b)

ChannelCommand(c) == \/ \E a \in Args, w \in BOOLEAN : OpenChannel(c, a, w)
                     \/ \E v \in Values : PrintValue(c, v)
                     \/ InputValue(c)
                     \/ \E k \in 1..2 : SkipValues(c, k)
                     \/ \E pos \in {NoChunk, 1} : WriteBytes(c, pos, <<"0">>)
                     \/ ReadBytes(c, NoChunk, 2)

SdNext ==
  /\ commands < MaxCommands /\ commands' = commands + 1
  /\ \/ FileCommand
     \/ \E c \in Channels : ChannelCommand(c)
     \/ \E S \in {Channels} \union {{c} : c \in Channels} : CloseChannels(S)
     \/ Reopen
     \/ SdColdBoot

SdSpec == SdInit /\ [][SdNext]_sdVars

-----------------------------------------------------------------------------
\* The variables' values; every file and directory is in a directory, and a
\* stream that is open is open the way fileStatus_ says.
SdTypeOK ==
  /\ node \in [Paths -> Inodes \union {None, Dir}]
  /\ \A p \in Paths : node[p] # None => IsDir(Front(p))
  /\ content \in [Inodes -> Seq(Units)]
  /\ \A i \in Inodes : Len(content[i]) <= MaxLen
  /\ cwd = <<>> \/ cwd \in Paths
  /\ fileStatus \in {"closed", "read", "write"}
  /\ file.open => file.inode \in Inodes /\ fileStatus = (IF file.out THEN "write" ELSE "read")
  /\ \A c \in Channels : chan[c].open => /\ chan[c].inode \in Inodes
                                         /\ chan[c].path \in Paths
  /\ commands \in 0..MaxCommands
  /\ touched \subseteq {c \in Channels : chan[c].open}

\* Values come back whole: unless another kind of command has changed the
\* file since SDOPEN, the file is a row of whole values however many
\* channels print to it, SDINPUT#'s position is between two of them, and
\* SDEOF says "end" exactly when SDINPUT# has no value to give
\* (writeSdValue, readSdValue, skipSdValues and the EOF command).
WholeValues ==
  \A c \in Channels : chan[c].open /\ c \notin touched =>
    LET s == content[chan[c].inode] IN
    /\ {Len(s), chan[c].readPos} \subseteq Boundaries(s)
    /\ SdEof(c) <=> ReadEnd(s, chan[c].readPos) = NoChunk

\* A POWMAN sleep is not noticed: an open channel whose file no other
\* command has touched comes back on the same file, both cursors kept,
\* whatever the current directory is by then (reopenAfterPowmanPrepare).
SleepKeepsChannels ==
  [][Reopen => \A c \in Channels : chan[c].open /\ c \notin touched => chan'[c] = chan[c]]_sdVars

=============================================================================
