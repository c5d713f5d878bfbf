------------------------- MODULE MockCommandsProof -------------------------
(***************************************************************************)
(* Commands of the CE-163WL mock, for images of any blocks, any files,     *)
(* paths and channels and any order of commands, drops, sleeps and power   *)
(* cuts: the staged ROM and the files written over the Link are whole, and *)
(* so are the values of the SD channels, which a sleep leaves in place; the*)
(* networks remembered are right, for any networks and room for them; a    *)
(* host is logged in to with a key accepted for it, and the window of a    *)
(* closed terminal holds what it came to, for any hosts, keys, lines and   *)
(* amount of output.                                                       *)
(***************************************************************************)
EXTENDS SdCard, RomStaging, FakePeer, WifiStore, Terminals, SublistLemmas, FiniteSetTheorems, TLAPS

-----------------------------------------------------------------------------
(* The staged ROM.  The verdict compares two images; that it speaks of the *)
(* SRAM is because the blocks summed so far are the SRAM's, none is summed *)
(* before it is stored, and the image does not change under a copy.        *)

Copies == {"fetch", "store", "storing", "finish"}

SummedIsStored ==
  \A b \in Blocks : summed[b] # "blank" => sram[b] = summed[b]
NotYetSummed ==
  \A b \in Blocks : b > block \/ (b = block /\ routine \in {"store", "storing"}) => summed[b] = "blank"
CopyInv ==
  routine \in Copies => remap /\ ~verified /\ SummedIsStored /\ NotYetSummed
WholeInv ==
  verified => remap /\ sram \in {Built, WithLoop} /\ (loop => sram = image)

RomInv == RomTypeOK /\ CopyInv /\ WholeInv

LEMMA ImagesTyped ==
  /\ Built \in [Blocks -> Contents] /\ WithLoop \in [Blocks -> Contents]
  /\ Blank \in [Blocks -> Contents]
  /\ \A b \in Blocks : Built[b] # "blank" /\ WithLoop[b] # "blank" /\ Blank[b] = "blank"
BY DEF Built, WithLoop, Blank, Contents

LEMMA RomInitInv == RomInit => RomInv
BY ImagesTyped
   DEF RomInit, RomInv, RomTypeOK, CopyInv, WholeInv, Copies, Contents

LEMMA RomNextInv == RomInv /\ [RomNext]_romVars => RomInv'
<1> SUFFICES ASSUME RomInv, [RomNext]_romVars PROVE RomInv'
  OBVIOUS
<1> USE ImagesTyped DEF RomInv
<1>t. RomTypeOK'
  <2>1. CASE FromMcu \/ FromSram \/ CopyBegin \/ KbdInstall \/ PowmanWake \/ RomColdBoot \/ SetRomImage
    BY <2>1 DEF FromMcu, FromSram, CopyBegin, KbdInstall, PowmanWake, RomColdBoot, SetRomImage, RomTypeOK
  <2>2. CASE CopyGetBlock
    BY <2>2 DEF CopyGetBlock, RomTypeOK
  <2>3. CASE StoreBegins
    BY <2>3 DEF StoreBegins, RomTypeOK, Contents
  <2>4. CASE StoreEnds
    BY <2>4 DEF StoreEnds, RomTypeOK
  <2>5. CASE CopyFinish
    BY <2>5 DEF CopyFinish, RomTypeOK
  <2>6. CASE UNCHANGED romVars
    BY <2>6 DEF romVars, RomTypeOK
  <2> QED BY <2>1, <2>2, <2>3, <2>4, <2>5, <2>6 DEF RomNext
<1>1. CASE FromMcu \/ RomColdBoot \/ SetRomImage \/ KbdInstall \/ PowmanWake \/ FromSram
  BY <1>1, <1>t DEF FromMcu, RomColdBoot, SetRomImage, KbdInstall, PowmanWake, FromSram,
     CopyInv, WholeInv, Copies
<1>2. CASE CopyBegin
  BY <1>2, <1>t DEF CopyBegin, CopyInv, WholeInv, Copies, SummedIsStored, NotYetSummed
<1>3. CASE CopyGetBlock
  BY <1>3, <1>t, BlocksAssumption
     DEF CopyGetBlock, CopyInv, WholeInv, Copies, SummedIsStored, NotYetSummed, RomTypeOK
<1>4. CASE StoreBegins
  BY <1>4, <1>t DEF StoreBegins, CopyInv, WholeInv, Copies, SummedIsStored, NotYetSummed, RomTypeOK
<1>5. CASE StoreEnds
  BY <1>5, <1>t, BlocksAssumption
     DEF StoreEnds, CopyInv, WholeInv, Copies, SummedIsStored, NotYetSummed, RomTypeOK
<1>6. CASE CopyFinish
  <2>1. summed = image => sram = image
    <3> SUFFICES ASSUME summed = image, NEW b \in Blocks PROVE sram[b] = image[b]
      BY DEF RomTypeOK
    <3> QED BY <1>6 DEF CopyFinish, CopyInv, Copies, SummedIsStored, RomTypeOK
  <2> QED
    BY <1>6, <2>1, <1>t DEF CopyFinish, CopyInv, WholeInv, Copies, RomTypeOK
<1>7. CASE UNCHANGED romVars
  BY <1>7, <1>t DEF romVars, CopyInv, WholeInv, SummedIsStored, NotYetSummed
<1> QED
  BY <1>1, <1>2, <1>3, <1>4, <1>5, <1>6, <1>7 DEF RomNext

(* Whatever copies were aborted and whatever power cuts, wakes and patches *)
(* came in between, a ROM that counts as verified runs from the SRAM, is   *)
(* of one image, and serves the keyboard loop if that is installed.        *)
THEOREM StagedRomSound == RomSpec => []StagedRomIsWhole
<1>1. RomInv => StagedRomIsWhole
  BY DEF RomInv, WholeInv, StagedRomIsWhole, Served
<1> QED BY <1>1, RomInitInv, RomNextInv, PTL DEF RomSpec

-----------------------------------------------------------------------------
(* The files of the peer the mock plays.  A save keeps what moved; that it *)
(* is what was written is because a put that has not failed has moved all  *)
(* it was asked to: the chunk a drop takes marks the transfer.             *)

Transfers ==
  [dir : {"none", "put", "get"}, name : Names \union {NoFile},
   asked : Nat, moved : Nat, failed : BOOLEAN]
XferOK ==
  /\ xfer \in Transfers
  /\ files \in [Names -> [got : Nat, of : Nat] \union {NoFile}]
  /\ got \in [got : Nat, of : Nat] \union {NoFile}
  /\ offerIn \in Nat \union {NoFile} /\ dropAfter \in Int
PutMovedAll == xfer.dir = "put" /\ ~xfer.failed => xfer.moved = xfer.asked

FilesInv == XferOK /\ PutMovedAll /\ SavesWhole

LEMMA PeerInitInv == PeerInit => FilesInv
BY PeerAssumption
   DEF PeerInit, FilesInv, XferOK, Transfers, PutMovedAll, SavesWhole, NoXfer, Whole

\* A new transfer has moved nothing and was asked nothing, or it is a get.
LEMMA BeginsInv ==
  ASSUME FilesInv, NEW dir \in {"put", "get"}, NEW name \in Names \union {NoFile},
         NEW asked \in Nat, dir = "put" => asked = 0,
         Begins(dir, name, asked), UNCHANGED <<files, got, dropAfter>>,
         offerIn' \in Nat \union {NoFile}
  PROVE  FilesInv'
BY DEF FilesInv, XferOK, Transfers, PutMovedAll, SavesWhole, Begins

LEMMA DataInv ==
  ASSUME FilesInv, NEW dir \in {"put", "get"}, NEW asked \in Nat,
         asked = xfer.asked + (IF dir = "put" THEN 1 ELSE 0), BleData(dir, asked)
  PROVE  FilesInv'
<1>1. CASE xfer.failed
  BY <1>1 DEF BleData, FilesInv, XferOK, Transfers, PutMovedAll, SavesWhole, offerVars
<1>2. CASE ~xfer.failed
  <2>1. UNCHANGED <<files, got, offerIn>> /\ dropAfter' = Moved.left
        /\ xfer' = [xfer EXCEPT !.asked = asked, !.failed = Moved.failed,
                               !.moved = IF Moved.moved THEN @ + 1 ELSE @]
    BY <1>2 DEF BleData, offerVars
  <2>2. CASE dropAfter = 0
    <3>1. Moved = [left |-> -1, moved |-> FALSE, failed |-> TRUE]
      BY <2>2 DEF Moved
    <3>2. xfer' = [xfer EXCEPT !.asked = asked, !.failed = TRUE] /\ dropAfter' = -1
      BY <2>1, <3>1 DEF FilesInv, XferOK, Transfers
    <3>3. xfer' \in Transfers /\ xfer'.failed
      BY <3>2 DEF FilesInv, XferOK, Transfers
    <3> QED BY <2>1, <3>2, <3>3 DEF FilesInv, XferOK, PutMovedAll, SavesWhole
  <2>3. CASE dropAfter # 0
    <3>1. Moved.left \in Int /\ Moved.moved = TRUE /\ Moved.failed = FALSE
      <4>1. CASE dropAfter = -1
        <5>1. Moved = [left |-> -1, moved |-> TRUE, failed |-> FALSE]
          BY <4>1 DEF Moved
        <5> QED BY <5>1
      <4>2. CASE dropAfter # -1
        <5>1. Moved = [left |-> dropAfter - 1, moved |-> TRUE, failed |-> FALSE]
          BY <2>3, <4>2 DEF Moved
        <5> QED BY <5>1 DEF FilesInv, XferOK, Transfers
      <4> QED BY <4>1, <4>2
    <3>2. xfer' = [dir |-> xfer.dir, name |-> xfer.name, asked |-> asked,
                   moved |-> xfer.moved + 1, failed |-> FALSE]
      <4>1. xfer' = [xfer EXCEPT !.asked = asked, !.failed = FALSE, !.moved = @ + 1]
        BY <2>1, <3>1 DEF FilesInv, XferOK, Transfers
      <4> QED BY <4>1 DEF FilesInv, XferOK, Transfers
    <3>3. xfer.dir = dir /\ xfer.asked \in Nat /\ xfer.moved \in Nat /\ xfer.name \in Names \union {NoFile}
      BY DEF BleData, FilesInv, XferOK, Transfers
    <3>4. xfer' \in Transfers
      BY <3>2, <3>3 DEF Transfers
    <3> QED BY <1>2, <2>1, <3>1, <3>3, <3>4 DEF FilesInv, XferOK, PutMovedAll, SavesWhole
  <2> QED BY <2>2, <2>3
<1> QED BY <1>1, <1>2

LEMMA CloseInv ==
  ASSUME FilesInv, NEW abandoned \in BOOLEAN, BleDataClose(abandoned)
  PROVE  FilesInv'
<1> DEFINE kept == xfer.dir = "put" /\ ~xfer.failed /\ ~abandoned
           data == [got |-> xfer.moved, of |-> xfer.asked]
<1>1. kept => data \in [got : Nat, of : Nat] /\ data.got = data.of
  BY DEF FilesInv, XferOK, Transfers, PutMovedAll
<1>2. /\ files' = IF kept /\ xfer.name # NoFile THEN [files EXCEPT ![xfer.name] = data] ELSE files
      /\ got' = IF kept /\ xfer.name = NoFile THEN data ELSE got
      /\ xfer' = NoXfer /\ UNCHANGED <<offerIn, dropAfter>>
  BY DEF BleDataClose, offerVars
<1> HIDE DEF kept, data
<1> QED
  BY <1>1, <1>2 DEF FilesInv, XferOK, Transfers, PutMovedAll, SavesWhole, NoXfer

LEMMA FileNextInv == FilesInv /\ FileNext => FilesInv'
<1> SUFFICES ASSUME FilesInv, FileNext PROVE FilesInv'
  OBVIOUS
<1> USE PeerAssumption
<1>1. CASE BleOffer \/ BleWithdraw \/ BleOfferToUs(MaxSize)
  BY <1>1 DEF BleOffer, BleWithdraw, BleOfferToUs, FilesInv, XferOK, Transfers, PutMovedAll, SavesWhole, fileVars
<1>2. CASE BleSend
  BY <1>2, BeginsInv DEF BleSend, FilesInv, XferOK
<1>x. xfer.asked \in Nat
  BY DEF FilesInv, XferOK, Transfers
<1>3. CASE BleDataWrite
  BY <1>3, <1>x, DataInv, xfer.asked + 1 \in Nat DEF BleDataWrite
<1>4. CASE BleDataRead
  BY <1>4, <1>x, DataInv, xfer.asked = xfer.asked + 0 DEF BleDataRead
<1>5. ASSUME NEW on \in BOOLEAN, BleAnswer(on) PROVE FilesInv'
  <2>1. CASE on
    BY <1>5, <2>1, BeginsInv DEF BleAnswer, FilesInv, XferOK
  <2>2. CASE ~on
    BY <1>5, <2>2 DEF BleAnswer, FilesInv, XferOK, Transfers, PutMovedAll, SavesWhole
  <2> QED BY <2>1, <2>2
<1>6. ASSUME NEW on \in BOOLEAN, BleDataClose(on) PROVE FilesInv'
  BY <1>6, CloseInv
<1>7. ASSUME NEW name \in Names, BleFileGet(name) PROVE FilesInv'
  BY <1>7, BeginsInv DEF BleFileGet, FilesInv, XferOK, offerVars
<1>8. ASSUME NEW name \in Names, NEW over \in BOOLEAN, BleFilePut(name, over) PROVE FilesInv'
  BY <1>8, BeginsInv DEF BleFilePut, FilesInv, XferOK, offerVars
<1>9. ASSUME NEW n \in 0..MaxSize, SetLinkDropAfter(n) PROVE FilesInv'
  BY <1>9 DEF SetLinkDropAfter, FilesInv, XferOK, Transfers, PutMovedAll, SavesWhole, offerVars
<1> QED
  BY <1>1, <1>2, <1>3, <1>4, <1>5, <1>6, <1>7, <1>8, <1>9 DEF FileNext

\* Pairings, links and messages leave files and transfers alone, but that a
\* disconnection ends the transfer.
LEMMA OtherNextInv ==
  FilesInv /\ (LinkNext \/ MessageNext \/ UNCHANGED peerVars) => FilesInv'
<1> SUFFICES ASSUME FilesInv, LinkNext \/ MessageNext \/ UNCHANGED peerVars PROVE FilesInv'
  OBVIOUS
<1>1. UNCHANGED <<files, got, dropAfter>> /\ (xfer' \in {xfer, NoXfer}) /\ offerIn' \in {offerIn, NoFile}
  BY DEF LinkNext, MessageNext, peerVars, BleConnect, BlePairBegin, BlePairAnswer, BleUnpair,
     BlePairConfirm, BleAdvertise, BleDisconnect, BleStatus, BleMessageToUs, BleMsgRecv,
     BleMsgCount, fileVars, offerVars
<1>t. NoXfer \in Transfers
  BY DEF NoXfer, Transfers
<1>2. XferOK'
  BY <1>1, <1>t DEF FilesInv, XferOK
<1>3. PutMovedAll' /\ SavesWhole'
  BY <1>1 DEF FilesInv, PutMovedAll, SavesWhole, NoXfer
<1> QED BY <1>2, <1>3 DEF FilesInv

(* Whatever is dropped, paired or disconnected in between, no file of the  *)
(* peer's store misses a chunk the program wrote.                          *)
THEOREM SavesAreComplete == PeerSpec => []SavesWhole
<1>1. FilesInv => SavesWhole
  BY DEF FilesInv
<1>2. FilesInv /\ [LinkNext \/ FileNext \/ MessageNext]_peerVars => FilesInv'
  BY FileNextInv, OtherNextInv
<1> QED BY <1>1, <1>2, PeerInitInv, PTL DEF PeerSpec


-----------------------------------------------------------------------------
(* Values in a file.  A place is passed over if some set of places holds   *)
(* it that no value from outside the set ends in; so to show that no       *)
(* boundary is in a set it is enough that no boundary's value ends there.  *)

LEMMA ReadEndIs ==
  ASSUME NEW s \in Seq(Units), NEW i \in Nat
  PROVE  \/ ReadEnd(s, i) = NoChunk
         \/ ReadEnd(s, i) \in 1..Len(s) /\ i < ReadEnd(s, i) /\ ReadEnd(s, i) = ChunkEnd(s, i)
<1>1. Len(s) \in Nat
  OBVIOUS
<1>2. \A u : LengthOf(u) \in Nat
  BY DEF LengthOf
<1>3. ChunkEnd(s, i) = NoChunk \/ (ChunkEnd(s, i) \in Nat /\ i < ChunkEnd(s, i))
  BY <1>1, <1>2 DEF ChunkEnd
<1> QED
  BY <1>1, <1>3 DEF ReadEnd, NoChunk

\* Values end outside of P unless they begin in it.
PassedOver(s, P) == \A i \in (0..Len(s)) \ P : ReadEnd(s, i) \notin P

LEMMA BoundariesAre ==
  ASSUME NEW s
  PROVE  Boundaries(s) = (0..Len(s)) \ UNION {P \in SUBSET (1..Len(s)) : PassedOver(s, P)}
<1> DEFINE values == {<<i, ReadEnd(s, i)>> : i \in 0..Len(s)}
<1>1. ASSUME NEW P PROVE (\A v \in values : v[2] \in P => v[1] \in P) <=> PassedOver(s, P)
  <2>1. \A i \in 0..Len(s) : <<i, ReadEnd(s, i)>> \in values
    OBVIOUS
  <2>2. \A v \in values : \E i \in 0..Len(s) : v = <<i, ReadEnd(s, i)>>
    OBVIOUS
  <2>3. \A i : <<i, ReadEnd(s, i)>>[1] = i /\ <<i, ReadEnd(s, i)>>[2] = ReadEnd(s, i)
    OBVIOUS
  <2> HIDE DEF values
  <2>4. (\A v \in values : v[2] \in P => v[1] \in P)
        <=> \A i \in 0..Len(s) : ReadEnd(s, i) \in P => i \in P
    <3>1. ASSUME \A v \in values : v[2] \in P => v[1] \in P, NEW i \in 0..Len(s), ReadEnd(s, i) \in P
          PROVE  i \in P
      <4> DEFINE v == <<i, ReadEnd(s, i)>>
      <4>1. v \in values /\ v[1] = i /\ v[2] = ReadEnd(s, i)
        BY <2>1, <2>3
      <4> QED
        BY <3>1, <4>1
    <3>2. ASSUME \A i \in 0..Len(s) : ReadEnd(s, i) \in P => i \in P, NEW v \in values, v[2] \in P
          PROVE  v[1] \in P
      <4>1. PICK i \in 0..Len(s) : v = <<i, ReadEnd(s, i)>>
        BY <2>2
      <4>2. v[1] = i /\ v[2] = ReadEnd(s, i)
        BY <2>3, <4>1
      <4> QED
        BY <3>2, <4>2
    <3> QED
      BY <3>1, <3>2
  <2> QED
    BY <2>4 DEF PassedOver
<1> QED
  BY <1>1 DEF Boundaries

LEMMA BoundaryFacts ==
  ASSUME NEW s \in Seq(Units)
  PROVE  /\ Boundaries(s) \subseteq 0..Len(s) /\ 0 \in Boundaries(s)
         /\ \A i \in Boundaries(s) : ReadEnd(s, i) \in Boundaries(s) \cup {NoChunk}
         /\ \A P \in SUBSET (1..Len(s)) :
              (\A i \in Boundaries(s) \ P : ReadEnd(s, i) \notin P) => Boundaries(s) \cap P = {}
<1>1. /\ Len(s) \in Nat /\ Boundaries(s) \subseteq 0..Len(s) /\ 0 \in Boundaries(s)
  BY BoundariesAre
<1>2. \A i \in Boundaries(s) : ReadEnd(s, i) \in Boundaries(s) \cup {NoChunk}
  <2> SUFFICES ASSUME NEW i \in Boundaries(s), ReadEnd(s, i) # NoChunk
               PROVE  ReadEnd(s, i) \in Boundaries(s)
    OBVIOUS
  <2>1. i \in Nat /\ ReadEnd(s, i) \in 0..Len(s)
    BY <1>1, ReadEndIs
  <2>2. ASSUME NEW P \in SUBSET (1..Len(s)), PassedOver(s, P)
        PROVE  ReadEnd(s, i) \notin P
    <3>1. i \in (0..Len(s)) \ P
      BY <2>2, BoundariesAre
    <3> QED
      BY <2>2, <3>1 DEF PassedOver
  <2> QED
    BY <2>1, <2>2, BoundariesAre
<1>3. ASSUME NEW P \in SUBSET (1..Len(s)), \A i \in Boundaries(s) \ P : ReadEnd(s, i) \notin P
      PROVE  Boundaries(s) \cap P = {}
  <2> DEFINE Q == P \cup ((0..Len(s)) \ Boundaries(s))
  <2>1. Q \in SUBSET (1..Len(s))
    <3>1. \A i \in 0..Len(s) : i = 0 \/ i \in 1..Len(s)
      BY <1>1
    <3> QED
      BY <1>1, <3>1
  <2>2. PassedOver(s, Q)
    <3> SUFFICES ASSUME NEW i \in (0..Len(s)) \ Q PROVE ReadEnd(s, i) \notin Q
      BY DEF PassedOver
    <3>1. i \in Boundaries(s) \ P
      OBVIOUS
    <3>2. ReadEnd(s, i) \in Boundaries(s) \cup {NoChunk} /\ ReadEnd(s, i) \notin P
      BY <1>2, <1>3, <3>1
    <3> QED
      BY <3>2 DEF NoChunk
  <2> QED
    BY <2>1, <2>2, BoundariesAre
<1> QED
  BY <1>1, <1>2, <1>3

\* No boundary lies inside a value: from every boundary but the last there is
\* a value, and it ends no later than the next boundary.
LEMMA ValuesMeet ==
  ASSUME NEW s \in Seq(Units), NEW j \in Boundaries(s), NEW m \in Boundaries(s), m < j
  PROVE  ReadEnd(s, m) # NoChunk /\ ReadEnd(s, m) <= j
<1> DEFINE Met(k) == \A n \in Boundaries(s) : n < k => ReadEnd(s, n) # NoChunk /\ ReadEnd(s, n) <= k
           Bad == {k \in Boundaries(s) : ~Met(k)}
<1>1. Len(s) \in Nat /\ Boundaries(s) \subseteq 0..Len(s)
  BY BoundaryFacts
<1>2. Bad \in SUBSET (1..Len(s))
  <2>1. Met(0)
    BY <1>1
  <2> QED
    BY <1>1, <2>1
<1>3. ASSUME NEW i \in Boundaries(s) \ Bad PROVE ReadEnd(s, i) \notin Bad
  <2> SUFFICES ASSUME ReadEnd(s, i) # NoChunk, NEW n \in Boundaries(s), n < ReadEnd(s, i)
               PROVE  ReadEnd(s, n) # NoChunk /\ ReadEnd(s, n) <= ReadEnd(s, i)
    <3>1. NoChunk \notin Boundaries(s)
      BY <1>1 DEF NoChunk
    <3> QED
      BY <3>1
  <2> DEFINE e == ReadEnd(s, i)
             Q == {x \in 1..Len(s) : i < x /\ x < e}
  <2>1. i \in Nat /\ n \in Nat /\ e \in Nat /\ i < e /\ Met(i)
    BY <1>1, ReadEndIs
  <2>2. \A x \in 0..Len(s) : x \in Q \/ x < i \/ x = i \/ x >= e
    <3> SUFFICES ASSUME NEW x \in 0..Len(s), i < x, x < e PROVE x \in Q
      <4>1. \A x \in 0..Len(s) : x \in Nat /\ (~(i < x) => x < i \/ x = i) /\ (~(x < e) => x >= e)
        <5>1. i \in Nat /\ e \in Nat
          BY <2>1
        <5> HIDE DEF e
        <5> QED
          BY <1>1, <5>1
      <4> QED
        BY <4>1
    <3>1. x \in 1..Len(s)
      BY <1>1, <2>1
    <3> QED
      BY <3>1
  <2>3. Boundaries(s) \cap Q = {}
    <3>1. ASSUME NEW x \in Boundaries(s) \ Q PROVE ReadEnd(s, x) \notin Q
      <4>1. x \in Nat /\ (x < i \/ x = i \/ x >= e)
        BY <1>1, <2>1, <2>2
      <4>2. ReadEnd(s, x) = NoChunk \/ (ReadEnd(s, x) \in Nat /\ x < ReadEnd(s, x))
        BY <4>1, ReadEndIs
      <4> QED
        BY <2>1, <4>1, <4>2 DEF NoChunk
    <3> QED
      BY <3>1, BoundaryFacts
  <2>4. n < i \/ n = i
    <3>1. n \notin Q /\ n \in 0..Len(s)
      BY <1>1, <2>3
    <3>2. ~(n >= e)
      BY <2>1
    <3> QED
      BY <2>2, <3>1, <3>2
  <2>5. CASE n < i
    <3>1. ReadEnd(s, n) # NoChunk /\ ReadEnd(s, n) <= i /\ ReadEnd(s, n) \in Nat
      BY <2>1, <2>5, ReadEndIs
    <3> QED
      BY <2>1, <3>1
  <2> QED
    BY <2>1, <2>4, <2>5
<1>4. Boundaries(s) \cap Bad = {}
  BY <1>2, <1>3, BoundaryFacts
<1> QED
  BY <1>4

LEMMA FramedMeans ==
  ASSUME NEW s \in Seq(Units), Framed(s), NEW i \in Boundaries(s)
  PROVE  /\ ReadEnd(s, i) = NoChunk <=> Len(s) <= i
         /\ ChunkEnd(s, i) \in Boundaries(s) \cup {NoChunk}
<1>1. Len(s) \in Nat /\ i \in 0..Len(s)
  BY BoundaryFacts
<1>2. CASE i < Len(s)
  <2>1. ReadEnd(s, i) # NoChunk
    BY <1>2, ValuesMeet DEF Framed
  <2> QED
    BY <1>1, <1>2, <2>1, ReadEndIs, BoundaryFacts
<1>3. CASE i = Len(s)
  BY <1>1, <1>3 DEF ReadEnd, ChunkEnd, NoChunk
<1> QED
  BY <1>1, <1>2, <1>3

LEMMA ValuesTyped ==
  ASSUME NEW v \in Values
  PROVE  v \in Seq(Units) /\ Len(v) \in 1..3 /\ \A s \in Seq(Units) : ReadEnd(s \o v, Len(s)) = Len(s) + Len(v)
<1>1. v \in Seq(Units) /\ Len(v) \in 1..3
  <2>1. <<"N">> \in Seq(Units) /\ Len(<<"N">>) = 1
    BY DEF Units
  <2>2. <<"S", "1", "x">> \in Seq(Units) /\ Len(<<"S", "1", "x">>) = 3
    BY DEF Units
  <2>3. v = <<"N">> \/ v = <<"S", "1", "x">>
    BY Zenon DEF Values
  <2>4. 1 \in 1..3 /\ 3 \in 1..3
    OBVIOUS
  <2> QED
    BY <2>1, <2>2, <2>3, <2>4, Zenon
<1>2. ASSUME NEW s \in Seq(Units) PROVE ReadEnd(s \o v, Len(s)) = Len(s) + Len(v)
  <2>1. /\ Len(s) \in Nat /\ Len(s \o v) = Len(s) + Len(v)
        /\ \A k \in 1..Len(v) : (s \o v)[Len(s) + k] = v[k]
    BY <1>1, ConcatProperties
  <2>2. CASE v = <<"N">>
    BY <2>1, <2>2 DEF ReadEnd, ChunkEnd
  <2>3. CASE v = <<"S", "1", "x">>
    <3>1. Len(v) = 3 /\ (s \o v)[Len(s) + 1] = "S" /\ (s \o v)[Len(s) + 2] = "1"
      BY <2>1, <2>3
    <3> QED
      BY <2>1, <3>1 DEF ReadEnd, ChunkEnd, LengthOf
  <2> QED
    BY <2>2, <2>3 DEF Values
<1> QED
  BY <1>1, <1>2

\* SDPRINT# keeps the boundaries there are and adds the new end.
LEMMA AppendedFrames ==
  ASSUME NEW s \in Seq(Units), Framed(s), NEW v \in Values
  PROVE  Framed(s \o v) /\ Boundaries(s) \subseteq Boundaries(s \o v)
<1> DEFINE t == s \o v
<1>1. /\ t \in Seq(Units) /\ Len(s) \in Nat /\ Len(v) \in Nat /\ Len(t) = Len(s) + Len(v)
      /\ \A k \in 1..Len(s) : t[k] = s[k]
  BY ValuesTyped, ConcatProperties
<1>2. ASSUME NEW k \in 0..Len(s), ReadEnd(s, k) # NoChunk
      PROVE  ReadEnd(t, k) = ReadEnd(s, k)
  <2>1. /\ k \in Nat /\ k < Len(s) /\ ChunkEnd(s, k) # NoChunk /\ ReadEnd(s, k) = ChunkEnd(s, k)
        /\ ChunkEnd(s, k) \in Nat /\ ChunkEnd(s, k) <= Len(s)
    BY <1>1, <1>2, ReadEndIs DEF ReadEnd, ChunkEnd
  <2>2. ChunkEnd(t, k) = ChunkEnd(s, k)
    <3>1. t[k + 1] = s[k + 1]
      BY <1>1, <2>1
    <3>2. k + 1 < Len(s) => t[k + 2] = s[k + 2]
      BY <1>1, <2>1
    <3> QED
      BY <1>1, <2>1, <3>1, <3>2 DEF ChunkEnd
  <2> QED
    BY <1>1, <2>1, <2>2 DEF ReadEnd
<1> HIDE DEF t
<1>3. Boundaries(s) \subseteq Boundaries(t)
  <2> SUFFICES ASSUME NEW P \in SUBSET (1..Len(t)), PassedOver(t, P)
               PROVE  Boundaries(s) \cap P = {}
    <3>1. Boundaries(s) \subseteq 0..Len(t)
      BY <1>1, BoundaryFacts
    <3> QED
      BY <3>1, BoundariesAre
  <2> DEFINE Q == P \cap (1..Len(s))
  <2>1. \A k \in Boundaries(s) \ Q : ReadEnd(s, k) \notin Q
    <3> SUFFICES ASSUME NEW k \in Boundaries(s) \ Q, ReadEnd(s, k) \in Q PROVE FALSE
      OBVIOUS
    <3>1. k \in 0..Len(s) /\ k \in (0..Len(t)) \ P
      BY <1>1, BoundaryFacts
    <3>2. ReadEnd(s, k) # NoChunk
      BY DEF NoChunk
    <3> QED
      BY <1>2, <3>1, <3>2 DEF PassedOver
  <2>2. Boundaries(s) \cap Q = {}
    BY <2>1, BoundaryFacts
  <2> QED
    BY <1>1, <2>2, BoundaryFacts
<1>4. Len(t) \in Boundaries(t)
  <2>1. ReadEnd(t, Len(s)) = Len(t)
    BY <1>1, ValuesTyped DEF t
  <2>2. Len(s) \in Boundaries(t) /\ Len(t) # NoChunk
    BY <1>1, <1>3 DEF Framed, NoChunk
  <2> QED
    BY <1>1, <2>1, <2>2, BoundaryFacts
<1> QED
  BY <1>3, <1>4 DEF Framed, t

LEMMA FirstFramed == FirstContent \in Seq(Units) /\ Framed(FirstContent) /\ Framed(<<>>)
<1> DEFINE f == FirstContent
<1>1. f \in Seq(Units) /\ Len(f) = 4 /\ f[1] = "N" /\ f[2] = "S" /\ f[3] = "1"
  BY DEF FirstContent, Units
<1>2. ReadEnd(f, 0) = 1 /\ ReadEnd(f, 1) = 4
  BY <1>1 DEF ReadEnd, ChunkEnd, LengthOf
<1>3. 0 \in Boundaries(f) /\ 1 \in Boundaries(f) /\ 4 \in Boundaries(f)
  <2> HIDE DEF f
  <2> QED
    BY <1>1, <1>2, BoundaryFacts DEF NoChunk
<1>4. Len(<<>>) \in Boundaries(<<>>)
  <2>1. <<>> \in Seq(Units) /\ Len(<<>>) = 0
    OBVIOUS
  <2> QED
    BY <2>1, BoundaryFacts
<1> QED
  BY <1>1, <1>3, <1>4 DEF Framed

\* What SDSKIP# comes to for one value and for two.
LEMMA SkipEndIs ==
  ASSUME NEW s, NEW pos, pos # NoChunk
  PROVE  /\ SkipEnd(s, pos, 1) = ChunkEnd(s, pos)
         /\ SkipEnd(s, pos, 2) = IF ChunkEnd(s, pos) = NoChunk THEN NoChunk
                                 ELSE ChunkEnd(s, ChunkEnd(s, pos))
<1>1. ASSUME NEW k \in {1, 2}
      PROVE  \E f : /\ f[0] = pos /\ f[1] = ChunkEnd(s, pos)
                    /\ k = 2 => f[2] = IF f[1] = NoChunk THEN NoChunk ELSE ChunkEnd(s, f[1])
                    /\ SkipEnd(s, pos, k) = f[k]
  <2> DEFINE Is(f) == f = [n \in 0..k |-> IF n = 0 THEN pos
                                           ELSE IF f[n - 1] = NoChunk THEN NoChunk
                                           ELSE ChunkEnd(s, f[n - 1])]
             one == ChunkEnd(s, pos)
             g == [n \in 0..k |-> IF n = 0 THEN pos ELSE IF n = 1 THEN one
                                  ELSE IF one = NoChunk THEN NoChunk ELSE ChunkEnd(s, one)]
  <2>1. Is(g)
    OBVIOUS
  <2>2. Is(CHOOSE f : Is(f))
    BY <2>1
  <2>3. SkipEnd(s, pos, k) = (CHOOSE f : Is(f))[k]
    BY DEF SkipEnd
  <2>4. ASSUME NEW f, Is(f)
        PROVE  /\ f[0] = pos /\ f[1] = ChunkEnd(s, pos)
               /\ k = 2 => f[2] = IF f[1] = NoChunk THEN NoChunk ELSE ChunkEnd(s, f[1])
    <3>1. 0 \in 0..k /\ 1 \in 0..k /\ (k = 2 => 2 \in 0..k)
      OBVIOUS
    <3> QED
      BY <2>4, <3>1
  <2> HIDE DEF Is
  <2> QED
    BY <2>2, <2>3, <2>4
<1> QED
  BY <1>1


-----------------------------------------------------------------------------
(* The channels.  An untouched channel's path still names the file it is   *)
(* open on, and that file is a row of values with the position at one.     *)

Streams == [open : BOOLEAN, out : BOOLEAN, inode : Inodes \cup {None}, pos : Nat]
ChannelStates ==
  [open : BOOLEAN, writable : BOOLEAN, inode : Inodes \cup {None}, name : Args \cup {None},
   path : Paths \cup {<<>>}, readPos : Nat, bytePos : Nat]

SdTypes ==
  /\ node \in [Paths -> Inodes \cup {None, Dir}] /\ content \in [Inodes -> Seq(Units)]
  /\ file \in Streams /\ chan \in [Channels -> ChannelStates]
  /\ file.open => file.inode \in Inodes
  /\ \A c \in Channels : chan[c].open => chan[c].inode \in Inodes /\ chan[c].path \in Paths

InPlace(c) ==
  /\ node[chan[c].path] = chan[c].inode
  /\ Framed(content[chan[c].inode])
  /\ chan[c].readPos \in Boundaries(content[chan[c].inode])

Untouched(c) == chan[c].open /\ c \notin touched

SdInv == SdTypes /\ \A c \in Channels : Untouched(c) => InPlace(c)

LEMMA SdInitInv == SdInit => SdInv
<1> SUFFICES ASSUME SdInit PROVE SdInv
  OBVIOUS
<1>1. <<>> \in Seq(Units) /\ FirstContent \in Seq(Units)
  BY FirstFramed
<1>2. node \in [Paths -> Inodes \cup {None, Dir}]
  BY SdAssumption DEF SdInit
<1>3. content \in [Inodes -> Seq(Units)]
  BY <1>1 DEF SdInit
<1> QED
  BY <1>2, <1>3 DEF SdInit, SdInv, SdTypes, Streams, ChannelStates, Closed, Shut, Untouched

\* What a step leaves in the files that are open after it.
LEMMA KeptFiles ==
  ASSUME NEW c \in [Inodes -> Seq(Units)], Keep(c)
  PROVE  /\ content' \in [Inodes -> Seq(Units)]
         /\ \A d \in Channels : chan'[d].open /\ chan'[d].inode \in Inodes
              => content'[chan'[d].inode] = c[chan'[d].inode]
BY FirstFramed DEF Keep, InUse

LEMMA TargetIs ==
  ASSUME SdTypes, NEW p \in Paths, NEW i \in Target(p)
  PROVE  i \in Inodes /\ (node[p] = i \/ node[p] \notin Inodes)
         /\ (node[p] = i \/ ~InUse(i))
BY DEF Target

LEMMA PutTyped ==
  ASSUME NEW s \in Seq(Units), NEW pos \in Nat
  PROVE  Put(s, pos, <<"0">>) \in Seq(Units)
<1>1. Len(s) \in Nat /\ Len(<<"0">>) = 1 /\ <<"0">>[1] = "0" /\ \A k \in 1..Len(s) : s[k] \in Units
  BY ElementOfSeq
<1> DEFINE n == IF pos + 1 > Len(s) THEN pos + 1 ELSE Len(s)
<1>2. n \in Nat
  BY <1>1
<1>3. Put(s, pos, <<"0">>) \in [1..n -> Units]
  <2>1. ASSUME NEW k \in 1..n
        PROVE  (IF k > pos /\ k <= pos + 1 THEN <<"0">>[k - pos]
                ELSE IF k <= Len(s) THEN s[k] ELSE "0") \in Units
    <3>1. CASE k > pos /\ k <= pos + 1
      <4>1. k - pos = 1
        BY <1>2, <3>1
      <4> QED
        BY <1>1, <3>1, <4>1 DEF Units
    <3>2. CASE ~(k > pos /\ k <= pos + 1)
      BY <1>1, <1>2, <3>2 DEF Units
    <3> QED
      BY <3>1, <3>2
  <2> QED
    BY <1>1, <2>1 DEF Put
<1> QED
  BY <1>2, <1>3, IsASeq

\* A step that leaves the channels alone, and an untouched one's file and name.
LEMMA ChannelsStay ==
  ASSUME SdInv, chan' = chan, SdTypes',
         \A c \in Channels : Untouched(c)' =>
           /\ c \notin touched
           /\ InPlace(c) => /\ node'[chan[c].path] = node[chan[c].path]
                            /\ content'[chan[c].inode] = content[chan[c].inode]
  PROVE  SdInv'
BY DEF SdInv, Untouched, InPlace


FileTypes == file \in Streams /\ (file.open => file.inode \in Inodes)

\* A file is written, or made at p to be written.
LEMMA FileWritten ==
  ASSUME SdInv, UNCHANGED chan, FileTypes', NEW i \in Inodes, NEW d \in Seq(Units),
         Keep([content EXCEPT ![i] = d]), touched \cup On(i) \subseteq touched',
         \/ UNCHANGED node
         \/ \E p \in Paths : i \in Target(p) /\ node' = [node EXCEPT ![p] = i]
  PROVE  SdInv'
<1> USE DEF SdInv
<1> DEFINE e == [content EXCEPT ![i] = d]
<1>1. e \in [Inodes -> Seq(Units)]
  BY DEF SdTypes
<1>2. /\ content' \in [Inodes -> Seq(Units)]
      /\ \A c \in Channels : chan[c].open => content'[chan[c].inode] = e[chan[c].inode]
  BY <1>1, KeptFiles DEF SdTypes
<1>3. node' \in [Paths -> Inodes \cup {None, Dir}]
  BY DEF SdTypes
<1>4. SdTypes'
  BY <1>2, <1>3 DEF SdTypes, FileTypes
<1>5. ASSUME NEW c \in Channels, Untouched(c)'
      PROVE  /\ c \notin touched
             /\ InPlace(c) => /\ node'[chan[c].path] = node[chan[c].path]
                              /\ content'[chan[c].inode] = content[chan[c].inode]
  <2>1. /\ c \notin touched /\ chan[c].open /\ chan[c].inode \in Inodes /\ chan[c].path \in Paths
        /\ chan[c].inode # i
    BY <1>5 DEF Untouched, On, SdTypes
  <2>2. content'[chan[c].inode] = content[chan[c].inode]
    BY <1>2, <2>1 DEF SdTypes
  <2>3. ASSUME InPlace(c), NEW p \in Paths, i \in Target(p), node' = [node EXCEPT ![p] = i]
        PROVE  node'[chan[c].path] = node[chan[c].path]
    <3>1. chan[c].path # p
      BY <2>1, <2>3, TargetIs DEF InPlace
    <3> QED
      BY <2>1, <2>3, <3>1 DEF SdTypes
  <2> QED
    BY <2>1, <2>2, <2>3
<1> QED
  BY <1>4, <1>5, ChannelsStay

\* Names change, and files that nobody has go.
LEMMA NamesChange ==
  ASSUME SdInv, UNCHANGED chan, FileTypes', Keep(content), touched \subseteq touched',
         node' \in [Paths -> Inodes \cup {None, Dir}],
         \A c \in Channels : Untouched(c)' /\ node[chan[c].path] \in Inodes
           => node'[chan[c].path] = node[chan[c].path]
  PROVE  SdInv'
<1> USE DEF SdInv
<1>1. /\ content' \in [Inodes -> Seq(Units)]
      /\ \A c \in Channels : chan[c].open => content'[chan[c].inode] = content[chan[c].inode]
  BY KeptFiles DEF SdTypes
<1>2. SdTypes'
  BY <1>1 DEF SdTypes, FileTypes
<1>3. ASSUME NEW c \in Channels, Untouched(c)'
      PROVE  /\ c \notin touched
             /\ InPlace(c) => /\ node'[chan[c].path] = node[chan[c].path]
                              /\ content'[chan[c].inode] = content[chan[c].inode]
  <2>1. c \notin touched /\ chan[c].open /\ chan[c].inode \in Inodes
    BY <1>3 DEF Untouched, SdTypes
  <2> QED
    BY <1>1, <1>3, <2>1 DEF InPlace
<1> QED
  BY <1>2, <1>3, ChannelsStay

LEMMA FileCommandInv == SdInv /\ FileCommand => SdInv'
<1> SUFFICES ASSUME SdInv, FileCommand PROVE SdInv'
  OBVIOUS
<1> USE DEF SdInv
<1>0. /\ <<>> \in Seq(Units) /\ FileTypes
      /\ file' = Closed => FileTypes'
  <2>1. Closed \in Streams /\ ~Closed.open
    BY DEF Closed, Streams
  <2> QED
    BY <2>1, FirstFramed DEF SdTypes, FileTypes, Streams
<1>1. ASSUME NEW a \in Args, CreateFile(a) PROVE SdInv'
  <2> DEFINE p == Resolve(a)
  <2>1. CASE Creatable(p)
    <3>1. PICK i \in Target(p) :
            /\ node' = [node EXCEPT ![p] = i] /\ touched' = touched \union On(i)
            /\ file' = [open |-> TRUE, out |-> TRUE, inode |-> i, pos |-> 0]
            /\ UNCHANGED chan /\ Keep([content EXCEPT ![i] = <<>>])
      BY <1>1, <2>1 DEF CreateFile
    <3>2. p \in Paths /\ i \in Inodes
      BY <1>1, TargetIs DEF CreateFile
    <3>3. FileTypes'
      BY <3>1, <3>2 DEF FileTypes, Streams
    <3> QED
      BY <1>0, <3>1, <3>2, <3>3, FileWritten
  <2>2. CASE ~Creatable(p)
    <3>1. FileTypes'
      BY <1>0, <1>1, <2>2 DEF CreateFile
    <3>2. UNCHANGED <<node, chan, touched>> /\ Keep(content)
      BY <1>1, <2>2 DEF CreateFile
    <3> QED
      BY <3>1, <3>2, NamesChange DEF SdTypes
  <2> QED
    BY <2>1, <2>2
<1>2. ASSUME NEW a \in Args, OpenFile(a) PROVE SdInv'
  <2>1. FileTypes'
    <3> DEFINE p == Resolve(a)
    <3>1. CASE IsFile(p)
      <4>1. file' = [open |-> TRUE, out |-> FALSE, inode |-> node[p], pos |-> 0] /\ node[p] \in Inodes
        BY <1>2, <3>1 DEF OpenFile, IsFile
      <4> QED
        BY <4>1 DEF FileTypes, Streams
    <3>2. CASE ~IsFile(p)
      BY <1>0, <1>2, <3>2 DEF OpenFile
    <3> QED
      BY <3>1, <3>2
  <2>2. UNCHANGED <<node, chan, touched>> /\ Keep(content)
    BY <1>2 DEF OpenFile
  <2> QED
    BY <2>1, <2>2, NamesChange DEF SdTypes
<1>3. CASE WriteFile
  <2> DEFINE i == file.inode
             d == Put(content[i], file.pos, <<"0">>)
  <2>1. i \in Inodes /\ file.pos \in Nat /\ content[i] \in Seq(Units)
    BY <1>3 DEF WriteFile, SdTypes, Streams
  <2>2. d \in Seq(Units)
    BY <2>1, PutTyped
  <2>3. FileTypes'
    <3>1. file' = [file EXCEPT !.pos = @ + 1] /\ UNCHANGED fileStatus
      BY <1>3 DEF WriteFile
    <3> QED
      BY <2>1, <3>1 DEF FileTypes, SdTypes, Streams
  <2>4. Keep([content EXCEPT ![i] = d]) /\ touched' = touched \union On(i) /\ UNCHANGED <<node, chan>>
    BY <1>3, <2>1 DEF WriteFile
  <2> QED
    BY <2>1, <2>2, <2>3, <2>4, FileWritten
<1>4. ASSUME NEW n \in Nat, ReadFile(n) PROVE SdInv'
  <2>1. file.pos \in Nat /\ Len(content[file.inode]) \in Nat
    BY <1>4 DEF ReadFile, SdTypes, Streams
  <2>2. FileTypes'
    <3> DEFINE end == file.pos + n
               size == Len(content[file.inode])
               q == IF end < size THEN end ELSE IF file.pos < size THEN size ELSE file.pos
    <3>1. file' = [file EXCEPT !.pos = q]
      BY <1>4 DEF ReadFile
    <3>2. q \in Nat
      BY <2>1
    <3> HIDE DEF q
    <3> QED
      BY <3>1, <3>2 DEF FileTypes, SdTypes, Streams
  <2>3. UNCHANGED <<node, content, chan, touched>>
    BY <1>4 DEF ReadFile
  <2> QED
    BY <2>2, <2>3, ChannelsStay DEF SdTypes, FileTypes, Untouched
<1>5. CASE CloseFile
  <2>1. FileTypes'
    BY <1>5 DEF CloseFile, FileTypes, Streams, Closed
  <2>2. UNCHANGED <<node, chan, touched>> /\ Keep(content)
    BY <1>5 DEF CloseFile
  <2> QED
    BY <2>1, <2>2, NamesChange DEF SdTypes
<1>6. ASSUME NEW a \in Args, RemoveFile(a) \/ RemoveDir(a) PROVE SdInv'
  <2> DEFINE p == Resolve(a)
  <2>1. /\ p \in Paths /\ node' = [node EXCEPT ![p] = None] /\ touched' = touched \union NamedBy(p)
        /\ UNCHANGED <<file, chan>> /\ Keep(content)
    BY <1>6 DEF RemoveFile, RemoveDir, IsFile
  <2>2. \A c \in Channels : Untouched(c)' => chan[c].path # p
    BY <2>1 DEF Untouched, NamedBy
  <2>3. \A c \in Channels : Untouched(c)' => chan[c].path \in Paths
    BY <2>1 DEF Untouched, SdTypes
  <2> HIDE DEF p
  <2>4. \A c \in Channels : Untouched(c)' => node'[chan[c].path] = node[chan[c].path]
    BY <2>1, <2>2, <2>3 DEF SdTypes
  <2> QED
    BY <1>0, <2>1, <2>4, NamesChange DEF SdTypes, FileTypes
<1>7. CASE FormatCard
  <2> DEFINE lost == {p \in Paths : Len(p) = 1 /\ IsFile(p)}
  <2>1. /\ node' = [p \in Paths |-> IF p \in lost THEN None ELSE node[p]]
        /\ touched' = touched \union UNION {NamedBy(p) : p \in lost}
        /\ UNCHANGED <<file, chan>> /\ Keep(content)
    BY <1>7 DEF FormatCard
  <2> HIDE DEF lost
  <2>2. \A c \in Channels : Untouched(c)' => chan[c].path \notin lost /\ chan[c].path \in Paths
    BY <2>1 DEF Untouched, NamedBy, SdTypes
  <2>3. \A c \in Channels : Untouched(c)' => node'[chan[c].path] = node[chan[c].path]
    BY <2>1, <2>2
  <2> QED
    BY <1>0, <2>1, <2>3, NamesChange DEF SdTypes, FileTypes
<1>8. ASSUME NEW a \in Args, ChangeDir(a) PROVE SdInv'
  BY <1>8, ChannelsStay DEF ChangeDir, SdTypes, Untouched
<1>9. ASSUME NEW a \in Args, MakeDir(a) PROVE SdInv'
  <2> DEFINE p == Resolve(a)
  <2>1. /\ p \in Paths /\ node[p] = None /\ node' = [node EXCEPT ![p] = Dir]
        /\ UNCHANGED <<content, file, chan, touched>>
    BY <1>9 DEF MakeDir
  <2> HIDE DEF p
  <2>2. SdTypes'
    BY <2>1 DEF SdTypes
  <2>3. ASSUME NEW c \in Channels, Untouched(c)', InPlace(c)
        PROVE  node'[chan[c].path] = node[chan[c].path]
    <3>1. chan[c].path # p
      BY <2>1, <2>3, SdAssumption DEF InPlace, Untouched, SdTypes
    <3> QED
      BY <2>1, <3>1 DEF SdTypes
  <2> QED
    BY <2>1, <2>2, <2>3, ChannelsStay DEF Untouched
<1>10. ASSUME NEW a \in Args, NEW b \in Args, CopyFile(a, b) PROVE SdInv'
  <2> DEFINE s == Resolve(a)
             d == Destination(a, b)
  <2>1. IsFile(s) /\ d \in Paths
    BY <1>10 DEF CopyFile, Creatable
  <2>2. PICK i \in Target(d) :
          /\ node' = [node EXCEPT ![d] = i] /\ touched' = touched \union On(i)
          /\ UNCHANGED <<file, chan>> /\ Keep([content EXCEPT ![i] = content[node[s]]])
    BY <1>10 DEF CopyFile
  <2>3. i \in Inodes /\ content[node[s]] \in Seq(Units)
    BY <2>1, TargetIs DEF IsFile, SdTypes
  <2> QED
    BY <1>0, <2>1, <2>2, <2>3, FileWritten DEF FileTypes
<1>11. ASSUME NEW a \in Args, NEW b \in Args, MoveFile(a, b) PROVE SdInv'
  <2> DEFINE s == Resolve(a)
             d == Destination(a, b)
  <2>1. /\ s \in Paths /\ d \in Paths /\ node' = [node EXCEPT ![d] = node[s], ![s] = None]
        /\ touched' = touched \union NamedBy(s) \union NamedBy(d)
        /\ UNCHANGED <<file, chan>> /\ Keep(content)
    BY <1>11 DEF MoveFile, IsFile, Creatable
  <2> HIDE DEF s, d
  <2>2. \A c \in Channels : Untouched(c)' =>
          chan[c].path # s /\ chan[c].path # d /\ chan[c].path \in Paths
    BY <2>1 DEF Untouched, NamedBy, SdTypes
  <2>3. \A c \in Channels : Untouched(c)' => node'[chan[c].path] = node[chan[c].path]
    BY <2>1, <2>2 DEF SdTypes
  <2>4. node' \in [Paths -> Inodes \cup {None, Dir}]
    BY <2>1 DEF SdTypes
  <2> QED
    BY <1>0, <2>1, <2>3, <2>4, NamesChange DEF FileTypes
<1> QED
  BY <1>1, <1>2, <1>3, <1>4, <1>5, <1>6, <1>7, <1>8, <1>9, <1>10, <1>11 DEF FileCommand


\* Channels close or are opened again, and the untouched that stay are the same.
LEMMA ClosedInv ==
  ASSUME SdInv, UNCHANGED file, node' = node, Keep(content),
         chan' \in [Channels -> ChannelStates],
         \A c \in Channels : chan'[c].open => chan'[c].inode \in Inodes /\ chan'[c].path \in Paths,
         \A c \in Channels : Untouched(c)' => Untouched(c) /\ chan'[c] = chan[c]
  PROVE  SdInv'
<1> USE DEF SdInv
<1>1. /\ content' \in [Inodes -> Seq(Units)]
      /\ \A c \in Channels : chan'[c].open => content'[chan'[c].inode] = content[chan'[c].inode]
  BY KeptFiles DEF SdTypes
<1>2. SdTypes'
  BY <1>1 DEF SdTypes
<1>3. ASSUME NEW c \in Channels, Untouched(c)' PROVE InPlace(c)'
  <2>1. chan'[c] = chan[c] /\ Untouched(c) /\ InPlace(c)
    BY <1>3
  <2>2. content'[chan[c].inode] = content[chan[c].inode]
    BY <1>1, <1>3, <2>1 DEF Untouched
  <2> QED
    BY <2>1, <2>2 DEF InPlace
<1> QED
  BY <1>2, <1>3

LEMMA ShutIs == Shut \in ChannelStates /\ ~Shut.open
BY DEF Shut, ChannelStates

\* Commands of a channel.
LEMMA OpenChannelInv ==
  ASSUME SdInv, NEW c \in Channels, NEW a \in Args, NEW w \in BOOLEAN, OpenChannel(c, a, w)
  PROVE  SdInv'
<1> USE DEF SdInv
<1> DEFINE p == Resolve(a)
<1>0. p \in Paths /\ UNCHANGED file /\ Keep(content)
  BY DEF OpenChannel
<1>1. CASE IsFile(p) \/ (w /\ Creatable(p))
  <2>1. PICK i \in Target(p) :
          /\ node' = [node EXCEPT ![p] = i] /\ chan' = [chan EXCEPT ![c] = Opened(i, a, w)]
          /\ touched' = IF Framed(content[i]) THEN touched \ {c} ELSE touched \union {c}
    BY <1>1 DEF OpenChannel
  <2>2. /\ i \in Inodes /\ (node[p] = i \/ ~InUse(i)) /\ (node[p] = i \/ node[p] \notin Inodes)
        /\ content[i] \in Seq(Units) /\ 0 \in Boundaries(content[i])
    BY <1>0, TargetIs, BoundaryFacts DEF SdTypes
  <2>3. /\ Opened(i, a, w) \in ChannelStates /\ Opened(i, a, w).open = TRUE
        /\ Opened(i, a, w).inode = i /\ Opened(i, a, w).path = p /\ Opened(i, a, w).readPos = 0
    BY <1>0, <2>2 DEF Opened, ChannelStates
  <2> HIDE DEF p
  <2>4. /\ chan' \in [Channels -> ChannelStates] /\ node' \in [Paths -> Inodes \cup {None, Dir}]
        /\ chan'[c] = Opened(i, a, w) /\ \A d \in Channels \ {c} : chan'[d] = chan[d]
        /\ node'[p] = i /\ \A q \in Paths \ {p} : node'[q] = node[q]
    BY <1>0, <2>1, <2>2, <2>3 DEF SdTypes
  <2>5. \A d \in Channels : chan'[d].open => chan'[d].inode \in Inodes /\ chan'[d].path \in Paths
    BY <1>0, <2>2, <2>3, <2>4 DEF SdTypes
  <2>6. /\ content' \in [Inodes -> Seq(Units)]
        /\ \A d \in Channels : chan'[d].open => content'[chan'[d].inode] = content[chan'[d].inode]
    BY <1>0, <2>5, KeptFiles DEF SdTypes
  <2>7. SdTypes'
    BY <1>0, <2>4, <2>5, <2>6 DEF SdTypes
  <2>8. ASSUME NEW d \in Channels, Untouched(d)'
        PROVE  InPlace(d)'
    <3>1. CASE d = c
      <4>1. Framed(content[i])
        BY <2>1, <2>8, <3>1 DEF Untouched
      <4>2. content'[i] = content[i]
        BY <2>3, <2>4, <2>6
      <4> QED
        BY <2>2, <2>3, <2>4, <3>1, <4>1, <4>2 DEF InPlace
    <3>2. CASE d # c
      <4>1. Untouched(d) /\ chan'[d] = chan[d] /\ InPlace(d)
        BY <2>1, <2>4, <2>8, <3>2 DEF Untouched
      <4>2. chan[d].open /\ chan[d].inode \in Inodes /\ chan[d].path \in Paths
        BY <4>1 DEF Untouched, SdTypes
      <4>3. node'[chan[d].path] = node[chan[d].path]
        BY <2>2, <2>4, <4>1, <4>2 DEF InPlace
      <4>4. content'[chan[d].inode] = content[chan[d].inode]
        BY <2>6, <4>1, <4>2
      <4> QED
        BY <4>1, <4>3, <4>4 DEF InPlace
    <3> QED
      BY <3>1, <3>2
  <2> QED
    BY <2>7, <2>8
<1>2. CASE ~IsFile(p) /\ ~(w /\ Creatable(p))
  <2>1. chan' = [chan EXCEPT ![c] = Shut] /\ touched' = touched \ {c} /\ UNCHANGED node
    BY <1>2 DEF OpenChannel
  <2> QED
    <3>1. chan' \in [Channels -> ChannelStates]
      BY <2>1, ShutIs DEF SdTypes
    <3>2. \A d \in Channels : chan'[d].open => d # c /\ chan'[d] = chan[d]
      BY <2>1, ShutIs DEF SdTypes
    <3>3. \A d \in Channels : Untouched(d)' => Untouched(d) /\ chan'[d] = chan[d]
      BY <2>1, <3>2 DEF Untouched
    <3>4. \A d \in Channels : chan'[d].open => chan'[d].inode \in Inodes /\ chan'[d].path \in Paths
      BY <3>2 DEF SdTypes
    <3> QED
      BY <1>0, <2>1, <3>1, <3>3, <3>4, ClosedInv
<1> QED
  BY <1>1, <1>2


LEMMA ChunkEndTyped ==
  ASSUME NEW s \in Seq(Units), NEW i \in Nat
  PROVE  ChunkEnd(s, i) \in Nat \cup {NoChunk}
<1>1. Len(s) \in Nat /\ \A u : LengthOf(u) \in Nat
  BY DEF LengthOf
<1> QED
  BY <1>1 DEF ChunkEnd

\* SDINPUT#'s position moves to `end`.
LEMMA MovedInv ==
  ASSUME SdInv, NEW c \in Channels, NEW end \in Nat,
         chan' = [chan EXCEPT ![c].readPos = end], UNCHANGED <<node, content, file, touched>>,
         Untouched(c) => end \in Boundaries(content[chan[c].inode])
  PROVE  SdInv'
<1> USE DEF SdInv
<1>1. /\ chan' \in [Channels -> ChannelStates] /\ chan'[c].readPos = end
      /\ chan'[c].open = chan[c].open /\ chan'[c].inode = chan[c].inode /\ chan'[c].path = chan[c].path
      /\ \A d \in Channels \ {c} : chan'[d] = chan[d]
  BY DEF SdTypes, ChannelStates
<1>2. SdTypes'
  BY <1>1 DEF SdTypes
<1>3. ASSUME NEW d \in Channels, Untouched(d)' PROVE InPlace(d)'
  BY <1>1, <1>3 DEF Untouched, InPlace
<1> QED
  BY <1>2, <1>3

LEMMA BytePosOnly ==
  ASSUME SdInv, NEW c \in Channels, NEW q \in Nat, chan' = [chan EXCEPT ![c].bytePos = q]
  PROVE  /\ chan' \in [Channels -> ChannelStates]
         /\ \A d \in Channels : /\ chan'[d].open = chan[d].open /\ chan'[d].inode = chan[d].inode
                                /\ chan'[d].path = chan[d].path /\ chan'[d].readPos = chan[d].readPos
BY DEF SdInv, SdTypes, ChannelStates

LEMMA ChannelCommandInv ==
  ASSUME SdInv, NEW c \in Channels, ChannelCommand(c)
  PROVE  SdInv'
<1> USE DEF SdInv
<1> DEFINE i == chan[c].inode
           s == content[i]
           r == chan[c].readPos
<1>0. chan[c].open => i \in Inodes /\ s \in Seq(Units) /\ r \in Nat /\ chan[c].bytePos \in Nat
                      /\ Len(s) \in Nat
  BY DEF SdTypes, ChannelStates
<1>1. ASSUME NEW a \in Args, NEW w \in BOOLEAN, OpenChannel(c, a, w) PROVE SdInv'
  BY <1>1, OpenChannelInv
<1>2. ASSUME NEW v \in Values, PrintValue(c, v) PROVE SdInv'
  <2>1. /\ chan[c].open /\ content' = [content EXCEPT ![i] = s \o v]
        /\ UNCHANGED <<node, file, chan, touched>>
    BY <1>2 DEF PrintValue
  <2>2. s \o v \in Seq(Units)
    BY <1>0, <2>1, ValuesTyped, ConcatProperties
  <2>3. SdTypes'
    BY <2>1, <2>2 DEF SdTypes
  <2>4. ASSUME NEW d \in Channels, Untouched(d)' PROVE InPlace(d)'
    <3>1. Untouched(d) /\ InPlace(d) /\ chan[d].inode \in Inodes
      BY <2>1, <2>4 DEF Untouched, SdTypes
    <3>2. CASE chan[d].inode = i
      <4>1. Framed(s \o v) /\ Boundaries(s) \subseteq Boundaries(s \o v)
        BY <1>0, <2>1, <3>1, <3>2, AppendedFrames DEF InPlace
      <4>2. content'[i] = s \o v
        BY <1>0, <2>1 DEF SdTypes
      <4> HIDE DEF s, i
      <4> QED
        BY <2>1, <3>1, <3>2, <4>1, <4>2 DEF InPlace, s
    <3>3. CASE chan[d].inode # i
      <4>1. content'[chan[d].inode] = content[chan[d].inode]
        BY <2>1, <3>1, <3>3 DEF SdTypes
      <4> QED
        BY <2>1, <3>1, <4>1 DEF InPlace
    <3> QED
      BY <3>2, <3>3
  <2> QED
    BY <2>3, <2>4
<1>3. CASE InputValue(c)
  <2>1. /\ chan[c].open /\ ReadEnd(s, r) # NoChunk /\ chan' = [chan EXCEPT ![c].readPos = ReadEnd(s, r)]
        /\ UNCHANGED <<node, content, file, touched>>
    BY <1>3 DEF InputValue
  <2>2. ReadEnd(s, r) \in Nat
    BY <1>0, <2>1, ReadEndIs
  <2>3. Untouched(c) => ReadEnd(s, r) \in Boundaries(s)
    BY <1>0, <2>1, BoundaryFacts DEF InPlace
  <2> QED
    BY <2>1, <2>2, <2>3, MovedInv
<1>4. ASSUME NEW k \in 1..2, SkipValues(c, k) PROVE SdInv'
  <2> DEFINE end == SkipEnd(s, r, k)
             one == ChunkEnd(s, r)
  <2>1. /\ chan[c].open /\ end # NoChunk /\ chan' = [chan EXCEPT ![c].readPos = end]
        /\ UNCHANGED <<node, content, file, touched>>
    BY <1>4 DEF SkipValues
  <2>2. one # NoChunk /\ (end = one \/ end = ChunkEnd(s, one))
    <3>1. r # NoChunk
      BY <1>0, <2>1 DEF NoChunk
    <3>2. k = 1 \/ k = 2
      OBVIOUS
    <3> QED
      BY <2>1, <3>1, <3>2, SkipEndIs
  <2>3. one \in Nat /\ end \in Nat
    BY <1>0, <2>1, <2>2, ChunkEndTyped
  <2>4. Untouched(c) => end \in Boundaries(s)
    <3> SUFFICES ASSUME Untouched(c) PROVE end \in Boundaries(s)
      OBVIOUS
    <3>1. Framed(s) /\ r \in Boundaries(s)
      BY DEF InPlace
    <3>2. one \in Boundaries(s)
      BY <1>0, <2>1, <2>2, <3>1, FramedMeans
    <3> QED
      BY <1>0, <2>1, <2>2, <3>1, <3>2, FramedMeans
  <2> HIDE DEF end
  <2> QED
    BY <2>1, <2>3, <2>4, MovedInv
<1>5. ASSUME NEW pos \in {NoChunk, 1}, WriteBytes(c, pos, <<"0">>) PROVE SdInv'
  <2> DEFINE at == At(c, pos)
  <2>1. /\ chan[c].open /\ content' = [content EXCEPT ![i] = Put(s, at, <<"0">>)]
        /\ chan' = [chan EXCEPT ![c].bytePos = at + Len(<<"0">>)]
        /\ touched' = touched \union On(i) /\ UNCHANGED <<node, file>>
    BY <1>5 DEF WriteBytes
  <2>2. at \in Nat /\ Len(<<"0">>) = 1
    BY <1>0, <2>1 DEF At
  <2>3. Put(s, at, <<"0">>) \in Seq(Units)
    BY <1>0, <2>1, <2>2, PutTyped
  <2> HIDE DEF at
  <2>4. /\ chan' \in [Channels -> ChannelStates]
        /\ \A d \in Channels : /\ chan'[d].open = chan[d].open /\ chan'[d].inode = chan[d].inode
                               /\ chan'[d].path = chan[d].path /\ chan'[d].readPos = chan[d].readPos
    <3>1. at + Len(<<"0">>) \in Nat
      BY <2>2
    <3> QED
      BY <2>1, <3>1, BytePosOnly
  <2>5. SdTypes'
    BY <2>1, <2>3, <2>4 DEF SdTypes
  <2>6. ASSUME NEW d \in Channels, Untouched(d)' PROVE InPlace(d)'
    <3>1. Untouched(d) /\ InPlace(d) /\ chan[d].inode # i /\ chan[d].inode \in Inodes
      BY <2>1, <2>4, <2>6 DEF Untouched, On, SdTypes
    <3>2. content'[chan[d].inode] = content[chan[d].inode]
      BY <2>1, <3>1 DEF SdTypes
    <3> QED
      BY <2>1, <2>4, <3>1, <3>2 DEF InPlace
  <2> QED
    BY <2>5, <2>6
<1>6. CASE ReadBytes(c, NoChunk, 2)
  <2>1. PICK q \in Nat : chan' = [chan EXCEPT ![c].bytePos = q]
    <3> DEFINE at == chan[c].bytePos
               q == IF at < Len(s) THEN (IF at + 2 < Len(s) THEN at + 2 ELSE Len(s)) ELSE at
    <3>1. chan' = [chan EXCEPT ![c].bytePos = q] /\ chan[c].open
      BY <1>6 DEF ReadBytes, At
    <3>2. q \in Nat
      BY <1>0, <3>1
    <3> HIDE DEF q
    <3> QED
      BY <3>1, <3>2
  <2>2. UNCHANGED <<node, content, file, touched>>
    BY <1>6 DEF ReadBytes
  <2>3. /\ chan' \in [Channels -> ChannelStates]
        /\ \A d \in Channels : /\ chan'[d].open = chan[d].open /\ chan'[d].inode = chan[d].inode
                               /\ chan'[d].path = chan[d].path /\ chan'[d].readPos = chan[d].readPos
    BY <2>1, BytePosOnly
  <2>4. SdTypes'
    BY <2>2, <2>3 DEF SdTypes
  <2> QED
    BY <2>2, <2>3, <2>4 DEF Untouched, InPlace
<1> QED
  BY <1>1, <1>2, <1>3, <1>4, <1>5, <1>6 DEF ChannelCommand


\* What a sleep leaves of the channels: the untouched are as they were.
LEMMA ReopenIs ==
  ASSUME SdInv, Reopen
  PROVE  /\ chan' \in [Channels -> ChannelStates]
         /\ \A c \in Channels : chan'[c].open => chan'[c].inode \in Inodes /\ chan'[c].path \in Paths
         /\ \A c \in Channels : Untouched(c) => chan'[c] = chan[c]
<1> USE DEF SdInv
<1>1. ASSUME NEW c \in Channels
      PROVE  /\ chan'[c] \in ChannelStates
             /\ chan'[c].open => chan'[c].inode \in Inodes /\ chan'[c].path \in Paths
             /\ Untouched(c) => chan'[c] = chan[c]
  <2>1. chan[c] \in ChannelStates /\ (chan[c].open => chan[c].path \in Paths)
    BY DEF SdTypes
  <2>2. CASE ~chan[c].open
    <3>1. chan'[c] = chan[c]
      BY <2>2 DEF Reopen
    <3> QED
      BY <2>1, <2>2, <3>1
  <2>3. CASE chan[c].open /\ IsFile(chan[c].path)
    <3> DEFINE i == node[chan[c].path]
    <3>1. chan'[c] = [chan[c] EXCEPT !.inode = i] /\ i \in Inodes
      BY <2>3 DEF Reopen, IsFile
    <3>2. Untouched(c) => chan[c].inode = i
      BY DEF InPlace
    <3> HIDE DEF i
    <3> QED
      BY <2>1, <2>3, <3>1, <3>2 DEF ChannelStates
  <2>4. CASE chan[c].open /\ ~IsFile(chan[c].path)
    <3>1. chan'[c] = Shut
      BY <2>4 DEF Reopen
    <3>2. ~Untouched(c)
      BY <2>1, <2>4 DEF InPlace, IsFile, SdTypes, Untouched
    <3> QED
      BY <3>1, <3>2, ShutIs
  <2> QED
    BY <2>2, <2>3, <2>4
<1>2. chan' \in [Channels -> ChannelStates]
  BY <1>1 DEF Reopen
<1> QED
  BY <1>1, <1>2

LEMMA SdNextInv == SdInv /\ [SdNext]_sdVars => SdInv'
<1> SUFFICES ASSUME SdInv, [SdNext]_sdVars PROVE SdInv'
  OBVIOUS
<1>1. CASE FileCommand
  BY <1>1, FileCommandInv
<1>2. ASSUME NEW c \in Channels, ChannelCommand(c) PROVE SdInv'
  BY <1>2, ChannelCommandInv
<1>3. ASSUME NEW S \in {Channels} \union {{c} : c \in Channels}, CloseChannels(S) PROVE SdInv'
  <2>1. /\ chan' = [c \in Channels |-> IF c \in S THEN Shut ELSE chan[c]]
        /\ touched' = touched \ S /\ UNCHANGED <<node, file>> /\ Keep(content)
    BY <1>3 DEF CloseChannels
  <2>2. /\ chan' \in [Channels -> ChannelStates]
        /\ \A c \in Channels : chan'[c].open => c \notin S /\ chan'[c] = chan[c]
    BY <2>1, ShutIs DEF SdInv, SdTypes
  <2>3. \A c \in Channels : chan'[c].open => chan'[c].inode \in Inodes /\ chan'[c].path \in Paths
    BY <2>2 DEF SdInv, SdTypes
  <2>4. \A c \in Channels : Untouched(c)' => Untouched(c) /\ chan'[c] = chan[c]
    BY <2>1, <2>2 DEF Untouched
  <2> QED
    BY <2>1, <2>2, <2>3, <2>4, ClosedInv
<1>4. CASE Reopen
  <2>1. /\ touched' = touched \ {c \in Channels : ~IsFile(chan[c].path)}
        /\ UNCHANGED <<node, file>> /\ Keep(content)
        /\ \A c \in Channels : chan[c].open /\ ~IsFile(chan[c].path) => chan'[c] = Shut
        /\ \A c \in Channels : ~chan[c].open => chan'[c] = chan[c]
    BY <1>4 DEF Reopen
  <2>2. ASSUME NEW c \in Channels, Untouched(c)' PROVE Untouched(c)
    BY <2>1, <2>2, ShutIs DEF Untouched
  <2> QED
    BY <1>4, <2>1, <2>2, ReopenIs, ClosedInv
<1>5. CASE SdColdBoot
  <2>1. /\ chan' = [c \in Channels |-> Shut] /\ UNCHANGED <<node, file>> /\ Keep(content)
    BY <1>5 DEF SdColdBoot
  <2>2. chan' \in [Channels -> ChannelStates] /\ \A c \in Channels : ~chan'[c].open
    BY <2>1, ShutIs
  <2> QED
    BY <2>1, <2>2, ClosedInv DEF Untouched
<1>6. CASE UNCHANGED sdVars
  BY <1>6 DEF sdVars, SdInv, SdTypes, Untouched, InPlace
<1> QED
  BY <1>1, <1>2, <1>3, <1>4, <1>5, <1>6 DEF SdNext

\* What SDPRINT# writes through any number of channels comes back from each in
\* whole values, and SDEOF tells the end (writeSdValue, readSdValue, skipSdValues).
THEOREM ValuesComeBackWhole == SdSpec => []WholeValues
<1>1. SdInv => WholeValues
  <2> SUFFICES ASSUME SdInv, NEW c \in Channels, Untouched(c)
               PROVE  LET s == content[chan[c].inode] IN
                      /\ {Len(s), chan[c].readPos} \subseteq Boundaries(s)
                      /\ SdEof(c) <=> ReadEnd(s, chan[c].readPos) = NoChunk
    BY DEF WholeValues, Untouched
  <2> DEFINE s == content[chan[c].inode]
  <2>1. s \in Seq(Units) /\ Framed(s) /\ chan[c].readPos \in Boundaries(s)
    BY DEF SdInv, SdTypes, Untouched, InPlace
  <2>2. SdEof(c) <=> ReadEnd(s, chan[c].readPos) = NoChunk
    BY <2>1, FramedMeans DEF SdEof
  <2> QED
    BY <2>1, <2>2 DEF Framed
<1> QED
  BY <1>1, SdInitInv, SdNextInv, PTL DEF SdSpec

\* A program does not notice a sleep: its channels come back on the same files
\* with both cursors (reopenAfterPowmanPrepare).
THEOREM SleepIsNotNoticed == SdSpec => SleepKeepsChannels
<1>1. SdInv /\ [SdNext]_sdVars =>
        [Reopen => \A c \in Channels : chan[c].open /\ c \notin touched => chan'[c] = chan[c]]_sdVars
  BY ReopenIs DEF Untouched
<1> QED
  BY <1>1, SdInitInv, SdNextInv, PTL DEF SdSpec, SleepKeepsChannels

-----------------------------------------------------------------------------
(* The networks remembered.                                                *)

WifiPasswords == Passwords \union {NoText}

\* A list of remembered networks: it has room, each once and with what joined it.
Listed(k) ==
  /\ k \in Seq(Ssids \X WifiPasswords) /\ Len(k) <= Remembered
  /\ \A i, j \in 1..Len(k) : k[i][1] = k[j][1] => i = j
  /\ \A i \in 1..Len(k), n \in Networks : k[i][1] = n.ssid => n.security = "OPEN" \/ k[i][2] = n.password

LEMMA ScanTypes ==
  ASSUME air \subseteq Networks, NEW f \in Scans
  PROVE  f \in Seq(Networks)
<1>1. Cardinality(air) \in Nat
  BY WifiAssumption, FS_Subset, FS_CardinalityType DEF WifiAssumption
<1>2. f \in [1..Cardinality(air) -> Networks]
  BY DEF Scans
<1> QED
  BY <1>1, <1>2, SeqDef

\* What is left of the list without a network.
LEMMA OthersListed ==
  ASSUME Listed(known), NEW ssid
  PROVE  /\ Listed(Others(ssid)) /\ Len(Others(ssid)) <= Len(known)
         /\ \A i \in 1..Len(Others(ssid)) : Others(ssid)[i][1] # ssid
         /\ \A i \in 1..Len(Others(ssid)) : \E j \in 1..Len(known) : Others(ssid)[i] = known[j]
         /\ Len(known) > 0 /\ known[1][1] # ssid => Len(Others(ssid)) > 0 /\ Others(ssid)[1] = known[1]
<1> DEFINE T == Ssids \X WifiPasswords
           S == (Ssids \ {ssid}) \X WifiPasswords
           r == Others(ssid)
<1>1. known \in Seq(T) /\ Len(known) \in Nat /\ \A i \in 1..Len(known) : known[i] \in T
  BY ElementOfSeq, LenProperties DEF Listed
<1>2. r = Those(known, S)
  BY DEF Others, WifiPasswords
<1>3. PICK e : r \in Seq(T) /\ PlacesOf(e, r, known, Len(known), S)
  BY <1>1, <1>2, ThosePlaces
<1> HIDE DEF r
<1>4. /\ Len(r) \in Nat /\ Len(r) <= Len(known)
      /\ \A j \in 1..Len(r) : e[j] \in 1..Len(known) /\ r[j] = known[e[j]] /\ r[j][1] # ssid
  BY <1>3 DEF PlacesOf
<1>5. \A i, j \in 1..Len(r) : r[i][1] = r[j][1] => i = j
  <2> TAKE i, j \in 1..Len(r)
  <2> SUFFICES ASSUME r[i][1] = r[j][1] PROVE i = j
    OBVIOUS
  <2>0. \A a, b \in 1..Len(known) : known[a][1] = known[b][1] => a = b
    BY DEF Listed
  <2>1. e[i] = e[j]
    <3>1. e[i] \in 1..Len(known) /\ e[j] \in 1..Len(known) /\ known[e[i]] = r[i] /\ known[e[j]] = r[j]
      BY <1>4
    <3>2. known[e[i]][1] = known[e[j]][1]
      BY <3>1
    <3> QED
      BY <2>0, <3>1, <3>2
  <2>2. ~(i < j) /\ ~(j < i)
    BY <1>3, <1>4, <2>1 DEF PlacesOf
  <2> QED
    BY <1>4, <2>2
<1>6. Listed(r)
  <2>1. r \in Seq(Ssids \X WifiPasswords) /\ Len(r) <= Remembered
    BY <1>1, <1>3, <1>4, WifiAssumption DEF Listed, WifiAssumption
  <2>2. \A i \in 1..Len(r), n \in Networks :
          r[i][1] = n.ssid => n.security = "OPEN" \/ r[i][2] = n.password
    <3>1. \A i \in 1..Len(known), n \in Networks :
            known[i][1] = n.ssid => n.security = "OPEN" \/ known[i][2] = n.password
      BY DEF Listed
    <3> QED
      BY <1>4, <3>1
  <2> QED
    BY <1>5, <2>1, <2>2 DEF Listed
<1>7. ASSUME Len(known) > 0, known[1][1] # ssid
      PROVE  Len(r) > 0 /\ r[1] = known[1]
  <2>1. 1 \in 1..Len(known) /\ known[1] \in S
    BY <1>1, <1>7
  <2>2. PICK j \in 1..Len(r) : e[j] = 1
    BY <1>3, <2>1 DEF PlacesOf
  <2>3. 1 \in 1..Len(r) /\ ~(1 < j)
    BY <1>3, <1>4, <2>2 DEF PlacesOf
  <2> QED
    BY <1>4, <2>2, <2>3
<1> QED
  BY <1>4, <1>6, <1>7 DEF r

\* The list after a network has been joined.
LEMMA FiledListed ==
  ASSUME Listed(known), NEW ssid \in Ssids, NEW pw \in WifiPasswords,
         \A n \in Networks : ssid = n.ssid => n.security = "OPEN" \/ pw = n.password
  PROVE  Listed(Filed(ssid, pw)) /\ Filed(ssid, pw)[1][1] = ssid
<1> DEFINE T == Ssids \X WifiPasswords
           o == Others(ssid)
           new == <<<<ssid, pw>>>>
           all == new \o o
           r == Filed(ssid, pw)
<1>1. /\ o \in Seq(T) /\ Len(o) \in Nat /\ Len(o) <= Len(known) /\ Len(known) <= Remembered /\ Remembered \in Nat \ {0}
      /\ \A i \in 1..Len(o) : o[i][1] # ssid /\ o[i] \in T
      /\ Listed(o) /\ Len(known) \in Nat
  BY OthersListed, LenProperties, ElementOfSeq, WifiAssumption DEF Listed, WifiAssumption
<1>2. new \in Seq(T) /\ Len(new) = 1 /\ new[1] = <<ssid, pw>>
  OBVIOUS
<1> HIDE DEF o
<1>3. /\ all \in Seq(T) /\ Len(all) = 1 + Len(o) /\ all[1] = <<ssid, pw>>
      /\ \A i \in 2..(1 + Len(o)) : i - 1 \in 1..Len(o) /\ all[i] = o[i - 1]
  <2>1. <<ssid, pw>> \in T
    OBVIOUS
  <2> QED
    BY <1>1, <2>1, Prefixed
<1> HIDE DEF new
<1>4. PICK n \in Nat : n >= 1 /\ n <= Remembered /\ n <= Len(all) /\ r \in Seq(T) /\ Len(r) = n /\ \A i \in 1..n : r[i] = all[i]
  <2>1. r = IF Len(all) > Remembered THEN SubSeq(all, 1, Len(all) - 1) ELSE all
    BY DEF Filed, Front, o, new
  <2> HIDE DEF all, r
  <2>2. Len(all) \in Nat /\ Len(all) >= 1 /\ \A i \in 1..Len(all) : all[i] \in T
    BY <1>1, <1>3, ElementOfSeq
  <2>3. CASE Len(all) > Remembered
    <3>1. Len(all) - 1 \in Nat /\ Len(all) - 1 >= 1 /\ Len(all) - 1 <= Remembered
      BY <1>1, <1>3, <2>2, <2>3
    <3>2. /\ r \in Seq(T) /\ Len(r) = Len(all) - 1
          /\ \A i \in 1..(Len(all) - 1) : r[i] = all[i]
      BY <2>1, <2>2, <2>3, <3>1, SubSeqProperties
    <3> QED
      BY <2>2, <3>1, <3>2
  <2>4. CASE ~(Len(all) > Remembered)
    BY <1>1, <1>3, <2>1, <2>2, <2>4
  <2> QED
    BY <2>3, <2>4
<1> HIDE DEF all, r
<1>5. \A i, j \in 1..n : r[i][1] = r[j][1] => i = j
  <2> TAKE i, j \in 1..n
  <2>1. i = 1 \/ (i \in 2..(1 + Len(o)) /\ r[i] = o[i - 1] /\ i - 1 \in 1..Len(o))
    BY <1>1, <1>3, <1>4
  <2>2. j = 1 \/ (j \in 2..(1 + Len(o)) /\ r[j] = o[j - 1] /\ j - 1 \in 1..Len(o))
    BY <1>1, <1>3, <1>4
  <2>3. r[1][1] = ssid
    BY <1>3, <1>4
  <2>4. \A a, b \in 1..Len(o) : o[a][1] = o[b][1] => a = b
    BY <1>1 DEF Listed
  <2> SUFFICES ASSUME r[i][1] = r[j][1] PROVE i = j
    OBVIOUS
  <2>5. CASE i = 1
    <3>1. j = 1 \/ r[j][1] # ssid
      BY <1>1, <2>2
    <3> QED
      BY <2>3, <2>5, <3>1
  <2>6. CASE j = 1
    <3>1. i = 1 \/ r[i][1] # ssid
      BY <1>1, <2>1
    <3> QED
      BY <2>3, <2>6, <3>1
  <2>7. CASE i # 1 /\ j # 1
    <3>1. i - 1 = j - 1
      BY <2>1, <2>2, <2>4, <2>7
    <3> QED
      BY <2>1, <2>2, <2>7, <3>1
  <2> QED
    BY <2>5, <2>6, <2>7
<1>6. \A i \in 1..n, m \in Networks : r[i][1] = m.ssid => m.security = "OPEN" \/ r[i][2] = m.password
  <2> TAKE i \in 1..n, m \in Networks
  <2>1. i = 1 \/ (i \in 2..(1 + Len(o)) /\ r[i] = o[i - 1] /\ i - 1 \in 1..Len(o))
    BY <1>1, <1>3, <1>4
  <2>2. r[1] = <<ssid, pw>>
    BY <1>3, <1>4
  <2> QED
    BY <1>1, <2>1, <2>2 DEF Listed
<1>7. r[1][1] = ssid
  BY <1>3, <1>4
<1> QED
  BY <1>4, <1>5, <1>6, <1>7 DEF Listed, r

\* What a command leaves of the two.
Kind(o) == o.joined \in Ssids \union {NoText} /\ Listed(o.known)
           /\ (o.joined # NoText /\ (\E i \in 1..Len(o.known) : o.known[i][1] = o.joined) => o.known[1][1] = o.joined)

\* The network that a scan's list gives for a name.
LEMMA FoundNamed ==
  ASSUME NEW f \in Seq(Networks), NEW ssid
  PROVE  /\ Found(f, ssid) \in Seq(Networks)
         /\ Found(f, ssid) # <<>> => Found(f, ssid)[1] \in Networks /\ Found(f, ssid)[1].ssid = ssid
<1> DEFINE S == {n \in Networks : n.ssid = ssid}
           r == Found(f, ssid)
<1>1. PICK e : r \in Seq(Networks) /\ PlacesOf(e, r, f, Len(f), S)
  BY ThosePlaces DEF Found
<1> HIDE DEF r
<1>2. ASSUME r # <<>> PROVE r[1] \in S
  <2>1. 1 \in 1..Len(r)
    BY <1>1, <1>2, EmptySeq, LenProperties
  <2>2. r[1] = f[e[1]] /\ f[e[1]] \in S
    BY <1>1, <2>1 DEF PlacesOf
  <2> QED
    BY <2>2
<1> QED
  BY <1>1, <1>2 DEF r

\* wifiJoin, whatever it is given.
LEMMA JoinEnds ==
  ASSUME Listed(known), NEW f \in Seq(Networks), NEW ssid \in Ssids, NEW pw \in WifiPasswords
  PROVE  Kind(Join(f, ssid, pw))
<1> DEFINE at == Found(f, ssid)
<1>1. at \in Seq(Networks) /\ (at # <<>> => at[1] \in Networks /\ at[1].ssid = ssid)
  BY FoundNamed
<1>2. CASE at # <<>> /\ (at[1].security = "OPEN" \/ pw = at[1].password)
  <2>1. \A n \in Networks : ssid = n.ssid => n = at[1]
    BY <1>1, <1>2, WifiAssumption DEF WifiAssumption
  <2>2. \A n \in Networks : ssid = n.ssid => n.security = "OPEN" \/ pw = n.password
    BY <1>2, <2>1
  <2>3. Listed(Filed(ssid, pw)) /\ Filed(ssid, pw)[1][1] = ssid
    BY <2>2, FiledListed
  <2>4. Join(f, ssid, pw) = [joined |-> ssid, known |-> Filed(ssid, pw)]
    BY <1>2 DEF Join
  <2>5. Join(f, ssid, pw).joined = ssid /\ Join(f, ssid, pw).known = Filed(ssid, pw)
    BY <2>4
  <2> QED
    BY <2>3, <2>5 DEF Kind
<1>3. CASE ~(at # <<>> /\ (at[1].security = "OPEN" \/ pw = at[1].password))
  <2>1. Join(f, ssid, pw) = [joined |-> NoText, known |-> known]
    BY <1>3 DEF Join
  <2>2. Join(f, ssid, pw).joined = NoText /\ Join(f, ssid, pw).known = known
    BY <2>1
  <2> QED
    BY <2>2 DEF Kind
<1> QED
  BY <1>2, <1>3

\* The password remembered for a network that is.
LEMMA KnownPasswords ==
  ASSUME Listed(known), NEW ssid, Knows(ssid)
  PROVE  KnownPassword(ssid) \in WifiPasswords
<1>1. DOMAIN known = 1..Len(known) /\ \A i \in 1..Len(known) : known[i] \in Ssids \X WifiPasswords
  BY ElementOfSeq, LenProperties DEF Listed
<1>2. PICK i \in DOMAIN known : i = CHOOSE j \in DOMAIN known : known[j][1] = ssid
  BY DEF Knows
<1>3. KnownPassword(ssid) = known[i][2]
  BY <1>2 DEF KnownPassword
<1> QED
  BY <1>1, <1>2, <1>3

WifiInv == found \in Seq(Networks) /\ air \subseteq Networks /\ Kind([joined |-> joined, known |-> known])

\* A command that leaves what Kind says of the two.
LEMMA EndsKept ==
  ASSUME NEW o, Kind(o), Ends(o), found' \in Seq(Networks), air' \subseteq Networks
  PROVE  WifiInv'
<1>1. Kind([joined |-> joined', known |-> known'])
  BY DEF Kind, Ends
<1> QED
  BY <1>1 DEF WifiInv, Kind, Listed, Ssids, WifiPasswords

\* WFCONNECT with a name.
LEMMA WithPasswordEnds ==
  ASSUME WifiInv, NEW f \in Seq(Networks), NEW ssid \in Ssids, NEW pw \in WifiPasswords
  PROVE  Kind(WithPassword(f, ssid, pw))
<1>1. Listed(known) /\ Kind(Refused)
  BY DEF WifiInv, Kind, Refused
<1>2. NoText \in WifiPasswords
  BY DEF WifiPasswords
<1>3. Kind(Join(f, ssid, pw)) /\ Kind(Join(f, ssid, NoText))
  BY <1>1, <1>2, JoinEnds
<1>4. Knows(ssid) => Kind(Join(f, ssid, KnownPassword(ssid)))
  BY <1>1, JoinEnds, KnownPasswords
<1> QED
  BY <1>1, <1>3, <1>4, ZenonT(30) DEF WithPassword

\* WFFORGET.
LEMMA ForgetKept ==
  ASSUME WifiInv, NEW ssid \in Ssids \union {NoText}, WifiForget(ssid)
  PROVE  WifiInv'
<1>1. /\ Listed(known) /\ joined \in Ssids \union {NoText} /\ found \in Seq(Networks) /\ air \subseteq Networks
      /\ joined # NoText /\ (\E i \in 1..Len(known) : known[i][1] = joined) => known[1][1] = joined
  BY DEF WifiInv, Kind
<1>2. found' \in Seq(Networks) /\ air' \subseteq Networks /\ joined' = joined
  BY <1>1 DEF WifiForget
<1>3. CASE ssid = NoText
  <2>1. known' = <<>>
    BY <1>3 DEF WifiForget
  <2>2. Len(<<>>) = 0 /\ <<>> \in Seq(Ssids \X WifiPasswords)
    OBVIOUS
  <2>3. Listed(<<>>)
    BY <2>2, WifiAssumption DEF Listed, WifiAssumption
  <2>4. Kind([joined |-> joined, known |-> <<>>])
    BY <1>1, <2>2, <2>3 DEF Kind
  <2>5. Ends([joined |-> joined, known |-> <<>>])
    BY <1>2, <2>1 DEF Ends
  <2> QED
    BY <1>2, <2>4, <2>5, EndsKept
<1>4. CASE ssid # NoText
  <2> DEFINE r == Others(ssid)
  <2>1. known' = r
    BY <1>4 DEF WifiForget
  <2>2. /\ Listed(r)
        /\ \A i \in 1..Len(r) : r[i][1] # ssid
        /\ \A i \in 1..Len(r) : \E j \in 1..Len(known) : r[i] = known[j]
        /\ Len(known) > 0 /\ known[1][1] # ssid => Len(r) > 0 /\ r[1] = known[1]
    BY <1>1, OthersListed
  <2> HIDE DEF r
  <2>3. ASSUME joined # NoText, NEW i \in 1..Len(r), r[i][1] = joined
        PROVE  r[1][1] = joined
    <3>1. PICK j \in 1..Len(known) : r[i] = known[j]
      BY <2>2
    <3>2. known[j][1] = joined /\ joined # ssid
      BY <2>2, <2>3, <3>1
    <3>3. known[1][1] = joined /\ Len(known) > 0
      BY <1>1, <2>3, <3>1, <3>2, LenProperties DEF Listed
    <3> QED
      BY <2>2, <3>2, <3>3
  <2>4. Kind([joined |-> joined, known |-> r])
    BY <1>1, <2>2, <2>3 DEF Kind
  <2>5. Ends([joined |-> joined, known |-> r])
    BY <1>2, <2>1 DEF Ends
  <2> QED
    BY <1>2, <2>4, <2>5, EndsKept
<1> QED
  BY <1>3, <1>4

LEMMA WifiStep ==
  WifiInv /\ [WifiNext]_wifiVars => WifiInv'
<1> SUFFICES ASSUME WifiInv, [WifiNext]_wifiVars PROVE WifiInv'
  OBVIOUS
<1> DEFINE o == [joined |-> joined, known |-> known]
           none == [joined |-> NoText, known |-> known]
<1>1. Listed(known) /\ found \in Seq(Networks) /\ air \subseteq Networks /\ Kind(o) /\ Kind(none)
  BY DEF WifiInv, Kind
<1>2. ASSUME found' \in Scans, air' = air PROVE found' \in Seq(Networks) /\ air' \subseteq Networks
  BY <1>1, <1>2, ScanTypes
<1>3. CASE WifiScan
  <2>1. Ends(o) /\ found' \in Scans /\ air' = air
    BY <1>3 DEF WifiScan, Ends
  <2> HIDE DEF o
  <2> QED
    BY <1>1, <1>2, <2>1, EndsKept
<1>4. CASE WifiConnectKnown
  <2> DEFINE S == {n \in Networks : Knows(n.ssid)}
             mine == Those(found', S)
  <2>1. /\ found' \in Scans /\ air' = air
        /\ Ends(IF mine = <<>> THEN Refused ELSE Join(found', mine[1].ssid, KnownPassword(mine[1].ssid)))
    BY <1>4 DEF WifiConnectKnown
  <2>2. found' \in Seq(Networks) /\ air' \subseteq Networks
    BY <1>2, <2>1
  <2> PICK f \in Seq(Networks) : f = found'
    BY <2>2
  <2>3. PICK e : mine \in Seq(Networks) /\ PlacesOf(e, mine, f, Len(f), S)
    BY ThosePlaces
  <2> HIDE DEF mine
  <2>4. CASE mine = <<>>
    <3>1. Ends(Refused) /\ Refused = o
      BY <2>1, <2>4 DEF Refused
    <3> HIDE DEF o
    <3> QED
      BY <1>1, <2>2, <3>1, EndsKept
  <2>5. CASE mine # <<>>
    <3>1. 1 \in 1..Len(mine)
      BY <2>3, <2>5, EmptySeq, LenProperties
    <3>2. mine[1] = f[e[1]] /\ f[e[1]] \in S
      BY <2>3, <3>1 DEF PlacesOf
    <3> PICK ssid \in Ssids : ssid = mine[1].ssid /\ Knows(ssid)
      BY <3>2 DEF Ssids
    <3>3. KnownPassword(ssid) \in WifiPasswords
      BY <1>1, KnownPasswords
    <3>4. Kind(Join(f, ssid, KnownPassword(ssid)))
      BY <1>1, <3>3, JoinEnds
    <3>5. Ends(Join(f, ssid, KnownPassword(ssid)))
      BY <2>1, <2>5
    <3> QED
      BY <2>2, <3>4, <3>5, EndsKept
  <2> QED
    BY <2>4, <2>5
<1>5. CASE WifiDisconnect
  <2>1. Ends(none) /\ found' = found /\ air' = air
    BY <1>5 DEF WifiDisconnect, Ends
  <2> HIDE DEF none
  <2> QED
    BY <1>1, <2>1, EndsKept
<1>6. CASE AirChanges
  <2>1. Ends(o) /\ found' = found /\ air' \subseteq Networks
    BY <1>6 DEF AirChanges, Ends
  <2> HIDE DEF o
  <2> QED
    BY <1>1, <2>1, EndsKept
<1>7. ASSUME NEW i \in DOMAIN found, NEW pw \in Passwords \union {NoText}, WifiConnect(i, pw)
      PROVE  WifiInv'
  <2>1. Ends(WithPassword(found, found[i].ssid, pw)) /\ found' = found /\ air' = air
    BY <1>7 DEF WifiConnect
  <2>2. found[i].ssid \in Ssids /\ pw \in WifiPasswords
    BY <1>1, ElementOfSeq, LenProperties DEF Ssids, WifiPasswords
  <2>3. Kind(WithPassword(found, found[i].ssid, pw))
    BY <1>1, <2>2, WithPasswordEnds
  <2> QED
    BY <1>1, <2>1, <2>3, EndsKept
<1>8. ASSUME NEW s \in Ssids, NEW pw \in Passwords \union {NoText}, WifiConnectName(s, pw)
      PROVE  WifiInv'
  <2>1. Ends(WithPassword(found', s, pw)) /\ found' \in Scans /\ air' = air
    BY <1>8 DEF WifiConnectName
  <2>2. found' \in Seq(Networks) /\ air' \subseteq Networks /\ pw \in WifiPasswords
    BY <1>2, <2>1 DEF WifiPasswords
  <2> PICK f \in Seq(Networks) : f = found'
    BY <2>2
  <2>3. Kind(WithPassword(f, s, pw))
    BY <2>2, WithPasswordEnds
  <2> QED
    BY <2>1, <2>2, <2>3, EndsKept
<1>9. CASE UNCHANGED wifiVars
  <2>1. Ends(o) /\ found' = found /\ air' = air
    BY <1>9 DEF wifiVars, Ends
  <2> HIDE DEF o
  <2> QED
    BY <1>1, <2>1, EndsKept
<1> HIDE DEF o, none
<1> QED
  BY <1>3, <1>4, <1>5, <1>6, <1>7, <1>8, <1>9, ForgetKept DEF WifiNext

LEMMA WifiStarts ==
  WifiInit => WifiInv
<1> SUFFICES ASSUME WifiInit PROVE WifiInv
  OBVIOUS
<1>1. known = <<>> /\ found = <<>> /\ joined = NoText /\ air = Networks
  BY DEF WifiInit
<1>2. Len(<<>>) = 0 /\ <<>> \in Seq(Ssids \X WifiPasswords) /\ <<>> \in Seq(Networks)
  OBVIOUS
<1>3. Listed(<<>>)
  BY <1>2, WifiAssumption DEF Listed, WifiAssumption
<1>4. Kind([joined |-> NoText, known |-> <<>>])
  BY <1>3 DEF Kind
<1> QED
  BY <1>1, <1>2, <1>4 DEF WifiInv

LEMMA WifiInvSuffices ==
  WifiInv => RememberedRight
<1> SUFFICES ASSUME WifiInv PROVE RememberedRight
  OBVIOUS
<1>1. Listed(known) /\ (joined # NoText /\ (\E i \in 1..Len(known) : known[i][1] = joined) => known[1][1] = joined)
  BY DEF WifiInv, Kind
<1>2. DOMAIN known = 1..Len(known)
  BY <1>1, LenProperties DEF Listed
<1>3. joined # NoText /\ Knows(joined) => known[1][1] = joined
  BY <1>1, <1>2 DEF Knows
<1> QED
  BY <1>1, <1>2, <1>3 DEF Listed, RememberedRight

\* The networks remembered are each once, as many as there is room for, with
\* passwords that join them and the network joined first (wifiJoin, WFFORGET):
\* in any order of commands, with any networks and any room.
THEOREM NetworksAreRememberedRight == WifiSpec => []RememberedRight
<1>1. WifiInit => WifiInv
  BY WifiStarts
<1>2. WifiInv /\ [WifiNext]_wifiVars => WifiInv'
  BY WifiStep
<1>3. WifiInv => RememberedRight
  BY WifiInvSuffices
<1> QED
  BY <1>1, <1>2, <1>3, PTL DEF WifiSpec

-----------------------------------------------------------------------------
(* The SSH terminal and the history menu together.  Neither invariant is   *)
(* inductive.  What is on its way from the server and unread says how far  *)
(* the session has come (Stage): no key is offered twice, all that follows *)
(* the verdict is output, and none of it is lost or doubled.               *)

Items == {"kex", "ask", "ok", "deny", "output"}
SshStates == [st : {"connecting", "hostkey", "auth", "password", "open", "closed"},
              err : {"none", "lost", "rejected", "auth"}, shown : Nat]
Servers == [key : HostKeys \cup {NoKey}, wire : Seq(Items), sent : Nat, ended : BOOLEAN,
            next : {"kex", "auth", "open"}]

\* What the server has sent and the client has not dealt with, oldest first.
Unread == pending \o server.wire

\* How far a session has come, and what may be on its way: a session's own bytes
\* come in their order, and none is shown that was not sent.
Stage(s, q, sv) ==
  /\ s.st = "connecting" => /\ sv.sent = 0 /\ s.shown = 0
                            /\ \/ sv.next = "kex" /\ Len(q) = 0
                               \/ sv.next = "auth" /\ Len(q) = 1 /\ q[1] = "kex"
  /\ s.st \in {"hostkey", "password"} => sv.sent = 0 /\ s.shown = 0 /\ sv.next = "auth" /\ Len(q) = 0
  /\ s.st = "auth" => /\ s.shown = 0
                      /\ \/ sv.next = "auth" /\ sv.sent = 0 /\ (Len(q) = 0 \/ (Len(q) = 1 /\ q[1] = "ask"))
                         \/ /\ sv.next = "open" /\ Len(q) = sv.sent + 1 /\ q[1] \in {"ok", "deny"}
                            /\ \A i \in 2..Len(q) : q[i] = "output"
  /\ s.st = "open" => /\ sv.next = "open" /\ s.shown + Len(q) = sv.sent
                      /\ \A i \in 1..Len(q) : q[i] = "output"

TerminalTypes ==
  /\ ssh \in SshStates /\ server \in Servers /\ pending \in Seq(Items)
  /\ session \in BOOLEAN /\ sshTerminal \in BOOLEAN /\ gone \in BOOLEAN /\ stepping \in BOOLEAN
  /\ host \in Hosts /\ knownHosts \in [Hosts -> HostKeys \cup {NoKey}]
  /\ rom \in {"basic", "ssh", "history"}
  /\ cells = [breaks |-> cells.breaks, line |-> cells.line, closed |-> cells.closed, back |-> cells.back]

SessionRight ==
  /\ session => Stage(ssh, Unread, server) /\ host = dialled
  /\ session /\ gone => server.wire = <<>> /\ server.ended
  /\ stepping => session /\ rom = "basic"
  /\ sshTerminal => session /\ ssh.st = "open" /\ rom = "ssh" /\ cells.closed = "no"
  /\ rom = "ssh" /\ cells.closed = "ended" => ~session
  /\ histAt # 0 => rom = "history" /\ cells.closed = "no"

TerminalInv == TerminalTypes /\ SessionRight /\ HostsAreKnown /\ TerminalsEndWell

\* ssh_close and ssh_feed, an item at a time.
LEMMA ClosedTypes ==
  ASSUME NEW s \in SshStates, NEW why \in {"none", "lost", "rejected", "auth"}
  PROVE  /\ SshClosed(s, why) \in SshStates /\ SshClosed(s, why).st = "closed"
         /\ SshClosed(s, why).shown = s.shown
         /\ s.st # "closed" => SshClosed(s, why).err = why
         /\ s.st = "closed" => SshClosed(s, why) = s
<1>1. CASE s.st = "closed"
  BY <1>1 DEF SshClosed, SshStates
<1>2. CASE s.st # "closed"
  <2>1. SshClosed(s, why) = [s EXCEPT !.st = "closed", !.err = why]
    BY <1>2 DEF SshClosed
  <2> QED
    BY <1>2, <2>1 DEF SshStates
<1> QED
  BY <1>1, <1>2

LEMMA ItemsFed ==
  ASSUME NEW s \in SshStates, NEW x \in Items
  PROVE  /\ FeedItem(s, x) \in SshStates
         /\ s.st = "closed" => FeedItem(s, x) = s
         /\ s.st # "closed" /\ x = "kex" => FeedItem(s, x).st = "hostkey" /\ FeedItem(s, x).shown = s.shown
         /\ s.st # "closed" /\ x = "ask" => FeedItem(s, x).st = "password" /\ FeedItem(s, x).shown = s.shown
         /\ s.st # "closed" /\ x = "ok" => FeedItem(s, x).st = "open" /\ FeedItem(s, x).shown = s.shown
         /\ s.st # "closed" /\ x = "deny" => FeedItem(s, x).st = "closed"
         /\ s.st # "closed" /\ x = "output" =>
              FeedItem(s, x).st = s.st /\ FeedItem(s, x).shown = s.shown + 1
<1>1. CASE s.st = "closed"
  <2>1. FeedItem(s, x) = s
    BY <1>1 DEF FeedItem
  <2> QED
    BY <1>1, <2>1
<1>2. CASE s.st # "closed" /\ x = "kex"
  <2>1. FeedItem(s, x) = [s EXCEPT !.st = "hostkey"]
    BY <1>2 DEF FeedItem
  <2> QED
    BY <1>2, <2>1 DEF SshStates
<1>3. CASE s.st # "closed" /\ x = "ask"
  <2>1. FeedItem(s, x) = [s EXCEPT !.st = "password"]
    BY <1>3 DEF FeedItem
  <2> QED
    BY <1>3, <2>1 DEF SshStates
<1>4. CASE s.st # "closed" /\ x = "ok"
  <2>1. FeedItem(s, x) = [s EXCEPT !.st = "open"]
    BY <1>4 DEF FeedItem
  <2> QED
    BY <1>4, <2>1 DEF SshStates
<1>5. CASE s.st # "closed" /\ x = "deny"
  <2>1. FeedItem(s, x) = SshClosed(s, "auth")
    BY <1>5 DEF FeedItem
  <2> QED
    BY <1>5, <2>1, ClosedTypes
<1>6. CASE s.st # "closed" /\ x = "output"
  <2>1. FeedItem(s, x) = [s EXCEPT !.shown = s.shown + 1]
    BY <1>6 DEF FeedItem
  <2> QED
    BY <1>6, <2>1 DEF SshStates
<1> QED
  BY <1>1, <1>2, <1>3, <1>4, <1>5, <1>6 DEF Items

LEMMA FedSteps ==
  ASSUME NEW s \in SshStates, NEW items \in Seq(Items)
  PROVE  \E g \in [0..Len(items) -> SshStates] :
           /\ g[0] = s /\ Fed(s, items) = g[Len(items)]
           /\ \A i \in 1..Len(items) : g[i] = FeedItem(g[i - 1], items[i])
<1> DEFINE n == Len(items)
           Body(g) == [i \in 0..n |-> IF i = 0 THEN s ELSE FeedItem(g[i - 1], items[i])]
           f == CHOOSE g : g = Body(g)
           h == [i \in 1..n |-> [v \in SshStates |-> FeedItem(v, items[i])]]
<1>1. n \in Nat /\ \A i \in 1..n : items[i] \in Items
  BY ElementOfSeq, LenProperties
<1>2. h \in [1..n -> [SshStates -> SshStates]]
  BY <1>1, ItemsFed
<1>3. PICK g \in [0..n -> SshStates] : g[0] = s /\ \A i \in 1..n : g[i] = h[i][g[i - 1]]
  <2> HIDE DEF h, n
  <2>1. CanStep(SshStates, s, n, h)
    BY <1>1, <1>2, StepsExist, Zenon
  <2> QED
    BY <2>1, Zenon DEF CanStep
<1>4. \A i \in 1..n : g[i] = FeedItem(g[i - 1], items[i])
  <2> TAKE i \in 1..n
  <2>1. i - 1 \in 0..n
    BY <1>1
  <2>2. g[i - 1] \in SshStates
    BY <1>3, <2>1
  <2> QED
    BY <1>3, <2>2
<1>5. g = Body(g)
  <2>1. g = [i \in 0..n |-> g[i]]
    BY <1>3
  <2>2. ASSUME NEW i \in 0..n
        PROVE  g[i] = IF i = 0 THEN s ELSE FeedItem(g[i - 1], items[i])
    <3>1. i = 0 \/ i \in 1..n
      BY <1>1
    <3> HIDE DEF h, n
    <3> QED
      BY <1>3, <1>4, <3>1
  <2> HIDE DEF h, n
  <2> QED
    BY ONLY <2>1, <2>2, Zenon DEF Body
<1>6. f = Body(f)
  <2> HIDE DEF Body
  <2> QED
    BY <1>5
<1>7. Fed(s, items) = f[n]
  BY DEF Fed
<1>8. f[0] = s /\ \A i \in 1..n : f[i] = FeedItem(f[i - 1], items[i])
  <2> HIDE DEF f
  <2>1. \A i \in 0..n : f[i] = IF i = 0 THEN s ELSE FeedItem(f[i - 1], items[i])
    BY ONLY <1>6 DEF Body
  <2> QED
    BY <1>1, <2>1
<1> HIDE DEF f
<1>9. f = [i \in 0..n |-> f[i]]
  BY <1>6
<1>10. \A i \in 0..n : f[i] \in SshStates
  <2> DEFINE P == {i \in Nat : i <= n => f[i] \in SshStates}
  <2>1. 0 \in P
    BY <1>1, <1>8
  <2>2. ASSUME NEW i \in Nat, i \in P PROVE i + 1 \in P
    <3> SUFFICES ASSUME i + 1 <= n PROVE f[i + 1] \in SshStates
      OBVIOUS
    <3>1. i + 1 \in 1..n /\ (i + 1) - 1 = i /\ f[i] \in SshStates /\ items[i + 1] \in Items
      BY <1>1, <2>2
    <3>2. f[i + 1] = FeedItem(f[i], items[i + 1])
      BY <3>1, <1>8
    <3> QED
      BY <3>1, <3>2, ItemsFed
  <2>3. Nat \subseteq P
    <3> HIDE DEF P
    <3> QED
      BY <2>1, <2>2, AllNaturals
  <2> QED
    BY <1>1, <2>3
<1> QED
  BY <1>7, <1>8, <1>9, <1>10

LEMMA OutputFed ==
  ASSUME NEW s \in SshStates, s.st = "open"
  PROVE  FeedItem(s, "output").st = "open" /\ FeedItem(s, "output").shown = s.shown + 1
<1>1. FeedItem(s, "output") = [s EXCEPT !.shown = s.shown + 1]
  BY DEF FeedItem
<1> QED
  BY <1>1 DEF SshStates

\* What has been fed so far when each of the first n items of q has been taken.
FedAlong(g, q, n) ==
  n \in Nat /\ g \in [0..n -> SshStates] /\ \A i \in 1..n : g[i] = FeedItem(g[i - 1], q[i])
OutputsFrom(q, m, n) == \A i \in (m + 1)..n : q[i] = "output"

LEMMA OutputsFed ==
  ASSUME NEW q, NEW n, NEW g, FedAlong(g, q, n), NEW m \in 0..n, g[m].st = "open", g[m].shown \in Nat,
         OutputsFrom(q, m, n)
  PROVE  g[n].st = "open" /\ g[n].shown = g[m].shown + (n - m)
<1> USE DEF FedAlong, OutputsFrom
<1> DEFINE P == {i \in Nat : m + i <= n => g[m + i].st = "open" /\ g[m + i].shown = g[m].shown + i}
<1>1. 0 \in P
  OBVIOUS
<1>2. ASSUME NEW i \in Nat, i \in P PROVE i + 1 \in P
  <2> SUFFICES ASSUME m + (i + 1) <= n
               PROVE  g[m + (i + 1)].st = "open" /\ g[m + (i + 1)].shown = g[m].shown + (i + 1)
    OBVIOUS
  <2> PICK k \in 1..n : k = m + (i + 1)
    OBVIOUS
  <2>1. /\ k \in (m + 1)..n /\ k - 1 = m + i /\ k - 1 \in 0..n
        /\ g[k - 1].st = "open" /\ g[k - 1].shown = g[m].shown + i
    BY <1>2
  <2>2. g[k] = FeedItem(g[k - 1], "output") /\ g[k - 1] \in SshStates
    BY <2>1
  <2> PICK v \in SshStates : v = g[k - 1]
    BY <2>2
  <2>3. v.st = "open" /\ v.shown = g[m].shown + i
    BY <2>1
  <2>4. FeedItem(v, "output").st = "open" /\ FeedItem(v, "output").shown = v.shown + 1
    BY <2>3, OutputFed
  <2> QED
    BY <2>2, <2>3, <2>4
<1>3. Nat \subseteq P
  <2> HIDE DEF P
  <2> QED
    BY <1>1, <1>2, AllNaturals
<1>4. n - m \in P
  BY <1>3
<1> QED
  BY <1>4

LEMMA ClosedFed ==
  ASSUME NEW q, NEW n \in Nat, NEW g \in [0..n -> SshStates], NEW m \in 0..n, g[m].st = "closed",
         \A i \in 1..n : g[i] = FeedItem(g[i - 1], q[i]), \A i \in 1..n : q[i] \in Items
  PROVE  g[n].st = "closed"
<1> DEFINE P == {i \in Nat : m + i <= n => g[m + i].st = "closed"}
<1>1. 0 \in P
  OBVIOUS
<1>2. ASSUME NEW i \in Nat, i \in P PROVE i + 1 \in P
  <2> SUFFICES ASSUME m + (i + 1) <= n PROVE g[m + (i + 1)].st = "closed"
    OBVIOUS
  <2> PICK k \in 1..n : k = m + (i + 1)
    OBVIOUS
  <2>1. k - 1 = m + i /\ k - 1 \in 0..n /\ g[k - 1].st = "closed"
    BY <1>2
  <2>2. g[k] = FeedItem(g[k - 1], q[k]) /\ g[k - 1] \in SshStates /\ q[k] \in Items
    BY <2>1
  <2> QED
    BY <2>1, <2>2, ItemsFed
<1>3. Nat \subseteq P
  <2> HIDE DEF P
  <2> QED
    BY <1>1, <1>2, AllNaturals
<1>4. n - m \in P
  BY <1>3
<1> QED
  BY <1>4

\* The session after it has taken the first n of what is unread.
LEMMA StageFed ==
  ASSUME NEW s \in SshStates, NEW q \in Seq(Items), NEW sv \in Servers, Stage(s, q, sv),
         NEW items \in Seq(Items), NEW rest \in Seq(Items), Len(items) <= Len(q), Len(rest) = Len(q) - Len(items),
         \A i \in 1..Len(items) : items[i] = q[i],
         \A i \in 1..Len(rest) : rest[i] = q[Len(items) + i],
         Len(items) = 0 \/ s.st \notin {"hostkey", "password", "closed"}
  PROVE  /\ Fed(s, items) \in SshStates /\ Stage(Fed(s, items), rest, sv)
         /\ s.st \in {"closed", "connecting", "hostkey"} => Fed(s, items).st \in {"closed", "connecting", "hostkey"}
         /\ s.st = "open" => Fed(s, items).st = "open"
<1> DEFINE n == Len(items)
<1>1. PICK g \in [0..n -> SshStates] :
        /\ g[0] = s /\ Fed(s, items) = g[n]
        /\ \A i \in 1..n : g[i] = FeedItem(g[i - 1], items[i])
  BY FedSteps
<1>2. n \in Nat /\ Len(q) \in Nat /\ Len(rest) \in Nat /\ \A i \in 1..n : items[i] \in Items
  BY ElementOfSeq, LenProperties
<1> PICK f \in SshStates : f = Fed(s, items)
  BY <1>1, <1>2
<1>3. s.shown \in Nat /\ sv.sent \in Nat /\ s.st \in {"connecting", "hostkey", "auth", "password", "open", "closed"}
  BY DEF SshStates, Servers
<1>4. CASE n = 0
  <2>1. f = s /\ Len(rest) = Len(q) /\ \A i \in 1..Len(rest) : rest[i] = q[i]
    BY <1>1, <1>2, <1>4
  <2>2. rest = q
    BY <2>1, SeqEqual
  <2> QED
    BY <2>1, <2>2
<1>5. CASE n > 0 /\ s.st = "connecting"
  <2>0. Len(q) = 1 /\ sv.next = "auth" /\ sv.sent = 0 /\ s.shown = 0 /\ q[1] = "kex"
    BY <1>2, <1>5 DEF Stage
  <2>1. /\ Len(q) = 1 /\ n = 1 /\ items[1] = "kex" /\ sv.next = "auth" /\ sv.sent = 0 /\ s.shown = 0
        /\ Len(rest) = 0
    BY <1>2, <1>5, <2>0
  <2>2. f = FeedItem(s, "kex")
    BY <1>1, <2>1
  <2>3. f.st = "hostkey" /\ f.shown = 0
    BY <1>5, <2>1, <2>2, ItemsFed DEF Items
  <2>4. Stage(f, rest, sv)
    BY <2>1, <2>3 DEF Stage
  <2> QED
    BY <1>5, <2>3, <2>4
<1>6. CASE n > 0 /\ s.st = "auth" /\ q[1] = "ask"
  <2>0. Len(q) = 1 /\ sv.next = "auth" /\ sv.sent = 0 /\ s.shown = 0 /\ q[1] = "ask"
    BY <1>2, <1>6 DEF Stage
  <2>1. /\ Len(q) = 1 /\ n = 1 /\ items[1] = "ask" /\ sv.next = "auth" /\ sv.sent = 0 /\ s.shown = 0
        /\ Len(rest) = 0
    BY <1>2, <1>6, <2>0
  <2>2. f = FeedItem(s, "ask")
    BY <1>1, <2>1
  <2>3. f.st = "password" /\ f.shown = 0
    BY <1>6, <2>1, <2>2, ItemsFed DEF Items
  <2>4. Stage(f, rest, sv)
    BY <2>1, <2>3 DEF Stage
  <2> QED
    BY <1>6, <2>3, <2>4
<1>7. CASE n > 0 /\ s.st = "auth" /\ q[1] # "ask"
  <2>1. /\ sv.next = "open" /\ Len(q) = sv.sent + 1 /\ q[1] \in {"ok", "deny"} /\ s.shown = 0
        /\ \A i \in 2..Len(q) : q[i] = "output"
    BY <1>2, <1>7 DEF Stage
  <2>2. g[1] = FeedItem(s, q[1]) /\ 1 \in 0..n /\ 1 \in 1..n
    BY <1>1, <1>2, <1>7
  <2>3. CASE q[1] = "deny"
    <3>1. g[1].st = "closed"
      BY <1>7, <2>2, <2>3, ItemsFed DEF Items
    <3>2. f.st = "closed"
      <4> HIDE DEF n
      <4>1. g[n].st = "closed"
        <5>1. n \in Nat /\ \A i \in 1..n : g[i] = FeedItem(g[i - 1], items[i])
          BY <1>1, <1>2
        <5> QED
          BY <1>2, <2>2, <3>1, <5>1, ClosedFed, Zenon
      <4> QED
        BY <1>1, <4>1
    <3>3. Stage(f, rest, sv)
      BY <3>2 DEF Stage
    <3> QED
      BY <1>7, <3>2, <3>3
  <2>4. CASE q[1] = "ok"
    <3>0. "ok" \in Items /\ s.st # "closed" /\ g[1] = FeedItem(s, "ok")
      BY <1>7, <2>2, <2>4 DEF Items
    <3>1. g[1].st = "open" /\ g[1].shown = 0
      BY <2>1, <3>0, ItemsFed
    <3>2. \A i \in (1 + 1)..n : items[i] = "output"
      BY <1>2, <2>1
    <3>3. f.st = "open" /\ f.shown = n - 1
      <4>1. f.st = "open" /\ f.shown = g[1].shown + (n - 1)
        <5>1. g[1].st = "open" /\ g[1].shown \in Nat /\ 1 \in 0..n /\ n \in Nat
          BY <1>2, <2>2, <3>1
        <5>3. FedAlong(g, items, n)
          BY <1>1, <1>2 DEF FedAlong
        <5>4. OutputsFrom(items, 1, n)
          BY <3>2 DEF OutputsFrom
        <5> HIDE DEF n
        <5>2. g[n].st = "open" /\ g[n].shown = g[1].shown + (n - 1)
          BY ONLY <5>1, <5>3, <5>4, OutputsFed
        <5> QED
          BY <1>1, <5>2
      <4> QED
        BY <1>2, <3>1, <4>1
    <3>4. \A i \in 1..Len(rest) : rest[i] = "output"
      <4> TAKE i \in 1..Len(rest)
      <4>1. n + i \in 2..Len(q)
        BY <1>2, <1>7
      <4> QED
        BY <2>1, <4>1
    <3>5. f.shown + Len(rest) = sv.sent
      <4> HIDE DEF n
      <4>1. Len(rest) = Len(q) - n
        BY DEF n
      <4> QED
        BY ONLY <1>2, <1>3, <2>1, <3>3, <4>1
    <3>6. Stage(f, rest, sv)
      BY <2>1, <3>3, <3>4, <3>5 DEF Stage
    <3> QED
      BY <1>7, <3>3, <3>6
  <2> QED
    BY <2>1, <2>3, <2>4
<1>8. CASE n > 0 /\ s.st = "open"
  <2>1. sv.next = "open" /\ s.shown + Len(q) = sv.sent /\ \A i \in 1..Len(q) : q[i] = "output"
    BY <1>8 DEF Stage
  <2>2. \A i \in (0 + 1)..n : items[i] = "output"
    BY <1>2, <2>1
  <2>3. f.st = "open" /\ f.shown = s.shown + n
    <3>0. 0 \in 0..n /\ g[0].st = "open" /\ g[0].shown \in Nat
      BY <1>1, <1>2, <1>3, <1>8
    <3>1. f.st = "open" /\ f.shown = g[0].shown + (n - 0)
      <4> HIDE DEF n
      <4>1. g[n].st = "open" /\ g[n].shown = g[0].shown + (n - 0)
        <5>1. FedAlong(g, items, n)
          BY <1>1, <1>2 DEF FedAlong, n
        <5>2. OutputsFrom(items, 0, n)
          BY <2>2 DEF OutputsFrom
        <5> QED
          BY ONLY <3>0, <5>1, <5>2, OutputsFed
      <4> QED
        BY <1>1, <4>1
    <3> QED
      BY <1>1, <1>2, <3>1
  <2>4. \A i \in 1..Len(rest) : rest[i] = "output"
    BY <1>2, <2>1
  <2>5. f.shown + Len(rest) = sv.sent
    BY <1>2, <1>3, <2>1, <2>3
  <2>6. Stage(f, rest, sv)
    BY <2>1, <2>3, <2>4, <2>5 DEF Stage
  <2> QED
    BY <1>8, <2>3, <2>6
<1> QED
  BY <1>2, <1>3, <1>4, <1>5, <1>6, <1>7, <1>8

\* pump(): what the session has come to, what is left unread, and the two ends.
LEMMA PumpsRight ==
  ASSUME TerminalTypes, SessionRight, session, NEW p \in Pumps
  PROVE  /\ p.ssh \in SshStates /\ p.pending \in Seq(Items) /\ p.wire \in Seq(Items)
         /\ p.gone \in BOOLEAN /\ (p.gone => p.wire = <<>> /\ server.ended)
         /\ Stage(p.ssh, p.pending \o p.wire, server)
         /\ ssh.st \in {"closed", "connecting", "hostkey"} => p.ssh.st \in {"closed", "connecting", "hostkey"}
         /\ ssh.st = "open" => p.ssh.st \in {"open", "closed"}
         /\ ssh.st = "open" /\ p.ssh.st = "closed" => p.ssh.shown = server.sent
<1> PICK a \in Arrivals :
      \E n \in MayTake(a.pending) :
        p = [ssh |-> AtEnd(Fed(ssh, SubSeq(a.pending, 1, n)), a, SubSeq(a.pending, n + 1, Len(a.pending))),
             pending |-> SubSeq(a.pending, n + 1, Len(a.pending)), gone |-> a.gone, wire |-> a.wire]
  BY Zenon DEF Pumps
<1> PICK n \in MayTake(a.pending) :
      p = [ssh |-> AtEnd(Fed(ssh, SubSeq(a.pending, 1, n)), a, SubSeq(a.pending, n + 1, Len(a.pending))),
           pending |-> SubSeq(a.pending, n + 1, Len(a.pending)), gone |-> a.gone, wire |-> a.wire]
  OBVIOUS
<1> DEFINE items == SubSeq(a.pending, 1, n)
           left == SubSeq(a.pending, n + 1, Len(a.pending))
           rest == left \o a.wire
           s == Fed(ssh, items)
<1>1. /\ ssh \in SshStates /\ server \in Servers /\ server.wire \in Seq(Items) /\ pending \in Seq(Items)
      /\ Stage(ssh, Unread, server) /\ gone \in BOOLEAN /\ (gone => server.wire = <<>> /\ server.ended)
  BY DEF TerminalTypes, SessionRight, Servers
<1>2. /\ a.pending \in Seq(Items) /\ a.wire \in Seq(Items) /\ a.gone \in BOOLEAN
      /\ a.pending \o a.wire = Unread /\ (a.gone => a.wire = <<>> /\ server.ended)
  <2>1. CASE a = [gone |-> gone, pending |-> pending, wire |-> server.wire]
    BY <1>1, <2>1 DEF Unread
  <2>2. CASE a = [gone |-> FALSE, pending |-> pending \o server.wire, wire |-> <<>>]
    <3>1. a.gone = FALSE /\ a.pending = Unread /\ a.wire = <<>>
      BY <2>2 DEF Unread
    <3>2. Unread \in Seq(Items) /\ <<>> \in Seq(Items)
      BY <1>1, ConcatProperties DEF Unread
    <3>3. Unread \o <<>> = Unread
      BY <3>2, ConcatEmptySeq
    <3> QED
      BY <3>1, <3>2, <3>3
  <2>3. CASE server.wire = <<>> /\ server.ended /\ a = [gone |-> TRUE, pending |-> pending, wire |-> <<>>]
    BY <1>1, <2>3 DEF Unread
  <2> QED
    BY <2>1, <2>2, <2>3 DEF Arrivals
<1>3. n \in 0..Len(a.pending) /\ (n = 0 \/ ssh.st \notin {"hostkey", "password", "closed"})
  BY <1>2, LenProperties DEF MayTake
<1>4. /\ items \in Seq(Items) /\ Len(items) = n /\ left \in Seq(Items) /\ rest \in Seq(Items)
      /\ Len(rest) = Len(Unread) - n
      /\ \A i \in 1..n : items[i] = Unread[i]
      /\ \A i \in 1..(Len(Unread) - n) : rest[i] = Unread[n + i]
  <2>1. a.pending \in Seq(Items) /\ a.wire \in Seq(Items) /\ n \in 0..Len(a.pending)
    BY <1>2, <1>3
  <2>2. Parted(a.pending \o a.wire, n, items, left, rest, Items)
    BY <2>1, TakenApart, Zenon
  <2> HIDE DEF items, left, rest
  <2>3. Parted(Unread, n, items, left, rest, Items)
    BY <1>2, <2>2
  <2> QED
    BY <2>3 DEF Parted
<1>5. Unread \in Seq(Items) /\ Len(Unread) \in Nat /\ n \in Nat /\ Len(left) \in Nat
  BY <1>1, <1>3, <1>4, ConcatProperties, LenProperties DEF Unread
<1> HIDE DEF items, left, rest
<1>6. n <= Len(Unread) /\ Len(rest) = Len(Unread) - n
  BY <1>4, <1>5, LenProperties
<1>7. /\ s \in SshStates /\ Stage(s, rest, server)
      /\ ssh.st \in {"closed", "connecting", "hostkey"} => s.st \in {"closed", "connecting", "hostkey"}
      /\ ssh.st = "open" => s.st = "open"
  <2>1. /\ Len(items) <= Len(Unread) /\ Len(rest) = Len(Unread) - Len(items)
        /\ \A i \in 1..Len(items) : items[i] = Unread[i]
        /\ \A i \in 1..Len(rest) : rest[i] = Unread[Len(items) + i]
        /\ Len(items) = 0 \/ ssh.st \notin {"hostkey", "password", "closed"}
    BY <1>3, <1>4, <1>6
  <2> QED
    BY <1>1, <1>4, <1>5, <2>1, StageFed, ZenonT(30)
<1> HIDE DEF s
<1>8. /\ p.ssh = AtEnd(s, a, left) /\ p.pending = left /\ p.gone = a.gone /\ p.wire = a.wire
  BY DEF s, items, left
<1>9. CASE a.gone = TRUE /\ left = <<>>
  <2>1. p.ssh = SshClosed(s, "lost")
    BY <1>8, <1>9 DEF AtEnd
  <2>2. p.ssh \in SshStates /\ p.ssh.st = "closed" /\ p.ssh.shown = s.shown
    BY <1>7, <2>1, ClosedTypes
  <2>3. Stage(p.ssh, p.pending \o p.wire, server)
    BY <2>2 DEF Stage
  <2>4. ASSUME ssh.st = "open" PROVE p.ssh.shown = server.sent
    <3>1. a.wire = <<>> /\ rest = <<>>
      BY <1>2, <1>9 DEF rest
    <3>2. Len(rest) = 0 /\ s.st = "open"
      BY <1>7, <2>4, <3>1
    <3>3. s.shown + Len(rest) = server.sent
      BY <1>7, <3>2 DEF Stage
    <3> QED
      BY <1>7, <2>2, <3>2, <3>3 DEF SshStates
  <2> QED
    BY <1>2, <1>4, <1>8, <2>2, <2>3, <2>4
<1>10. CASE ~(a.gone /\ left = <<>>)
  <2>1. p.ssh = s /\ p.pending \o p.wire = rest
    BY <1>8, <1>10 DEF AtEnd, rest
  <2> QED
    BY <1>2, <1>4, <1>7, <1>8, <2>1
<1> QED
  BY <1>2, <1>9, <1>10

\* teardown(): the session is over, its protocol closed.
LEMMA TornDown ==
  ASSUME TerminalTypes, SessionRight, NEW s \in SshStates, TearDown(s)
  PROVE  /\ ssh' \in SshStates /\ session' = FALSE /\ sshTerminal' = FALSE
         /\ s.st = "closed" => ssh' = s
<1>1. session \in BOOLEAN /\ sshTerminal \in BOOLEAN /\ (sshTerminal => session)
  BY DEF TerminalTypes, SessionRight
<1>2. SshClosed(s, "none") \in SshStates /\ (s.st = "closed" => SshClosed(s, "none") = s)
  BY ClosedTypes
<1>3. CASE session = TRUE
  BY <1>2, <1>3 DEF TearDown
<1>4. CASE session = FALSE
  BY <1>1, <1>4 DEF TearDown
<1> QED
  BY <1>1, <1>3, <1>4

\* What the server's own words do to the stage.
LEMMA TalkStaged ==
  ASSUME TerminalTypes, SessionRight, session, NEW item \in Items, NEW sv \in Servers,
         \/ item = "kex" /\ server.next = "kex"
         \/ item \in {"ask", "ok", "deny"} /\ server.next = "auth" /\ ClientAnswered
         \/ item = "output" /\ server.next = "open",
         sv.sent = IF item = "output" THEN server.sent + 1 ELSE server.sent,
         sv.next = IF item \in {"kex", "ask"} THEN "auth" ELSE "open"
  PROVE  Stage(ssh, pending \o Append(server.wire, item), sv)
<1>1. pending \in Seq(Items) /\ server.wire \in Seq(Items) /\ server.sent \in Nat /\ Stage(ssh, Unread, server)
      /\ ssh.shown \in Nat
  BY DEF TerminalTypes, SessionRight, Servers, SshStates
<1>2. PICK q : q = Unread
  OBVIOUS
<1>3. PICK r : r = pending \o Append(server.wire, item)
  OBVIOUS
<1>4. /\ Len(q) \in Nat /\ Len(r) = Len(q) + 1 /\ r[Len(q) + 1] = item
      /\ \A i \in 1..Len(q) : r[i] = q[i]
  <2>1. Grown(pending \o server.wire, pending \o Append(server.wire, item), item, Items)
    BY <1>1, GrownLast, Zenon
  <2>2. Grown(q, r, item, Items)
    BY <1>2, <1>3, <2>1 DEF Unread
  <2> QED
    BY <2>2 DEF Grown
<1>5. Stage(ssh, q, server)
  BY <1>1, <1>2
<1>6. CASE item = "kex" /\ server.next = "kex"
  <2>1. sv.sent = server.sent /\ sv.next = "auth"
    BY <1>6
  <2>2. ssh.st \notin {"hostkey", "password", "auth", "open"}
    BY <1>5, <1>6 DEF Stage
  <2>3. ssh.st = "connecting" => server.sent = 0 /\ ssh.shown = 0 /\ Len(q) = 0
    BY <1>5, <1>6 DEF Stage
  <2>4. Stage(ssh, r, sv)
    BY <1>4, <1>6, <2>1, <2>2, <2>3 DEF Stage
  <2> QED
    BY <1>3, <2>4
<1>7. CASE item \in {"ask", "ok", "deny"} /\ server.next = "auth" /\ ClientAnswered
  <2>1. ssh.st = "auth" /\ server.wire = <<>> /\ pending = <<>>
    BY <1>7 DEF ClientAnswered
  <2>2. Len(q) = 0
    BY <1>2, <2>1 DEF Unread
  <2>3. ssh.shown = 0 /\ server.sent = 0
    BY <1>5, <1>7, <2>1, <2>2 DEF Stage
  <2>4. sv.sent = 0 /\ Len(r) = 1 /\ r[1] = item
    BY <1>4, <1>7, <2>2, <2>3
  <2>5. CASE item = "ask"
    <3>1. sv.next = "auth"
      BY <2>5
    <3>2. Stage(ssh, r, sv)
      BY <2>1, <2>3, <2>4, <2>5, <3>1 DEF Stage
    <3> QED
      BY <1>3, <3>2
  <2>6. CASE item \in {"ok", "deny"}
    <3>1. sv.next = "open"
      BY <2>6
    <3>2. Stage(ssh, r, sv)
      BY <2>1, <2>3, <2>4, <2>6, <3>1 DEF Stage
    <3> QED
      BY <1>3, <3>2
  <2> QED
    BY <1>7, <2>5, <2>6
<1>8. CASE item = "output" /\ server.next = "open"
  <2>1. sv.sent = server.sent + 1 /\ sv.next = "open"
    BY <1>8
  <2>2. ssh.st \notin {"connecting", "hostkey", "password"}
    BY <1>5, <1>8 DEF Stage
  <2>3. CASE ssh.st = "auth"
    <3>1. ssh.shown = 0 /\ Len(q) = server.sent + 1 /\ q[1] \in {"ok", "deny"} /\ \A i \in 2..Len(q) : q[i] = "output"
      BY <1>5, <1>8, <2>3 DEF Stage
    <3>0. Len(r) = sv.sent + 1 /\ 1 \in 1..Len(q)
      BY <1>1, <1>4, <2>1, <3>1
    <3>2. Len(r) = sv.sent + 1 /\ r[1] \in {"ok", "deny"}
      BY <1>4, <3>0, <3>1
    <3>3. ASSUME NEW i \in 2..Len(r) PROVE r[i] = "output"
      <4>1. i = Len(q) + 1 \/ i \in 2..Len(q)
        BY <1>4
      <4> QED
        BY <1>4, <1>8, <3>1, <4>1
    <3>4. Stage(ssh, r, sv)
      BY <2>1, <2>3, <3>1, <3>2, <3>3 DEF Stage
    <3> QED
      BY <1>3, <3>4
  <2>4. CASE ssh.st = "open"
    <3>1. ssh.shown + Len(q) = server.sent /\ \A i \in 1..Len(q) : q[i] = "output"
      BY <1>5, <2>4 DEF Stage
    <3>2. ssh.shown + Len(r) = sv.sent
      BY <1>1, <1>4, <2>1, <3>1
    <3>3. ASSUME NEW i \in 1..Len(r) PROVE r[i] = "output"
      <4>1. i = Len(q) + 1 \/ i \in 1..Len(q)
        BY <1>4
      <4> QED
        BY <1>4, <1>8, <3>1, <4>1
    <3>4. Stage(ssh, r, sv)
      BY <2>1, <2>4, <3>2, <3>3 DEF Stage
    <3> QED
      BY <1>3, <3>4
  <2>5. CASE ssh.st \notin {"auth", "open"}
    <3>1. Stage(ssh, r, sv)
      BY <2>2, <2>5 DEF Stage
    <3> QED
      BY <1>3, <3>1
  <2> QED
    BY <2>3, <2>4, <2>5
<1> QED
  BY <1>6, <1>7, <1>8

\* A command of BASIC's, or a turn of the worker's: no terminal is open.
SshMoves ==
  /\ ssh' \in SshStates /\ server' \in Servers /\ pending' \in Seq(Items)
  /\ session' \in BOOLEAN /\ sshTerminal' = FALSE /\ gone' \in BOOLEAN /\ stepping' \in BOOLEAN
  /\ host' \in Hosts /\ knownHosts' \in [Hosts -> HostKeys \cup {NoKey}]

SessionMoves ==
  /\ session' => Stage(ssh', Unread', server') /\ host' = dialled'
  /\ session' /\ gone' => server'.wire = <<>> /\ server'.ended
  /\ stepping' => session'

LEMMA BasicKept ==
  ASSUME TerminalInv, rom = "basic", SshFrame, SshMoves, SessionMoves, HostsAreKnown'
  PROVE  TerminalInv'
<1>1. rom' = "basic" /\ cells' = cells /\ histAt' = histAt
  BY DEF SshFrame, histVars
<1>2. TerminalTypes'
  BY <1>1 DEF TerminalInv, TerminalTypes, SshMoves
<1>3. histAt = 0
  BY DEF TerminalInv, SessionRight
<1>4. SessionRight'
  BY <1>1, <1>3 DEF SessionRight, SessionMoves, SshMoves
<1>5. TerminalsEndWell'
  BY <1>1 DEF TerminalsEndWell
<1> QED
  BY <1>2, <1>4, <1>5 DEF TerminalInv

\* What BASIC's commands find.
LEMMA BasicFinds ==
  ASSUME TerminalInv, rom = "basic"
  PROVE  /\ ssh \in SshStates /\ server \in Servers /\ pending \in Seq(Items) /\ session \in BOOLEAN
         /\ sshTerminal = FALSE /\ gone \in BOOLEAN /\ stepping \in BOOLEAN /\ host \in Hosts
         /\ knownHosts \in [Hosts -> HostKeys \cup {NoKey}]
         /\ session => Stage(ssh, Unread, server) /\ host = dialled
         /\ session /\ gone => server.wire = <<>> /\ server.ended
         /\ stepping => session
         /\ session /\ ssh.st \in {"auth", "password", "open"} => <<dialled, server.key>> \in accepted
         /\ \A h \in Hosts : knownHosts[h] = NoKey \/ <<h, knownHosts[h]>> \in accepted
<1>1. TerminalTypes /\ SessionRight /\ HostsAreKnown
  BY DEF TerminalInv
<1> QED
  BY <1>1 DEF TerminalTypes, SessionRight, HostsAreKnown

LEMMA OpenKept ==
  ASSUME TerminalInv, NEW h \in Hosts, NEW how \in {"connected", "failed"}, SshOpen(h, how)
  PROVE  TerminalInv'
<1>1. /\ rom = "basic" /\ stepping = FALSE /\ SshFrame /\ stepping' = stepping /\ knownHosts' = knownHosts
      /\ accepted' = accepted /\ host' = h
  <2>1. MayCommand /\ SshFrame /\ stepping' = stepping /\ knownHosts' = knownHosts /\ accepted' = accepted /\ host' = h
    BY DEF SshOpen
  <2> QED
    BY <2>1, BasicFinds DEF MayCommand
<1>2. CASE how = "connected"
  <2>1. /\ ssh' = Fresh /\ session' = TRUE /\ sshTerminal' = FALSE /\ pending' = <<>> /\ gone' = FALSE
        /\ dialled' = h /\ \E k \in HostKeys : server' = [NoServer EXCEPT !.key = k]
    BY <1>2 DEF SshOpen
  <2>2. PICK k \in HostKeys : server' = [NoServer EXCEPT !.key = k]
    BY <2>1
  <2>3. /\ server' \in Servers /\ server'.wire = <<>> /\ server'.sent = 0 /\ server'.next = "kex"
        /\ server'.ended = FALSE
    <3> PICK none : none = <<>>
      OBVIOUS
    <3>1. none \in Seq(Items)
      OBVIOUS
    <3>2. NoServer = [key |-> NoKey, wire |-> none, sent |-> 0, ended |-> FALSE, next |-> "kex"]
      BY Zenon DEF NoServer
    <3>3. server' = [key |-> k, wire |-> none, sent |-> 0, ended |-> FALSE, next |-> "kex"]
      BY <2>2, <3>2
    <3>4. server' \in Servers
      BY <3>1, <3>3 DEF Servers
    <3> QED
      BY <3>3, <3>4
  <2>4. ssh' \in SshStates /\ ssh'.st = "connecting" /\ ssh'.shown = 0 /\ <<>> \in Seq(Items)
    BY <2>1 DEF Fresh, SshStates
  <2>5. Len(Unread') = 0
    BY <2>1, <2>3 DEF Unread
  <2>6. Stage(ssh', Unread', server')
    BY <2>3, <2>4, <2>5 DEF Stage
  <2>7. SshMoves
    BY <1>1, <2>1, <2>3, <2>4, BasicFinds DEF SshMoves
  <2>8. SessionMoves
    BY <1>1, <2>1, <2>6 DEF SessionMoves
  <2>9. HostsAreKnown'
    BY <1>1, <2>4, BasicFinds DEF HostsAreKnown
  <2> QED
    BY <1>1, <2>7, <2>8, <2>9, BasicKept
<1>3. CASE how # "connected"
  <2>1. TearDown(ssh) /\ pending' = pending /\ gone' = gone /\ server' = server
    BY <1>3 DEF SshOpen
  <2>2. ssh' \in SshStates /\ session' = FALSE /\ sshTerminal' = FALSE
    BY <1>1, <2>1, BasicFinds, TornDown DEF TerminalInv
  <2>3. SshMoves
    BY <1>1, <2>1, <2>2, BasicFinds DEF SshMoves
  <2>4. SessionMoves
    BY <1>1, <2>2 DEF SessionMoves
  <2>5. HostsAreKnown'
    BY <1>1, <2>2, BasicFinds DEF HostsAreKnown
  <2> QED
    BY <1>1, <2>3, <2>4, <2>5, BasicKept
<1> QED
  BY <1>2, <1>3

LEMMA CloseKept ==
  ASSUME TerminalInv, SshClose
  PROVE  TerminalInv'
<1>1. /\ rom = "basic" /\ stepping = FALSE /\ SshFrame /\ stepping' = stepping /\ knownHosts' = knownHosts
      /\ accepted' = accepted /\ host' = host
  <2>1. MayCommand /\ SshFrame /\ stepping' = stepping /\ knownHosts' = knownHosts /\ accepted' = accepted
        /\ host' = host
    BY DEF SshClose
  <2> QED
    BY <2>1, BasicFinds DEF MayCommand
<1>2. TearDown(ssh) /\ pending' = pending /\ gone' = gone /\ server' = server
  BY DEF SshClose
<1>3. ssh' \in SshStates /\ session' = FALSE /\ sshTerminal' = FALSE
  BY <1>1, <1>2, BasicFinds, TornDown DEF TerminalInv
<1>4. SshMoves
  BY <1>1, <1>2, <1>3, BasicFinds DEF SshMoves
<1>5. SessionMoves
  BY <1>1, <1>3 DEF SessionMoves
<1>6. HostsAreKnown'
  BY <1>1, <1>3, BasicFinds DEF HostsAreKnown
<1> QED
  BY <1>1, <1>4, <1>5, <1>6, BasicKept

LEMMA StepKept ==
  ASSUME TerminalInv, SshStep
  PROVE  TerminalInv'
<1>1. /\ rom = "basic" /\ session /\ stepping' = TRUE /\ SshFrame
      /\ UNCHANGED <<ssh, session, sshTerminal, pending, gone, host, knownHosts, server, dialled, accepted>>
  BY DEF SshStep, MayCommand
<1>2. Unread' = Unread
  BY <1>1 DEF Unread
<1>3. SshMoves
  BY <1>1, BasicFinds DEF SshMoves
<1>4. SessionMoves
  BY <1>1, <1>2, BasicFinds DEF SessionMoves
<1>5. HostsAreKnown'
  BY <1>1, BasicFinds DEF HostsAreKnown
<1> QED
  BY <1>1, <1>3, <1>4, <1>5, BasicKept

LEMMA PasswordKept ==
  ASSUME TerminalInv, SshPassword
  PROVE  TerminalInv'
<1>1. /\ rom = "basic" /\ session /\ ssh.st = "password" /\ Stays([ssh EXCEPT !.st = "auth"]) /\ SshFrame
      /\ UNCHANGED <<pending, gone, host, knownHosts, server, stepping, dialled, accepted>>
  BY DEF SshPassword, MayCommand
<1>2. ssh' = [ssh EXCEPT !.st = "auth"] /\ session' = session /\ sshTerminal' = sshTerminal
  BY <1>1 DEF Stays
<1>3. ssh \in SshStates /\ Stage(ssh, Unread, server) /\ Unread' = Unread
  BY <1>1, BasicFinds DEF Unread
<1>4. ssh' \in SshStates /\ ssh'.st = "auth" /\ ssh'.shown = ssh.shown
  BY <1>2, <1>3 DEF SshStates
<1>5. Stage(ssh', Unread', server')
  BY <1>1, <1>3, <1>4 DEF Stage
<1>6. SshMoves
  BY <1>1, <1>2, <1>4, BasicFinds DEF SshMoves
<1>7. SessionMoves
  BY <1>1, <1>2, <1>5, BasicFinds DEF SessionMoves
<1>8. HostsAreKnown'
  BY <1>1, <1>2, <1>4, BasicFinds DEF HostsAreKnown
<1> QED
  BY <1>1, <1>6, <1>7, <1>8, BasicKept

\* The user's answer to a host's key, or a known key's.
LEMMA AnsweredStaged ==
  ASSUME NEW s \in SshStates, s.st = "hostkey", NEW q, NEW sv, Stage(s, q, sv), NEW yes \in BOOLEAN
  PROVE  /\ HostKeyAnswered(s, yes) \in SshStates /\ Stage(HostKeyAnswered(s, yes), q, sv)
         /\ yes = FALSE => HostKeyAnswered(s, yes).st = "closed"
<1>1. CASE yes = TRUE
  <2>1. HostKeyAnswered(s, yes) = [s EXCEPT !.st = "auth"]
    BY <1>1 DEF HostKeyAnswered
  <2>2. HostKeyAnswered(s, yes) \in SshStates /\ HostKeyAnswered(s, yes).st = "auth"
        /\ HostKeyAnswered(s, yes).shown = s.shown
    BY <2>1 DEF SshStates
  <2>3. Stage(HostKeyAnswered(s, yes), q, sv)
    BY <2>2 DEF Stage
  <2> QED
    BY <1>1, <2>2, <2>3
<1>2. CASE yes = FALSE
  <2>1. HostKeyAnswered(s, yes) = SshClosed(s, "rejected")
    BY <1>2 DEF HostKeyAnswered
  <2>2. HostKeyAnswered(s, yes) \in SshStates /\ HostKeyAnswered(s, yes).st = "closed"
    BY <2>1, ClosedTypes
  <2>3. Stage(HostKeyAnswered(s, yes), q, sv)
    BY <2>2 DEF Stage
  <2> QED
    BY <1>2, <2>2, <2>3
<1> QED
  BY <1>1, <1>2

LEMMA AnswerKept ==
  ASSUME TerminalInv, NEW yes \in BOOLEAN, SshAnswer(yes)
  PROVE  TerminalInv'
<1>1. /\ rom = "basic" /\ session /\ ssh.st = "hostkey" /\ SshFrame
      /\ UNCHANGED <<pending, gone, host, server, stepping, dialled>>
      /\ knownHosts' = (IF yes THEN [knownHosts EXCEPT ![host] = server.key] ELSE knownHosts)
      /\ accepted' = (IF yes THEN accepted \cup {<<dialled, server.key>>} ELSE accepted)
      /\ ssh' = HostKeyAnswered(ssh, yes) /\ session' = session /\ sshTerminal' = sshTerminal
  BY DEF SshAnswer, MayCommand, Stays
<1>2. /\ ssh \in SshStates /\ Stage(ssh, Unread, server) /\ Unread' = Unread /\ host = dialled /\ host \in Hosts
      /\ server.key \in HostKeys \cup {NoKey} /\ knownHosts \in [Hosts -> HostKeys \cup {NoKey}]
      /\ \A h \in Hosts : knownHosts[h] = NoKey \/ <<h, knownHosts[h]>> \in accepted
  BY <1>1, BasicFinds DEF Unread, Servers
<1>3. /\ ssh' \in SshStates /\ Stage(ssh', Unread', server')
      /\ yes = FALSE => ssh'.st = "closed"
  BY <1>1, <1>2, AnsweredStaged
<1>4. SshMoves
  BY <1>1, <1>2, <1>3, BasicFinds DEF SshMoves
<1>5. SessionMoves
  BY <1>1, <1>3, BasicFinds DEF SessionMoves
<1>6. HostsAreKnown'
  <2>1. CASE yes = TRUE
    BY <1>1, <1>2, <2>1 DEF HostsAreKnown
  <2>2. CASE yes = FALSE
    BY <1>1, <1>2, <1>3, <2>2 DEF HostsAreKnown
  <2> QED
    BY <2>1, <2>2
<1> QED
  BY <1>1, <1>4, <1>5, <1>6, BasicKept

LEMMA ForgottenKept ==
  ASSUME TerminalInv, NEW hs, SshForget(hs)
  PROVE  TerminalInv'
<1>1. /\ rom = "basic" /\ SshFrame
      /\ UNCHANGED <<ssh, session, sshTerminal, pending, gone, host, server, stepping, dialled, accepted>>
      /\ knownHosts' = [h \in Hosts |-> IF h \in hs THEN NoKey ELSE knownHosts[h]]
  BY DEF SshForget, MayCommand
<1>2. Unread' = Unread
  BY <1>1 DEF Unread
<1>3. SshMoves
  BY <1>1, BasicFinds DEF SshMoves
<1>4. SessionMoves
  BY <1>1, <1>2, BasicFinds DEF SessionMoves
<1>5. HostsAreKnown'
  <2>1. \A h \in Hosts : knownHosts'[h] = NoKey \/ knownHosts'[h] = knownHosts[h]
    BY <1>1
  <2> QED
    BY <1>1, <2>1, BasicFinds DEF HostsAreKnown
<1> QED
  BY <1>1, <1>3, <1>4, <1>5, BasicKept

\* pump(), as the worker and the terminal's poll use it.
LEMMA PumpedRight ==
  ASSUME TerminalInv, session, NEW p \in Pumps, Pumped(p)
  PROVE  /\ p.ssh \in SshStates /\ server' \in Servers /\ pending' \in Seq(Items) /\ gone' \in BOOLEAN
         /\ server'.key = server.key /\ server'.sent = server.sent
         /\ (gone' => server'.wire = <<>> /\ server'.ended)
         /\ Stage(p.ssh, Unread', server')
         /\ p.ssh.st \in {"auth", "password", "open"} => <<dialled, server.key>> \in accepted
         /\ ssh.st = "open" => p.ssh.st \in {"open", "closed"}
         /\ ssh.st = "open" /\ p.ssh.st = "closed" => p.ssh.shown = server.sent
<1>1. /\ TerminalTypes /\ SessionRight /\ HostsAreKnown
      /\ server' = [server EXCEPT !.wire = p.wire] /\ pending' = p.pending /\ gone' = p.gone
  BY DEF TerminalInv, Pumped
<1>2. /\ p.ssh \in SshStates /\ p.pending \in Seq(Items) /\ p.wire \in Seq(Items)
      /\ p.gone \in BOOLEAN /\ (p.gone => p.wire = <<>> /\ server.ended)
      /\ Stage(p.ssh, p.pending \o p.wire, server)
      /\ ssh.st \in {"closed", "connecting", "hostkey"} => p.ssh.st \in {"closed", "connecting", "hostkey"}
      /\ ssh.st = "open" => p.ssh.st \in {"open", "closed"}
      /\ ssh.st = "open" /\ p.ssh.st = "closed" => p.ssh.shown = server.sent
  BY <1>1, PumpsRight
<1>3. server \in Servers /\ ssh \in SshStates
  BY <1>1 DEF TerminalTypes
<1>4. /\ server' \in Servers /\ server'.wire = p.wire /\ server'.key = server.key
      /\ server'.sent = server.sent /\ server'.next = server.next /\ server'.ended = server.ended
  BY <1>1, <1>2, <1>3 DEF Servers
<1>5. Unread' = p.pending \o p.wire
  BY <1>1, <1>4 DEF Unread
<1>6. Stage(p.ssh, Unread', server')
  BY <1>2, <1>4, <1>5 DEF Stage
<1>7. ssh.st \in {"closed", "connecting", "hostkey"} \/ ssh.st \in {"auth", "password", "open"}
  BY <1>3 DEF SshStates
<1>8. p.ssh.st \in {"auth", "password", "open"} => <<dialled, server.key>> \in accepted
  BY <1>1, <1>2, <1>7 DEF HostsAreKnown
<1> QED
  BY <1>1, <1>2, <1>4, <1>6, <1>8

LEMMA TurnKept ==
  ASSUME TerminalInv, StepTurn
  PROVE  TerminalInv'
<1>1. session /\ rom = "basic"
  BY DEF TerminalInv, SessionRight, StepTurn
<1>2. PICK p \in Pumps :
       /\ Pumped(p)
       /\ CASE p.ssh.st = "hostkey" /\ ~Unknown -> Checked(p.ssh) /\ stepping' = TRUE
            [] p.ssh.st = "closed" -> TearDown(p.ssh) /\ stepping' = FALSE
            [] p.ssh.st \in {"password", "open"} \/ (p.ssh.st = "hostkey" /\ Unknown) ->
                 Stays(p.ssh) /\ UNCHANGED sshError /\ stepping' = FALSE
            [] OTHER -> Stays(p.ssh) /\ UNCHANGED sshError /\ stepping' \in BOOLEAN
  BY DEF StepTurn
<1>3. /\ p.ssh \in SshStates /\ server' \in Servers /\ pending' \in Seq(Items) /\ gone' \in BOOLEAN
      /\ server'.key = server.key
      /\ (gone' => server'.wire = <<>> /\ server'.ended)
      /\ Stage(p.ssh, Unread', server')
      /\ p.ssh.st \in {"auth", "password", "open"} => <<dialled, server.key>> \in accepted
  BY <1>1, <1>2, PumpedRight
<1>4. SshFrame /\ UNCHANGED <<host, knownHosts, dialled, accepted>>
  BY DEF StepTurn
<1>5. host = dialled
  BY <1>1, BasicFinds
<1>6. CASE Checked(p.ssh) /\ stepping' = TRUE /\ p.ssh.st = "hostkey" /\ ~Unknown
  <2>1. PICK yes \in BOOLEAN : yes = (knownHosts[host] = server.key)
    OBVIOUS
  <2>2. ssh' = HostKeyAnswered(p.ssh, yes) /\ session' = session /\ sshTerminal' = sshTerminal
    BY <1>6, <2>1 DEF Checked, Stays
  <2>3. /\ ssh' \in SshStates /\ Stage(ssh', Unread', server')
        /\ yes = FALSE => ssh'.st = "closed"
    BY <1>3, <1>6, <2>2, AnsweredStaged
  <2>4. yes = TRUE => <<dialled, server.key>> \in accepted
    <3>1. knownHosts[host] # NoKey /\ host \in Hosts
      BY <1>1, <1>6, BasicFinds DEF Unknown
    <3> QED
      BY <1>1, <1>5, <2>1, <3>1, BasicFinds
  <2>5. SshMoves
    BY <1>1, <1>3, <1>4, <1>6, <2>2, <2>3, BasicFinds DEF SshMoves
  <2>6. SessionMoves
    BY <1>1, <1>3, <1>4, <1>5, <2>2, <2>3 DEF SessionMoves
  <2>7. HostsAreKnown'
    <3>1. session' /\ ssh'.st \in {"auth", "password", "open"} => <<dialled, server.key>> \in accepted
      BY <2>3, <2>4
    <3> QED
      BY <1>1, <1>3, <1>4, <3>1, BasicFinds DEF HostsAreKnown
  <2> QED
    BY <1>1, <1>4, <2>5, <2>6, <2>7, BasicKept
<1>7. CASE TearDown(p.ssh) /\ stepping' = FALSE
  <2>1. ssh' \in SshStates /\ session' = FALSE /\ sshTerminal' = FALSE
    BY <1>3, <1>7, TornDown DEF TerminalInv
  <2>2. SshMoves
    BY <1>1, <1>3, <1>4, <1>7, <2>1, BasicFinds DEF SshMoves
  <2>3. SessionMoves
    BY <1>7, <2>1 DEF SessionMoves
  <2>4. HostsAreKnown'
    BY <1>1, <1>4, <2>1, BasicFinds DEF HostsAreKnown
  <2> QED
    BY <1>1, <1>4, <2>2, <2>3, <2>4, BasicKept
<1>8. CASE Stays(p.ssh) /\ stepping' \in BOOLEAN
  <2>1. ssh' = p.ssh /\ session' = session /\ sshTerminal' = sshTerminal
    BY <1>8 DEF Stays
  <2>2. SshMoves
    BY <1>1, <1>3, <1>4, <1>8, <2>1, BasicFinds DEF SshMoves
  <2>3. SessionMoves
    BY <1>1, <1>3, <1>4, <1>5, <2>1 DEF SessionMoves
  <2>4. HostsAreKnown'
    BY <1>1, <1>3, <1>4, <2>1, BasicFinds DEF HostsAreKnown
  <2> QED
    BY <1>1, <1>4, <2>2, <2>3, <2>4, BasicKept
<1> QED
  BY <1>2, <1>6, <1>7, <1>8

\* TERM gives the session the data window.
LEMMA TermKept ==
  ASSUME TerminalInv, SshTerm
  PROVE  TerminalInv'
<1>1. /\ rom = "basic" /\ stepping = FALSE /\ session /\ ssh.st = "open"
      /\ cells' = [cells EXCEPT !.closed = "no"] /\ sshTerminal' = TRUE /\ rom' = "ssh"
      /\ UNCHANGED <<ssh, session, pending, gone, host, knownHosts, server, stepping, dialled, accepted, histAt>>
  <2>1. /\ MayCommand /\ session /\ ssh.st = "open"
        /\ cells' = [cells EXCEPT !.closed = "no"] /\ sshTerminal' = TRUE /\ rom' = "ssh"
        /\ UNCHANGED <<ssh, session, pending, gone, host, knownHosts, server, stepping, dialled, accepted, histVars>>
    BY DEF SshTerm
  <2> QED
    BY <2>1, BasicFinds DEF MayCommand, histVars
<1>2. Unread' = Unread
  BY <1>1 DEF Unread
<1>3. cells = [breaks |-> cells.breaks, line |-> cells.line, closed |-> cells.closed, back |-> cells.back]
  BY DEF TerminalInv, TerminalTypes
<1>4. /\ cells' = [breaks |-> cells'.breaks, line |-> cells'.line, closed |-> cells'.closed, back |-> cells'.back]
      /\ cells'.closed = "no"
  BY <1>1, <1>3
<1>5. TerminalTypes'
  BY <1>1, <1>4 DEF TerminalInv, TerminalTypes
<1>6. histAt = 0
  BY <1>1 DEF TerminalInv, SessionRight
<1>7. SessionRight'
  BY <1>1, <1>2, <1>4, <1>6, BasicFinds DEF SessionRight
<1>8. HostsAreKnown'
  BY <1>1, BasicFinds DEF HostsAreKnown
<1>9. TerminalsEndWell'
  BY <1>1, <1>4 DEF TerminalsEndWell
<1> QED
  BY <1>5, <1>7, <1>8, <1>9 DEF TerminalInv

\* SshMock::poll().
LEMMA SshPollKept ==
  ASSUME TerminalInv, SshPoll
  PROVE  TerminalInv'
<1>1. /\ sshTerminal /\ session /\ ssh.st = "open" /\ rom = "ssh" /\ cells.closed = "no" /\ stepping = FALSE
      /\ histAt = 0 /\ host = dialled
      /\ cells = [breaks |-> cells.breaks, line |-> cells.line, closed |-> cells.closed, back |-> cells.back]
      /\ host \in Hosts /\ knownHosts \in [Hosts -> HostKeys \cup {NoKey}]
      /\ \A h \in Hosts : knownHosts[h] = NoKey \/ <<h, knownHosts[h]>> \in accepted
  <2>1. sshTerminal /\ session /\ ssh.st = "open" /\ rom = "ssh" /\ cells.closed = "no"
    BY DEF TerminalInv, SessionRight, SshPoll
  <2>2. stepping = FALSE
    BY <2>1 DEF TerminalInv, SessionRight, TerminalTypes
  <2> QED
    BY <2>1, <2>2 DEF TerminalInv, SessionRight, TerminalTypes, HostsAreKnown
<1>2. PICK p \in Pumps, quits \in BOOLEAN :
       LET s == IF quits THEN SshClosed(p.ssh, "none") ELSE p.ssh IN
       /\ Pumped(p)
       /\ cells' = [cells EXCEPT !.line = s.shown, !.closed = IF s.st = "closed" THEN "ended" ELSE @]
       /\ IF s.st = "closed" THEN TearDown(s) ELSE Stays(s) /\ UNCHANGED sshError
  BY DEF SshPoll
<1> DEFINE s == IF quits THEN SshClosed(p.ssh, "none") ELSE p.ssh
<1>3. /\ Pumped(p)
      /\ cells' = [cells EXCEPT !.line = s.shown, !.closed = IF s.st = "closed" THEN "ended" ELSE @]
      /\ IF s.st = "closed" THEN TearDown(s) ELSE Stays(s) /\ UNCHANGED sshError
  BY <1>2
<1>4. /\ UNCHANGED <<host, knownHosts, stepping, dialled, accepted, histAt, rom>>
  BY DEF SshPoll, histVars
<1>5. /\ p.ssh \in SshStates /\ server' \in Servers /\ pending' \in Seq(Items) /\ gone' \in BOOLEAN
      /\ server'.key = server.key /\ server'.sent = server.sent
      /\ (gone' => server'.wire = <<>> /\ server'.ended)
      /\ Stage(p.ssh, Unread', server')
      /\ p.ssh.st \in {"auth", "password", "open"} => <<dialled, server.key>> \in accepted
      /\ p.ssh.st \in {"open", "closed"}
      /\ p.ssh.st = "closed" => p.ssh.shown = server.sent
  BY <1>1, <1>3, PumpedRight
<1>6. /\ s \in SshStates /\ s.st \in {"open", "closed"}
      /\ s.st = "open" => s = p.ssh
      /\ s.st = "closed" /\ s.err = "lost" => s.shown = server.sent
  <2>1. CASE quits = TRUE
    <3>1. s = SshClosed(p.ssh, "none")
      BY <2>1
    <3> HIDE DEF s
    <3>2. s \in SshStates /\ s.st = "closed" /\ (p.ssh.st # "closed" => s.err = "none") /\ (p.ssh.st = "closed" => s = p.ssh)
      BY <1>5, <3>1, ClosedTypes
    <3> QED
      BY <1>5, <3>2
  <2>2. CASE quits = FALSE
    <3>1. s = p.ssh
      BY <2>2
    <3> HIDE DEF s
    <3> QED
      BY <1>5, <3>1
  <2> QED
    BY <2>1, <2>2
<1> HIDE DEF s
<1>7. CASE s.st = "closed"
  <2>1. TearDown(s)
    BY <1>3, <1>7
  <2>2. ssh' = s /\ session' = FALSE /\ sshTerminal' = FALSE
    BY <1>6, <1>7, <2>1, TornDown DEF TerminalInv
  <2>3. /\ cells' = [breaks |-> cells'.breaks, line |-> cells'.line, closed |-> cells'.closed, back |-> cells'.back]
        /\ cells'.closed = "ended" /\ cells'.line = s.shown
    BY <1>1, <1>3, <1>7
  <2>4. TerminalTypes'
    BY <1>1, <1>4, <1>5, <1>6, <2>2, <2>3 DEF TerminalTypes
  <2>5. SessionRight'
    BY <1>1, <1>4, <2>2, <2>3 DEF SessionRight
  <2>6. HostsAreKnown'
    BY <1>1, <1>4, <2>2 DEF HostsAreKnown
  <2>7. TerminalsEndWell'
    BY <1>1, <1>4, <1>5, <1>6, <1>7, <2>2, <2>3 DEF TerminalsEndWell
  <2> QED
    BY <2>4, <2>5, <2>6, <2>7 DEF TerminalInv
<1>8. CASE s.st = "open"
  <2>1. Stays(s) /\ s = p.ssh
    BY <1>3, <1>6, <1>8
  <2>2. ssh' = p.ssh /\ session' = session /\ sshTerminal' = sshTerminal
    BY <2>1 DEF Stays
  <2>3. /\ cells' = [breaks |-> cells'.breaks, line |-> cells'.line, closed |-> cells'.closed, back |-> cells'.back]
        /\ cells'.closed = "no"
    BY <1>1, <1>3, <1>8
  <2>4. TerminalTypes'
    BY <1>1, <1>4, <1>5, <2>2, <2>3 DEF TerminalTypes, TerminalInv
  <2>5. SessionRight'
    BY <1>1, <1>4, <1>5, <1>8, <2>1, <2>2, <2>3 DEF SessionRight
  <2>6. HostsAreKnown'
    BY <1>1, <1>4, <1>5, <2>2 DEF HostsAreKnown
  <2>7. TerminalsEndWell'
    BY <1>1, <1>4, <2>3 DEF TerminalsEndWell
  <2> QED
    BY <2>4, <2>5, <2>6, <2>7 DEF TerminalInv
<1> QED
  BY <1>6, <1>7, <1>8

\* The server's own actions.
LEMMA ServerKept ==
  ASSUME TerminalInv, session, NEW sv \in Servers, server' = sv, sv.key = server.key,
         server.ended = FALSE, Stage(ssh, pending \o sv.wire, sv), sv.wire = <<>> \/ sv.ended = FALSE \/ sv.wire = server.wire,
         UNCHANGED <<ssh, session, sshTerminal, pending, gone, host, knownHosts, stepping, dialled, accepted,
                     histVars, cells, rom>>
  PROVE  TerminalInv'
<1>1. TerminalTypes /\ SessionRight /\ HostsAreKnown /\ TerminalsEndWell
  BY DEF TerminalInv
<1>2. gone = FALSE
  BY <1>1 DEF SessionRight, TerminalTypes
<1>3. Unread' = pending \o sv.wire
  BY DEF Unread
<1>4. histAt' = histAt /\ original' = original
  BY DEF histVars
<1>5. TerminalTypes'
  BY <1>1 DEF TerminalTypes
<1>6. SessionRight'
  BY <1>1, <1>2, <1>3, <1>4 DEF SessionRight
<1>7. HostsAreKnown'
  BY <1>1 DEF HostsAreKnown
<1>8. ~(rom = "ssh" /\ cells.closed = "ended")
  BY <1>1 DEF SessionRight
<1>9. TerminalsEndWell'
  BY <1>1, <1>4, <1>8 DEF TerminalsEndWell
<1> QED
  BY <1>5, <1>6, <1>7, <1>9 DEF TerminalInv

LEMMA TalksKept ==
  ASSUME TerminalInv, ServerTalks
  PROVE  TerminalInv'
<1>1. /\ session /\ ~server.ended /\ TerminalTypes /\ SessionRight
      /\ UNCHANGED <<ssh, session, sshTerminal, pending, gone, host, knownHosts, stepping, dialled, accepted,
                     histVars, cells, rom>>
  BY DEF TerminalInv, ServerTalks
<1>2. server \in Servers /\ server.wire \in Seq(Items) /\ server.ended = FALSE
      /\ server.next \in {"kex", "auth", "open"}
  BY <1>1 DEF TerminalTypes, Servers
<1>3. PICK item \in CASE server.next = "kex" -> {"kex"}
                   [] server.next = "auth" -> IF ClientAnswered THEN {"ask", "ok", "deny"} ELSE {}
                   [] OTHER -> IF server.sent < MaxOutput THEN {"output"} ELSE {} :
       server' = [server EXCEPT
         !.wire = Append(@, item),
         !.sent = IF item = "output" THEN @ + 1 ELSE @,
         !.next = IF item \in {"kex", "ask"} THEN "auth" ELSE "open"]
  BY DEF ServerTalks
<1>4. \/ item = "kex" /\ server.next = "kex"
      \/ item \in {"ask", "ok", "deny"} /\ server.next = "auth" /\ ClientAnswered
      \/ item = "output" /\ server.next = "open"
  BY <1>2, <1>3
<1>5. item \in Items
  BY <1>4 DEF Items
<1>6. Append(server.wire, item) \in Seq(Items)
  BY <1>2, <1>5, AppendProperties
<1>7. PICK sv : sv = server'
  OBVIOUS
<1>8. /\ sv \in Servers /\ sv.wire = Append(server.wire, item) /\ sv.key = server.key /\ sv.ended = FALSE
      /\ sv.sent = (IF item = "output" THEN server.sent + 1 ELSE server.sent)
      /\ sv.next = (IF item \in {"kex", "ask"} THEN "auth" ELSE "open")
  <2>1. PICK w \in Seq(Items) : w = Append(server.wire, item)
    BY <1>6
  <2>2. PICK n \in Nat : n = (IF item = "output" THEN server.sent + 1 ELSE server.sent)
    BY <1>2 DEF Servers
  <2>3. PICK next \in {"kex", "auth", "open"} : next = (IF item \in {"kex", "ask"} THEN "auth" ELSE "open")
    OBVIOUS
  <2>4. sv = [server EXCEPT !.wire = w, !.sent = n, !.next = next]
    BY <1>3, <1>7, <2>1, <2>2, <2>3
  <2>5. /\ sv \in Servers /\ sv.wire = w /\ sv.key = server.key /\ sv.ended = FALSE
        /\ sv.sent = n /\ sv.next = next
    BY <1>2, <2>4 DEF Servers
  <2> QED
    BY <2>1, <2>2, <2>3, <2>5
<1>9. Stage(ssh, pending \o Append(server.wire, item), sv)
  BY <1>1, <1>4, <1>5, <1>8, TalkStaged
<1> QED
  BY <1>1, <1>2, <1>7, <1>8, <1>9, ServerKept

LEMMA EndsItKept ==
  ASSUME TerminalInv, ServerEnds
  PROVE  TerminalInv'
<1>1. /\ session /\ ~server.ended /\ TerminalTypes /\ SessionRight /\ server' = [server EXCEPT !.ended = TRUE]
      /\ UNCHANGED <<ssh, session, sshTerminal, pending, gone, host, knownHosts, stepping, dialled, accepted,
                     histVars, cells, rom>>
  BY DEF TerminalInv, ServerEnds
<1>2. server \in Servers /\ server.ended = FALSE /\ Stage(ssh, Unread, server)
  BY <1>1 DEF TerminalTypes, SessionRight, Servers
<1>3. PICK sv : sv = server'
  OBVIOUS
<1>4. /\ sv \in Servers /\ sv.wire = server.wire /\ sv.key = server.key
      /\ sv.sent = server.sent /\ sv.next = server.next
  BY <1>1, <1>2, <1>3 DEF Servers
<1>5. Stage(ssh, pending \o sv.wire, sv)
  BY <1>2, <1>4 DEF Stage, Unread
<1> QED
  BY <1>1, <1>2, <1>3, <1>4, <1>5, ServerKept

\* The history's commands and keys, and the ROM that comes back from a terminal.
LEMMA HistoryKept ==
  ASSUME TerminalInv, UNCHANGED sshVars, rom' \in {"basic", "ssh", "history"},
         cells' = [breaks |-> cells'.breaks, line |-> cells'.line, closed |-> cells'.closed, back |-> cells'.back],
         sshTerminal => rom' = rom /\ cells' = cells,
         rom' = "ssh" => rom = "ssh" /\ cells'.closed = cells.closed /\ cells'.line = cells.line,
         histAt' # 0 => rom' = "history" /\ cells'.closed = "no",
         rom' = "history" /\ cells'.closed \in {"run", "edit"} => cells'.back = cells'.line,
         rom' = "history" /\ cells'.closed \in {"cancel", "break"} => cells'.back = original',
         stepping => rom' = "basic"
  PROVE  TerminalInv'
<1>1. TerminalTypes /\ SessionRight /\ HostsAreKnown /\ TerminalsEndWell
  BY DEF TerminalInv
<1>2. /\ UNCHANGED <<ssh, session, sshTerminal, sshError, pending, gone, host, knownHosts,
                     server, stepping, dialled, accepted>>
      /\ Unread' = Unread
  BY DEF sshVars, Unread
<1>3. TerminalTypes'
  BY <1>1, <1>2 DEF TerminalTypes
<1>4. SessionRight'
  BY <1>1, <1>2 DEF SessionRight
<1>5. HostsAreKnown'
  BY <1>1, <1>2 DEF HostsAreKnown
<1>6. TerminalsEndWell'
  BY <1>1, <1>2 DEF TerminalsEndWell
<1> QED
  BY <1>3, <1>4, <1>5, <1>6 DEF TerminalInv

LEMMA HistStep ==
  ASSUME TerminalInv, HistNext
  PROVE  TerminalInv'
<1>1. /\ cells = [breaks |-> cells.breaks, line |-> cells.line, closed |-> cells.closed, back |-> cells.back]
      /\ rom \in {"basic", "ssh", "history"} /\ stepping \in BOOLEAN
      /\ stepping => rom = "basic"
      /\ sshTerminal => rom = "ssh" /\ cells.closed = "no"
      /\ histAt # 0 => rom = "history" /\ cells.closed = "no"
      /\ rom = "history" /\ cells.closed \in {"run", "edit"} => cells.back = cells.line
      /\ rom = "history" /\ cells.closed \in {"cancel", "break"} => cells.back = original
  BY DEF TerminalInv, TerminalTypes, SessionRight, TerminalsEndWell
<1>2. ASSUME NEW l \in Lines, HistAdd(l) PROVE TerminalInv'
  <2>1. rom = "basic" /\ UNCHANGED <<histAt, original, sshVars, cells, rom>>
    BY <1>2 DEF HistAdd, MayCommand
  <2> QED
    BY <1>1, <2>1, HistoryKept
<1>3. ASSUME NEW l \in Lines, HistBegin(l) PROVE TerminalInv'
  <2>1. /\ rom = "basic" /\ stepping = FALSE /\ cells' = [cells EXCEPT !.closed = "no", !.line = hist[1]]
        /\ rom' = "history" /\ UNCHANGED sshVars
    BY <1>1, <1>3 DEF HistBegin, MayCommand
  <2>2. /\ cells' = [breaks |-> cells'.breaks, line |-> cells'.line, closed |-> cells'.closed, back |-> cells'.back]
        /\ cells'.closed = "no"
    BY <1>1, <2>1
  <2> QED
    BY <1>1, <2>1, <2>2, HistoryKept
<1>4. CASE Break
  <2>1. rom = "history" /\ cells' = [cells EXCEPT !.breaks = 1] /\ UNCHANGED <<sshVars, histAt, original, rom>>
    BY <1>4 DEF Break, histVars
  <2>2. /\ cells' = [breaks |-> cells'.breaks, line |-> cells'.line, closed |-> cells'.closed, back |-> cells'.back]
        /\ cells'.closed = cells.closed /\ cells'.line = cells.line /\ cells'.back = cells.back
    BY <1>1, <2>1
  <2> QED
    BY <1>1, <2>1, <2>2, HistoryKept
<1>5. CASE RomReturns
  <2>1. /\ rom # "basic" /\ cells.closed # "no" /\ rom' = "basic" /\ cells' = [cells EXCEPT !.breaks = 0]
        /\ UNCHANGED <<sshVars, histAt, original>>
    BY <1>5 DEF RomReturns, histVars
  <2>2. cells' = [breaks |-> cells'.breaks, line |-> cells'.line, closed |-> cells'.closed, back |-> cells'.back]
    BY <1>1, <2>1
  <2> QED
    BY <1>1, <2>1, <2>2, HistoryKept
<1>6. CASE HistPoll
  <2>1. histAt # 0 /\ rom = "history" /\ UNCHANGED <<original, sshVars, rom>>
    BY <1>1, <1>6 DEF HistPoll
  <2>2. PICK at \in {histAt - 1, histAt, histAt + 1} \cap DOMAIN hist,
             how \in {"no", "run", "edit", "cancel"} \cup IF cells.breaks = 1 THEN {"break"} ELSE {} :
       /\ cells' = [cells EXCEPT !.line = hist[at], !.closed = how,
                                 !.back = IF how = "no" THEN @ ELSE HandedBack(how, at)]
       /\ histAt' = IF how = "no" THEN at ELSE 0
    BY <1>6 DEF HistPoll
  <2>3. /\ cells' = [breaks |-> cells'.breaks, line |-> cells'.line, closed |-> cells'.closed, back |-> cells'.back]
        /\ cells'.closed = how /\ cells'.line = hist[at]
        /\ how # "no" => cells'.back = HandedBack(how, at)
    BY <1>1, <2>2
  <2>4. how \in {"run", "edit"} => cells'.back = cells'.line
    BY <2>3 DEF HandedBack
  <2>5. how \in {"cancel", "break"} => cells'.back = original'
    BY <2>1, <2>3 DEF HandedBack
  <2>6. histAt' # 0 => how = "no"
    BY <2>2
  <2> QED
    BY <1>1, <2>1, <2>3, <2>4, <2>5, <2>6, HistoryKept
<1> QED
  BY <1>2, <1>3, <1>4, <1>5, <1>6 DEF HistNext

LEMMA SshStepKept ==
  ASSUME TerminalInv, SshNext
  PROVE  TerminalInv'
<1>1. RomReturns => HistNext
  BY DEF HistNext
<1>2. SshCommand => TerminalInv'
  BY OpenKept, StepKept, AnswerKept, PasswordKept, TermKept, CloseKept, ForgottenKept DEF SshCommand
<1> QED
  BY <1>1, <1>2, HistStep, TurnKept, SshPollKept, TalksKept, EndsItKept DEF SshNext

LEMMA TerminalStarts ==
  TerminalInit => TerminalInv
<1> SUFFICES ASSUME TerminalInit PROVE TerminalInv
  OBVIOUS
<1>1. /\ ssh = [st |-> "closed", err |-> "none", shown |-> 0] /\ session = FALSE /\ sshTerminal = FALSE
      /\ pending = <<>> /\ gone = FALSE /\ host \in Hosts /\ knownHosts = [h \in Hosts |-> NoKey]
      /\ server = NoServer /\ stepping = FALSE /\ histAt = 0 /\ rom = "basic"
      /\ cells = [breaks |-> 0, line |-> 0, closed |-> "no", back |-> original]
  BY DEF TerminalInit, Fresh
<1>2. PICK none \in Seq(Items) : none = <<>>
  <2>1. <<>> \in Seq(Items)
    OBVIOUS
  <2> QED
    BY <2>1
<1>3. server = [key |-> NoKey, wire |-> none, sent |-> 0, ended |-> FALSE, next |-> "kex"]
  BY <1>1, <1>2, Zenon DEF NoServer
<1>4. server \in Servers /\ ssh \in SshStates /\ pending \in Seq(Items)
  BY <1>1, <1>2, <1>3 DEF Servers, SshStates
<1>5. TerminalTypes
  BY <1>1, <1>4 DEF TerminalTypes
<1>6. SessionRight
  BY <1>1 DEF SessionRight
<1>7. HostsAreKnown
  BY <1>1 DEF HostsAreKnown
<1>8. TerminalsEndWell
  BY <1>1 DEF TerminalsEndWell
<1> QED
  BY <1>5, <1>6, <1>7, <1>8 DEF TerminalInv

\* Every step of a session and of the history keeps the invariant.
LEMMA TerminalStep ==
  TerminalInv /\ [SshNext \/ HistNext]_terminalVars => TerminalInv'
<1> SUFFICES ASSUME TerminalInv, [SshNext \/ HistNext]_terminalVars PROVE TerminalInv'
  OBVIOUS
<1>1. CASE UNCHANGED terminalVars
  <2>1. /\ UNCHANGED <<sshVars, histAt, original, cells, rom>>
    BY <1>1 DEF terminalVars, histVars
  <2> QED
    BY <2>1, HistoryKept DEF TerminalInv, TerminalTypes, SessionRight, TerminalsEndWell
<1> QED
  BY <1>1, HistStep, SshStepKept

\* A host is logged in to with a key accepted for it, whatever sessions open, end
\* or fail in between (checkHostKey, SSH_ANSWER): for any hosts, keys and lines.
THEOREM HostsAreAlwaysKnown == TerminalSpec => []HostsAreKnown
<1>1. TerminalInv => HostsAreKnown
  BY DEF TerminalInv
<1> QED
  BY <1>1, TerminalStarts, TerminalStep, PTL DEF TerminalSpec

\* The window of a terminal that has closed holds all that the server sent before
\* it ended the session, or the history's line (SshMock::poll, HistoryMock::poll).
THEOREM TerminalsAlwaysEndWell == TerminalSpec => []TerminalsEndWell
<1>1. TerminalInv => TerminalsEndWell
  BY DEF TerminalInv
<1> QED
  BY <1>1, TerminalStarts, TerminalStep, PTL DEF TerminalSpec
=============================================================================
