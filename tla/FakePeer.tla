------------------------------- MODULE FakePeer -------------------------------
(***************************************************************************)
(* The BLE commands of the CE-163WL mock when no real link is behind them: *)
(* ExpansionMock plays the peer itself (src/src/bus/expansion_mock.cpp     *)
(* bleCommand, bleDeliver, bleWrite, bleRead, bleClose, bleMoved).  File   *)
(* bytes are counted in chunks of one window; a message is its number.     *)
(***************************************************************************)
EXTENDS Integers, Sequences, SequencesExt

CONSTANTS
  Peers,     \* blePeers_
  Names,     \* file names in the peer's store
  MaxSize,   \* bound: chunks in a file, and before a drop
  MaxMsgs,   \* bound: messages the peer sends
  InboxRoom, \* how many messages the inbox holds, 8 in the code
  NoFile

ASSUME PeerAssumption ==
  /\ MaxSize \in Nat /\ MaxMsgs \in Nat /\ InboxRoom \in Nat \ {0}
  /\ NoFile \notin Names

VARIABLES
  linked,      \* bleConnected_
  paired,      \* the peers not in bleUnpaired_
  advertising, \* bleAdvertising_
  pairing,     \* blePairing_ is set: the peer being paired, or NoFile
  offerOut,    \* bleOfferOut_ and its answer
  offerIn,     \* bleOfferIn_: its size, or NoFile
  xfer,        \* bleXfer_, its name, bleXferP2p_, what was asked and what moved
  files,       \* bleFiles_: what arrived of what was written
  got,         \* bleReceived_.data, likewise
  dropAfter,   \* bleDropAfter_
  coming,      \* bleIncoming_: message and polls left
  inbox,       \* bleInbox_
  read         \* the last message MSG_RECV gave

peerVars == <<linked, paired, advertising, pairing, offerOut, offerIn, xfer, files, got,
              dropAfter, coming, inbox, read>>
fileVars == <<xfer, files, got, dropAfter>>
messageVars == <<coming, inbox, read>>
offerVars == <<offerOut, offerIn>>

NoXfer == [dir |-> "none", name |-> NoFile, asked |-> 0, moved |-> 0, failed |-> FALSE]
Whole(n) == [got |-> n, of |-> n]

PeerInit ==
  /\ linked = FALSE /\ paired = Peers /\ advertising = FALSE /\ pairing = NoFile
  /\ offerOut = "none" /\ offerIn = NoFile
  /\ xfer = NoXfer /\ files \in [Names -> {NoFile, Whole(MaxSize)}] /\ got = NoFile /\ dropAfter = -1
  /\ coming = <<>> /\ inbox = <<>> /\ read = 0

\* A new link empties the inbox; a transfer or an offer is not looked at.
Linked == linked' = TRUE /\ inbox' = <<>> /\ advertising' = FALSE

BleConnect(p) ==
  /\ p \in paired /\ Linked
  /\ UNCHANGED <<paired, pairing, offerVars, fileVars, coming, read>>

BlePairBegin(p) ==
  /\ linked' = FALSE /\ pairing' = p
  /\ UNCHANGED <<paired, advertising, offerVars, fileVars, messageVars>>

\* The user's answer and the peer's, once the peer has answered.
BlePairConfirm(accept) ==
  /\ pairing # NoFile /\ pairing' = NoFile
  /\ \/ accept /\ Linked /\ paired' = paired \union {pairing}
     \/ UNCHANGED <<linked, inbox, advertising, paired>>
  /\ UNCHANGED <<offerVars, fileVars, coming, read>>

\* Y to a pairing a peer began (bleRequestPairing); it connects at a STATUS.
BlePairAnswer(p) ==
  /\ advertising /\ paired' = paired \union {p}
  /\ UNCHANGED <<linked, advertising, pairing, offerVars, fileVars, messageVars>>

BleUnpair(p) ==
  /\ paired' = paired \ {p}
  /\ UNCHANGED <<linked, advertising, pairing, offerVars, fileVars, messageVars>>

BleDisconnect ==
  /\ linked' = FALSE /\ advertising' = FALSE
  /\ offerOut' = "none" /\ offerIn' = NoFile /\ xfer' = NoXfer
  /\ UNCHANGED <<paired, pairing, files, got, dropAfter, messageVars>>

BleAdvertise(on) ==
  /\ advertising' = (on /\ ~linked)
  /\ UNCHANGED <<linked, paired, pairing, offerVars, fileVars, messageVars>>

\* STATUS: the peer's countdowns run out -- it connects, or answers an offer.
BleStatus ==
  /\ \/ advertising /\ Linked
     \/ UNCHANGED <<linked, advertising, inbox>>
  /\ offerOut' \in IF offerOut = "waiting" THEN {"waiting", "accepted", "refused"} ELSE {offerOut}
  /\ UNCHANGED <<paired, pairing, offerIn, fileVars, coming, read>>

BleOffer ==
  /\ linked /\ offerOut' = "waiting"
  /\ UNCHANGED <<linked, paired, advertising, pairing, offerIn, fileVars, messageVars>>

BleWithdraw ==
  /\ offerOut' = "none"
  /\ UNCHANGED <<linked, paired, advertising, pairing, offerIn, fileVars, messageVars>>

\* The peer offers us a file (bleOfferToUs).
BleOfferToUs(n) ==
  /\ offerIn' = n
  /\ UNCHANGED <<linked, paired, advertising, pairing, offerOut, fileVars, messageVars>>

Begins(dir, name, asked) ==
  xfer' = [dir |-> dir, name |-> name, asked |-> asked, moved |-> 0, failed |-> FALSE]

BleAnswer(accept) ==
  /\ offerIn # NoFile /\ linked /\ offerIn' = NoFile
  /\ IF accept THEN Begins("get", NoFile, offerIn) ELSE UNCHANGED xfer
  /\ UNCHANGED <<linked, paired, advertising, pairing, offerOut, files, got, dropAfter, messageVars>>

BleSend ==
  /\ offerOut = "accepted" /\ linked /\ offerOut' = "none"
  /\ Begins("put", NoFile, 0)
  /\ UNCHANGED <<linked, paired, advertising, pairing, offerIn, files, got, dropAfter, messageVars>>

BleFilePut(name, overwrite) ==
  /\ linked /\ (files[name] = NoFile \/ overwrite)
  /\ Begins("put", name, 0)
  /\ UNCHANGED <<linked, paired, advertising, pairing, offerVars, files, got, dropAfter, messageVars>>

BleFileGet(name) ==
  /\ linked /\ files[name] # NoFile
  /\ Begins("get", name, files[name].got)
  /\ UNCHANGED <<linked, paired, advertising, pairing, offerVars, files, got, dropAfter, messageVars>>

\* bleMoved for one chunk: what is left before a drop, and whether it moved.
\* Slip: the drop does not mark the transfer.
MovedUnmarked == IF dropAfter < 1 THEN [left |-> -1, moved |-> dropAfter = -1, failed |-> FALSE]
                 ELSE [left |-> dropAfter - 1, moved |-> TRUE, failed |-> FALSE]

Moved == IF dropAfter = -1 THEN [left |-> -1, moved |-> TRUE, failed |-> FALSE]
         ELSE IF dropAfter = 0 THEN [left |-> -1, moved |-> FALSE, failed |-> TRUE]
         ELSE [left |-> dropAfter - 1, moved |-> TRUE, failed |-> FALSE]

\* A chunk of a put or a get; after a failed one every one is refused.
BleData(dir, asked) ==
  /\ xfer.dir = dir
  /\ IF xfer.failed THEN xfer' = [xfer EXCEPT !.asked = asked] /\ UNCHANGED <<linked, dropAfter>>
     ELSE /\ xfer' = [xfer EXCEPT !.asked = asked, !.failed = Moved.failed,
                                  !.moved = IF Moved.moved THEN @ + 1 ELSE @]
          /\ dropAfter' = Moved.left
          /\ linked' = (linked /\ Moved.moved)
  /\ UNCHANGED <<paired, advertising, pairing, offerVars, files, got, messageVars>>

BleDataWrite == xfer.asked < MaxSize /\ BleData("put", xfer.asked + 1)
BleDataRead == xfer.moved < xfer.asked /\ BleData("get", xfer.asked)

BleDataClose(abandoned) ==
  LET kept == xfer.dir = "put" /\ ~xfer.failed /\ ~abandoned
      data == [got |-> xfer.moved, of |-> xfer.asked]
  IN /\ files' = IF kept /\ xfer.name # NoFile THEN [files EXCEPT ![xfer.name] = data] ELSE files
     /\ got' = IF kept /\ xfer.name = NoFile THEN data ELSE got
     /\ xfer' = NoXfer
     /\ UNCHANGED <<linked, paired, advertising, pairing, offerVars, dropAfter, messageVars>>

\* The link is made to drop after n more chunks.
SetLinkDropAfter(n) ==
  /\ dropAfter' = n
  /\ UNCHANGED <<linked, paired, advertising, pairing, offerVars, xfer, files, got, messageVars>>

\* The peer sends a message, in transit for some polls (bleMessageToUs).
BleMessageToUs(polls) ==
  LET last == IF coming # <<>> THEN Last(coming).id ELSE IF inbox # <<>> THEN Last(inbox) ELSE read
  IN /\ last < MaxMsgs
     /\ coming' = Append(coming, [id |-> last + 1, polls |-> polls])
     /\ UNCHANGED <<linked, paired, advertising, pairing, offerVars, fileVars, inbox, read>>

Aged(c) == [i \in DOMAIN c |-> [c[i] EXCEPT !.polls = IF @ > 0 THEN @ - 1 ELSE 0]]

\* How many messages a poll delivers.
Arrived ==
  LET c == Aged(coming)
      n == CHOOSE n \in 0..Len(c) :
             /\ \A i \in 1..n : c[i].polls = 0
             /\ Len(inbox) + n <= InboxRoom
             /\ n < Len(c) => c[n + 1].polls # 0 \/ Len(inbox) + n = InboxRoom
  IN [box |-> inbox \o [i \in 1..n |-> c[i].id], left |-> SubSeq(c, n + 1, Len(c))]

BleMsgRecv ==
  LET a == Arrived IN
  /\ coming' = a.left
  /\ IF a.box = <<>> THEN UNCHANGED <<inbox, read>>
     ELSE inbox' = Tail(a.box) /\ read' = Head(a.box)
  /\ UNCHANGED <<linked, paired, advertising, pairing, offerVars, fileVars>>

BleMsgCount ==
  /\ coming' = Arrived.left /\ inbox' = Arrived.box
  /\ UNCHANGED <<linked, paired, advertising, pairing, offerVars, fileVars, read>>

LinkNext ==
  \/ \E p \in Peers : BleConnect(p) \/ BlePairBegin(p) \/ BlePairAnswer(p) \/ BleUnpair(p)
  \/ \E on \in BOOLEAN : BlePairConfirm(on) \/ BleAdvertise(on)
  \/ BleDisconnect \/ BleStatus

FileNext ==
  \/ BleOffer \/ BleWithdraw \/ BleSend \/ BleDataWrite \/ BleDataRead
  \/ \E on \in BOOLEAN : BleAnswer(on) \/ BleDataClose(on)
  \/ \E name \in Names : BleFileGet(name) \/ \E over \in BOOLEAN : BleFilePut(name, over)
  \/ BleOfferToUs(MaxSize) \/ \E n \in 0..MaxSize : SetLinkDropAfter(n)

MessageNext ==
  \/ \E polls \in 0..1 : BleMessageToUs(polls)
  \/ BleMsgRecv \/ BleMsgCount

PeerSpec == PeerInit /\ [][LinkNext \/ FileNext \/ MessageNext]_peerVars

-----------------------------------------------------------------------------
Data == [got : 0..MaxSize, of : 0..MaxSize]

PeerTypeOK ==
  /\ linked \in BOOLEAN /\ paired \subseteq Peers /\ advertising \in BOOLEAN
  /\ pairing \in Peers \union {NoFile}
  /\ offerOut \in {"none", "waiting", "accepted", "refused"}
  /\ offerIn \in 0..MaxSize \union {NoFile}
  /\ xfer \in [dir : {"none", "put", "get"}, name : Names \union {NoFile},
               asked : 0..MaxSize, moved : 0..MaxSize, failed : BOOLEAN]
  /\ files \in [Names -> Data \union {NoFile}] /\ got \in Data \union {NoFile}
  /\ dropAfter \in -1..MaxSize
  /\ coming \in Seq([id : 1..MaxMsgs, polls : 0..1])
  /\ inbox \in Seq(1..MaxMsgs) /\ read \in 0..MaxMsgs

\* "a failed save leaves nothing behind" (bleClose): no file of the peer's
\* store, and nothing BLPUT sent, misses a chunk the program wrote, whatever
\* dropped, reconnected, paired or was disconnected while it was written.
SavesWhole ==
  \A d \in {files[n] : n \in Names} \union {got} : d # NoFile => d.got = d.of
=============================================================================
