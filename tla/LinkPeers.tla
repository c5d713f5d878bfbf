------------------------------ MODULE LinkPeers ------------------------------
(***************************************************************************)
(* Peer-to-peer files over the Link: two LinkCores, each with its command  *)
(* worker and its server thread, and the frames between them.  One offers  *)
(* a program or a file (BLPUT), the other takes it (BLGET), in either      *)
(* direction.                                                              *)
(*                                                                         *)
(* A is the connector, B the advertiser.  A command that waits for its     *)
(* answer, the answer's arrival and what the command then does are         *)
(* separate steps, and so are the server thread's taking of a frame and    *)
(* its effect.  The link is lost at any moment, a timeout of request() or  *)
(* receive() included: each side learns of it by itself.  Connecting       *)
(* (connect, HELLO, AUTH) is one step, and so is giving a frame its        *)
(* sequence number and sending it.                                         *)
(*                                                                         *)
(* An answer goes out on the link that is up when it is sent, so one to a  *)
(* frame of an earlier link can reach a command that waits on this one,    *)
(* under the number it waits for: peerMistaken records that it did.        *)
(***************************************************************************)
EXTENDS Naturals, Sequences

CONSTANTS
  MaxOffers,      \* bound: offers made in one behaviour
  MaxPeerChunks,  \* bound: FILE_DATA frames of a file
  MaxPeerLinks    \* bound: links brought up in one behaviour

ASSUME BoundsAssumption ==
  MaxOffers \in Nat /\ MaxPeerChunks \in Nat /\ MaxPeerLinks \in Nat

Cores    == {"A", "B"}
Other(c) == IF c = "A" THEN "B" ELSE "A"
Offers   == 1..MaxOffers

(* A frame on the wire: its kind, the offer or transfer it is about, for   *)
(* FILE_DATA which chunk, for FILE_ANSWER whether it accepts, and its      *)
(* sequence number.  An answer has its request's number, and in "of" the   *)
(* link that request came on (no part of the frame: history).              *)
PeerFrame(k, id, v) == [kind |-> k, of |-> id, arg |-> v, seq |-> 0]
AnswerTo(f, k, link) == [kind |-> k, of |-> link, arg |-> 0, seq |-> f.seq]
DownFrame == PeerFrame("DOWN", 0, 0)  \* not a frame: the other side dropped the link
Nothing == PeerFrame("NONE", 0, 0)

SeqSet   == 0..255  \* txSeq_ is a byte
Requests == [kind : {"OFFER", "FILE_ANSWER", "ABORT", "DATA", "END"},
             of : 0..MaxOffers, arg : 0..MaxPeerChunks + 1, seq : SeqSet]
Replies  == [kind : {"ACK", "ERR"}, of : 0..MaxPeerLinks, arg : {0}, seq : SeqSet]

VARIABLES
  core,          \* side -> its LinkCore's state under mutex_
  wire,          \* side -> the frames on their way to it
  peerIncoming,  \* incoming_
  peerToServe,   \* toServe_
  peerSeq,       \* the number of the last request, txSeq_ - 1
  peerServing,   \* the frame the server thread has taken, and on which link
  peerCmd,       \* the command the worker runs
  peerSlot,      \* the answer to it: none, ACK, ERR, or GONE (the link is)
  peerLinks,     \* links brought up so far
  offersMade,    \* offers made so far: names the next one
  file,          \* offer -> the chunks its sender has written
  whole,         \* offers whose FILE_END the receiver took, the file complete
  closed,        \* <<side, offer>>: transfers CLOSE reported as SUCCESS
  peerMistaken   \* history: a command took the answer to a frame of an earlier link

queues == <<wire, peerIncoming, peerToServe, peerSeq>>
peerGhosts == <<file, whole, closed, peerMistaken>>
peersVars   == <<core, queues, peerServing, peerCmd, peerSlot, peerLinks, offersMade, peerGhosts>>

(* linked_, offerIn_, offerOut_, answered_, accepted_, xfer_ (and the      *)
(* offer it moves), xferFailed_, getEnded_ and what was received.          *)
FreshCore == [linked |-> FALSE, offerIn |-> 0, offerOut |-> 0, answered |-> FALSE,
          accepted |-> FALSE, xfer |-> "none", xid |-> 0,
          failed |-> FALSE, ended |-> FALSE, got |-> <<>>]

PeersTypeOK ==
  /\ core \in [Cores ->
       [linked : BOOLEAN, offerIn : 0..MaxOffers, offerOut : 0..MaxOffers,
        answered : BOOLEAN, accepted : BOOLEAN, xfer : {"none", "put", "get"}, xid : 0..MaxOffers, failed : BOOLEAN,
        ended : BOOLEAN, got : Seq([of : Offers, n : 1..MaxPeerChunks])]]
  /\ wire \in [Cores -> Seq(Requests \cup Replies \cup {DownFrame})]
  /\ peerIncoming \in [Cores -> Seq(Requests)]
  /\ peerToServe \in [Cores -> Seq(Requests)]
  /\ peerServing \in [Cores -> [frame : Requests \cup {Nothing},
                            link : 0..MaxPeerLinks]]
  /\ peerCmd \in [Cores -> {"idle", "OFFER", "WITHDRAW", "ANSWER", "WRITE", "END",
                        "ABORT", "READ"}]
  /\ peerSlot \in [Cores -> {"none", "ACK", "ERR", "GONE"}]
  /\ peerLinks \in 0..MaxPeerLinks
  /\ offersMade \in 0..MaxOffers
  /\ file \in [Offers -> 0..MaxPeerChunks]
  /\ whole \subseteq Offers
  /\ closed \subseteq Cores \X Offers
  /\ peerSeq \in [Cores -> SeqSet]
  /\ peerMistaken \in BOOLEAN

PeersInit ==
  /\ core = [c \in Cores |-> FreshCore]
  /\ wire = [c \in Cores |-> <<>>]
  /\ peerIncoming = [c \in Cores |-> <<>>]
  /\ peerToServe = [c \in Cores |-> <<>>]
  /\ peerServing = [c \in Cores |-> [frame |-> Nothing, link |-> 0]]
  /\ peerCmd = [c \in Cores |-> "idle"]
  /\ peerSlot = [c \in Cores |-> "none"]
  /\ peerLinks = 0 /\ offersMade = 0
  /\ file = [o \in Offers |-> 0]
  /\ whole = {} /\ closed = {}
  /\ peerSeq = [c \in Cores |-> 255] /\ peerMistaken = FALSE

-----------------------------------------------------------------------------
(* Sending.  A frame sent after the other side dropped the link is lost.   *)

Sent(c, f) ==
  IF core[c].linked /\ core[Other(c)].linked
  THEN [wire EXCEPT ![Other(c)] = Append(@, f)]
  ELSE wire

\* request(): the frame goes out under the next number and the command waits.
RequestSeq(c) == (peerSeq[c] + 1) % 256
NumberedBy(c, f) == [f EXCEPT !.seq = RequestSeq(c)]

AskPeer(c, op, f) ==
  /\ peerCmd' = [peerCmd EXCEPT ![c] = op]
  /\ peerSlot' = [peerSlot EXCEPT ![c] = IF core[c].linked THEN "none" ELSE "GONE"]
  /\ peerSeq' = IF core[c].linked THEN [peerSeq EXCEPT ![c] = RequestSeq(c)] ELSE peerSeq
  /\ wire' = Sent(c, NumberedBy(c, f))

Keep(c, new) == core' = [core EXCEPT ![c] = new]

Idle(c) == peerCmd[c] = "idle"

-----------------------------------------------------------------------------
(* The commands.  They come in the order the keywords BLPUT, BLGET and     *)
(* BLCON give them in (the ROM's part, not in this repository; the tests   *)
(* keep to it): an offer that was not refused goes on to SEND or WITHDRAW, *)
(* and a transfer to CLOSE, before the next keyword.                       *)

Offering(c) == core[c].offerOut # 0 /\ ~(core[c].answered /\ ~core[c].accepted)
MayStart(c) == core[c].xfer = "none" /\ ~Offering(c)

\* offer(): offerOut_ is set before the frame goes out.
Offer(c) ==
  /\ Idle(c) /\ core[c].linked /\ MayStart(c)
  /\ offersMade < MaxOffers
  /\ offersMade' = offersMade + 1
  /\ Keep(c, [core[c] EXCEPT !.offerOut = offersMade + 1, !.answered = FALSE,
                             !.accepted = FALSE])
  /\ AskPeer(c, "OFFER", PeerFrame("OFFER", offersMade + 1, 0))
  /\ UNCHANGED <<peerIncoming, peerToServe, peerServing, peerLinks, peerGhosts>>

Withdraw(c) ==
  /\ Idle(c)
  /\ Offering(c)
  /\ Keep(c, [core[c] EXCEPT !.offerOut = 0, !.answered = FALSE])
  /\ IF core[c].offerOut # 0 /\ core[c].linked
     THEN AskPeer(c, "WITHDRAW", PeerFrame("ABORT", core[c].offerOut, 0))
     ELSE UNCHANGED <<peerCmd, peerSlot, peerSeq, wire>>
  /\ UNCHANGED <<peerIncoming, peerToServe, peerServing, peerLinks, offersMade, peerGhosts>>

\* answerOffer(): accepting opens the receiving transfer first.
Receiving(c, id) ==
  [core[c] EXCEPT !.offerIn = 0, !.xfer = "get", !.xid = id,
                  !.failed = FALSE, !.ended = FALSE, !.got = <<>>]

AnswerOffer(c, accept) ==
  LET id == core[c].offerIn IN
  /\ Idle(c) /\ MayStart(c)
  /\ id # 0
  /\ IF accept
     THEN /\ Keep(c, Receiving(c, id))
          /\ peerIncoming' = [peerIncoming EXCEPT ![c] = <<>>]
     ELSE /\ Keep(c, [core[c] EXCEPT !.offerIn = 0])
          /\ UNCHANGED peerIncoming
  /\ AskPeer(c, "ANSWER", PeerFrame("FILE_ANSWER", id, IF accept THEN 1 ELSE 0))
  /\ UNCHANGED <<peerToServe, peerServing, peerLinks, offersMade, peerGhosts>>

SendAccepted(c) ==
  /\ Idle(c)
  /\ core[c].offerOut # 0 /\ core[c].answered /\ core[c].accepted
  /\ core[c].linked
  /\ Keep(c, [core[c] EXCEPT !.offerOut = 0, !.answered = FALSE,
                !.xfer = "put", !.xid = core[c].offerOut, !.failed = FALSE])
  /\ UNCHANGED <<queues, peerServing, peerCmd, peerSlot, peerLinks, offersMade, peerGhosts>>

\* write(): one FILE_DATA frame of it.
WriteCmd(c) ==
  LET id == core[c].xid IN
  /\ Idle(c)
  /\ core[c].xfer = "put" /\ ~core[c].failed
  /\ file[id] < MaxPeerChunks
  /\ file' = [file EXCEPT ![id] = @ + 1]
  /\ AskPeer(c, "WRITE", PeerFrame("DATA", id, file[id] + 1))
  /\ UNCHANGED <<core, peerIncoming, peerToServe, peerServing, peerLinks, offersMade, whole, closed, peerMistaken>>

\* read() finds its buffer empty and waits for a frame.
ReadCmd(c) ==
  /\ Idle(c)
  /\ core[c].xfer = "get" /\ ~core[c].failed /\ ~core[c].ended
  /\ peerCmd' = [peerCmd EXCEPT ![c] = "READ"]
  /\ peerSlot' = [peerSlot EXCEPT ![c] = "none"]
  /\ UNCHANGED <<core, queues, peerServing, peerLinks, offersMade, peerGhosts>>

\* Slip: a file not yet ended counts as received.
ReceivedSome(c, failed) == ~failed
ReceivedAll(c, failed) == ~failed /\ core[c].ended

\* close(), after `abandon' (CLOSE's flag) set xferFailed_.
Close(c, abandon) ==
  LET failed == core[c].failed \/ abandon
      put    == core[c].xfer = "put"
      over   == [core[c] EXCEPT !.failed = failed, !.xfer = "none"]
  IN
  /\ Idle(c)
  /\ core[c].xfer # "none"
  /\ \/ /\ put /\ (failed => core[c].linked)
        /\ Keep(c, [core[c] EXCEPT !.failed = failed])
        /\ IF failed THEN AskPeer(c, "ABORT", PeerFrame("ABORT", core[c].xid, 0))
                     ELSE AskPeer(c, "END", PeerFrame("END", core[c].xid, 0))
        /\ UNCHANGED closed
     \/ /\ ~put \/ (failed /\ ~core[c].linked)
        /\ Keep(c, over)
        /\ closed' = IF ~put /\ ReceivedAll(c, failed)
                     THEN closed \cup {<<c, core[c].xid>>} ELSE closed
        /\ UNCHANGED <<peerCmd, peerSlot, peerSeq, wire>>
  /\ UNCHANGED <<peerIncoming, peerToServe, peerServing, peerLinks, offersMade, file, whole, peerMistaken>>

-----------------------------------------------------------------------------
(* A waiting command goes on.                                              *)

Done(c) == /\ peerCmd' = [peerCmd EXCEPT ![c] = "idle"]
           /\ peerSlot' = [peerSlot EXCEPT ![c] = "none"]

OfferEnds(c) ==
  /\ peerCmd[c] = "OFFER" /\ peerSlot[c] # "none"
  /\ Keep(c, IF peerSlot[c] = "ACK" THEN core[c]
             ELSE [core[c] EXCEPT !.offerOut = 0])
  /\ Done(c)
  /\ UNCHANGED <<queues, peerServing, peerLinks, offersMade, peerGhosts>>

WithdrawEnds(c) ==
  /\ peerCmd[c] = "WITHDRAW" /\ peerSlot[c] # "none"
  /\ Done(c)
  /\ UNCHANGED <<core, queues, peerServing, peerLinks, offersMade, peerGhosts>>

AnswerCmdEnds(c) ==
  /\ peerCmd[c] = "ANSWER" /\ peerSlot[c] # "none"
  /\ Keep(c, IF peerSlot[c] = "ACK" THEN core[c]
             ELSE [core[c] EXCEPT !.xfer = "none"])
  /\ Done(c)
  /\ UNCHANGED <<queues, peerServing, peerLinks, offersMade, peerGhosts>>

WriteCmdEnds(c) ==
  /\ peerCmd[c] = "WRITE" /\ peerSlot[c] # "none"
  /\ Keep(c, IF peerSlot[c] = "ACK" THEN core[c]
             ELSE [core[c] EXCEPT !.failed = TRUE])
  /\ Done(c)
  /\ UNCHANGED <<queues, peerServing, peerLinks, offersMade, peerGhosts>>

\* FILE_END answered: SUCCESS, or an ABORT while there is a link.
EndCmdEnds(c) ==
  /\ peerCmd[c] = "END" /\ peerSlot[c] # "none"
  /\ IF peerSlot[c] # "ACK" /\ core[c].linked
     THEN /\ AskPeer(c, "ABORT", PeerFrame("ABORT", core[c].xid, 0))
          /\ UNCHANGED <<core, closed>>
     ELSE /\ Keep(c, [core[c] EXCEPT !.xfer = "none"])
          /\ closed' = IF peerSlot[c] = "ACK" THEN closed \cup {<<c, core[c].xid>>}
                                          ELSE closed
          /\ Done(c)
          /\ UNCHANGED <<peerSeq, wire>>
  /\ UNCHANGED <<peerIncoming, peerToServe, peerServing, peerLinks, offersMade, file, whole, peerMistaken>>

AbortEnds(c) ==
  /\ peerCmd[c] = "ABORT" /\ peerSlot[c] # "none"
  /\ Keep(c, [core[c] EXCEPT !.xfer = "none"])
  /\ Done(c)
  /\ UNCHANGED <<queues, peerServing, peerLinks, offersMade, peerGhosts>>

\* What read() makes of the next frame.
Complete(id, got) == got = [n \in 1..file[id] |-> [of |-> id, n |-> n]]

IsData(f) == f.kind = "DATA"

ReadFrame(c) ==
  LET f == Head(peerIncoming[c]) IN
  /\ peerCmd[c] = "READ" /\ peerSlot[c] # "GONE"
  /\ peerIncoming[c] # <<>>
  /\ peerIncoming' = [peerIncoming EXCEPT ![c] = Tail(@)]
  /\ \/ /\ IsData(f)
        /\ Keep(c, [core[c] EXCEPT !.got = Append(@, [of |-> f.of, n |-> f.arg])])
        /\ wire' = Sent(c, AnswerTo(f, "ACK", peerLinks))
        /\ UNCHANGED whole
     \/ /\ f.kind = "END"
        /\ Keep(c, [core[c] EXCEPT !.ended = TRUE])
        /\ wire' = Sent(c, AnswerTo(f, "ACK", peerLinks))
        /\ whole' = IF f.of = core[c].xid /\ Complete(f.of, core[c].got)
                    THEN whole \cup {f.of} ELSE whole
     \/ /\ ~IsData(f) /\ f.kind # "END"
        /\ Keep(c, [core[c] EXCEPT !.failed = TRUE])
        /\ wire' = Sent(c, AnswerTo(f, IF f.kind = "ABORT" THEN "ACK" ELSE "ERR", peerLinks))
        /\ UNCHANGED whole
  /\ Done(c)
  /\ UNCHANGED <<peerToServe, peerSeq, peerServing, peerLinks, offersMade, file, closed, peerMistaken>>

ReadFails(c) ==
  /\ peerCmd[c] = "READ" /\ peerSlot[c] = "GONE"
  /\ Keep(c, [core[c] EXCEPT !.failed = TRUE])
  /\ Done(c)
  /\ UNCHANGED <<queues, peerServing, peerLinks, offersMade, peerGhosts>>

-----------------------------------------------------------------------------
(* onFrame: to the slot, the server thread or the command that receives.   *)

ForServer(c, f) ==
  \/ f.kind \in {"OFFER", "FILE_ANSWER"}
  \/ f.kind = "ABORT" /\ core[c].xfer = "none"
  \/ core[c].xfer = "none" /\ c = "B"

\* request() waits for an answer, on the link its frame went out on.
Waiting(c) == peerCmd[c] \notin {"idle", "READ"} /\ peerSlot[c] # "GONE"

\* The one slot has the last answer; request() takes it if its number is the
\* one it waits for (one that no command waits for the next request clears).
OnFrame(c) ==
  LET f == Head(wire[c]) IN
  /\ wire[c] # <<>> /\ f # DownFrame
  /\ wire' = [wire EXCEPT ![c] = Tail(@)]
  /\ IF f.kind \in {"ACK", "ERR"}
     THEN /\ peerSlot' = IF Waiting(c)
                         THEN [peerSlot EXCEPT ![c] = IF f.seq = peerSeq[c] THEN f.kind ELSE "none"]
                         ELSE peerSlot
          /\ peerMistaken' = (peerMistaken \/ (Waiting(c) /\ f.seq = peerSeq[c] /\ f.of # peerLinks))
          /\ UNCHANGED <<peerIncoming, peerToServe>>
     ELSE /\ IF ForServer(c, f)
             THEN /\ peerToServe' = [peerToServe EXCEPT ![c] = Append(@, f)]
                  /\ UNCHANGED peerIncoming
             ELSE /\ peerIncoming' = [peerIncoming EXCEPT ![c] = Append(@, f)]
                  /\ UNCHANGED peerToServe
          /\ UNCHANGED <<peerSlot, peerMistaken>>
  /\ UNCHANGED <<core, peerSeq, peerServing, peerCmd, peerLinks, offersMade, file, whole, closed>>

\* serverLoop takes a frame, and serve finds the link authenticated.
TakeToServe(c) ==
  /\ peerServing[c].frame = Nothing
  /\ peerToServe[c] # <<>>
  /\ peerServing' = [peerServing EXCEPT ![c] = [frame |-> Head(peerToServe[c]),
                                        link |-> peerLinks]]
  /\ peerToServe' = [peerToServe EXCEPT ![c] = Tail(@)]
  /\ UNCHANGED <<core, wire, peerIncoming, peerSeq, peerCmd, peerSlot, peerLinks, offersMade, peerGhosts>>

\* serve()'s effect on the offers, and whether it answers with an ACK.
HoldsOffer(c)  == core[c].offerIn = 0 /\ core[c].xfer = "none"
TakesAnswer(c) == core[c].offerOut # 0 /\ ~core[c].answered

FrameServed(c, f) ==
  CASE f.kind = "OFFER" /\ HoldsOffer(c) ->
         [core[c] EXCEPT !.offerIn = f.of]
    [] f.kind = "FILE_ANSWER" /\ TakesAnswer(c) ->
         [core[c] EXCEPT !.answered = TRUE, !.accepted = (f.arg = 1)]
    [] f.kind = "ABORT" -> [core[c] EXCEPT !.offerIn = 0]
    [] OTHER -> core[c]

Serve(c) ==
  LET f  == peerServing[c].frame
      ok == \/ f.kind = "OFFER" /\ HoldsOffer(c)
            \/ f.kind = "FILE_ANSWER" /\ TakesAnswer(c)
            \/ f.kind = "ABORT"
  IN
  /\ f # Nothing
  /\ Keep(c, FrameServed(c, f))
  /\ wire' = Sent(c, AnswerTo(f, IF ok THEN "ACK" ELSE "ERR", peerServing[c].link))
  /\ peerServing' = [peerServing EXCEPT ![c] = [frame |-> Nothing, link |-> 0]]
  /\ UNCHANGED <<peerIncoming, peerToServe, peerSeq, peerCmd, peerSlot, peerLinks, offersMade, peerGhosts>>

-----------------------------------------------------------------------------
(* The link.                                                               *)

\* onLink(): the offers and the queues go, numbers start again; a transfer fails if it is down.
Relinked(c, up) ==
  [core[c] EXCEPT !.linked = up, !.offerIn = 0, !.offerOut = 0,
                  !.answered = FALSE,
                  !.failed = @ \/ (~up /\ core[c].xfer # "none")]

\* c loses the link first (out of range, a timeout's dropLink): the other
\* side still gets some of what was on its way, then learns of it.
LosesLink(c, new) ==
  /\ core[c].linked
  /\ Keep(c, new)
  /\ \E n \in 0..Len(wire[Other(c)]) :
       wire' = [d \in Cores |-> IF d = c THEN <<>>
                 ELSE IF core[d].linked THEN Append(SubSeq(wire[d], 1, n), DownFrame)
                 ELSE <<>>]
  /\ peerIncoming' = [peerIncoming EXCEPT ![c] = <<>>]
  /\ peerToServe' = [peerToServe EXCEPT ![c] = <<>>]
  /\ peerSeq' = [peerSeq EXCEPT ![c] = 255]
  /\ peerSlot' = [peerSlot EXCEPT ![c] = IF Idle(c) THEN "none" ELSE "GONE"]
  /\ UNCHANGED <<peerServing, peerCmd, peerLinks, offersMade, peerGhosts>>

DropPeerLink(c) == LosesLink(c, Relinked(c, FALSE))

\* disconnectLink(); its BYE changes nothing at the other side.
DisconnectLink(c) ==
  /\ Idle(c)
  /\ LosesLink(c, [Relinked(c, FALSE) EXCEPT !.xfer = "none"])

SeesDown(c) ==
  /\ wire[c] # <<>> /\ Head(wire[c]) = DownFrame
  /\ LosesLink(c, Relinked(c, FALSE))

\* connectTo(), by A's worker.  B's server thread serves the HELLO, unless a
\* transfer B has not closed takes the frame: then it is never answered and
\* A gives the link up.  HELLO and AUTH are A's requests 0 and 1.
ConnectTo ==
  /\ Idle("A") /\ MayStart("A")
  /\ \A c \in Cores : ~core[c].linked /\ wire[c] = <<>>
  /\ peerLinks < MaxPeerLinks
  /\ peerLinks' = peerLinks + 1
  /\ peerServing["B"].frame = Nothing
  /\ core' = [c \in Cores |-> Relinked(c, core["B"].xfer = "none")]
  /\ peerIncoming' = [c \in Cores |-> <<>>]
  /\ peerToServe' = [c \in Cores |-> <<>>]
  /\ peerSeq' = [c \in Cores |-> IF c = "A" THEN 1 ELSE 255]
  /\ peerSlot' = [c \in Cores |-> IF Idle(c) THEN "none" ELSE "GONE"]
  /\ UNCHANGED <<wire, peerServing, peerCmd, offersMade, peerGhosts>>

-----------------------------------------------------------------------------
Command(c) ==
  \/ Offer(c) \/ Withdraw(c) \/ SendAccepted(c) \/ WriteCmd(c) \/ ReadCmd(c)
  \/ \E flag \in BOOLEAN : AnswerOffer(c, flag) \/ Close(c, flag)
  \/ DisconnectLink(c)

GoesOn(c) ==
  \/ OfferEnds(c) \/ WithdrawEnds(c) \/ AnswerCmdEnds(c) \/ WriteCmdEnds(c)
  \/ EndCmdEnds(c) \/ AbortEnds(c) \/ ReadFrame(c) \/ ReadFails(c)

PeersNext ==
  \/ \E c \in Cores : \/ Command(c) \/ GoesOn(c)
                      \/ OnFrame(c) \/ TakeToServe(c) \/ Serve(c)
                      \/ DropPeerLink(c) \/ SeesDown(c)
  \/ ConnectTo

\* The steps in any order: safety needs no fairness.
PeersSpec == PeersInit /\ [][PeersNext]_peersVars

-----------------------------------------------------------------------------
\* A dropped link drops the offers.
OffersDieWithLink == \A c \in Cores : ~core[c].linked => core[c].offerIn = 0

\* A frame out and its answer back: when an offer is acknowledged, the peer holds no
\* other one (it holds this one, or has answered it, or has lost the link).  The code
\* breaks it: the answer to the last link's offer may be the one taken (see README.md).
AcknowledgedIsHeld ==
  \A c \in Cores : peerCmd[c] = "OFFER" /\ peerSlot[c] = "ACK"
                     => core[Other(c)].offerIn \in {0, core[c].offerOut}

\* A transfer is whole or it fails, as long as no command took an answer to a frame
\* of an earlier link.  CLOSE reports SUCCESS only when the whole
\* file moved, on either side: the receiver has taken FILE_END with every chunk;
\* what a receiver holds is the beginning of the file it accepted, no chunk lost,
\* repeated or left over from another transfer; and while a sender sends, the
\* peer receives that transfer, has ended it or has failed, or the link goes down.
TransfersAreWhole == ~peerMistaken =>
  /\ \A t \in closed : t[2] \in whole
  /\ \A c \in Cores : core[c].xfer = "get" /\ ~core[c].failed =>
       /\ Len(core[c].got) <= file[core[c].xid]
       /\ \A n \in 1..Len(core[c].got) : core[c].got[n] = [of |-> core[c].xid, n |-> n]
  /\ \A c \in Cores : LET o == Other(c) IN
       core[c].xfer = "put" /\ ~core[c].failed /\ core[o].linked
         => \/ core[o].xfer = "get" /\ core[o].xid = core[c].xid
            \/ core[o].xfer = "none"

=============================================================================
