----------------------------- MODULE LinkRequest -----------------------------
(***************************************************************************)
(* LinkCore::request: a frame out and its answer back, for every thread    *)
(* that makes requests (the command worker; the server thread in           *)
(* serveHello and serveFileGet; the emulation thread in display), sharing  *)
(* one answer slot and one sequence counter, while the transport delivers  *)
(* answers and brings links down and up.                                   *)
(*                                                                         *)
(* mutex_ is released between numbering a frame and sending it, and        *)
(* between giving up and dropping the link: those are steps of their own.  *)
(* The peer answers frames in the order they came, or not at all; the      *)
(* frames and answers under way die with their link.                       *)
(***************************************************************************)
EXTENDS Naturals, Sequences, FiniteSets

CONSTANTS
  Requesters,     \* the threads that call request()
  SeqNumbers,     \* sequence numbers of a link: 256 in the code (uint8_t)
  MaxRequests,    \* bound: requests made in one behaviour
  MaxLinksUp,     \* bound: links brought up in one behaviour
  PeerReconnects  \* the link can come up during a call: the advertiser's
                  \* role; a connector's link is made by its own command

ASSUME RequestAssumption ==
  /\ IsFiniteSet(Requesters)
  /\ SeqNumbers \in Nat \ {0} /\ MaxRequests \in Nat /\ MaxLinksUp \in Nat
  /\ PeerReconnects \in BOOLEAN

VARIABLES
  requestLinked,  \* linked_
  linkGen,        \* linkGen_
  txSeq,          \* txSeq_
  answerSlot,     \* answerReady_, answerSeq_, answerData_
  calls,          \* thread -> its request: where it is, seq, gen
  requestsMade,   \* requests made so far: names the next one
  toPeer,         \* frames on their way out
  toUs,           \* answers on their way in
  linksUp,        \* links brought up so far
  arrived         \* the requests of this link whose answer onFrame has seen

linkVars == <<requestLinked, linkGen, txSeq, toPeer, toUs, arrived>>
requestVars     == <<linkVars, answerSlot, calls, requestsMade, linksUp>>

NoCall == [at |-> "idle", id |-> 0, seq |-> 0, gen |-> 0, alone |-> TRUE]

(* idle; numbered: seq taken, not sent; waiting: in wait_for; gaveUp: timed *)
(* out, mutex_ released, the link not yet dropped; answered: request        *)
(* returned 0, answerData_ not yet read.  alone: no other request was       *)
(* numbered since this one was, nor under way then (not in the code).       *)
Places == {"idle", "numbered", "waiting", "gaveUp", "answered"}

RequestRecords == [at : Places, id : 0..MaxRequests, seq : 0..SeqNumbers - 1,
                   gen : Nat, alone : BOOLEAN]
RequestFrames  == [id : 0..MaxRequests, seq : 0..SeqNumbers - 1]
AnswerSlots    == [ready : BOOLEAN, seq : 0..SeqNumbers - 1, of : 0..MaxRequests]

RequestTypeOK ==
  /\ requestLinked \in BOOLEAN
  /\ linkGen \in Nat
  /\ txSeq \in 0..SeqNumbers - 1
  /\ answerSlot \in AnswerSlots
  /\ calls \in [Requesters -> RequestRecords]
  /\ requestsMade \in 0..MaxRequests
  /\ toPeer \in Seq(RequestFrames) /\ toUs \in Seq(RequestFrames)
  /\ linksUp \in 0..MaxLinksUp
  /\ arrived \subseteq 0..MaxRequests

RequestInit ==
  /\ requestLinked = FALSE /\ linkGen = 0 /\ txSeq = 0
  /\ answerSlot = [ready |-> FALSE, seq |-> 0, of |-> 0]
  /\ calls = [t \in Requesters |-> NoCall]
  /\ requestsMade = 0 /\ linksUp = 0
  /\ toPeer = <<>> /\ toUs = <<>> /\ arrived = {}

-----------------------------------------------------------------------------
Move(t, place) == calls' = [calls EXCEPT ![t].at = place]
Return(t)      == calls' = [calls EXCEPT ![t] = NoCall]
AllIdle        == \A t \in Requesters : calls[t].at = "idle"

\* Slip: compared with the counter, not with the frame's own number.
HasAnswerToLast(t) == answerSlot.ready /\ answerSlot.seq = txSeq

\* The answer slot holds t's answer, as the wait's predicate sees it.
HasAnswer(t) == answerSlot.ready /\ answerSlot.seq = calls[t].seq

NextSeq == (txSeq + 1) % SeqNumbers

Number(t) ==
  /\ calls[t].at = "idle"
  /\ requestLinked
  /\ requestsMade < MaxRequests
  /\ requestsMade' = requestsMade + 1
  /\ calls' = [u \in Requesters |->
       IF u = t THEN [at |-> "numbered", id |-> requestsMade + 1, seq |-> txSeq,
                      gen |-> linkGen, alone |-> AllIdle]
                ELSE [calls[u] EXCEPT !.alone = (@ /\ calls[u].at = "idle")]]
  /\ txSeq' = NextSeq
  /\ answerSlot' = [answerSlot EXCEPT !.ready = FALSE]
  /\ UNCHANGED <<requestLinked, linkGen, toPeer, toUs, linksUp, arrived>>

\* sendFrame: on whatever link there is by now; it fails without one.
Send(t) ==
  /\ calls[t].at = "numbered"
  /\ \/ /\ requestLinked
        /\ toPeer' = Append(toPeer, [id |-> calls[t].id, seq |-> calls[t].seq])
        /\ Move(t, "waiting")
     \/ /\ ~requestLinked
        /\ Return(t)
        /\ UNCHANGED toPeer
  /\ UNCHANGED <<requestLinked, linkGen, txSeq, toUs, arrived, answerSlot, requestsMade, linksUp>>

\* Slip: the wait is not ended by the link's loss.
WaitEndsByAnswer(t) ==
  /\ calls[t].at = "waiting"
  /\ linkGen = calls[t].gen
  /\ HasAnswer(t)
  /\ answerSlot' = [answerSlot EXCEPT !.ready = FALSE]
  /\ Move(t, "answered")
  /\ UNCHANGED <<linkVars, requestsMade, linksUp>>

\* The wait ends: the link the frame was numbered on is gone, or its answer
\* is in.
WaitEnds(t) ==
  /\ calls[t].at = "waiting"
  /\ \/ /\ linkGen # calls[t].gen
        /\ Return(t)
        /\ UNCHANGED answerSlot
     \/ /\ linkGen = calls[t].gen
        /\ HasAnswer(t)
        /\ answerSlot' = [answerSlot EXCEPT !.ready = FALSE]
        /\ Move(t, "answered")
  /\ UNCHANGED <<linkVars, requestsMade, linksUp>>

\* The caller reads answerData_ (hostTime, pairBegin, pairConfirm).
ReadAnswer(t) ==
  /\ calls[t].at = "answered"
  /\ Return(t)
  /\ UNCHANGED <<linkVars, answerSlot, requestsMade, linksUp>>

TimesOut(t) ==
  /\ calls[t].at = "waiting"
  /\ linkGen = calls[t].gen
  /\ ~HasAnswer(t)
  /\ IF requestLinked THEN Move(t, "gaveUp") ELSE Return(t)
  /\ UNCHANGED <<linkVars, answerSlot, requestsMade, linksUp>>

\* onLink: everything of the old link goes.
OnLink(up) ==
  /\ requestLinked' = up
  /\ linkGen' = linkGen + 1
  /\ txSeq' = 0
  /\ answerSlot' = [answerSlot EXCEPT !.ready = FALSE]
  /\ toPeer' = <<>> /\ toUs' = <<>> /\ arrived' = {}

\* Slip: the request gives up and the link stays.
DropNothing(t) ==
  /\ calls[t].at = "gaveUp"
  /\ Return(t)
  /\ UNCHANGED <<linkVars, answerSlot, requestsMade, linksUp>>

DropLink(t) ==
  /\ calls[t].at = "gaveUp"
  /\ OnLink(FALSE)
  /\ Return(t)
  /\ UNCHANGED <<requestsMade, linksUp>>

-----------------------------------------------------------------------------
(* The transport and the peer.                                             *)

PeerAnswers ==
  /\ toPeer # <<>>
  /\ toUs' = Append(toUs, Head(toPeer))
  /\ toPeer' = Tail(toPeer)
  /\ UNCHANGED <<requestLinked, linkGen, txSeq, arrived, answerSlot, calls, requestsMade, linksUp>>

\* onFrame's ACK: the slot's old content goes, whoever it was for.
Deliver ==
  /\ toUs # <<>>
  /\ answerSlot' = [ready |-> TRUE, seq |-> Head(toUs).seq, of |-> Head(toUs).id]
  /\ arrived' = arrived \cup {Head(toUs).id}
  /\ toUs' = Tail(toUs)
  /\ UNCHANGED <<requestLinked, linkGen, txSeq, toPeer, calls, requestsMade, linksUp>>

RequestLinkLost ==
  /\ requestLinked
  /\ OnLink(FALSE)
  /\ UNCHANGED <<calls, requestsMade, linksUp>>

LinkUp ==
  /\ ~requestLinked
  /\ linksUp < MaxLinksUp
  /\ linksUp' = linksUp + 1
  /\ PeerReconnects \/ AllIdle
  /\ OnLink(TRUE)
  /\ UNCHANGED <<calls, requestsMade>>

Request(t) == Number(t) \/ Send(t) \/ WaitEnds(t) \/ ReadAnswer(t)
                \/ TimesOut(t) \/ DropLink(t)

RequestNext == (\E t \in Requesters : Request(t))
          \/ PeerAnswers \/ Deliver \/ RequestLinkLost \/ LinkUp

RequestSpec == RequestInit /\ [][RequestNext]_requestVars

(* Every thread runs on and wait_for ends in time; nothing is assumed of   *)
(* the peer or the radio.                                                  *)
Fairness == \A t \in Requesters :
  WF_requestVars(Send(t) \/ WaitEnds(t) \/ ReadAnswer(t) \/ TimesOut(t) \/ DropLink(t))

-----------------------------------------------------------------------------
\* What a request returns, and the payload its caller reads, is the answer
\* to that very request, when no other thread made one in between.
OwnAnswer ==
  \A t \in Requesters :
    calls[t].at = "answered" /\ calls[t].alone => answerSlot.of = calls[t].id

\* No request whose answer has come in gives up ("the peer didn't answer")
\* and costs the link.
NoAnswerMissed ==
  [][ \A t \in Requesters : TimesOut(t) => calls[t].id \notin arrived ]_requestVars

\* The same, of the requests made while no other thread makes one.
LoneAnswerTaken ==
  [][ \A t \in Requesters : TimesOut(t) /\ calls[t].alone
        => calls[t].id \notin arrived ]_requestVars

\* Every request returns, whatever the peer, the radio and the other
\* requesters do.
EveryCallReturns ==
  \A t \in Requesters : calls[t].at # "idle" ~> calls[t].at = "idle"

=============================================================================
