--------------------------- MODULE LinkPeersProof ---------------------------
(***************************************************************************)
(* Peer-to-peer files, for any number of offers, chunks and links: CLOSE   *)
(* reports SUCCESS only for a whole file, a receiver holds the beginning   *)
(* of the file it accepted, and a sender's peer receives that file or has  *)
(* no transfer.                                                            *)
(***************************************************************************)
EXTENDS LinkPeers, SequenceTheorems, TLAPS

-----------------------------------------------------------------------------
(* Queues.  A wire holds the other side's request, if any, an answer to    *)
(* this side's, and answers that come too late: to frames of an earlier    *)
(* link.                                                                   *)

Frames(s) == {s[i] : i \in 1..Len(s)}
Answers   == {"ACK", "ERR"}
OnWire    == Requests \cup Replies \cup {DownFrame}
Timely(links)    == {f \in Replies : f.of = links}
Asked(s)         == Frames(s) \cap Requests
ToldOf(s, links) == {f.kind : f \in Frames(s) \cap Timely(links)}

OneEach(s, links) ==
  \A i, j \in 1..Len(s) :
    i # j => /\ ~(s[i] \in Requests /\ s[j] \in Requests)
             /\ ~(s[i] \in Timely(links) /\ s[j] \in Timely(links))

\* Requests, answers, the end of a link and nothing are told apart.
LEMMA FramesDiffer ==
  /\ Requests \cap Replies = {} /\ DownFrame \notin Requests \cup Replies
  /\ Nothing \notin Requests \cup Replies
  /\ \A f \in Requests : f.kind \in {"OFFER", "FILE_ANSWER", "ABORT", "DATA", "END"}
  /\ \A f \in Replies : f.kind \in Answers
<1>1. DownFrame.kind = "DOWN" /\ Nothing.kind = "NONE"
  BY DEF DownFrame, Nothing, PeerFrame
<1>2. \A f \in Requests : f.kind \in {"OFFER", "FILE_ANSWER", "ABORT", "DATA", "END"}
  BY DEF Requests
<1>3. \A f \in Replies : f.kind \in {"ACK", "ERR"}
  BY DEF Replies
<1> QED
  BY <1>1, <1>2, <1>3 DEF Answers

\* An empty queue holds no frame.
LEMMA NoFrames ==
  /\ Frames(<<>>) = {} /\ Asked(<<>>) = {}
  /\ \A links : ToldOf(<<>>, links) = {} /\ OneEach(<<>>, links)
<1>1. Len(<<>>) = 0 /\ 1..0 = {}
  OBVIOUS
<1> QED
  BY <1>1 DEF Frames, Asked, ToldOf, OneEach

\* A queue holds frames of its set, and none only if it is empty.
LEMMA FramesOf ==
  ASSUME NEW S, NEW s \in Seq(S)
  PROVE  /\ Frames(s) \subseteq S /\ Len(s) \in Nat
         /\ Frames(s) = {} <=> s = <<>>
<1>1. Len(s) \in Nat /\ \A i \in 1..Len(s) : s[i] \in S
  OBVIOUS
<1>2. s = <<>> <=> Len(s) = 0
  BY EmptySeq
<1>3. CASE Len(s) = 0
  BY <1>1, <1>2, <1>3 DEF Frames
<1>4. CASE Len(s) # 0
  <2>1. 1 \in 1..Len(s)
    BY <1>1, <1>4
  <2> QED
    BY <1>1, <1>2, <1>4, <2>1 DEF Frames
<1> QED
  BY <1>3, <1>4

\* A frame added at the end.
LEMMA Added ==
  ASSUME NEW S, NEW s \in Seq(S), NEW f \in S, NEW links
  PROVE  /\ Append(s, f) \in Seq(S) /\ Frames(Append(s, f)) = Frames(s) \cup {f}
         /\ Len(Append(s, f)) = Len(s) + 1
         /\ OneEach(s, links) /\ (f \in Requests => Asked(s) = {}) /\ (f \in Timely(links) => ToldOf(s, links) = {})
              => OneEach(Append(s, f), links)
<1> DEFINE t == Append(s, f)
<1>1. /\ t \in Seq(S) /\ Len(s) \in Nat /\ Len(t) = Len(s) + 1 /\ t[Len(s) + 1] = f
      /\ \A i \in 1..Len(s) : t[i] = s[i]
  BY AppendProperties
<1>2. \A i \in 1..Len(t) : i \in 1..Len(s) \/ i = Len(s) + 1
  BY <1>1
<1>3. Len(s) + 1 \in 1..Len(t) /\ \A i \in 1..Len(s) : i \in 1..Len(t)
  BY <1>1
<1> HIDE DEF t
<1>4. Frames(t) = Frames(s) \cup {f}
  <2>1. \A i \in 1..Len(t) : t[i] \in Frames(s) \cup {f}
    BY <1>1, <1>2 DEF Frames
  <2>2. f \in Frames(t) /\ \A i \in 1..Len(s) : s[i] \in Frames(t)
    BY <1>1, <1>3 DEF Frames
  <2> QED
    BY <2>1, <2>2 DEF Frames
<1>5. ASSUME OneEach(s, links), f \in Requests => Asked(s) = {}, f \in Timely(links) => ToldOf(s, links) = {}
      PROVE  OneEach(t, links)
  <2>1. \A i \in 1..Len(s) : s[i] \in Frames(s)
    BY DEF Frames
  <2>2. \A i \in 1..Len(s) : ~(f \in Requests /\ s[i] \in Requests) /\ ~(f \in Timely(links) /\ s[i] \in Timely(links))
    BY <1>5, <2>1 DEF Asked, ToldOf
  <2> SUFFICES ASSUME NEW i \in 1..Len(t), NEW j \in 1..Len(t), i # j
               PROVE  /\ ~(t[i] \in Requests /\ t[j] \in Requests)
                      /\ ~(t[i] \in Timely(links) /\ t[j] \in Timely(links))
    BY DEF OneEach
  <2>3. CASE i \in 1..Len(s) /\ j \in 1..Len(s)
    BY <1>1, <1>5, <2>3 DEF OneEach
  <2>4. CASE i = Len(s) + 1 /\ j \in 1..Len(s)
    BY <1>1, <2>2, <2>4
  <2>5. CASE j = Len(s) + 1 /\ i \in 1..Len(s)
    BY <1>1, <2>2, <2>5
  <2> QED
    BY <1>2, <2>3, <2>4, <2>5
<1> QED
  BY <1>1, <1>4, <1>5 DEF t

\* The first frame taken.
LEMMA Taken ==
  ASSUME NEW S, NEW s \in Seq(S), s # <<>>, NEW links
  PROVE  /\ Tail(s) \in Seq(S) /\ Head(s) \in Frames(s) /\ Frames(s) = Frames(Tail(s)) \cup {Head(s)}
         /\ Len(s) \in Nat /\ Len(Tail(s)) = Len(s) - 1
         /\ OneEach(s, links) =>
              /\ OneEach(Tail(s), links)
              /\ Head(s) \in Requests => Asked(Tail(s)) = {}
              /\ Head(s) \in Timely(links) => ToldOf(Tail(s), links) = {}
<1> DEFINE t == Tail(s)
           h == Head(s)
<1>1. /\ t \in Seq(S) /\ Len(s) \in Nat /\ Len(s) > 0 /\ Len(t) = Len(s) - 1 /\ h = s[1]
      /\ \A i \in 1..Len(t) : t[i] = s[i + 1]
  <2>1. Len(s) \in Nat /\ Len(s) # 0
    BY EmptySeq
  <2>2. t \in Seq(S) /\ Len(t) = Len(s) - 1 /\ \A i \in 1..Len(t) : t[i] = s[i + 1]
    BY HeadTailProperties
  <2>3. h = s[1]
    OBVIOUS
  <2> QED
    BY <2>1, <2>2, <2>3
<1> HIDE DEF t, h
<1>2. /\ 1 \in 1..Len(s)
      /\ \A i \in 1..Len(t) : i + 1 \in 1..Len(s) /\ i + 1 # 1
      /\ \A i \in 1..Len(s) : i = 1 \/ i - 1 \in 1..Len(t)
      /\ \A i \in 1..Len(t), j \in 1..Len(t) : i # j => i + 1 # j + 1
  BY <1>1
<1>3. h \in Frames(s) /\ Frames(s) = Frames(t) \cup {h}
  <2>1. h \in Frames(s) /\ \A i \in 1..Len(t) : t[i] \in Frames(s)
    BY <1>1, <1>2 DEF Frames
  <2>2. ASSUME NEW i \in 1..Len(s) PROVE s[i] \in Frames(t) \cup {h}
    <3>1. CASE i = 1
      BY <1>1, <3>1
    <3>2. CASE i - 1 \in 1..Len(t)
      <4>1. t[i - 1] = s[(i - 1) + 1] /\ (i - 1) + 1 = i
        BY <1>1, <3>2
      <4> QED
        BY <3>2, <4>1 DEF Frames
    <3> QED
      BY <1>2, <3>1, <3>2
  <2> QED
    BY <2>1, <2>2 DEF Frames
<1>4. ASSUME OneEach(s, links)
      PROVE  /\ OneEach(t, links) /\ (h \in Requests => Asked(t) = {}) /\ (h \in Timely(links) => ToldOf(t, links) = {})
  <2>1. OneEach(t, links)
    BY <1>1, <1>2, <1>4 DEF OneEach
  <2>2. ASSUME NEW i \in 1..Len(t)
        PROVE  ~(h \in Requests /\ t[i] \in Requests) /\ ~(h \in Timely(links) /\ t[i] \in Timely(links))
    BY <1>1, <1>2, <1>4 DEF OneEach
  <2> QED
    BY <2>1, <2>2 DEF Asked, ToldOf, Frames
<1> QED
  BY <1>1, <1>3, <1>4 DEF t, h

\* A beginning of a queue.
LEMMA Cut ==
  ASSUME NEW S, NEW s \in Seq(S), NEW links, NEW n \in 0..Len(s)
  PROVE  /\ SubSeq(s, 1, n) \in Seq(S) /\ Frames(SubSeq(s, 1, n)) \subseteq Frames(s)
         /\ OneEach(s, links) => OneEach(SubSeq(s, 1, n), links)
<1> DEFINE t == SubSeq(s, 1, n)
<1>1. /\ t \in Seq(S) /\ Len(t) = n /\ \A i \in 1..n : t[i] = s[i] /\ i \in 1..Len(s)
  <2>1. Len(s) \in Nat /\ n \in Nat /\ n <= Len(s)
    OBVIOUS
  <2>2. \A i \in 1..n : i \in 1..Len(s)
    BY <2>1
  <2>3. t \in Seq(S) /\ Len(t) = n /\ \A i \in 1..n : t[i] = s[i]
    BY <2>1, <2>2, SubSeqProperties
  <2> QED
    BY <2>2, <2>3
<1> HIDE DEF t
<1>2. Frames(t) \subseteq Frames(s) /\ (OneEach(s, links) => OneEach(t, links))
  BY <1>1 DEF Frames, OneEach
<1> QED
  BY <1>1, <1>2 DEF t

\* A queue of one frame: incoming_ and toServe_ hold no more.
LEMMA Single ==
  ASSUME NEW S, NEW s \in Seq(S), Len(s) <= 1, s # <<>>
  PROVE  Frames(s) = {Head(s)} /\ Tail(s) = <<>> /\ Head(s) \in S
<1>1. /\ Tail(s) \in Seq(S) /\ Frames(s) = Frames(Tail(s)) \cup {Head(s)}
      /\ Len(s) \in Nat /\ Len(Tail(s)) = Len(s) - 1
  BY Taken
<1>2. Len(s) # 0
  BY EmptySeq
<1>3. Len(Tail(s)) = 0
  BY <1>1, <1>2
<1>4. Tail(s) = <<>>
  BY <1>1, <1>3, EmptySeq
<1>5. Frames(s) \subseteq S
  BY FramesOf
<1> QED
  BY <1>1, <1>4, <1>5, NoFrames

-----------------------------------------------------------------------------
(* One side as the other sees it: its core k, the command m it runs and    *)
(* the slot s, what of its answers T is on the way to it, what requests W  *)
(* of the other side it has not answered, on the link that is up, and      *)
(* whether its server thread still serves a frame of an earlier link.      *)

Now(n, links)     == IF n.frame # Nothing /\ n.link = links THEN {n.frame} ELSE {}
Stale(n, links)   == n.frame # Nothing /\ n.link # links
Pending(w, q, t, n, links) == Asked(w) \cup Frames(q) \cup Frames(t) \cup Now(n, links)

Waits(m, s)    == m \notin {"idle", "READ"} /\ s = "none"
Acked(s, T)    == s = "ACK" \/ "ACK" \in T
Accepted(k)    == k.offerOut # 0 /\ k.answered /\ k.accepted
Sending(k)     == k.xfer = "put" \/ Accepted(k)
OfferOpen(k)   == k.offerOut # 0 /\ ~(k.answered /\ ~k.accepted)
Gets(k)        == k.xfer = "get" /\ ~k.failed

\* A request or an answer is in one place.
InOnePlace(w, q, t, n, links) ==
  /\ OneEach(w, links) /\ Len(q) <= 1 /\ Len(t) <= 1
  /\ q = <<>> \/ t = <<>>
  /\ q # <<>> \/ t # <<>> => Asked(w) = {} /\ Now(n, links) = {}
  /\ Now(n, links) # {} => Asked(w) = {}
  /\ n.link <= links
  /\ n.frame # Nothing => n.frame \in Requests

\* Without a link nothing is on its way in, and a sender knows it failed.
Placed(k, ko, w, q, t) ==
  /\ ~k.linked => w = <<>> /\ q = <<>> /\ t = <<>>
  /\ DownFrame \in Frames(w) => ~ko.linked

\* What each command may find.
Commanded(k, m, s) ==
  /\ ~k.linked => /\ k.offerOut = 0
                  /\ k.xfer = "put" => k.failed
                  /\ k.xfer = "get" => k.failed \/ m = "ANSWER"
                  /\ m # "idle" => s = "GONE"
  /\ m = "idle" => s = "none"
  /\ m = "OFFER" => k.xfer = "none"
  /\ m = "WITHDRAW" => k.xfer = "none" /\ k.offerOut = 0
  /\ m = "ANSWER" => k.xfer \in {"none", "get"} /\ ~OfferOpen(k)
  /\ m \in {"WRITE", "END", "ABORT"} => k.xfer = "put"
  /\ m \in {"WRITE", "END"} => ~k.failed \/ s = "GONE"
  /\ m = "READ" => /\ k.xfer = "get"
                   /\ s = "GONE" \/ (s = "none" /\ ~k.failed /\ ~k.ended)
  /\ k.xfer # "none" => ~OfferOpen(k) /\ k.xid # 0
  /\ k.xfer = "get" => k.offerIn = 0
  /\ k.xfer = "put" => k.offerOut = 0

\* An answer has a command that waits for it.
Answered(k, m, s, T, done) ==
  /\ T # {} => Waits(m, s)
  /\ s \in {"ACK", "ERR"} => m \notin {"idle", "READ"}
  /\ m = "END" /\ Acked(s, T) => k.xid \in done

\* A request is of the command that waits.
Fits(f, k, m, size) ==
  /\ f.kind = "OFFER" => m = "OFFER" /\ f.of = k.offerOut
  /\ f.kind = "FILE_ANSWER" => m = "ANSWER" /\ (f.arg = 1 => k.xfer = "get")
  /\ f.kind = "ABORT" => m \in {"WITHDRAW", "ABORT"}
  /\ f.kind = "DATA" => m = "WRITE" /\ f.of = k.xid /\ f.arg = size[f.of]
  /\ f.kind = "END" => m = "END" /\ f.of = k.xid

Flow(k, m, s, T, Wo, size) ==
  Wo # {} => /\ Waits(m, s) /\ T = {}
             /\ \A f \in Wo : Fits(f, k, m, size)

\* The next chunk is the one the receiver lacks.
Incoming(k, W, stale, size) ==
  \A f \in W : f.kind \in {"DATA", "END"} =>
    /\ ~Sending(k) /\ ~stale /\ f.of \in Offers
    /\ f.kind = "DATA" => f.arg \in 1..size[f.of]
    /\ k.xfer = "get" =>
         /\ k.xid = f.of
         /\ ~k.failed => IF f.kind = "DATA" THEN f.arg = Len(k.got) + 1
                                            ELSE size[f.of] = Len(k.got)
    /\ k.offerIn \in {0, f.of}
    /\ k.offerIn = f.of => IF f.kind = "DATA" THEN f.arg = 1 ELSE size[f.of] = 0

Received(k, size, done) ==
  Gets(k) => /\ Len(k.got) <= size[k.xid]
             /\ \A n \in 1..Len(k.got) : k.got[n] = [of |-> k.xid, n |-> n]
             /\ k.ended => k.xid \in done

\* A sender and its peer.
Sends(k, m, s, T, ko, staleo, size) ==
  k.xfer = "put" =>
    /\ ~staleo
    /\ ko.xfer = "get" => ko.xid = k.xid
    /\ ko.offerIn \in {0, k.xid}
    /\ ~k.failed =>
         /\ Gets(ko) /\ (m = "idle" \/ (m = "WRITE" /\ Acked(s, T)))
              => Len(ko.got) = size[k.xid]
         /\ ko.offerIn = k.xid =>
              /\ m \in {"idle", "END"} => size[k.xid] = 0
              /\ m = "WRITE" => size[k.xid] = 1
              /\ m \in {"WRITE", "END"} => ~Acked(s, T)

\* An offer the peer has, and its peer.
Offered(k, m, s, T, ko, staleo, size) ==
  OfferOpen(k) =>
    /\ size[k.offerOut] = 0
    /\ k.linked /\ ko.linked /\ (m # "OFFER" \/ Acked(s, T)) =>
         /\ ~staleo
         /\ ko.xfer = "get" => ko.xid = k.offerOut
         /\ ko.offerIn \in {0, k.offerOut}

\* A frame of an earlier link: only A serves one, and finds no transfer.
OldFrame(k, m, ko) ==
  /\ k.xfer = "none" /\ k.offerIn = 0 /\ ~Accepted(k) /\ ~Sending(ko)
  /\ m \in {"idle", "OFFER", "WITHDRAW"}

Numbered(k, ko, made) ==
  /\ k.offerOut <= made /\ (k.xfer = "put" => k.xid <= made)
  /\ k.offerOut # 0 => /\ ko.offerOut # k.offerOut
                       /\ ko.xfer = "put" => ko.xid # k.offerOut

\* One side, with the other.
SideInv(k, m, s, T, W, stale, ko, Wo, staleo, size, done, made) ==
  /\ Commanded(k, m, s)
  /\ Answered(k, m, s, T, done)
  /\ Incoming(k, W, stale, size)
  /\ Received(k, size, done)
  /\ Offered(k, m, s, T, ko, staleo, size)
  /\ Numbered(k, ko, made)
  /\ k.linked => Flow(k, m, s, T, Wo, size)
  /\ k.linked /\ ko.linked => /\ Sends(k, m, s, T, ko, staleo, size)
                              /\ ~(Sending(k) /\ Sending(ko))
                              /\ stale => OldFrame(k, m, ko) /\ ~staleo

-----------------------------------------------------------------------------
(* Both sides: k, m, s, T, W, stale of one and of the other.               *)

CoreSet ==
  [linked : BOOLEAN, offerIn : 0..MaxOffers, offerOut : 0..MaxOffers,
   answered : BOOLEAN, accepted : BOOLEAN, xfer : {"none", "put", "get"}, xid : 0..MaxOffers,
   failed : BOOLEAN, ended : BOOLEAN, got : Seq([of : Offers, n : 1..MaxPeerChunks])]

\* The types of a side, and of the file written, taken whole and counted.
SideType(k, m, s, T, W, stale) ==
  /\ k \in CoreSet
  /\ m \in {"idle", "OFFER", "WITHDRAW", "ANSWER", "WRITE", "END", "ABORT", "READ"}
  /\ s \in {"none", "ACK", "ERR", "GONE"}
  /\ T \subseteq Answers /\ W \subseteq Requests /\ stale \in BOOLEAN

GhostType(size, done, made) ==
  /\ size \in [Offers -> 0..MaxPeerChunks] /\ done \subseteq Offers /\ made \in 0..MaxOffers
  /\ \A i \in Offers : i > made => size[i] = 0

Sides(k, m, s, T, W, stale, ko, mo, so, To, Wo, staleo, size, done, made) ==
  /\ SideType(k, m, s, T, W, stale) /\ SideType(ko, mo, so, To, Wo, staleo)
  /\ GhostType(size, done, made)
  /\ SideInv(k, m, s, T, W, stale, ko, Wo, staleo, size, done, made)
  /\ SideInv(ko, mo, so, To, Wo, staleo, k, W, stale, size, done, made)

\* What most steps leave alone.
SameOffers(l, k)   == /\ l.linked = k.linked /\ l.offerOut = k.offerOut
                      /\ l.answered = k.answered /\ l.accepted = k.accepted
SameTransfer(l, k) == /\ l.xfer = k.xfer /\ l.xid = k.xid /\ l.failed = k.failed
                      /\ l.ended = k.ended /\ l.got = k.got

-----------------------------------------------------------------------------
(* The sides after each step.                                              *)

\* A chunk added to those received.
LEMMA DataInQueue ==
  ASSUME NEW S, NEW q \in Seq(S), NEW x
  PROVE  /\ Len(Append(q, x)) = Len(q) + 1 /\ Append(q, x)[Len(q) + 1] = x
         /\ \A n \in 1..Len(q) : Append(q, x)[n] = q[n]
<1>1. q \in Seq(S \cup {x}) /\ x \in S \cup {x} /\ Len(q) \in Nat
  <2>1. \A i \in 1..Len(q) : q[i] \in S \cup {x}
    OBVIOUS
  <2> QED
    BY <2>1
<1> QED
  BY <1>1, AppendProperties

\* What an answer a to the request f says to the other side.
TellsRight(k, ko, mo, so, f, a, To, U, size) ==
  /\ U \subseteq Answers /\ (U # {} => Waits(mo, so))
  /\ k.linked /\ ko.linked => Waits(mo, so) /\ so = "none" /\ To = {} /\ U = {a} /\ Fits(f, ko, mo, size)
  /\ ~(k.linked /\ ko.linked) => U = To
  /\ Acked(so, U) => Acked(so, To) \/ (k.linked /\ ko.linked /\ a = "ACK")
  /\ f.kind \in {"OFFER", "FILE_ANSWER", "ABORT", "DATA", "END"}

\* Every answer in the sides' invariant tells the other side what its command asked.
LEMMA Tells ==
  ASSUME NEW k, NEW m, NEW s, NEW T, NEW W, NEW st, NEW ko, NEW mo, NEW so, NEW To, NEW Wo, NEW sto,
         NEW size, NEW done, NEW made,
         Sides(k, m, s, T, W, st, ko, mo, so, To, Wo, sto, size, done, made),
         NEW f \in W, NEW a, a \in Answers, NEW U, U = IF k.linked /\ ko.linked THEN To \cup {a} ELSE To
  PROVE  TellsRight(k, ko, mo, so, f, a, To, U, size)
<1>1. f.kind \in {"OFFER", "FILE_ANSWER", "ABORT", "DATA", "END"}
  BY FramesDiffer DEF Sides, SideType
<1>2. To \subseteq Answers /\ (To # {} => Waits(mo, so))
  BY DEF Sides, SideType, SideInv, Answered
<1>3. ko.linked => Waits(mo, so) /\ To = {} /\ Fits(f, ko, mo, size)
  BY DEF Sides, SideInv, Flow
<1> QED
  BY <1>1, <1>2, <1>3 DEF TellsRight, Acked, Waits

\* offer().
LEMMA OfferSides ==
  ASSUME NEW k, NEW m, NEW s, NEW T, NEW W, NEW st, NEW ko, NEW mo, NEW so, NEW To, NEW Wo, NEW sto,
         NEW size, NEW done, NEW made,
         Sides(k, m, s, T, W, st, ko, mo, so, To, Wo, sto, size, done, made),
         m = "idle", k.linked, k.xfer = "none", ~OfferOpen(k), made < MaxOffers,
         NEW l \in CoreSet, SameTransfer(l, k), l.linked = k.linked, l.offerIn = k.offerIn,
         l.offerOut = made + 1, ~l.answered, ~l.accepted,
         NEW f \in Requests, f.kind = "OFFER", f.of = made + 1,
         NEW V, V = IF k.linked /\ ko.linked THEN {f} ELSE Wo
  PROVE  Sides(l, "OFFER", "none", T, W, st, ko, mo, so, To, V, sto, size, done, made + 1)
<1>1. /\ SideType(l, "OFFER", "none", T, W, st)
      /\ SideType(ko, mo, so, To, V, sto)
      /\ GhostType(size, done, made + 1)
  <2>1. made + 1 \in 0..MaxOffers /\ made < made + 1 /\ made \in Nat
    BY BoundsAssumption DEF BoundsAssumption, Sides, GhostType
  <2>2. \A i \in Offers : i > made + 1 => i > made
    BY <2>1 DEF Offers
  <2> QED
    BY <2>1, <2>2 DEF Sides, SideType, GhostType, Offers, SameOffers, SameTransfer
<1>2. SideInv(l, "OFFER", "none", T, W, st, ko, V, sto, size, done, made + 1)
  BY <1>1 DEF Sides, SideType, GhostType, Offers, CoreSet, SideInv, SameOffers, SameTransfer, Commanded,
     Answered, Incoming, Received, Offered, Numbered, Flow, Sends, OldFrame, Fits, Waits, Acked, Accepted,
     Sending, OfferOpen, Gets
<1>3. SideInv(ko, mo, so, To, V, sto, l, W, st, size, done, made + 1)
  <2>1. Commanded(ko, mo, so) /\ Answered(ko, mo, so, To, done)
    BY <1>1 DEF Sides, SideInv, Answered, Acked
  <2>2. Received(ko, size, done)
    BY <1>1 DEF Sides, SideInv, Received, Gets, SameTransfer
  <2>3. Numbered(ko, l, made + 1)
    BY <1>1 DEF Sides, SideInv, SideType, GhostType, Numbered, CoreSet, SameOffers, SameTransfer
  <2>4. Incoming(ko, V, sto, size)
    BY <1>1 DEF Sides, SideInv, Incoming, Sending, Accepted, SameOffers, SameTransfer
  <2>5. Offered(ko, mo, so, To, l, st, size)
    BY <1>1 DEF Sides, SideInv, Offered, OfferOpen, Acked, SameOffers, SameTransfer
  <2>6. ASSUME ko.linked PROVE Flow(ko, mo, so, To, W, size)
    BY <2>6, <1>1 DEF Sides, SideInv, Flow, Fits, Waits, SameOffers, SameTransfer
  <2>7. ASSUME ko.linked, l.linked PROVE Sends(ko, mo, so, To, l, st, size)
    BY <2>7, <1>1 DEF Sides, SideInv, Sends, Gets, Acked, SameOffers, SameTransfer
  <2>8. ASSUME ko.linked, l.linked
        PROVE  ~(Sending(ko) /\ Sending(l)) /\ (sto => OldFrame(ko, mo, l) /\ ~st)
    BY <2>8, <1>1 DEF Sides, SideInv, Sending, Accepted, OldFrame, SameOffers, SameTransfer
  <2> QED
    BY <2>1, <2>2, <2>3, <2>4, <2>5, <2>6, <2>7, <2>8 DEF SideInv
<1> QED
  BY <1>1, <1>2, <1>3 DEF Sides

\* WITHDRAW of an offer.
LEMMA WithdrawSides ==
  ASSUME NEW k, NEW m, NEW s, NEW T, NEW W, NEW st, NEW ko, NEW mo, NEW so, NEW To, NEW Wo, NEW sto,
         NEW size, NEW done, NEW made,
         Sides(k, m, s, T, W, st, ko, mo, so, To, Wo, sto, size, done, made),
         m = "idle", k.linked, OfferOpen(k),
         NEW l \in CoreSet, SameTransfer(l, k), l.linked = k.linked, l.offerIn = k.offerIn,
         l.offerOut = 0, ~l.answered, l.accepted = k.accepted,
         NEW f \in Requests, f.kind = "ABORT",
         NEW V, V = IF k.linked /\ ko.linked THEN {f} ELSE Wo
  PROVE  Sides(l, "WITHDRAW", "none", T, W, st, ko, mo, so, To, V, sto, size, done, made)
<1>1. /\ SideType(l, "WITHDRAW", "none", T, W, st)
      /\ SideType(ko, mo, so, To, V, sto)
      /\ GhostType(size, done, made)
  BY DEF Sides, SideType, GhostType, Offers, SameOffers, SameTransfer
<1>2. SideInv(l, "WITHDRAW", "none", T, W, st, ko, V, sto, size, done, made)
  BY <1>1 DEF Sides, SideType, GhostType, Offers, CoreSet, SideInv, SameOffers, SameTransfer, Commanded,
     Answered, Incoming, Received, Offered, Numbered, Flow, Sends, OldFrame, Fits, Waits, Acked, Accepted,
     Sending, OfferOpen, Gets
<1>3. SideInv(ko, mo, so, To, V, sto, l, W, st, size, done, made)
  BY <1>1 DEF Sides, SideInv, SameOffers, SameTransfer, Commanded, Answered, Incoming, Received, Offered,
     Numbered, Flow, Sends, OldFrame, Fits, Waits, Acked, Accepted, Sending, OfferOpen, Gets
<1> QED
  BY <1>1, <1>2, <1>3 DEF Sides

\* answerOffer() that accepts.
LEMMA AcceptSides ==
  ASSUME NEW k, NEW m, NEW s, NEW T, NEW W, NEW st, NEW ko, NEW mo, NEW so, NEW To, NEW Wo, NEW sto,
         NEW size, NEW done, NEW made,
         Sides(k, m, s, T, W, st, ko, mo, so, To, Wo, sto, size, done, made),
         m = "idle", k.xfer = "none", ~OfferOpen(k), k.offerIn # 0,
         NEW l \in CoreSet, SameOffers(l, k), l.offerIn = 0, l.xfer = "get", l.xid = k.offerIn,
         ~l.failed, ~l.ended, l.got = <<>>,
         NEW f \in Requests, f.kind = "FILE_ANSWER", f.of = k.offerIn, f.arg = 1,
         NEW V, V = IF k.linked /\ ko.linked THEN {f} ELSE Wo,
         NEW b, k.linked => b = "none", ~k.linked => b = "GONE",
         NEW X \in SUBSET W
  PROVE  Sides(l, "ANSWER", b, T, X, st, ko, mo, so, To, V, sto, size, done, made)
<1>1. /\ SideType(l, "ANSWER", b, T, X, st)
      /\ SideType(ko, mo, so, To, V, sto)
      /\ GhostType(size, done, made)
  BY DEF Sides, SideType, GhostType, Offers, SameOffers, SameTransfer
<1>2. SideInv(l, "ANSWER", b, T, X, st, ko, V, sto, size, done, made)
  <2>1. Commanded(l, "ANSWER", b) /\ Answered(l, "ANSWER", b, T, done)
    BY <1>1 DEF Sides, SideInv, Answered, Acked, SideType, CoreSet, Commanded, OfferOpen, Accepted, Waits,
       SameOffers, SameTransfer
  <2>2. Received(l, size, done)
    <3>1. l.xid \in Offers /\ size[l.xid] \in Nat
      BY DEF Sides, SideType, GhostType, CoreSet, Offers
    <3>2. l.got = <<>> /\ Len(l.got) = 0 /\ ~l.ended
      OBVIOUS
    <3> QED
      BY ONLY <3>1, <3>2 DEF Received
  <2>3. Numbered(l, ko, made)
    BY <1>1 DEF Sides, SideInv, SideType, GhostType, Numbered, CoreSet, SameOffers, SameTransfer,
       Commanded, Accepted, OfferOpen
  <2>4. Incoming(l, X, st, size)
    BY <1>1 DEF Sides, SideInv, Incoming, Sending, Accepted, SameOffers, SameTransfer, Commanded, OfferOpen
  <2>5. Offered(l, "ANSWER", b, T, ko, sto, size)
    BY <1>1 DEF Sides, SideInv, Offered, OfferOpen, Acked, SameOffers, SameTransfer, Commanded, GhostType,
       Numbered, Answered, Waits
  <2>6. ASSUME l.linked PROVE Flow(l, "ANSWER", b, T, V, size)
    BY <2>6, <1>1 DEF Sides, SideInv, Flow, Fits, Waits, SameOffers, SameTransfer, Answered, Commanded
  <2>7. ASSUME l.linked, ko.linked PROVE Sends(l, "ANSWER", b, T, ko, sto, size)
    BY <2>7, <1>1 DEF Sides, SideInv, Sends, Gets, Acked, SameOffers, SameTransfer, SideType, GhostType,
       CoreSet, Commanded, Answered, Waits, Offered, Received, Accepted, OfferOpen
  <2>8. ASSUME l.linked, ko.linked
        PROVE  ~(Sending(l) /\ Sending(ko)) /\ (st => OldFrame(l, "ANSWER", ko) /\ ~sto)
    BY <2>8, <1>1 DEF Sides, SideInv, Sending, Accepted, OldFrame, SameOffers, SameTransfer, Commanded,
       OfferOpen, Sends, Offered
  <2> QED
    BY <2>1, <2>2, <2>3, <2>4, <2>5, <2>6, <2>7, <2>8 DEF SideInv
<1>3. SideInv(ko, mo, so, To, V, sto, l, X, st, size, done, made)
  BY <1>1 DEF Sides, SideInv, SameOffers, SameTransfer, Commanded, Answered, Incoming, Received, Offered,
     Numbered, Flow, Sends, OldFrame, Fits, Waits, Acked, Accepted, Sending, OfferOpen, Gets
<1> QED
  BY <1>1, <1>2, <1>3 DEF Sides

\* answerOffer() that does not.
LEMMA RefuseSides ==
  ASSUME NEW k, NEW m, NEW s, NEW T, NEW W, NEW st, NEW ko, NEW mo, NEW so, NEW To, NEW Wo, NEW sto,
         NEW size, NEW done, NEW made,
         Sides(k, m, s, T, W, st, ko, mo, so, To, Wo, sto, size, done, made),
         m = "idle", k.xfer = "none", ~OfferOpen(k), k.offerIn # 0,
         NEW l \in CoreSet, SameOffers(l, k), SameTransfer(l, k), l.offerIn = 0,
         NEW f \in Requests, f.kind = "FILE_ANSWER", f.arg = 0,
         NEW V, V = IF k.linked /\ ko.linked THEN {f} ELSE Wo,
         NEW b, k.linked => b = "none", ~k.linked => b = "GONE"
  PROVE  Sides(l, "ANSWER", b, T, W, st, ko, mo, so, To, V, sto, size, done, made)
<1>1. /\ SideType(l, "ANSWER", b, T, W, st)
      /\ SideType(ko, mo, so, To, V, sto)
      /\ GhostType(size, done, made)
  BY DEF Sides, SideType, GhostType, Offers, SameOffers, SameTransfer
<1>2. SideInv(l, "ANSWER", b, T, W, st, ko, V, sto, size, done, made)
  <2>1. /\ l.linked = k.linked /\ l.offerOut = k.offerOut /\ l.answered = k.answered /\ l.accepted = k.accepted
        /\ l.xfer = "none" /\ l.xid = k.xid /\ l.failed = k.failed /\ l.ended = k.ended /\ l.got = k.got
    BY DEF SameOffers, SameTransfer
  <2>2. /\ Commanded(k, m, s) /\ Answered(k, m, s, T, done) /\ Incoming(k, W, st, size)
        /\ Offered(k, m, s, T, ko, sto, size) /\ Numbered(k, ko, made) /\ (k.linked => Flow(k, m, s, T, Wo, size))
        /\ k.linked /\ ko.linked => ~(Sending(k) /\ Sending(ko)) /\ (st => OldFrame(k, m, ko) /\ ~sto)
    BY DEF Sides, SideInv
  <2>3. Commanded(l, "ANSWER", b) /\ Answered(l, "ANSWER", b, T, done) /\ T = {}
    BY <1>1, <2>1, <2>2 DEF Answered, Acked, Commanded, OfferOpen, Waits, SideType, Answers
  <2>4. Incoming(l, W, st, size)
    BY <2>1, <2>2 DEF Incoming, Sending, Accepted
  <2>5. Received(l, size, done) /\ Offered(l, "ANSWER", b, T, ko, sto, size) /\ Numbered(l, ko, made)
    BY <2>1, <2>2 DEF Received, Gets, Offered, OfferOpen, Numbered
  <2>6. ASSUME l.linked PROVE Flow(l, "ANSWER", b, T, V, size)
    BY <2>1, <2>2, <2>3, <2>6 DEF Flow, Fits, Waits
  <2>7. ASSUME l.linked, ko.linked
        PROVE  /\ Sends(l, "ANSWER", b, T, ko, sto, size) /\ ~(Sending(l) /\ Sending(ko))
               /\ st => OldFrame(l, "ANSWER", ko) /\ ~sto
    BY <2>1, <2>2, <2>7 DEF Sends, Sending, Accepted, OldFrame
  <2> QED
    BY <2>3, <2>4, <2>5, <2>6, <2>7 DEF SideInv
<1>3. SideInv(ko, mo, so, To, V, sto, l, W, st, size, done, made)
  BY <1>1 DEF Sides, SideInv, SameOffers, SameTransfer, Commanded, Answered, Incoming, Received, Offered,
     Numbered, Flow, Sends, OldFrame, Fits, Waits, Acked, Accepted, Sending, OfferOpen, Gets
<1> QED
  BY <1>1, <1>2, <1>3 DEF Sides

\* SEND of an accepted offer.
LEMMA SendSides ==
  ASSUME NEW k, NEW m, NEW s, NEW T, NEW W, NEW st, NEW ko, NEW mo, NEW so, NEW To, NEW Wo, NEW sto,
         NEW size, NEW done, NEW made,
         Sides(k, m, s, T, W, st, ko, mo, so, To, Wo, sto, size, done, made),
         m = "idle", k.linked, Accepted(k),
         NEW l \in CoreSet, l.linked = k.linked, l.offerIn = k.offerIn, l.offerOut = 0,
         ~l.answered, l.accepted = k.accepted,
         l.xfer = "put", l.xid = k.offerOut, ~l.failed, l.ended = k.ended, l.got = k.got
  PROVE  Sides(l, m, s, T, W, st, ko, mo, so, To, Wo, sto, size, done, made)
<1>1. /\ SideType(l, m, s, T, W, st)
      /\ SideType(ko, mo, so, To, Wo, sto)
      /\ GhostType(size, done, made)
  BY DEF Sides, SideType, GhostType, Offers, SameOffers, SameTransfer
<1>2. SideInv(l, m, s, T, W, st, ko, Wo, sto, size, done, made)
  BY <1>1 DEF Sides, SideType, GhostType, Offers, CoreSet, SideInv, SameOffers, SameTransfer, Commanded,
     Answered, Incoming, Received, Offered, Numbered, Flow, Sends, OldFrame, Fits, Waits, Acked, Accepted,
     Sending, OfferOpen, Gets
<1>3. SideInv(ko, mo, so, To, Wo, sto, l, W, st, size, done, made)
  BY <1>1 DEF Sides, SideInv, SameOffers, SameTransfer, Commanded, Answered, Incoming, Received, Offered,
     Numbered, Flow, Sends, OldFrame, Fits, Waits, Acked, Accepted, Sending, OfferOpen, Gets
<1> QED
  BY <1>1, <1>2, <1>3 DEF Sides

\* write().
LEMMA WriteSides ==
  ASSUME NEW k, NEW m, NEW s, NEW T, NEW W, NEW st, NEW ko, NEW mo, NEW so, NEW To, NEW Wo, NEW sto,
         NEW size, NEW done, NEW made,
         Sides(k, m, s, T, W, st, ko, mo, so, To, Wo, sto, size, done, made),
         m = "idle", k.linked, k.xfer = "put", ~k.failed, size[k.xid] < MaxPeerChunks,
         NEW more, more = [size EXCEPT ![k.xid] = @ + 1],
         NEW f \in Requests, f.kind = "DATA", f.of = k.xid, f.arg = size[k.xid] + 1,
         NEW V, V = IF k.linked /\ ko.linked THEN {f} ELSE Wo
  PROVE  Sides(k, "WRITE", "none", T, W, st, ko, mo, so, To, V, sto, more, done, made)
<1>1. /\ k.xid \in Offers /\ k.xid <= made /\ size[k.xid] \in Nat
      /\ more \in [Offers -> 0..MaxPeerChunks] /\ more[k.xid] = size[k.xid] + 1
      /\ \A i \in Offers : /\ size[i] \in Nat /\ more[i] \in Nat /\ more[i] >= size[i]
                           /\ i # k.xid => more[i] = size[i]
  <2>1. k.xid \in Offers /\ k.xid <= made
    BY DEF Sides, SideType, CoreSet, SideInv, Commanded, Numbered, Offers
  <2>2. size \in [Offers -> 0..MaxPeerChunks]
    BY DEF Sides, GhostType
  <2>3. \A i \in Offers : size[i] \in 0..MaxPeerChunks /\ size[i] \in Nat
    BY <2>2
  <2>4. size[k.xid] + 1 \in 0..MaxPeerChunks
    BY BoundsAssumption, <2>1, <2>3 DEF BoundsAssumption
  <2>5. \A i \in Offers : more[i] = IF i = k.xid THEN size[k.xid] + 1 ELSE size[i]
    BY <2>1, <2>2
  <2> QED
    BY <2>1, <2>2, <2>3, <2>4, <2>5
<1>2. /\ SideType(k, "WRITE", "none", T, W, st) /\ SideType(ko, mo, so, To, V, sto)
      /\ GhostType(more, done, made)
  BY <1>1 DEF Sides, SideType, GhostType, Offers
<1>3. /\ \A i \in Offers : more[i] = 0 => size[i] = 0
      /\ OfferOpen(ko) => more[ko.offerOut] = size[ko.offerOut]
  <2>1. OfferOpen(ko) => ko.offerOut \in Offers /\ ko.offerOut # k.xid
    BY DEF Sides, SideType, CoreSet, SideInv, Numbered, OfferOpen, Offers
  <2> QED
    BY <1>1, <2>1
<1>4. \A g \in W : g.kind \notin {"DATA", "END"}
  BY DEF Sides, SideInv, Incoming, Sending
<1>5. V \subseteq {f} /\ (f \in V => ko.linked)
  BY DEF Sides, SideInv, Flow, Waits
<1>6. /\ Commanded(k, "WRITE", "none") /\ Answered(k, "WRITE", "none", T, done)
      /\ Received(k, more, done) /\ Numbered(k, ko, made) /\ Incoming(k, W, st, more)
      /\ Offered(k, "WRITE", "none", T, ko, sto, more)
  <2>1. Commanded(k, "WRITE", "none") /\ Answered(k, "WRITE", "none", T, done) /\ Numbered(k, ko, made)
    BY DEF Sides, SideInv, Commanded, Answered, Waits, Acked
  <2>2. Received(k, more, done) /\ Incoming(k, W, st, more)
    BY <1>4 DEF Received, Gets, Incoming
  <2>3. Offered(k, "WRITE", "none", T, ko, sto, more)
    BY DEF Sides, SideInv, Commanded, Offered
  <2> QED
    BY <2>1, <2>2, <2>3
<1>7. Flow(k, "WRITE", "none", T, V, more)
  <2>1. T = {}
    BY DEF Sides, SideInv, Answered, Waits
  <2> QED
    BY <1>1, <1>5, <2>1 DEF Flow, Fits, Waits
<1>8. Sends(k, "WRITE", "none", T, ko, sto, more) \/ ~ko.linked
  <2>1. T = {}
    BY DEF Sides, SideInv, Answered, Waits
  <2> QED
    BY <1>1, <2>1 DEF Sides, SideInv, Sends, Acked
<1>9. Received(ko, more, done)
  <2>1. CASE Gets(ko)
    <3>1. ko.xid \in Offers /\ Len(ko.got) \in Nat
      BY <2>1 DEF Sides, SideType, CoreSet, SideInv, Commanded, Gets, Offers
    <3>2. Received(ko, size, done)
      BY DEF Sides, SideInv
    <3>3. size[ko.xid] \in Nat /\ more[ko.xid] \in Nat /\ more[ko.xid] >= size[ko.xid]
      BY <1>1, <3>1
    <3> QED
      BY ONLY <2>1, <3>1, <3>2, <3>3 DEF Received
  <2> QED
    BY <2>1 DEF Received
<1>10. Incoming(ko, V, sto, more)
  <2>1. CASE ko.linked
    <3>1. /\ ~Sending(ko) /\ ~sto /\ (ko.xfer = "get" => ko.xid = k.xid) /\ ko.offerIn \in {0, k.xid}
          /\ Gets(ko) => Len(ko.got) = size[k.xid]
          /\ ko.offerIn = k.xid => size[k.xid] = 0
      BY <2>1 DEF Sides, SideInv, Sends, Sending
    <3>2. f.kind = "DATA" /\ f.of = k.xid /\ f.arg = size[k.xid] + 1
      OBVIOUS
    <3> QED
      BY ONLY <1>1, <1>5, <3>1, <3>2 DEF Incoming, Gets
  <2> QED
    BY <1>5, <2>1 DEF Incoming
<1>11. Offered(ko, mo, so, To, k, st, more)
  BY <1>3 DEF Sides, SideInv, Offered
<1>12. ASSUME ko.linked
       PROVE  /\ Flow(ko, mo, so, To, W, more) /\ Sends(ko, mo, so, To, k, st, more)
              /\ ~(Sending(k) /\ Sending(ko)) /\ (st => OldFrame(k, "WRITE", ko) /\ ~sto)
              /\ sto => OldFrame(ko, mo, k) /\ ~st
  <2>1. ~Sending(ko) /\ ko.xfer # "put" /\ ~st /\ ~sto
    BY <1>12 DEF Sides, SideInv, Sending, OldFrame
  <2>2. Flow(ko, mo, so, To, W, more)
    <3>1. Flow(ko, mo, so, To, W, size)
      BY <1>12 DEF Sides, SideInv
    <3> QED
      BY <1>4, <3>1 DEF Flow, Fits
  <2> QED
    BY <2>1, <2>2 DEF Sends
<1>13. ASSUME ko.linked PROVE Flow(ko, mo, so, To, W, more)
  BY <1>12, <1>13
<1>14. /\ Commanded(ko, mo, so) /\ Answered(ko, mo, so, To, done) /\ Numbered(ko, k, made)
  BY DEF Sides, SideInv
<1>15. /\ SideInv(k, "WRITE", "none", T, W, st, ko, V, sto, more, done, made)
       /\ SideInv(ko, mo, so, To, V, sto, k, W, st, more, done, made)
  BY <1>6, <1>7, <1>8, <1>9, <1>10, <1>11, <1>12, <1>14 DEF SideInv
<1> QED
  BY <1>2, <1>15 DEF Sides

\* read() waits.
LEMMA ReadSides ==
  ASSUME NEW k, NEW m, NEW s, NEW T, NEW W, NEW st, NEW ko, NEW mo, NEW so, NEW To, NEW Wo, NEW sto,
         NEW size, NEW done, NEW made,
         Sides(k, m, s, T, W, st, ko, mo, so, To, Wo, sto, size, done, made),
         m = "idle", k.xfer = "get", ~k.failed, ~k.ended
  PROVE  Sides(k, "READ", "none", T, W, st, ko, mo, so, To, Wo, sto, size, done, made)
<1>1. /\ SideType(k, "READ", "none", T, W, st)
      /\ SideType(ko, mo, so, To, Wo, sto)
      /\ GhostType(size, done, made)
  BY DEF Sides, SideType, GhostType, Offers, SameOffers, SameTransfer
<1>2. SideInv(k, "READ", "none", T, W, st, ko, Wo, sto, size, done, made)
  BY <1>1 DEF Sides, SideType, GhostType, Offers, CoreSet, SideInv, SameOffers, SameTransfer, Commanded,
     Answered, Incoming, Received, Offered, Numbered, Flow, Sends, OldFrame, Fits, Waits, Acked, Accepted,
     Sending, OfferOpen, Gets
<1>3. SideInv(ko, mo, so, To, Wo, sto, k, W, st, size, done, made)
  BY <1>1 DEF Sides, SideInv, SameOffers, SameTransfer, Commanded, Answered, Incoming, Received, Offered,
     Numbered, Flow, Sends, OldFrame, Fits, Waits, Acked, Accepted, Sending, OfferOpen, Gets
<1> QED
  BY <1>1, <1>2, <1>3 DEF Sides

\* close() of a transfer that has not failed.
LEMMA EndSides ==
  ASSUME NEW k, NEW m, NEW s, NEW T, NEW W, NEW st, NEW ko, NEW mo, NEW so, NEW To, NEW Wo, NEW sto,
         NEW size, NEW done, NEW made,
         Sides(k, m, s, T, W, st, ko, mo, so, To, Wo, sto, size, done, made),
         m = "idle", k.linked, k.xfer = "put", ~k.failed,
         NEW f \in Requests, f.kind = "END", f.of = k.xid,
         NEW V, V = IF k.linked /\ ko.linked THEN {f} ELSE Wo
  PROVE  Sides(k, "END", "none", T, W, st, ko, mo, so, To, V, sto, size, done, made)
<1>1. /\ SideType(k, "END", "none", T, W, st)
      /\ SideType(ko, mo, so, To, V, sto)
      /\ GhostType(size, done, made)
  BY DEF Sides, SideType, GhostType, Offers, SameOffers, SameTransfer
<1>2. SideInv(k, "END", "none", T, W, st, ko, V, sto, size, done, made)
  BY <1>1 DEF Sides, SideType, GhostType, Offers, CoreSet, SideInv, SameOffers, SameTransfer, Commanded,
     Answered, Incoming, Received, Offered, Numbered, Flow, Sends, OldFrame, Fits, Waits, Acked, Accepted,
     Sending, OfferOpen, Gets
<1>3. SideInv(ko, mo, so, To, V, sto, k, W, st, size, done, made)
  <2>1. Commanded(ko, mo, so) /\ Answered(ko, mo, so, To, done)
    BY <1>1 DEF Sides, SideInv, Answered, Acked
  <2>2. Received(ko, size, done)
    BY <1>1 DEF Sides, SideInv, Received, Gets, SameTransfer
  <2>3. Numbered(ko, k, made)
    BY <1>1 DEF Sides, SideInv, SideType, GhostType, Numbered, CoreSet, SameOffers, SameTransfer
  <2>4. Incoming(ko, V, sto, size)
    <3>1. V \subseteq {f} /\ (f \in V => ko.linked)
      BY DEF Sides, SideInv, Flow, Waits
    <3>2. CASE ko.linked
      <4>1. /\ ~Sending(ko) /\ ~sto /\ (ko.xfer = "get" => ko.xid = k.xid) /\ ko.offerIn \in {0, k.xid}
            /\ Gets(ko) => Len(ko.got) = size[k.xid]
            /\ ko.offerIn = k.xid => size[k.xid] = 0
        BY <3>2 DEF Sides, SideInv, Sends, Sending
      <4>2. k.xid \in Offers
        BY DEF Sides, SideType, CoreSet, SideInv, Commanded, Offers
      <4>3. f.kind = "END" /\ f.of = k.xid
        OBVIOUS
      <4> QED
        BY ONLY <3>1, <4>1, <4>2, <4>3 DEF Incoming, Gets
    <3> QED
      BY <3>1, <3>2 DEF Incoming
  <2>5. Offered(ko, mo, so, To, k, st, size)
    BY <1>1 DEF Sides, SideInv, Offered, OfferOpen, Acked, SameOffers, SameTransfer
  <2>6. ASSUME ko.linked PROVE Flow(ko, mo, so, To, W, size)
    BY <2>6, <1>1 DEF Sides, SideInv, Flow, Fits, Waits, SameOffers, SameTransfer
  <2>7. ASSUME ko.linked, k.linked PROVE Sends(ko, mo, so, To, k, st, size)
    BY <2>7, <1>1 DEF Sides, SideInv, Sends, Gets, Acked, SameOffers, SameTransfer
  <2>8. ASSUME ko.linked, k.linked
        PROVE  ~(Sending(ko) /\ Sending(k)) /\ (sto => OldFrame(ko, mo, k) /\ ~st)
    BY <2>8, <1>1 DEF Sides, SideInv, Sending, Accepted, OldFrame, SameOffers, SameTransfer
  <2> QED
    BY <2>1, <2>2, <2>3, <2>4, <2>5, <2>6, <2>7, <2>8 DEF SideInv
<1> QED
  BY <1>1, <1>2, <1>3 DEF Sides

\* close() of one that has, or whose FILE_END was refused.
LEMMA AbortSides ==
  ASSUME NEW k, NEW m, NEW s, NEW T, NEW W, NEW st, NEW ko, NEW mo, NEW so, NEW To, NEW Wo, NEW sto,
         NEW size, NEW done, NEW made,
         Sides(k, m, s, T, W, st, ko, mo, so, To, Wo, sto, size, done, made),
         m = "idle" \/ (m = "END" /\ s # "none"),
         k.linked, k.xfer = "put",
         NEW l \in CoreSet, SameOffers(l, k), l.offerIn = k.offerIn, l.xfer = k.xfer, l.xid = k.xid,
         l.ended = k.ended, l.got = k.got,
         NEW f \in Requests, f.kind = "ABORT",
         NEW V, V = IF k.linked /\ ko.linked THEN {f} ELSE Wo
  PROVE  Sides(l, "ABORT", "none", T, W, st, ko, mo, so, To, V, sto, size, done, made)
<1>1. /\ SideType(l, "ABORT", "none", T, W, st)
      /\ SideType(ko, mo, so, To, V, sto)
      /\ GhostType(size, done, made)
  BY DEF Sides, SideType, GhostType, Offers, SameOffers, SameTransfer
<1>2. SideInv(l, "ABORT", "none", T, W, st, ko, V, sto, size, done, made)
  BY <1>1 DEF Sides, SideType, GhostType, Offers, CoreSet, SideInv, SameOffers, SameTransfer, Commanded,
     Answered, Incoming, Received, Offered, Numbered, Flow, Sends, OldFrame, Fits, Waits, Acked, Accepted,
     Sending, OfferOpen, Gets
<1>3. SideInv(ko, mo, so, To, V, sto, l, W, st, size, done, made)
  BY <1>1 DEF Sides, SideInv, SameOffers, SameTransfer, Commanded, Answered, Incoming, Received, Offered,
     Numbered, Flow, Sends, OldFrame, Fits, Waits, Acked, Accepted, Sending, OfferOpen, Gets
<1> QED
  BY <1>1, <1>2, <1>3 DEF Sides

\* The transfer is over.
LEMMA OverSides ==
  ASSUME NEW k, NEW m, NEW s, NEW T, NEW W, NEW st, NEW ko, NEW mo, NEW so, NEW To, NEW Wo, NEW sto,
         NEW size, NEW done, NEW made,
         Sides(k, m, s, T, W, st, ko, mo, so, To, Wo, sto, size, done, made),
         m \in {"idle", "ANSWER", "END", "ABORT"},
         m # "idle" => s # "none",
         ~OfferOpen(k),
         NEW l \in CoreSet, SameOffers(l, k), l.offerIn = k.offerIn, l.xfer = "none", l.xid = k.xid,
         l.ended = k.ended, l.got = k.got
  PROVE  Sides(l, "idle", "none", T, W, st, ko, mo, so, To, Wo, sto, size, done, made)
<1>1. /\ SideType(l, "idle", "none", T, W, st)
      /\ SideType(ko, mo, so, To, Wo, sto)
      /\ GhostType(size, done, made)
  BY DEF Sides, SideType, GhostType, Offers, SameOffers, SameTransfer
<1>2. SideInv(l, "idle", "none", T, W, st, ko, Wo, sto, size, done, made)
  BY <1>1 DEF Sides, SideType, GhostType, Offers, CoreSet, SideInv, SameOffers, SameTransfer, Commanded,
     Answered, Incoming, Received, Offered, Numbered, Flow, Sends, OldFrame, Fits, Waits, Acked, Accepted,
     Sending, OfferOpen, Gets
<1>3. SideInv(ko, mo, so, To, Wo, sto, l, W, st, size, done, made)
  BY <1>1 DEF Sides, SideInv, SameOffers, SameTransfer, Commanded, Answered, Incoming, Received, Offered,
     Numbered, Flow, Sends, OldFrame, Fits, Waits, Acked, Accepted, Sending, OfferOpen, Gets
<1> QED
  BY <1>1, <1>2, <1>3 DEF Sides

\* A command ends without a change of the core.
LEMMA EndsSides ==
  ASSUME NEW k, NEW m, NEW s, NEW T, NEW W, NEW st, NEW ko, NEW mo, NEW so, NEW To, NEW Wo, NEW sto,
         NEW size, NEW done, NEW made,
         Sides(k, m, s, T, W, st, ko, mo, so, To, Wo, sto, size, done, made),
         m = "WITHDRAW" \/ (m \in {"OFFER", "ANSWER", "WRITE"} /\ s = "ACK"),
         s # "none"
  PROVE  Sides(k, "idle", "none", T, W, st, ko, mo, so, To, Wo, sto, size, done, made)
<1>1. /\ SideType(k, "idle", "none", T, W, st)
      /\ SideType(ko, mo, so, To, Wo, sto)
      /\ GhostType(size, done, made)
  BY DEF Sides, SideType, GhostType, Offers, SameOffers, SameTransfer
<1>2. SideInv(k, "idle", "none", T, W, st, ko, Wo, sto, size, done, made)
  BY <1>1 DEF Sides, SideType, GhostType, Offers, CoreSet, SideInv, SameOffers, SameTransfer, Commanded,
     Answered, Incoming, Received, Offered, Numbered, Flow, Sends, OldFrame, Fits, Waits, Acked, Accepted,
     Sending, OfferOpen, Gets
<1>3. SideInv(ko, mo, so, To, Wo, sto, k, W, st, size, done, made)
  BY <1>1 DEF Sides, SideInv, SameOffers, SameTransfer, Commanded, Answered, Incoming, Received, Offered,
     Numbered, Flow, Sends, OldFrame, Fits, Waits, Acked, Accepted, Sending, OfferOpen, Gets
<1> QED
  BY <1>1, <1>2, <1>3 DEF Sides

\* An offer that found nobody is gone.
LEMMA RefusedSides ==
  ASSUME NEW k, NEW m, NEW s, NEW T, NEW W, NEW st, NEW ko, NEW mo, NEW so, NEW To, NEW Wo, NEW sto,
         NEW size, NEW done, NEW made,
         Sides(k, m, s, T, W, st, ko, mo, so, To, Wo, sto, size, done, made),
         m = "OFFER", s \notin {"none", "ACK"},
         NEW l \in CoreSet, SameTransfer(l, k), l.linked = k.linked, l.offerIn = k.offerIn,
         l.offerOut = 0, l.answered = k.answered, l.accepted = k.accepted
  PROVE  Sides(l, "idle", "none", T, W, st, ko, mo, so, To, Wo, sto, size, done, made)
<1>1. /\ SideType(l, "idle", "none", T, W, st)
      /\ SideType(ko, mo, so, To, Wo, sto)
      /\ GhostType(size, done, made)
  BY DEF Sides, SideType, GhostType, Offers, SameOffers, SameTransfer
<1>2. SideInv(l, "idle", "none", T, W, st, ko, Wo, sto, size, done, made)
  BY <1>1 DEF Sides, SideType, GhostType, Offers, CoreSet, SideInv, SameOffers, SameTransfer, Commanded,
     Answered, Incoming, Received, Offered, Numbered, Flow, Sends, OldFrame, Fits, Waits, Acked, Accepted,
     Sending, OfferOpen, Gets
<1>3. SideInv(ko, mo, so, To, Wo, sto, l, W, st, size, done, made)
  BY <1>1 DEF Sides, SideInv, SameOffers, SameTransfer, Commanded, Answered, Incoming, Received, Offered,
     Numbered, Flow, Sends, OldFrame, Fits, Waits, Acked, Accepted, Sending, OfferOpen, Gets
<1> QED
  BY <1>1, <1>2, <1>3 DEF Sides

\* write() or read() fails.
LEMMA FailsSides ==
  ASSUME NEW k, NEW m, NEW s, NEW T, NEW W, NEW st, NEW ko, NEW mo, NEW so, NEW To, NEW Wo, NEW sto,
         NEW size, NEW done, NEW made,
         Sides(k, m, s, T, W, st, ko, mo, so, To, Wo, sto, size, done, made),
         m \in {"WRITE", "READ"}, s \notin {"none", "ACK"},
         NEW l \in CoreSet, SameOffers(l, k), l.offerIn = k.offerIn, l.xfer = k.xfer, l.xid = k.xid,
         l.failed, l.ended = k.ended, l.got = k.got
  PROVE  Sides(l, "idle", "none", T, W, st, ko, mo, so, To, Wo, sto, size, done, made)
<1>1. /\ SideType(l, "idle", "none", T, W, st)
      /\ SideType(ko, mo, so, To, Wo, sto)
      /\ GhostType(size, done, made)
  BY DEF Sides, SideType, GhostType, Offers, SameOffers, SameTransfer
<1>2. SideInv(l, "idle", "none", T, W, st, ko, Wo, sto, size, done, made)
  BY <1>1 DEF Sides, SideType, GhostType, Offers, CoreSet, SideInv, SameOffers, SameTransfer, Commanded,
     Answered, Incoming, Received, Offered, Numbered, Flow, Sends, OldFrame, Fits, Waits, Acked, Accepted,
     Sending, OfferOpen, Gets
<1>3. SideInv(ko, mo, so, To, Wo, sto, l, W, st, size, done, made)
  BY <1>1 DEF Sides, SideInv, SameOffers, SameTransfer, Commanded, Answered, Incoming, Received, Offered,
     Numbered, Flow, Sends, OldFrame, Fits, Waits, Acked, Accepted, Sending, OfferOpen, Gets
<1> QED
  BY <1>1, <1>2, <1>3 DEF Sides

\* read() takes a FILE_DATA.
LEMMA DataSides ==
  ASSUME NEW k, NEW m, NEW s, NEW T, NEW W, NEW st, NEW ko, NEW mo, NEW so, NEW To, NEW Wo, NEW sto,
         NEW size, NEW done, NEW made,
         Sides(k, m, s, T, W, st, ko, mo, so, To, Wo, sto, size, done, made),
         m = "READ", s # "GONE",
         NEW f \in W, f.kind = "DATA",
         NEW l \in CoreSet, SameOffers(l, k), l.offerIn = k.offerIn, l.xfer = k.xfer, l.xid = k.xid,
         l.failed = k.failed, l.ended = k.ended, NEW x, x = [of |-> f.of, n |-> f.arg], l.got = Append(k.got, x),
         NEW a, a = "ACK",
         NEW U \in SUBSET Answers, U = IF k.linked /\ ko.linked THEN To \cup {a} ELSE To
  PROVE  Sides(l, "idle", "none", T, {}, st, ko, mo, so, U, Wo, sto, size, done, made)
<1>0. TellsRight(k, ko, mo, so, f, a, To, U, size)
  <2>1. a \in Answers
    BY DEF Answers
  <2> QED
    BY <2>1, Tells, FramesDiffer
<1>1. /\ SideType(l, "idle", "none", T, {}, st)
      /\ SideType(ko, mo, so, U, Wo, sto)
      /\ GhostType(size, done, made)
  BY <1>0 DEF Sides, SideType, GhostType, Offers, SameOffers, SameTransfer, TellsRight
<1>2. SideInv(l, "idle", "none", T, {}, st, ko, Wo, sto, size, done, made)
  <2>1. Commanded(l, "idle", "none") /\ Answered(l, "idle", "none", T, done)
    BY <1>0, <1>1 DEF Sides, SideInv, Answered, Acked, SideType, CoreSet, Commanded, OfferOpen, Accepted,
       Waits, SameOffers, SameTransfer
  <2>2. Received(l, size, done)
    <3>1. CASE Gets(k)
      <4>1. /\ k.xid \in Offers /\ k.got \in Seq([of : Offers, n : 1..MaxPeerChunks]) /\ size[k.xid] \in Nat
        <5>1. k.xid \in Offers
          BY <3>1 DEF Sides, SideType, CoreSet, SideInv, Commanded, Gets, Offers
        <5>2. k.got \in Seq([of : Offers, n : 1..MaxPeerChunks])
          BY DEF Sides, SideType, CoreSet
        <5>3. size \in [Offers -> 0..MaxPeerChunks]
          BY DEF Sides, GhostType
        <5> QED
          BY <5>1, <5>2, <5>3
      <4>2. f.of = k.xid /\ f.arg = Len(k.got) + 1 /\ f.arg \in 1..size[k.xid]
        BY <3>1 DEF Sides, SideInv, Incoming, Gets
      <4>3. Received(k, size, done)
        BY DEF Sides, SideInv
      <4>4. /\ Len(l.got) = Len(k.got) + 1 /\ l.got[Len(k.got) + 1] = [of |-> k.xid, n |-> Len(k.got) + 1]
            /\ \A n \in 1..Len(k.got) : l.got[n] = k.got[n]
        BY <4>1, <4>2, DataInQueue
      <4>5. \A n \in 1..Len(l.got) : n \in 1..Len(k.got) \/ n = Len(k.got) + 1
        BY <4>1, <4>4
      <4>6. \A n \in 1..Len(l.got) : l.got[n] = [of |-> k.xid, n |-> n]
        BY <3>1, <4>3, <4>4, <4>5 DEF Received
      <4>7. Len(l.got) <= size[k.xid]
        BY <4>1, <4>2, <4>4
      <4> QED
        BY <3>1, <4>3, <4>6, <4>7 DEF Received, Gets
    <3> QED
      BY <3>1 DEF Received, Gets
  <2>3. Numbered(l, ko, made)
    BY <1>0, <1>1 DEF Sides, SideInv, SideType, GhostType, Numbered, CoreSet, SameOffers, SameTransfer,
       Commanded, Accepted, OfferOpen
  <2>4. Incoming(l, {}, st, size)
    BY <1>0, <1>1 DEF Sides, SideInv, Incoming, Sending, Accepted, SameOffers, SameTransfer, Commanded,
       OfferOpen
  <2>5. Offered(l, "idle", "none", T, ko, sto, size)
    BY <1>0, <1>1 DEF Sides, SideInv, Offered, OfferOpen, Acked, SameOffers, SameTransfer, Commanded,
       GhostType, Numbered, Answered, Waits
  <2>6. ASSUME l.linked PROVE Flow(l, "idle", "none", T, Wo, size)
    BY <1>0, <2>6, <1>1 DEF Sides, SideInv, Flow, Fits, Waits, SameOffers, SameTransfer, Answered, Commanded
  <2>7. ASSUME l.linked, ko.linked PROVE Sends(l, "idle", "none", T, ko, sto, size)
    BY <1>0, <2>7, <1>1 DEF Sides, SideInv, Sends, Gets, Acked, SameOffers, SameTransfer, SideType,
       GhostType, CoreSet, Commanded, Answered, Waits, Offered, Received, Accepted, OfferOpen
  <2>8. ASSUME l.linked, ko.linked
        PROVE  ~(Sending(l) /\ Sending(ko)) /\ (st => OldFrame(l, "idle", ko) /\ ~sto)
    BY <1>0, <2>8, <1>1 DEF Sides, SideInv, Sending, Accepted, OldFrame, SameOffers, SameTransfer,
       Commanded, OfferOpen, Sends, Offered
  <2> QED
    BY <2>1, <2>2, <2>3, <2>4, <2>5, <2>6, <2>7, <2>8 DEF SideInv
<1>3. SideInv(ko, mo, so, U, Wo, sto, l, {}, st, size, done, made)
  <2>1. Commanded(ko, mo, so) /\ Answered(ko, mo, so, U, done)
    BY <1>0, <1>1 DEF Sides, SideInv, Answered, Acked, TellsRight, Fits, Waits
  <2>2. Received(ko, size, done)
    BY <1>0, <1>1 DEF Sides, SideInv, Received, Gets, SameTransfer
  <2>3. Numbered(ko, l, made)
    BY <1>0, <1>1 DEF Sides, SideInv, SideType, GhostType, Numbered, CoreSet, SameOffers, SameTransfer
  <2>4. Incoming(ko, Wo, sto, size)
    BY <1>0, <1>1 DEF Sides, SideInv, Incoming, Sending, Accepted, SameOffers, SameTransfer
  <2>5. Offered(ko, mo, so, U, l, st, size)
    BY <1>0, <1>1 DEF Sides, SideInv, Offered, OfferOpen, Acked, SameOffers, SameTransfer, TellsRight,
       Fits, Waits, Commanded
  <2>6. ASSUME ko.linked PROVE Flow(ko, mo, so, U, {}, size)
    BY <1>0, <2>6, <1>1 DEF Sides, SideInv, Flow, Fits, Waits, SameOffers, SameTransfer
  <2>7. ASSUME ko.linked, l.linked PROVE Sends(ko, mo, so, U, l, st, size)
    <3>1. mo = "WRITE" /\ f.of = ko.xid /\ f.arg = size[f.of]
      BY <1>0, <2>7 DEF TellsRight, Fits, SameOffers
    <3>2. k.xfer = "get" /\ k.offerIn = 0 /\ (ko.xfer = "put" => ko.xid # 0)
      BY DEF Sides, SideInv, Commanded
    <3>3. Gets(l) => Gets(k) /\ f.arg = Len(k.got) + 1
      BY DEF Sides, SideInv, Incoming, Gets
    <3>4. Len(l.got) = Len(k.got) + 1
      <4>1. k.got \in Seq([of : Offers, n : 1..MaxPeerChunks])
        BY DEF Sides, SideType, CoreSet
      <4> QED
        BY <4>1, DataInQueue
    <3>5. Gets(l) => Len(l.got) = size[ko.xid]
      BY <3>1, <3>3, <3>4
    <3>6. ko.xfer = "put" => ~st /\ k.xid = ko.xid
      BY <2>7, <3>2 DEF Sides, SideInv, Sends, SameOffers
    <3> QED
      BY ONLY <3>1, <3>2, <3>5, <3>6, l.xid = k.xid, l.xfer = k.xfer, l.offerIn = k.offerIn DEF Sends
  <2>8. ASSUME ko.linked, l.linked
        PROVE  ~(Sending(ko) /\ Sending(l)) /\ (sto => OldFrame(ko, mo, l) /\ ~st)
    BY <1>0, <2>8, <1>1 DEF Sides, SideInv, Sending, Accepted, OldFrame, SameOffers, SameTransfer,
       TellsRight, Fits, Waits, Commanded, OfferOpen
  <2> QED
    BY <2>1, <2>2, <2>3, <2>4, <2>5, <2>6, <2>7, <2>8 DEF SideInv
<1> QED
  BY <1>1, <1>2, <1>3 DEF Sides

\* read() takes the FILE_END.
LEMMA FileEndSides ==
  ASSUME NEW k, NEW m, NEW s, NEW T, NEW W, NEW st, NEW ko, NEW mo, NEW so, NEW To, NEW Wo, NEW sto,
         NEW size, NEW done, NEW made,
         Sides(k, m, s, T, W, st, ko, mo, so, To, Wo, sto, size, done, made),
         m = "READ", s # "GONE",
         NEW f \in W, f.kind = "END",
         NEW l \in CoreSet, SameOffers(l, k), l.offerIn = k.offerIn, l.xfer = k.xfer, l.xid = k.xid,
         l.failed = k.failed, l.ended, l.got = k.got,
         NEW all \in SUBSET Offers, done \subseteq all, f.of \in all,
         NEW a, a = "ACK",
         NEW U \in SUBSET Answers, U = IF k.linked /\ ko.linked THEN To \cup {a} ELSE To
  PROVE  Sides(l, "idle", "none", T, {}, st, ko, mo, so, U, Wo, sto, size, all, made)
<1>0. TellsRight(k, ko, mo, so, f, a, To, U, size)
  <2>1. a \in Answers
    BY DEF Answers
  <2> QED
    BY <2>1, Tells, FramesDiffer
<1>1. /\ SideType(l, "idle", "none", T, {}, st)
      /\ SideType(ko, mo, so, U, Wo, sto)
      /\ GhostType(size, all, made)
  BY <1>0 DEF Sides, SideType, GhostType, Offers, SameOffers, SameTransfer, TellsRight
<1>2. SideInv(l, "idle", "none", T, {}, st, ko, Wo, sto, size, all, made)
  BY <1>0, <1>1 DEF Sides, SideType, GhostType, Offers, CoreSet, SideInv, SameOffers, SameTransfer,
     Commanded, Answered, Incoming, Received, Offered, Numbered, Flow, Sends, OldFrame, Fits, Waits, Acked,
     Accepted, Sending, OfferOpen, Gets
<1>3. SideInv(ko, mo, so, U, Wo, sto, l, {}, st, size, all, made)
  BY <1>0, <1>1 DEF Sides, SideInv, SameOffers, SameTransfer, Commanded, Answered, Incoming, Received,
     Offered, Numbered, Flow, Sends, OldFrame, Fits, Waits, Acked, Accepted, Sending, OfferOpen, Gets
<1> QED
  BY <1>1, <1>2, <1>3 DEF Sides

\* read() takes another frame.
LEMMA OtherFrameSides ==
  ASSUME NEW k, NEW m, NEW s, NEW T, NEW W, NEW st, NEW ko, NEW mo, NEW so, NEW To, NEW Wo, NEW sto,
         NEW size, NEW done, NEW made,
         Sides(k, m, s, T, W, st, ko, mo, so, To, Wo, sto, size, done, made),
         m = "READ", s # "GONE",
         NEW f \in W, f.kind \notin {"DATA", "END"},
         NEW l \in CoreSet, SameOffers(l, k), l.offerIn = k.offerIn, l.xfer = k.xfer, l.xid = k.xid,
         l.failed, l.ended = k.ended, l.got = k.got,
         NEW a, a = IF f.kind = "ABORT" THEN "ACK" ELSE "ERR",
         NEW U \in SUBSET Answers, U = IF k.linked /\ ko.linked THEN To \cup {a} ELSE To
  PROVE  Sides(l, "idle", "none", T, {}, st, ko, mo, so, U, Wo, sto, size, done, made)
<1>0. TellsRight(k, ko, mo, so, f, a, To, U, size)
  <2>1. a \in Answers
    BY DEF Answers
  <2> QED
    BY <2>1, Tells, FramesDiffer
<1>1. /\ SideType(l, "idle", "none", T, {}, st)
      /\ SideType(ko, mo, so, U, Wo, sto)
      /\ GhostType(size, done, made)
  BY <1>0 DEF Sides, SideType, GhostType, Offers, SameOffers, SameTransfer, TellsRight
<1>2. SideInv(l, "idle", "none", T, {}, st, ko, Wo, sto, size, done, made)
  BY <1>0, <1>1 DEF Sides, SideType, GhostType, Offers, CoreSet, SideInv, SameOffers, SameTransfer,
     Commanded, Answered, Incoming, Received, Offered, Numbered, Flow, Sends, OldFrame, Fits, Waits, Acked,
     Accepted, Sending, OfferOpen, Gets
<1>3. SideInv(ko, mo, so, U, Wo, sto, l, {}, st, size, done, made)
  BY <1>0, <1>1 DEF Sides, SideInv, SameOffers, SameTransfer, Commanded, Answered, Incoming, Received,
     Offered, Numbered, Flow, Sends, OldFrame, Fits, Waits, Acked, Accepted, Sending, OfferOpen, Gets
<1> QED
  BY <1>1, <1>2, <1>3 DEF Sides

\* An answer reaches the command.
LEMMA AnswerSides ==
  ASSUME NEW k, NEW m, NEW s, NEW T, NEW W, NEW st, NEW ko, NEW mo, NEW so, NEW To, NEW Wo, NEW sto,
         NEW size, NEW done, NEW made,
         Sides(k, m, s, T, W, st, ko, mo, so, To, Wo, sto, size, done, made),
         k.linked,
         NEW a \in Answers, T = {a}
  PROVE  Sides(k, m, a, {}, W, st, ko, mo, so, To, Wo, sto, size, done, made)
<1>0. /\ Waits(m, s) /\ s = "none" /\ Wo = {} /\ a \in {"ACK", "ERR"}
      /\ Acked(a, {}) <=> Acked(s, T)
  <2>1. Waits(m, s) /\ Wo = {}
    BY DEF Sides, SideInv, Answered, Flow
  <2> QED
    BY <2>1 DEF Answers, Acked, Waits
<1>1. /\ SideType(k, m, a, {}, W, st)
      /\ SideType(ko, mo, so, To, Wo, sto)
      /\ GhostType(size, done, made)
  BY <1>0 DEF Sides, SideType, GhostType, Offers, SameOffers, SameTransfer
<1>2. SideInv(k, m, a, {}, W, st, ko, Wo, sto, size, done, made)
  BY <1>0, <1>1 DEF Sides, SideType, GhostType, Offers, CoreSet, SideInv, SameOffers, SameTransfer,
     Commanded, Answered, Incoming, Received, Offered, Numbered, Flow, Sends, OldFrame, Fits, Waits, Acked,
     Accepted, Sending, OfferOpen, Gets
<1>3. SideInv(ko, mo, so, To, Wo, sto, k, W, st, size, done, made)
  BY <1>0, <1>1 DEF Sides, SideInv, SameOffers, SameTransfer, Commanded, Answered, Incoming, Received,
     Offered, Numbered, Flow, Sends, OldFrame, Fits, Waits, Acked, Accepted, Sending, OfferOpen, Gets
<1> QED
  BY <1>1, <1>2, <1>3 DEF Sides

\* An answer with another number: the command goes on waiting.
LEMMA UnheardSides ==
  ASSUME NEW k, NEW m, NEW s, NEW T, NEW W, NEW st, NEW ko, NEW mo, NEW so, NEW To, NEW Wo, NEW sto,
         NEW size, NEW done, NEW made,
         Sides(k, m, s, T, W, st, ko, mo, so, To, Wo, sto, size, done, made),
         k.linked, m \notin {"idle", "READ"}, s # "GONE", NEW S \in SUBSET T
  PROVE  Sides(k, m, "none", S, W, st, ko, mo, so, To, Wo, sto, size, done, made)
<1>0. /\ Waits(m, "none") /\ (T # {} => Waits(m, s)) /\ (Wo # {} => T = {})
      /\ Acked("none", S) => Acked(s, T)
  BY DEF Sides, SideInv, Answered, Flow, Acked, Waits
<1>1. /\ SideType(k, m, "none", S, W, st)
      /\ SideType(ko, mo, so, To, Wo, sto)
      /\ GhostType(size, done, made)
  BY <1>0 DEF Sides, SideType, GhostType, Offers, SameOffers, SameTransfer
<1>2. SideInv(k, m, "none", S, W, st, ko, Wo, sto, size, done, made)
  BY <1>0, <1>1 DEF Sides, SideType, GhostType, Offers, CoreSet, SideInv, SameOffers, SameTransfer,
     Commanded, Answered, Incoming, Received, Offered, Numbered, Flow, Sends, OldFrame, Fits, Waits, Acked,
     Accepted, Sending, OfferOpen, Gets
<1>3. SideInv(ko, mo, so, To, Wo, sto, k, W, st, size, done, made)
  BY <1>0, <1>1 DEF Sides, SideInv, SameOffers, SameTransfer, Commanded, Answered, Incoming, Received,
     Offered, Numbered, Flow, Sends, OldFrame, Fits, Waits, Acked, Accepted, Sending, OfferOpen, Gets
<1> QED
  BY <1>1, <1>2, <1>3 DEF Sides

\* The server thread holds an offer.
LEMMA OfferHeldSides ==
  ASSUME NEW k, NEW m, NEW s, NEW T, NEW W, NEW st, NEW ko, NEW mo, NEW so, NEW To, NEW Wo, NEW sto,
         NEW size, NEW done, NEW made,
         Sides(k, m, s, T, W, st, ko, mo, so, To, Wo, sto, size, done, made),
         NEW f \in W,
         f.kind = "OFFER", k.offerIn = 0, k.xfer = "none",
         NEW l \in CoreSet, SameOffers(l, k), SameTransfer(l, k), l.offerIn = f.of,
         ~st,
         NEW a, a = "ACK",
         NEW U \in SUBSET Answers, U = IF k.linked /\ ko.linked THEN To \cup {a} ELSE To
  PROVE  Sides(l, m, s, T, {}, st, ko, mo, so, U, Wo, sto, size, done, made)
<1>0. TellsRight(k, ko, mo, so, f, a, To, U, size)
  <2>1. a \in Answers
    BY DEF Answers
  <2> QED
    BY <2>1, Tells, FramesDiffer
<1>1. /\ SideType(l, m, s, T, {}, st)
      /\ SideType(ko, mo, so, U, Wo, sto)
      /\ GhostType(size, done, made)
  BY <1>0 DEF Sides, SideType, GhostType, Offers, SameOffers, SameTransfer, TellsRight
<1>2. SideInv(l, m, s, T, {}, st, ko, Wo, sto, size, done, made)
  BY <1>0, <1>1 DEF Sides, SideType, GhostType, Offers, CoreSet, SideInv, SameOffers, SameTransfer,
     Commanded, Answered, Incoming, Received, Offered, Numbered, Flow, Sends, OldFrame, Fits, Waits, Acked,
     Accepted, Sending, OfferOpen, Gets
<1>3. SideInv(ko, mo, so, U, Wo, sto, l, {}, st, size, done, made)
  BY <1>0, <1>1 DEF Sides, SideInv, SameOffers, SameTransfer, Commanded, Answered, Incoming, Received,
     Offered, Numbered, Flow, Sends, OldFrame, Fits, Waits, Acked, Accepted, Sending, OfferOpen, Gets
<1> QED
  BY <1>1, <1>2, <1>3 DEF Sides

\* The same of a frame of an earlier link.
LEMMA OldOfferHeldSides ==
  ASSUME NEW k, NEW m, NEW s, NEW T, NEW W, NEW st, NEW ko, NEW mo, NEW so, NEW To, NEW Wo, NEW sto,
         NEW size, NEW done, NEW made,
         Sides(k, m, s, T, W, st, ko, mo, so, To, Wo, sto, size, done, made),
         st, NEW f \in Requests,
         f.kind = "OFFER", k.offerIn = 0, k.xfer = "none",
         NEW l \in CoreSet, SameOffers(l, k), SameTransfer(l, k), l.offerIn = f.of
  PROVE  Sides(l, m, s, T, W, FALSE, ko, mo, so, To, Wo, sto, size, done, made)
<1>1. /\ SideType(l, m, s, T, W, FALSE)
      /\ SideType(ko, mo, so, To, Wo, sto)
      /\ GhostType(size, done, made)
  BY DEF Sides, SideType, GhostType, Offers, SameOffers, SameTransfer
<1>2. SideInv(l, m, s, T, W, FALSE, ko, Wo, sto, size, done, made)
  BY <1>1 DEF Sides, SideType, GhostType, Offers, CoreSet, SideInv, SameOffers, SameTransfer, Commanded,
     Answered, Incoming, Received, Offered, Numbered, Flow, Sends, OldFrame, Fits, Waits, Acked, Accepted,
     Sending, OfferOpen, Gets
<1>3. SideInv(ko, mo, so, To, Wo, sto, l, W, FALSE, size, done, made)
  BY <1>1 DEF Sides, SideInv, SameOffers, SameTransfer, Commanded, Answered, Incoming, Received, Offered,
     Numbered, Flow, Sends, OldFrame, Fits, Waits, Acked, Accepted, Sending, OfferOpen, Gets
<1> QED
  BY <1>1, <1>2, <1>3 DEF Sides

\* The server thread takes the answer to one.
LEMMA OfferTakenSides ==
  ASSUME NEW k, NEW m, NEW s, NEW T, NEW W, NEW st, NEW ko, NEW mo, NEW so, NEW To, NEW Wo, NEW sto,
         NEW size, NEW done, NEW made,
         Sides(k, m, s, T, W, st, ko, mo, so, To, Wo, sto, size, done, made),
         NEW f \in W,
         f.kind = "FILE_ANSWER", k.offerOut # 0, ~k.answered,
         NEW l \in CoreSet, SameTransfer(l, k), l.linked = k.linked, l.offerIn = k.offerIn, l.offerOut = k.offerOut,
         l.answered, l.accepted = (f.arg = 1),
         ~st,
         NEW a, a = "ACK",
         NEW U \in SUBSET Answers, U = IF k.linked /\ ko.linked THEN To \cup {a} ELSE To
  PROVE  Sides(l, m, s, T, {}, st, ko, mo, so, U, Wo, sto, size, done, made)
<1>0. TellsRight(k, ko, mo, so, f, a, To, U, size)
  <2>1. a \in Answers
    BY DEF Answers
  <2> QED
    BY <2>1, Tells, FramesDiffer
<1>1. /\ SideType(l, m, s, T, {}, st)
      /\ SideType(ko, mo, so, U, Wo, sto)
      /\ GhostType(size, done, made)
  BY <1>0 DEF Sides, SideType, GhostType, Offers, SameOffers, SameTransfer, TellsRight
<1>2. SideInv(l, m, s, T, {}, st, ko, Wo, sto, size, done, made)
  <2>1. Commanded(l, m, s) /\ Answered(l, m, s, T, done)
    BY <1>0, <1>1 DEF Sides, SideInv, Answered, Acked, SideType, CoreSet, Commanded, OfferOpen, Accepted,
       Waits, SameOffers, SameTransfer
  <2>2. Received(l, size, done)
    BY <1>0, <1>1 DEF Sides, SideInv, Received, Gets, SameTransfer, Commanded
  <2>3. Numbered(l, ko, made)
    BY <1>0, <1>1 DEF Sides, SideInv, SideType, GhostType, Numbered, CoreSet, SameOffers, SameTransfer,
       Commanded, Accepted, OfferOpen
  <2>4. Incoming(l, {}, st, size)
    BY <1>0, <1>1 DEF Sides, SideInv, Incoming, Sending, Accepted, SameOffers, SameTransfer, Commanded,
       OfferOpen
  <2>5. Offered(l, m, s, T, ko, sto, size)
    BY <1>0, <1>1 DEF Sides, SideInv, Offered, OfferOpen, Acked, SameOffers, SameTransfer, Commanded,
       GhostType, Numbered, Answered, Waits
  <2>6. ASSUME l.linked PROVE Flow(l, m, s, T, Wo, size)
    BY <1>0, <2>6, <1>1 DEF Sides, SideInv, Flow, Fits, Waits, SameOffers, SameTransfer, Answered, Commanded
  <2>7. ASSUME l.linked, ko.linked PROVE Sends(l, m, s, T, ko, sto, size)
    BY <1>0, <2>7, <1>1 DEF Sides, SideInv, Sends, Gets, Acked, SameOffers, SameTransfer, SideType,
       GhostType, CoreSet, Commanded, Answered, Waits, Offered, Received, Accepted, OfferOpen
  <2>8. ASSUME l.linked, ko.linked
        PROVE  ~(Sending(l) /\ Sending(ko)) /\ (st => OldFrame(l, m, ko) /\ ~sto)
    BY <1>0, <2>8, <1>1 DEF Sides, SideInv, Sending, Accepted, OldFrame, SameOffers, SameTransfer,
       Commanded, OfferOpen, Sends, Offered, TellsRight, Fits, Waits
  <2> QED
    BY <2>1, <2>2, <2>3, <2>4, <2>5, <2>6, <2>7, <2>8 DEF SideInv
<1>3. SideInv(ko, mo, so, U, Wo, sto, l, {}, st, size, done, made)
  BY <1>0, <1>1 DEF Sides, SideInv, SameOffers, SameTransfer, Commanded, Answered, Incoming, Received,
     Offered, Numbered, Flow, Sends, OldFrame, Fits, Waits, Acked, Accepted, Sending, OfferOpen, Gets
<1> QED
  BY <1>1, <1>2, <1>3 DEF Sides

\* The same of a frame of an earlier link.
LEMMA OldOfferTakenSides ==
  ASSUME NEW k, NEW m, NEW s, NEW T, NEW W, NEW st, NEW ko, NEW mo, NEW so, NEW To, NEW Wo, NEW sto,
         NEW size, NEW done, NEW made,
         Sides(k, m, s, T, W, st, ko, mo, so, To, Wo, sto, size, done, made),
         st, NEW f \in Requests,
         f.kind = "FILE_ANSWER", k.offerOut # 0, ~k.answered,
         NEW l \in CoreSet, SameTransfer(l, k), l.linked = k.linked, l.offerIn = k.offerIn, l.offerOut = k.offerOut,
         l.answered, l.accepted = (f.arg = 1)
  PROVE  Sides(l, m, s, T, W, FALSE, ko, mo, so, To, Wo, sto, size, done, made)
<1>1. /\ SideType(l, m, s, T, W, FALSE)
      /\ SideType(ko, mo, so, To, Wo, sto)
      /\ GhostType(size, done, made)
  BY DEF Sides, SideType, GhostType, Offers, SameOffers, SameTransfer
<1>2. SideInv(l, m, s, T, W, FALSE, ko, Wo, sto, size, done, made)
  BY <1>1 DEF Sides, SideType, GhostType, Offers, CoreSet, SideInv, SameOffers, SameTransfer, Commanded,
     Answered, Incoming, Received, Offered, Numbered, Flow, Sends, OldFrame, Fits, Waits, Acked, Accepted,
     Sending, OfferOpen, Gets
<1>3. SideInv(ko, mo, so, To, Wo, sto, l, W, FALSE, size, done, made)
  BY <1>1 DEF Sides, SideInv, SameOffers, SameTransfer, Commanded, Answered, Incoming, Received, Offered,
     Numbered, Flow, Sends, OldFrame, Fits, Waits, Acked, Accepted, Sending, OfferOpen, Gets
<1> QED
  BY <1>1, <1>2, <1>3 DEF Sides

\* The server thread drops one.
LEMMA OfferDroppedSides ==
  ASSUME NEW k, NEW m, NEW s, NEW T, NEW W, NEW st, NEW ko, NEW mo, NEW so, NEW To, NEW Wo, NEW sto,
         NEW size, NEW done, NEW made,
         Sides(k, m, s, T, W, st, ko, mo, so, To, Wo, sto, size, done, made),
         NEW f \in W,
         f.kind = "ABORT",
         NEW l \in CoreSet, SameOffers(l, k), SameTransfer(l, k), l.offerIn = 0,
         ~st,
         NEW a, a = "ACK",
         NEW U \in SUBSET Answers, U = IF k.linked /\ ko.linked THEN To \cup {a} ELSE To
  PROVE  Sides(l, m, s, T, {}, st, ko, mo, so, U, Wo, sto, size, done, made)
<1>0. TellsRight(k, ko, mo, so, f, a, To, U, size)
  <2>1. a \in Answers
    BY DEF Answers
  <2> QED
    BY <2>1, Tells, FramesDiffer
<1>1. /\ SideType(l, m, s, T, {}, st)
      /\ SideType(ko, mo, so, U, Wo, sto)
      /\ GhostType(size, done, made)
  BY <1>0 DEF Sides, SideType, GhostType, Offers, SameOffers, SameTransfer, TellsRight
<1>2. SideInv(l, m, s, T, {}, st, ko, Wo, sto, size, done, made)
  <2>1. Commanded(l, m, s) /\ Answered(l, m, s, T, done)
    BY <1>0, <1>1 DEF Sides, SideInv, Answered, Acked, SideType, CoreSet, Commanded, OfferOpen, Accepted,
       Waits, SameOffers, SameTransfer
  <2>2. Received(l, size, done)
    BY <1>0, <1>1 DEF Sides, SideInv, Received, Gets, SameTransfer, Commanded
  <2>3. Numbered(l, ko, made)
    BY <1>0, <1>1 DEF Sides, SideInv, SideType, GhostType, Numbered, CoreSet, SameOffers, SameTransfer,
       Commanded, Accepted, OfferOpen
  <2>4. Incoming(l, {}, st, size)
    BY <1>0, <1>1 DEF Sides, SideInv, Incoming, Sending, Accepted, SameOffers, SameTransfer, Commanded,
       OfferOpen
  <2>5. Offered(l, m, s, T, ko, sto, size)
    BY <1>0, <1>1 DEF Sides, SideInv, Offered, OfferOpen, Acked, SameOffers, SameTransfer, Commanded,
       GhostType, Numbered, Answered, Waits
  <2>6. ASSUME l.linked PROVE Flow(l, m, s, T, Wo, size)
    BY <1>0, <2>6, <1>1 DEF Sides, SideInv, Flow, Fits, Waits, SameOffers, SameTransfer, Answered, Commanded
  <2>7. ASSUME l.linked, ko.linked PROVE Sends(l, m, s, T, ko, sto, size)
    BY <1>0, <2>7, <1>1 DEF Sides, SideInv, Sends, Gets, Acked, SameOffers, SameTransfer, SideType,
       GhostType, CoreSet, Commanded, Answered, Waits, Offered, Received, Accepted, OfferOpen
  <2>8. ASSUME l.linked, ko.linked
        PROVE  ~(Sending(l) /\ Sending(ko)) /\ (st => OldFrame(l, m, ko) /\ ~sto)
    BY <1>0, <2>8, <1>1 DEF Sides, SideInv, Sending, Accepted, OldFrame, SameOffers, SameTransfer,
       Commanded, OfferOpen, Sends, Offered, TellsRight, Fits, Waits
  <2> QED
    BY <2>1, <2>2, <2>3, <2>4, <2>5, <2>6, <2>7, <2>8 DEF SideInv
<1>3. SideInv(ko, mo, so, U, Wo, sto, l, {}, st, size, done, made)
  BY <1>0, <1>1 DEF Sides, SideInv, SameOffers, SameTransfer, Commanded, Answered, Incoming, Received,
     Offered, Numbered, Flow, Sends, OldFrame, Fits, Waits, Acked, Accepted, Sending, OfferOpen, Gets
<1> QED
  BY <1>1, <1>2, <1>3 DEF Sides

\* The same of a frame of an earlier link.
LEMMA OldOfferDroppedSides ==
  ASSUME NEW k, NEW m, NEW s, NEW T, NEW W, NEW st, NEW ko, NEW mo, NEW so, NEW To, NEW Wo, NEW sto,
         NEW size, NEW done, NEW made,
         Sides(k, m, s, T, W, st, ko, mo, so, To, Wo, sto, size, done, made),
         st, NEW f \in Requests,
         f.kind = "ABORT",
         NEW l \in CoreSet, SameOffers(l, k), SameTransfer(l, k), l.offerIn = 0
  PROVE  Sides(l, m, s, T, W, FALSE, ko, mo, so, To, Wo, sto, size, done, made)
<1>1. /\ SideType(l, m, s, T, W, FALSE)
      /\ SideType(ko, mo, so, To, Wo, sto)
      /\ GhostType(size, done, made)
  BY DEF Sides, SideType, GhostType, Offers, SameOffers, SameTransfer
<1>2. SideInv(l, m, s, T, W, FALSE, ko, Wo, sto, size, done, made)
  <2>1. Commanded(l, m, s) /\ Answered(l, m, s, T, done)
    BY <1>1 DEF Sides, SideInv, Answered, Acked, SideType, CoreSet, Commanded, OfferOpen, Accepted, Waits,
       SameOffers, SameTransfer
  <2>2. Received(l, size, done)
    BY <1>1 DEF Sides, SideInv, Received, Gets, SameTransfer, Commanded
  <2>3. Numbered(l, ko, made)
    BY <1>1 DEF Sides, SideInv, SideType, GhostType, Numbered, CoreSet, SameOffers, SameTransfer,
       Commanded, Accepted, OfferOpen
  <2>4. Incoming(l, W, FALSE, size)
    BY <1>1 DEF Sides, SideInv, Incoming, Sending, Accepted, SameOffers, SameTransfer, Commanded, OfferOpen
  <2>5. Offered(l, m, s, T, ko, sto, size)
    BY <1>1 DEF Sides, SideInv, Offered, OfferOpen, Acked, SameOffers, SameTransfer, Commanded, GhostType,
       Numbered, Answered, Waits
  <2>6. ASSUME l.linked PROVE Flow(l, m, s, T, Wo, size)
    BY <2>6, <1>1 DEF Sides, SideInv, Flow, Fits, Waits, SameOffers, SameTransfer, Answered, Commanded
  <2>7. ASSUME l.linked, ko.linked PROVE Sends(l, m, s, T, ko, sto, size)
    BY <2>7, <1>1 DEF Sides, SideInv, Sends, Gets, Acked, SameOffers, SameTransfer, SideType, GhostType,
       CoreSet, Commanded, Answered, Waits, Offered, Received, Accepted, OfferOpen
  <2>8. ASSUME l.linked, ko.linked
        PROVE  ~(Sending(l) /\ Sending(ko)) /\ (FALSE => OldFrame(l, m, ko) /\ ~sto)
    BY <2>8, <1>1 DEF Sides, SideInv, Sending, Accepted, OldFrame, SameOffers, SameTransfer, Commanded,
       OfferOpen, Sends, Offered
  <2> QED
    BY <2>1, <2>2, <2>3, <2>4, <2>5, <2>6, <2>7, <2>8 DEF SideInv
<1>3. SideInv(ko, mo, so, To, Wo, sto, l, W, FALSE, size, done, made)
  BY <1>1 DEF Sides, SideInv, SameOffers, SameTransfer, Commanded, Answered, Incoming, Received, Offered,
     Numbered, Flow, Sends, OldFrame, Fits, Waits, Acked, Accepted, Sending, OfferOpen, Gets
<1> QED
  BY <1>1, <1>2, <1>3 DEF Sides

\* It refuses a frame.
LEMMA NotServedSides ==
  ASSUME NEW k, NEW m, NEW s, NEW T, NEW W, NEW st, NEW ko, NEW mo, NEW so, NEW To, NEW Wo, NEW sto,
         NEW size, NEW done, NEW made,
         Sides(k, m, s, T, W, st, ko, mo, so, To, Wo, sto, size, done, made),
         NEW f \in W,
         f.kind # "ABORT",
         f.kind = "OFFER" => ~(k.offerIn = 0 /\ k.xfer = "none"),
         ~st,
         NEW a, a = "ERR",
         NEW U \in SUBSET Answers, U = IF k.linked /\ ko.linked THEN To \cup {a} ELSE To
  PROVE  Sides(k, m, s, T, {}, st, ko, mo, so, U, Wo, sto, size, done, made)
<1>0. TellsRight(k, ko, mo, so, f, a, To, U, size)
  <2>1. a \in Answers
    BY DEF Answers
  <2> QED
    BY <2>1, Tells, FramesDiffer
<1>1. /\ SideType(k, m, s, T, {}, st)
      /\ SideType(ko, mo, so, U, Wo, sto)
      /\ GhostType(size, done, made)
  BY <1>0 DEF Sides, SideType, GhostType, Offers, SameOffers, SameTransfer, TellsRight
<1>2. SideInv(k, m, s, T, {}, st, ko, Wo, sto, size, done, made)
  BY <1>0, <1>1 DEF Sides, SideType, GhostType, Offers, CoreSet, SideInv, SameOffers, SameTransfer,
     Commanded, Answered, Incoming, Received, Offered, Numbered, Flow, Sends, OldFrame, Fits, Waits, Acked,
     Accepted, Sending, OfferOpen, Gets
<1>3. SideInv(ko, mo, so, U, Wo, sto, k, {}, st, size, done, made)
  BY <1>0, <1>1 DEF Sides, SideInv, SameOffers, SameTransfer, Commanded, Answered, Incoming, Received,
     Offered, Numbered, Flow, Sends, OldFrame, Fits, Waits, Acked, Accepted, Sending, OfferOpen, Gets
<1> QED
  BY <1>1, <1>2, <1>3 DEF Sides

\* The same of a frame of an earlier link.
LEMMA OldNotServedSides ==
  ASSUME NEW k, NEW m, NEW s, NEW T, NEW W, NEW st, NEW ko, NEW mo, NEW so, NEW To, NEW Wo, NEW sto,
         NEW size, NEW done, NEW made,
         Sides(k, m, s, T, W, st, ko, mo, so, To, Wo, sto, size, done, made),
         st
  PROVE  Sides(k, m, s, T, W, FALSE, ko, mo, so, To, Wo, sto, size, done, made)
<1>1. /\ SideType(k, m, s, T, W, FALSE)
      /\ SideType(ko, mo, so, To, Wo, sto)
      /\ GhostType(size, done, made)
  BY DEF Sides, SideType, GhostType, Offers, SameOffers, SameTransfer
<1>2. SideInv(k, m, s, T, W, FALSE, ko, Wo, sto, size, done, made)
  BY <1>1 DEF Sides, SideType, GhostType, Offers, CoreSet, SideInv, SameOffers, SameTransfer, Commanded,
     Answered, Incoming, Received, Offered, Numbered, Flow, Sends, OldFrame, Fits, Waits, Acked, Accepted,
     Sending, OfferOpen, Gets
<1>3. SideInv(ko, mo, so, To, Wo, sto, k, W, FALSE, size, done, made)
  BY <1>1 DEF Sides, SideInv, SameOffers, SameTransfer, Commanded, Answered, Incoming, Received, Offered,
     Numbered, Flow, Sends, OldFrame, Fits, Waits, Acked, Accepted, Sending, OfferOpen, Gets
<1> QED
  BY <1>1, <1>2, <1>3 DEF Sides

\* The link is lost.
LEMMA LosesSides ==
  ASSUME NEW k, NEW m, NEW s, NEW T, NEW W, NEW st, NEW ko, NEW mo, NEW so, NEW To, NEW Wo, NEW sto,
         NEW size, NEW done, NEW made,
         Sides(k, m, s, T, W, st, ko, mo, so, To, Wo, sto, size, done, made),
         NEW l \in CoreSet, ~l.linked, l.offerIn = 0, l.offerOut = 0, ~l.answered, l.accepted = k.accepted,
         l.xid = k.xid, l.failed = (k.failed \/ k.xfer # "none"), l.ended = k.ended, l.got = k.got,
         l.xfer = k.xfer \/ (m = "idle" /\ l.xfer = "none"),
         NEW b, m = "idle" => b = "none", m # "idle" => b = "GONE",
         NEW X \in SUBSET W, NEW V \in SUBSET Wo, NEW U \in SUBSET To
  PROVE  Sides(l, m, b, {}, X, st, ko, mo, so, U, V, sto, size, done, made)
<1>1. /\ SideType(l, m, b, {}, X, st)
      /\ SideType(ko, mo, so, U, V, sto)
      /\ GhostType(size, done, made)
  BY DEF Sides, SideType, GhostType, Offers, SameOffers, SameTransfer
<1>2. SideInv(l, m, b, {}, X, st, ko, V, sto, size, done, made)
  BY <1>1 DEF Sides, SideType, GhostType, Offers, CoreSet, SideInv, SameOffers, SameTransfer, Commanded,
     Answered, Incoming, Received, Offered, Numbered, Flow, Sends, OldFrame, Fits, Waits, Acked, Accepted,
     Sending, OfferOpen, Gets
<1>3. SideInv(ko, mo, so, U, V, sto, l, X, st, size, done, made)
  BY <1>1 DEF Sides, SideInv, SameOffers, SameTransfer, Commanded, Answered, Incoming, Received, Offered,
     Numbered, Flow, Sends, OldFrame, Fits, Waits, Acked, Accepted, Sending, OfferOpen, Gets
<1> QED
  BY <1>1, <1>2, <1>3 DEF Sides

\* onLink() of a core: l after k, linked only if B has no transfer; b is B's core.
Relinks(l, k, b) ==
  /\ l \in CoreSet /\ (l.linked => b.xfer = "none") /\ l.offerIn = 0 /\ l.offerOut = 0 /\ ~l.answered
  /\ l.accepted = k.accepted /\ l.xfer = k.xfer /\ l.xid = k.xid /\ l.ended = k.ended /\ l.got = k.got
  /\ k.failed \/ k.xfer # "none" => l.failed

\* The link comes up, or B never answers.  k is A's side.
LEMMA ConnectSides ==
  ASSUME NEW k, NEW m, NEW s, NEW T, NEW W, NEW st, NEW ko, NEW mo, NEW so, NEW To, NEW Wo, NEW sto,
         NEW size, NEW done, NEW made, NEW l, NEW lo, NEW old, NEW ro,
         Sides(k, m, s, T, W, st, ko, mo, so, To, Wo, sto, size, done, made),
         m = "idle", k.xfer = "none", ~k.linked, ~ko.linked,
         Relinks(l, k, ko), Relinks(lo, ko, ko), old \in BOOLEAN,
         mo = "idle" => ro = "none", mo # "idle" => ro = "GONE"
  PROVE  Sides(l, "idle", "none", {}, {}, old, lo, mo, ro, {}, {}, FALSE, size, done, made)
<1>1. /\ SideType(l, "idle", "none", {}, {}, old) /\ SideType(lo, mo, ro, {}, {}, FALSE)
      /\ GhostType(size, done, made)
  BY DEF Sides, SideType, Relinks
<1>2. SideInv(l, "idle", "none", {}, {}, old, lo, {}, FALSE, size, done, made)
  BY DEF Sides, SideType, SideInv, Commanded, Answered, Incoming, Received, Offered, Numbered, Flow, Sends,
     OldFrame,
         Acked, Accepted, Sending, OfferOpen, Gets, GhostType, Relinks
<1>3. SideInv(lo, mo, ro, {}, {}, FALSE, l, {}, old, size, done, made)
  <2>1. Commanded(lo, mo, ro)
    BY DEF Sides, SideInv, Commanded, OfferOpen, Relinks
  <2>2. Answered(lo, mo, ro, {}, done) /\ Incoming(lo, {}, FALSE, size) /\ Offered(lo, mo, ro, {}, l, old, size)
    BY DEF Answered, Incoming, Offered, OfferOpen, Acked, Relinks
  <2>3. Received(lo, size, done)
    BY DEF Sides, SideInv, Received, Gets, Relinks
  <2>4. Numbered(lo, l, made) /\ Flow(lo, mo, ro, {}, {}, size)
    BY DEF Sides, SideType, GhostType, SideInv, Numbered, Flow, Relinks
  <2>5. lo.linked => Sends(lo, mo, ro, {}, l, old, size) /\ ~(Sending(lo) /\ Sending(l))
    BY DEF Sends, Sending, Accepted, Relinks
  <2> QED
    BY <2>1, <2>2, <2>3, <2>4, <2>5 DEF SideInv
<1> QED
  BY <1>1, <1>2, <1>3 DEF Sides

-----------------------------------------------------------------------------
(* What a step does to the queues of one side.                             *)

QueueType(w, q, t, n) ==
  /\ w \in Seq(OnWire) /\ q \in Seq(Requests) /\ t \in Seq(Requests)
  /\ n \in [frame : Requests \cup {Nothing}, link : 0..MaxPeerLinks]

Queued(k, ko, w, q, t, n, links) ==
  /\ QueueType(w, q, t, n)
  /\ InOnePlace(w, q, t, n, links)
  /\ Placed(k, ko, w, q, t)

\* request() puts a frame on the wire of the other side, where none was.
LEMMA QueueAsked ==
  ASSUME NEW k, NEW ko, NEW w, NEW q, NEW t, NEW n, NEW links,
         Queued(k, ko, w, q, t, n, links), k.linked, Pending(w, q, t, n, links) = {},
         NEW f \in Requests
  PROVE  /\ Queued(k, ko, Append(w, f), q, t, n, links)
         /\ Pending(Append(w, f), q, t, n, links) = {f} /\ ToldOf(Append(w, f), links) = ToldOf(w, links)
<1> DEFINE v == Append(w, f)
<1>1. /\ QueueType(w, q, t, n) /\ InOnePlace(w, q, t, n, links) /\ Placed(k, ko, w, q, t)
      /\ w \in Seq(OnWire) /\ f \in OnWire /\ f \notin Timely(links) /\ f # DownFrame
  BY FramesDiffer DEF Queued, QueueType, OnWire, Timely
<1>2. /\ Asked(w) = {} /\ Frames(q) = {} /\ Frames(t) = {} /\ Now(n, links) = {}
  BY DEF Pending
<1>3. v \in Seq(OnWire) /\ Frames(v) = Frames(w) \cup {f} /\ OneEach(v, links)
  BY <1>1, <1>2, Added DEF InOnePlace
<1>4. q = <<>> /\ t = <<>>
  BY <1>1, <1>2, FramesOf DEF QueueType
<1> HIDE DEF v
<1>5. Asked(v) = {f} /\ ToldOf(v, links) = ToldOf(w, links)
  BY <1>1, <1>2, <1>3 DEF Asked, ToldOf
<1>6. Pending(v, q, t, n, links) = {f}
  BY <1>2, <1>5 DEF Pending
<1>7. Queued(k, ko, v, q, t, n, links)
  BY <1>1, <1>2, <1>3, <1>4 DEF Queued, QueueType, InOnePlace, Placed
<1> QED
  BY <1>5, <1>6, <1>7 DEF v

\* An answer g follows it the other way, or one that comes too late.
LEMMA QueueTold ==
  ASSUME NEW k, NEW ko, NEW w, NEW q, NEW t, NEW n, NEW links,
         Queued(k, ko, w, q, t, n, links), k.linked, NEW g \in Replies,
         g.of = links => ToldOf(w, links) = {}
  PROVE  /\ Queued(k, ko, Append(w, g), q, t, n, links)
         /\ Pending(Append(w, g), q, t, n, links) = Pending(w, q, t, n, links)
         /\ ToldOf(Append(w, g), links) = ToldOf(w, links) \cup (IF g.of = links THEN {g.kind} ELSE {})
<1> DEFINE v == Append(w, g)
<1>1. /\ QueueType(w, q, t, n) /\ InOnePlace(w, q, t, n, links) /\ Placed(k, ko, w, q, t)
      /\ w \in Seq(OnWire) /\ g \in OnWire /\ g \notin Requests /\ g # DownFrame
      /\ g \in Timely(links) <=> g.of = links
  BY FramesDiffer DEF Queued, QueueType, OnWire, Timely
<1>2. v \in Seq(OnWire) /\ Frames(v) = Frames(w) \cup {g} /\ OneEach(v, links)
  BY <1>1, Added DEF InOnePlace
<1> HIDE DEF v
<1>3. /\ Asked(v) = Asked(w)
      /\ ToldOf(v, links) = ToldOf(w, links) \cup (IF g.of = links THEN {g.kind} ELSE {})
  <2>1. Frames(v) \cap Timely(links) = (Frames(w) \cap Timely(links)) \cup (IF g.of = links THEN {g} ELSE {})
    BY <1>1, <1>2
  <2> QED
    BY <1>1, <1>2, <2>1 DEF Asked, ToldOf
<1>4. Queued(k, ko, v, q, t, n, links)
  BY <1>1, <1>2, <1>3 DEF Queued, QueueType, InOnePlace, Placed
<1> QED
  BY <1>3, <1>4 DEF v, Pending

\* read() takes the frame it waits for.
LEMMA QueueRead ==
  ASSUME NEW k, NEW ko, NEW w, NEW q, NEW t, NEW n, NEW links,
         Queued(k, ko, w, q, t, n, links), q # <<>>
  PROVE  /\ Queued(k, ko, w, Tail(q), t, n, links) /\ k.linked
         /\ Head(q) \in Pending(w, q, t, n, links) /\ Pending(w, Tail(q), t, n, links) = {}
<1>1. /\ QueueType(w, q, t, n) /\ InOnePlace(w, q, t, n, links) /\ Placed(k, ko, w, q, t)
  BY DEF Queued
<1>2. Frames(q) = {Head(q)} /\ Tail(q) = <<>>
  BY <1>1, Single DEF QueueType, InOnePlace
<1>3. Frames(<<>>) = {} /\ Len(<<>>) = 0 /\ <<>> \in Seq(Requests)
  BY NoFrames
<1>4. t = <<>> /\ Asked(w) = {} /\ Now(n, links) = {}
  BY <1>1 DEF InOnePlace
<1> QED
  BY <1>1, <1>2, <1>3, <1>4 DEF Queued, QueueType, InOnePlace, Placed, Pending

\* answerOffer() empties incoming_.
LEMMA QueueEmptied ==
  ASSUME NEW k, NEW ko, NEW w, NEW q, NEW t, NEW n, NEW links,
         Queued(k, ko, w, q, t, n, links)
  PROVE  /\ Queued(k, ko, w, <<>>, t, n, links)
         /\ Pending(w, <<>>, t, n, links) \subseteq Pending(w, q, t, n, links)
<1>1. Frames(<<>>) = {} /\ Len(<<>>) = 0 /\ <<>> \in Seq(Requests)
  BY NoFrames
<1> QED
  BY <1>1 DEF Queued, QueueType, InOnePlace, Placed, Pending

\* onFrame takes the first frame of the wire: an answer.
LEMMA QueueAnswer ==
  ASSUME NEW k, NEW ko, NEW w, NEW q, NEW t, NEW n, NEW links,
         Queued(k, ko, w, q, t, n, links), w # <<>>, Head(w) \in Replies
  PROVE  /\ Queued(k, ko, Tail(w), q, t, n, links) /\ k.linked
         /\ Pending(Tail(w), q, t, n, links) = Pending(w, q, t, n, links)
         /\ IF Head(w).of = links THEN ToldOf(w, links) = {Head(w).kind} /\ ToldOf(Tail(w), links) = {}
                                  ELSE ToldOf(Tail(w), links) = ToldOf(w, links)
<1> DEFINE v == Tail(w)
           h == Head(w)
<1>1. /\ QueueType(w, q, t, n) /\ InOnePlace(w, q, t, n, links) /\ Placed(k, ko, w, q, t)
      /\ w \in Seq(OnWire) /\ OneEach(w, links) /\ h \in Replies /\ h \notin Requests
      /\ h \in Timely(links) <=> h.of = links
  BY FramesDiffer DEF Queued, QueueType, InOnePlace, Timely
<1>2. /\ v \in Seq(OnWire) /\ Frames(w) = Frames(v) \cup {h} /\ OneEach(v, links)
      /\ h \in Timely(links) => ToldOf(v, links) = {}
  BY <1>1, Taken
<1> HIDE DEF v, h
<1>3. Asked(v) = Asked(w)
  BY <1>1, <1>2 DEF Asked
<1>4. IF h.of = links THEN ToldOf(w, links) = {h.kind} /\ ToldOf(v, links) = {}
                      ELSE ToldOf(v, links) = ToldOf(w, links)
  <2>1. Frames(w) \cap Timely(links) = (Frames(v) \cap Timely(links)) \cup (IF h.of = links THEN {h} ELSE {})
    BY <1>1, <1>2
  <2> QED
    BY <1>1, <1>2, <2>1 DEF ToldOf
<1>5. Queued(k, ko, v, q, t, n, links) /\ k.linked
  BY <1>1, <1>2, <1>3 DEF Queued, QueueType, InOnePlace, Placed
<1> QED
  BY <1>3, <1>4, <1>5 DEF v, h, Pending

\* onFrame hands a request to the server thread or to the command that receives.
LEMMA QueueRequest ==
  ASSUME NEW k, NEW ko, NEW w, NEW q, NEW t, NEW n, NEW links,
         Queued(k, ko, w, q, t, n, links), w # <<>>, Head(w) # DownFrame, Head(w) \notin Replies
  PROVE  /\ Queued(k, ko, Tail(w), q, Append(t, Head(w)), n, links)
         /\ Pending(Tail(w), q, Append(t, Head(w)), n, links) = Pending(w, q, t, n, links)
         /\ Queued(k, ko, Tail(w), Append(q, Head(w)), t, n, links)
         /\ Pending(Tail(w), Append(q, Head(w)), t, n, links) = Pending(w, q, t, n, links)
         /\ ToldOf(Tail(w), links) = ToldOf(w, links)
<1> DEFINE v == Tail(w)
           h == Head(w)
           u == Append(<<>>, Head(w))
<1>1. /\ QueueType(w, q, t, n) /\ InOnePlace(w, q, t, n, links) /\ Placed(k, ko, w, q, t)
      /\ w \in Seq(OnWire) /\ OneEach(w, links)
  BY DEF Queued, QueueType, InOnePlace
<1>2. /\ v \in Seq(OnWire) /\ Frames(w) = Frames(v) \cup {h} /\ h \in Frames(w) /\ OneEach(v, links)
      /\ h \in Requests => Asked(v) = {}
  BY <1>1, Taken
<1>3. h \in Requests /\ h \notin Timely(links)
  BY <1>1, <1>2, FramesOf, FramesDiffer DEF OnWire, Timely
<1>4. /\ u \in Seq(Requests) /\ Frames(u) = {h} /\ Len(u) = 1 /\ u # <<>>
  <2>1. <<>> \in Seq(Requests) /\ Len(<<>>) = 0 /\ Frames(<<>>) = {}
    BY NoFrames
  <2>2. Append(<<>>, Head(w)) \in Seq(Requests) /\ Frames(Append(<<>>, Head(w))) = Frames(<<>>) \cup {Head(w)}
        /\ Len(Append(<<>>, Head(w))) = Len(<<>>) + 1
    BY <1>3, <2>1, Added, ZenonT(30)
  <2> QED
    BY <2>1, <2>2
<1>5. q = <<>> /\ t = <<>> /\ Now(n, links) = {} /\ Append(q, Head(w)) = u /\ Append(t, Head(w)) = u
  BY <1>1, <1>2, <1>3 DEF InOnePlace, Asked
<1>6. Asked(w) = {h} /\ Asked(v) = {} /\ ToldOf(v, links) = ToldOf(w, links)
  BY <1>2, <1>3 DEF Asked, ToldOf
<1>7. Frames(<<>>) = {} /\ k.linked /\ (DownFrame \in Frames(v) => ~ko.linked)
  BY <1>1, <1>2, NoFrames DEF Placed
<1> HIDE DEF v, h, u
<1>8. /\ QueueType(v, q, u, n) /\ QueueType(v, u, t, n)
      /\ Placed(k, ko, v, q, u) /\ Placed(k, ko, v, u, t)
  BY <1>1, <1>2, <1>4, <1>7 DEF QueueType, Placed
<1>9. InOnePlace(v, q, u, n, links) /\ InOnePlace(v, u, t, n, links)
  BY <1>1, <1>2, <1>4, <1>5, <1>6 DEF InOnePlace
<1>10. /\ Pending(v, q, u, n, links) = Pending(w, q, t, n, links)
       /\ Pending(v, u, t, n, links) = Pending(w, q, t, n, links)
  BY <1>4, <1>5, <1>6, <1>7 DEF Pending
<1> QED
  BY <1>5, <1>6, <1>8, <1>9, <1>10 DEF v, Queued

\* serverLoop takes a frame.
LEMMA QueueTaken ==
  ASSUME NEW k, NEW ko, NEW w, NEW q, NEW t, NEW n, NEW links \in 0..MaxPeerLinks,
         Queued(k, ko, w, q, t, n, links), t # <<>>, n.frame = Nothing,
         NEW p, p = [frame |-> Head(t), link |-> links]
  PROVE  /\ Queued(k, ko, w, q, Tail(t), p, links) /\ k.linked
         /\ Pending(w, q, Tail(t), p, links) = Pending(w, q, t, n, links)
         /\ ~Stale(n, links) /\ ~Stale(p, links)
<1>1. /\ QueueType(w, q, t, n) /\ InOnePlace(w, q, t, n, links) /\ Placed(k, ko, w, q, t)
  BY DEF Queued
<1>2. Frames(t) = {Head(t)} /\ Tail(t) = <<>> /\ Head(t) \in Requests
  BY <1>1, Single DEF QueueType, InOnePlace
<1>3. Frames(<<>>) = {} /\ Len(<<>>) = 0 /\ <<>> \in Seq(Requests)
  BY NoFrames
<1>4. /\ p.frame = Head(t) /\ p.link = links /\ Head(t) # Nothing
      /\ p \in [frame : Requests \cup {Nothing}, link : 0..MaxPeerLinks]
  BY <1>2, FramesDiffer
<1>5. Now(p, links) = {Head(t)} /\ Now(n, links) = {} /\ ~Stale(n, links) /\ ~Stale(p, links)
  BY <1>4 DEF Now, Stale
<1>6. q = <<>> /\ Asked(w) = {}
  BY <1>1 DEF InOnePlace
<1>7. links \in Nat
  BY BoundsAssumption DEF BoundsAssumption
<1>8. Queued(k, ko, w, q, Tail(t), p, links)
  BY <1>1, <1>2, <1>3, <1>4, <1>5, <1>6, <1>7 DEF Queued, QueueType, InOnePlace, Placed
<1>9. k.linked
  BY <1>1 DEF Placed
<1> QED
  BY <1>2, <1>3, <1>5, <1>6, <1>8, <1>9 DEF Pending

\* serve() is done with it.
LEMMA QueueServed ==
  ASSUME NEW k, NEW ko, NEW w, NEW q, NEW t, NEW n, NEW links \in 0..MaxPeerLinks,
         Queued(k, ko, w, q, t, n, links), n.frame # Nothing,
         NEW p, p = [frame |-> Nothing, link |-> 0]
  PROVE  /\ Queued(k, ko, w, q, t, p, links) /\ ~Stale(p, links) /\ n.frame \in Requests
         /\ n.link = links => /\ n.frame \in Pending(w, q, t, n, links) /\ ~Stale(n, links)
                              /\ Pending(w, q, t, p, links) = {}
         /\ n.link # links => /\ Stale(n, links)
                              /\ Pending(w, q, t, p, links) = Pending(w, q, t, n, links)
<1>1. /\ QueueType(w, q, t, n) /\ InOnePlace(w, q, t, n, links) /\ Placed(k, ko, w, q, t)
  BY DEF Queued
<1>2. /\ p.frame = Nothing /\ p.link = 0 /\ links \in Nat
      /\ p \in [frame : Requests \cup {Nothing}, link : 0..MaxPeerLinks]
  BY BoundsAssumption DEF BoundsAssumption
<1>3. Now(p, links) = {} /\ ~Stale(p, links)
  BY <1>2 DEF Now, Stale
<1>4. Queued(k, ko, w, q, t, p, links)
  BY <1>1, <1>2, <1>3 DEF Queued, QueueType, InOnePlace
<1>5. ASSUME n.link = links
      PROVE  /\ n.frame \in Pending(w, q, t, n, links) /\ ~Stale(n, links)
             /\ Pending(w, q, t, p, links) = {}
  <2>1. Now(n, links) = {n.frame} /\ ~Stale(n, links)
    BY <1>5 DEF Now, Stale
  <2>2. q = <<>> /\ t = <<>> /\ Asked(w) = {}
    BY <1>1, <2>1 DEF InOnePlace
  <2> QED
    BY <1>3, <2>1, <2>2, NoFrames DEF Pending
<1>6. ASSUME n.link # links
      PROVE  /\ Stale(n, links)
             /\ Pending(w, q, t, p, links) = Pending(w, q, t, n, links)
  BY <1>3, <1>6 DEF Now, Stale, Pending
<1> QED
  BY <1>1, <1>3, <1>4, <1>5, <1>6 DEF InOnePlace

\* The link is lost: c's queues are empty, and the other side gets some of what
\* was on its way and learns of it.
LEMMA QueueLost ==
  ASSUME NEW k, NEW ko, NEW w, NEW q, NEW t, NEW n, NEW links,
         Queued(k, ko, w, q, t, n, links), NEW l, NEW lo
  PROVE  /\ Queued(l, lo, <<>>, <<>>, <<>>, n, links)
         /\ Pending(<<>>, <<>>, <<>>, n, links) \subseteq Pending(w, q, t, n, links)
         /\ ToldOf(<<>>, links) = {}
<1>1. Frames(<<>>) = {} /\ Asked(<<>>) = {} /\ ToldOf(<<>>, links) = {} /\ OneEach(<<>>, links) /\ Len(<<>>) = 0
  BY NoFrames
<1>2. <<>> \in Seq(OnWire) /\ <<>> \in Seq(Requests)
  OBVIOUS
<1> QED
  BY <1>1, <1>2 DEF Queued, QueueType, InOnePlace, Placed, Pending

\* What the other side still gets when the link goes down.
LEMMA QueueCut ==
  ASSUME NEW k, NEW ko, NEW w, NEW q, NEW t, NEW n, NEW links,
         Queued(k, ko, w, q, t, n, links), NEW lo, ~lo.linked, NEW i \in 0..Len(w),
         NEW v, k.linked => v = Append(SubSeq(w, 1, i), DownFrame), ~k.linked => v = <<>>
  PROVE  /\ Queued(k, lo, v, q, t, n, links) /\ ToldOf(v, links) \subseteq ToldOf(w, links)
         /\ Pending(v, q, t, n, links) \subseteq Pending(w, q, t, n, links)
<1>1. /\ QueueType(w, q, t, n) /\ InOnePlace(w, q, t, n, links) /\ Placed(k, ko, w, q, t)
      /\ w \in Seq(OnWire) /\ OneEach(w, links)
  BY DEF Queued, QueueType, InOnePlace
<1>2. v \in Seq(OnWire) /\ Frames(v) \subseteq Frames(w) \cup {DownFrame} /\ OneEach(v, links)
  <2>1. CASE k.linked
    <3> DEFINE u == SubSeq(w, 1, i)
    <3>1. u \in Seq(OnWire) /\ Frames(u) \subseteq Frames(w) /\ OneEach(u, links)
      BY <1>1, Cut
    <3>2. DownFrame \in OnWire /\ DownFrame \notin Requests /\ DownFrame \notin Timely(links)
      BY FramesDiffer DEF OnWire, Timely
    <3> HIDE DEF u
    <3>3. /\ Append(u, DownFrame) \in Seq(OnWire) /\ OneEach(Append(u, DownFrame), links)
          /\ Frames(Append(u, DownFrame)) = Frames(u) \cup {DownFrame}
      BY <3>1, <3>2, Added
    <3> QED
      BY <2>1, <3>1, <3>3 DEF u
  <2>2. CASE ~k.linked
    <3>1. v = <<>> /\ <<>> \in Seq(OnWire)
      BY <2>2
    <3> QED
      BY <3>1, NoFrames
  <2> QED
    BY <2>1, <2>2
<1>3. Asked(v) \subseteq Asked(w) /\ ToldOf(v, links) \subseteq ToldOf(w, links)
  BY <1>2, FramesDiffer DEF Asked, ToldOf, Timely
<1>4. InOnePlace(v, q, t, n, links)
  BY <1>1, <1>2, <1>3 DEF InOnePlace
<1>5. QueueType(v, q, t, n) /\ Placed(k, lo, v, q, t)
  BY <1>1, <1>2 DEF QueueType, Placed
<1> QED
  BY <1>3, <1>4, <1>5 DEF Queued, Pending

-----------------------------------------------------------------------------
(* The inductive invariant.                                                *)

Told(s) == ToldOf(s, peerLinks)
Way(c) == Pending(wire[c], peerIncoming[c], peerToServe[c], peerServing[c], peerLinks)
Old(c) == Stale(peerServing[c], peerLinks)

SidesOf(c) ==
  Sides(core[c], peerCmd[c], peerSlot[c], Told(wire[c]), Way(c), Old(c),
        core[Other(c)], peerCmd[Other(c)], peerSlot[Other(c)], Told(wire[Other(c)]), Way(Other(c)), Old(Other(c)),
        file, whole, offersMade)

QueuedOf(c) ==
  Queued(core[c], core[Other(c)], wire[c], peerIncoming[c], peerToServe[c], peerServing[c], peerLinks)

RestRight ==
  /\ closed \subseteq Cores \X Offers /\ \A t \in closed : t[2] \in whole
  /\ peerSeq \in [Cores -> SeqSet] /\ peerMistaken = FALSE

PeersInv ==
  /\ PeersTypeOK
  /\ \A c \in Cores : SidesOf(c) /\ QueuedOf(c)
  /\ RestRight

\* There are two sides, each the other's other.
LEMMA TwoCores ==
  ASSUME NEW c \in Cores
  PROVE  /\ Other(c) \in Cores /\ Other(c) # c /\ Other(Other(c)) = c
         /\ \A d \in Cores : d = c \/ d = Other(c)
BY DEF Cores, Other

\* The invariant says the same of both sides.
LEMMA SidesFlip ==
  ASSUME NEW k, NEW m, NEW s, NEW T, NEW W, NEW st, NEW ko, NEW mo, NEW so, NEW To, NEW Wo, NEW sto,
         NEW size, NEW done, NEW made, Sides(k, m, s, T, W, st, ko, mo, so, To, Wo, sto, size, done, made)
  PROVE  Sides(ko, mo, so, To, Wo, sto, k, m, s, T, W, st, size, done, made)
BY DEF Sides

\* Each variable of the two sides is a function on them.
Shaped ==
  /\ core = [d \in Cores |-> core[d]] /\ wire = [d \in Cores |-> wire[d]]
  /\ peerIncoming = [d \in Cores |-> peerIncoming[d]] /\ peerToServe = [d \in Cores |-> peerToServe[d]]
  /\ peerServing = [d \in Cores |-> peerServing[d]]
  /\ peerCmd = [d \in Cores |-> peerCmd[d]] /\ peerSlot = [d \in Cores |-> peerSlot[d]]

\* What shows the invariant after a step.
LEMMA Rebuilt ==
  ASSUME NEW c \in Cores, Shaped', SidesOf(c)', QueuedOf(c)', QueuedOf(Other(c))',
         RestRight', (peerLinks \in 0..MaxPeerLinks)'
  PROVE  PeersInv'
<1> DEFINE o == Other(c)
<1>1. o \in Cores /\ Other(o) = c /\ \A d \in Cores : d = c \/ d = o
  BY TwoCores
<1>2. SidesOf(o)'
  BY <1>1, SidesFlip DEF SidesOf
<1>3. /\ SideType(core[c], peerCmd[c], peerSlot[c], Told(wire[c]), Way(c), Old(c))'
      /\ SideType(core[o], peerCmd[o], peerSlot[o], Told(wire[o]), Way(o), Old(o))'
      /\ GhostType(file, whole, offersMade)'
      /\ QueueType(wire[c], peerIncoming[c], peerToServe[c], peerServing[c])'
      /\ QueueType(wire[o], peerIncoming[o], peerToServe[o], peerServing[o])'
  BY <1>1 DEF SidesOf, Sides, QueuedOf, Queued
<1> HIDE DEF o
<1>4. core' \in [Cores -> CoreSet]
  BY <1>1, <1>3 DEF Shaped, SideType
<1>5. /\ peerCmd' \in [Cores -> {"idle", "OFFER", "WITHDRAW", "ANSWER", "WRITE", "END", "ABORT", "READ"}]
      /\ peerSlot' \in [Cores -> {"none", "ACK", "ERR", "GONE"}]
  BY <1>1, <1>3 DEF Shaped, SideType
<1>6. /\ wire' \in [Cores -> Seq(OnWire)] /\ peerIncoming' \in [Cores -> Seq(Requests)]
      /\ peerToServe' \in [Cores -> Seq(Requests)]
      /\ peerServing' \in [Cores -> [frame : Requests \cup {Nothing}, link : 0..MaxPeerLinks]]
  BY <1>1, <1>3 DEF Shaped, QueueType
<1>7. PeersTypeOK'
  BY <1>3, <1>4, <1>5, <1>6 DEF PeersTypeOK, CoreSet, OnWire, GhostType, RestRight
<1> QED
  BY <1>1, <1>2, <1>7 DEF PeersInv, o

\* What the invariant gives of one side.
LEMMA InvShape ==
  ASSUME PeersInv
  PROVE  /\ Shaped /\ RestRight /\ peerLinks \in 0..MaxPeerLinks
         /\ \A c \in Cores : /\ SidesOf(c) /\ QueuedOf(c) /\ core[c] \in CoreSet
BY DEF PeersInv, PeersTypeOK, Shaped, CoreSet

\* The sides after a step of c's: it has l, m and s, and is on its way to W.
After(c, l, m, s, T, W, st, U, V) ==
  Sides(l, m, s, T, W, st,
        core[Other(c)], peerCmd[Other(c)], peerSlot[Other(c)], U, V, Old(Other(c)),
        file', whole', offersMade')

\* A step that leaves the queues alone.
LEMMA OwnStep ==
  ASSUME PeersInv, NEW c \in Cores, NEW l, l.linked = core[c].linked, NEW m, NEW s,
         core' = [core EXCEPT ![c] = l], peerCmd' = [peerCmd EXCEPT ![c] = m],
         peerSlot' = [peerSlot EXCEPT ![c] = s], UNCHANGED <<queues, peerServing, peerLinks>>,
         After(c, l, m, s, Told(wire[c]), Way(c), Old(c), Told(wire[Other(c)]), Way(Other(c))),
         RestRight'
  PROVE  PeersInv'
<1> DEFINE o == Other(c)
<1>1. o \in Cores /\ o # c /\ Other(o) = c
  BY TwoCores
<1>2. Shaped /\ peerLinks \in 0..MaxPeerLinks /\ QueuedOf(c) /\ QueuedOf(o)
  BY <1>1, InvShape
<1>3. /\ core'[c] = l /\ peerCmd'[c] = m /\ peerSlot'[c] = s
      /\ core'[o] = core[o] /\ peerCmd'[o] = peerCmd[o] /\ peerSlot'[o] = peerSlot[o]
  BY <1>1, <1>2 DEF Shaped
<1>4. Shaped'
  BY <1>1, <1>2 DEF Shaped, queues
<1>5. QueuedOf(c)' /\ QueuedOf(o)'
  BY <1>1, <1>2, <1>3 DEF QueuedOf, Queued, Placed, queues
<1>6. SidesOf(c)'
  BY <1>3 DEF SidesOf, After, Way, Old, Told, queues
<1> QED
  BY <1>2, <1>4, <1>5, <1>6, Rebuilt

\* c asks: f goes to the other side.
LEMMA AskStep ==
  ASSUME PeersInv, NEW c \in Cores, NEW l, l.linked = core[c].linked, NEW m, NEW s, NEW f \in Requests,
         core' = [core EXCEPT ![c] = l], peerCmd' = [peerCmd EXCEPT ![c] = m],
         peerSlot' = [peerSlot EXCEPT ![c] = s], wire' = Sent(c, f),
         peerIncoming' = peerIncoming \/ peerIncoming' = [peerIncoming EXCEPT ![c] = <<>>],
         UNCHANGED <<peerToServe, peerServing, peerLinks>>,
         core[c].linked /\ core[Other(c)].linked => Way(Other(c)) = {},
         NEW V, V = (IF core[c].linked /\ core[Other(c)].linked THEN {f} ELSE Way(Other(c))),
         RestRight'
  PROVE  /\ Way(c)' \subseteq Way(c) /\ (peerIncoming' = peerIncoming => Way(c)' = Way(c))
         /\ After(c, l, m, s, Told(wire[c]), Way(c)', Old(c), Told(wire[Other(c)]), V) => PeersInv'
<1> DEFINE o == Other(c)
           up == core[c].linked /\ core[o].linked
<1>1. o \in Cores /\ o # c /\ Other(o) = c
  BY TwoCores
<1>2. Shaped /\ peerLinks \in 0..MaxPeerLinks /\ QueuedOf(c) /\ QueuedOf(o)
  BY <1>1, InvShape
<1>3. /\ core'[c] = l /\ peerCmd'[c] = m /\ peerSlot'[c] = s
      /\ core'[o] = core[o] /\ peerCmd'[o] = peerCmd[o] /\ peerSlot'[o] = peerSlot[o]
      /\ wire'[c] = wire[c] /\ wire'[o] = IF up THEN Append(wire[o], f) ELSE wire[o]
      /\ peerIncoming'[o] = peerIncoming[o]
      /\ peerIncoming'[c] = <<>> \/ peerIncoming'[c] = peerIncoming[c]
  BY <1>1, <1>2 DEF Shaped, Sent
<1>4. Shaped'
  BY <1>1, <1>2 DEF Shaped, Sent
<1>5. /\ Queued(core[c], core[o], wire[c], peerIncoming'[c], peerToServe[c], peerServing[c], peerLinks)
      /\ Pending(wire[c], peerIncoming'[c], peerToServe[c], peerServing[c], peerLinks) \subseteq Way(c)
  <2>1. Queued(core[c], core[o], wire[c], peerIncoming[c], peerToServe[c], peerServing[c], peerLinks)
    BY <1>2 DEF QueuedOf
  <2> QED
    BY <1>3, <2>1, QueueEmptied DEF Way
<1>6. /\ Queued(core[o], core[c], wire'[o], peerIncoming[o], peerToServe[o], peerServing[o], peerLinks)
      /\ Pending(wire'[o], peerIncoming[o], peerToServe[o], peerServing[o], peerLinks)
           = V
      /\ Told(wire'[o]) = Told(wire[o])
  <2>1. Queued(core[o], core[c], wire[o], peerIncoming[o], peerToServe[o], peerServing[o], peerLinks)
    BY <1>1, <1>2 DEF QueuedOf
  <2>2. CASE up
    <3>1. /\ core[o].linked /\ Pending(wire[o], peerIncoming[o], peerToServe[o], peerServing[o], peerLinks) = {}
      BY <2>2 DEF Way
    <3>2. /\ Queued(core[o], core[c], Append(wire[o], f), peerIncoming[o], peerToServe[o], peerServing[o], peerLinks)
          /\ Pending(Append(wire[o], f), peerIncoming[o], peerToServe[o], peerServing[o], peerLinks) = {f}
          /\ Told(Append(wire[o], f)) = Told(wire[o])
      BY <2>1, <3>1, QueueAsked DEF Told
    <3> QED
      BY <1>3, <2>2, <3>2
  <2>3. CASE ~up
    BY <1>3, <2>1, <2>3 DEF Way
  <2> QED
    BY <2>2, <2>3
<1>7. QueuedOf(c)' /\ QueuedOf(o)'
  BY <1>1, <1>3, <1>5, <1>6 DEF QueuedOf, Queued, Placed
<1>8. Way(c)' \subseteq Way(c) /\ (peerIncoming' = peerIncoming => Way(c)' = Way(c))
  BY <1>3, <1>5 DEF Way
<1>9. ASSUME After(c, l, m, s, Told(wire[c]), Way(c)', Old(c), Told(wire[o]), V)
      PROVE  PeersInv'
  <2>1. SidesOf(c)'
    BY <1>3, <1>6, <1>9 DEF SidesOf, After, Way, Old, Told
  <2> QED
    BY <1>2, <1>4, <1>7, <2>1, Rebuilt
<1> QED
  BY <1>8, <1>9

\* The same when c's own queues stay as they are.
LEMMA AskOnly ==
  ASSUME PeersInv, NEW c \in Cores, NEW l, l.linked = core[c].linked, NEW m, NEW s, NEW f \in Requests,
         core' = [core EXCEPT ![c] = l], peerCmd' = [peerCmd EXCEPT ![c] = m],
         peerSlot' = [peerSlot EXCEPT ![c] = s], wire' = Sent(c, f),
         UNCHANGED <<peerIncoming, peerToServe, peerServing, peerLinks>>,
         core[c].linked => Way(Other(c)) = {},
         NEW V, V = (IF core[c].linked /\ core[Other(c)].linked THEN {f} ELSE Way(Other(c))),
         After(c, l, m, s, Told(wire[c]), Way(c), Old(c), Told(wire[Other(c)]), V),
         RestRight'
  PROVE  PeersInv'
<1>1. Way(c)' = Way(c)
  BY AskStep
<1>2. After(c, l, m, s, Told(wire[c]), Way(c)', Old(c), Told(wire[Other(c)]), V)
  BY <1>1
<1> QED
  BY <1>2, AskStep

\* c answers the other side's request with g, and may take a frame with it.
LEMMA TellStep ==
  ASSUME PeersInv, NEW c \in Cores, NEW l, l.linked = core[c].linked, NEW m, NEW s, NEW g \in Replies,
         core' = [core EXCEPT ![c] = l], peerCmd' = [peerCmd EXCEPT ![c] = m],
         peerSlot' = [peerSlot EXCEPT ![c] = s], wire' = Sent(c, g),
         NEW q, peerIncoming' = [peerIncoming EXCEPT ![c] = q],
         NEW n, peerServing' = [peerServing EXCEPT ![c] = n],
         UNCHANGED <<peerToServe, peerLinks>>,
         Queued(core[c], core[Other(c)], wire[c], q, peerToServe[c], n, peerLinks),
         core[c].linked /\ core[Other(c)].linked /\ g.of = peerLinks => Told(wire[Other(c)]) = {},
         NEW U, U = IF core[c].linked /\ core[Other(c)].linked /\ g.of = peerLinks
                    THEN Told(wire[Other(c)]) \cup {g.kind} ELSE Told(wire[Other(c)]),
         After(c, l, m, s, Told(wire[c]), Pending(wire[c], q, peerToServe[c], n, peerLinks),
               Stale(n, peerLinks), U, Way(Other(c))),
         RestRight'
  PROVE  PeersInv'
<1> DEFINE o == Other(c)
           up == core[c].linked /\ core[o].linked
<1>1. o \in Cores /\ o # c /\ Other(o) = c
  BY TwoCores
<1>2. Shaped /\ peerLinks \in 0..MaxPeerLinks /\ QueuedOf(c) /\ QueuedOf(o)
  BY <1>1, InvShape
<1>3. /\ core'[c] = l /\ peerCmd'[c] = m /\ peerSlot'[c] = s
      /\ core'[o] = core[o] /\ peerCmd'[o] = peerCmd[o] /\ peerSlot'[o] = peerSlot[o]
      /\ wire'[c] = wire[c] /\ wire'[o] = IF up THEN Append(wire[o], g) ELSE wire[o]
      /\ peerIncoming'[o] = peerIncoming[o] /\ peerIncoming'[c] = q
      /\ peerServing'[o] = peerServing[o] /\ peerServing'[c] = n
  BY <1>1, <1>2 DEF Shaped, Sent
<1>4. Shaped'
  BY <1>1, <1>2 DEF Shaped, Sent
<1>5. /\ Queued(core[o], core[c], wire'[o], peerIncoming[o], peerToServe[o], peerServing[o], peerLinks)
      /\ Pending(wire'[o], peerIncoming[o], peerToServe[o], peerServing[o], peerLinks) = Way(o)
      /\ Told(wire'[o]) = U
  <2>1. Queued(core[o], core[c], wire[o], peerIncoming[o], peerToServe[o], peerServing[o], peerLinks)
    BY <1>1, <1>2 DEF QueuedOf
  <2>2. CASE up
    <3>1. /\ Queued(core[o], core[c], Append(wire[o], g), peerIncoming[o], peerToServe[o], peerServing[o], peerLinks)
          /\ Pending(Append(wire[o], g), peerIncoming[o], peerToServe[o], peerServing[o], peerLinks) = Way(o)
          /\ Told(Append(wire[o], g)) = Told(wire[o]) \cup (IF g.of = peerLinks THEN {g.kind} ELSE {})
      BY <2>1, <2>2, QueueTold DEF Way, Told
    <3>2. U = Told(wire[o]) \cup (IF g.of = peerLinks THEN {g.kind} ELSE {})
      BY <2>2
    <3> QED
      BY <1>3, <2>2, <3>1, <3>2
  <2>3. CASE ~up
    BY <1>3, <2>1, <2>3 DEF Way
  <2> QED
    BY <2>2, <2>3
<1>6. QueuedOf(c)' /\ QueuedOf(o)'
  BY <1>1, <1>3, <1>5 DEF QueuedOf, Queued, Placed
<1>7. SidesOf(c)'
  BY <1>3, <1>5 DEF SidesOf, After, Way, Old, Told
<1> QED
  BY <1>2, <1>4, <1>6, <1>7, Rebuilt

-----------------------------------------------------------------------------
(* The commands.                                                           *)

\* Numbers of requests stay bytes.
LEMMA Numbers ==
  ASSUME PeersInv, NEW c \in Cores
  PROVE  /\ RequestSeq(c) \in SeqSet
         /\ peerSeq' = (IF core[c].linked THEN [peerSeq EXCEPT ![c] = RequestSeq(c)] ELSE peerSeq)
              => peerSeq' \in [Cores -> SeqSet]
<1>1. peerSeq \in [Cores -> SeqSet] /\ peerSeq[c] \in 0..255
  BY DEF PeersInv, RestRight, SeqSet
<1>2. RequestSeq(c) \in SeqSet
  <2>1. ASSUME NEW n \in 0..255 PROVE (n + 1) % 256 \in 0..255
    OBVIOUS
  <2> QED
    BY <1>1, <2>1 DEF RequestSeq, SeqSet
<1> QED
  BY <1>1, <1>2

\* The frames commands send are requests.
LEMMA Frame ==
  ASSUME PeersInv, NEW c \in Cores, NEW id \in 0..MaxOffers, NEW v \in 0..MaxPeerChunks + 1,
         NEW kind \in {"OFFER", "FILE_ANSWER", "ABORT", "DATA", "END"}
  PROVE  /\ NumberedBy(c, PeerFrame(kind, id, v)) \in Requests
         /\ NumberedBy(c, PeerFrame(kind, id, v)).kind = kind
         /\ NumberedBy(c, PeerFrame(kind, id, v)).of = id
         /\ NumberedBy(c, PeerFrame(kind, id, v)).arg = v
<1>1. RequestSeq(c) \in SeqSet
  BY Numbers
<1>2. NumberedBy(c, PeerFrame(kind, id, v)) = [kind |-> kind, of |-> id, arg |-> v, seq |-> RequestSeq(c)]
  BY DEF NumberedBy, PeerFrame
<1> QED
  BY <1>1, <1>2 DEF Requests

\* An answer goes back with its request's number.
LEMMA Answer ==
  ASSUME NEW f \in Requests, NEW a \in Answers, NEW link \in 0..MaxPeerLinks
  PROVE  AnswerTo(f, a, link) \in Replies /\ AnswerTo(f, a, link).kind = a /\ AnswerTo(f, a, link).of = link
BY DEF AnswerTo, Requests, Replies, Answers

\* The sides before a step, and what is on its way to a command that does not wait.
LEMMA Before ==
  ASSUME PeersInv, NEW c \in Cores
  PROVE  /\ SidesOf(c) /\ core[c] \in CoreSet /\ core[c].linked \in BOOLEAN
         /\ core[c].xid \in 0..MaxOffers /\ core[c].offerIn \in 0..MaxOffers
         /\ core[c].offerOut \in 0..MaxOffers /\ offersMade \in 0..MaxOffers
         /\ SideInv(core[c], peerCmd[c], peerSlot[c], Told(wire[c]), Way(c), Old(c),
                    core[Other(c)], Way(Other(c)), Old(Other(c)), file, whole, offersMade)
         /\ ~Waits(peerCmd[c], peerSlot[c]) /\ core[c].linked => Way(Other(c)) = {}
         /\ file \in [Offers -> 0..MaxPeerChunks] /\ whole \subseteq Offers
         /\ 0 \in 0..MaxPeerChunks + 1 /\ 1 \in 0..MaxPeerChunks + 1
<1>1. SidesOf(c) /\ core[c] \in CoreSet
  BY InvShape
<1>2. /\ SideInv(core[c], peerCmd[c], peerSlot[c], Told(wire[c]), Way(c), Old(c),
                 core[Other(c)], Way(Other(c)), Old(Other(c)), file, whole, offersMade)
      /\ GhostType(file, whole, offersMade)
  BY <1>1 DEF SidesOf, Sides
<1>3. ~Waits(peerCmd[c], peerSlot[c]) /\ core[c].linked => Way(Other(c)) = {}
  BY <1>2 DEF SideInv, Flow
<1>4. 0 \in 0..MaxPeerChunks + 1 /\ 1 \in 0..MaxPeerChunks + 1
  BY BoundsAssumption DEF BoundsAssumption
<1> QED
  BY <1>1, <1>2, <1>3, <1>4 DEF CoreSet, GhostType

\* offer() keeps the invariant.
LEMMA OfferKeeps ==
  ASSUME PeersInv, NEW c \in Cores, Offer(c)
  PROVE  PeersInv'
<1> DEFINE k == core[c]
           l == [k EXCEPT !.offerOut = offersMade + 1, !.answered = FALSE, !.accepted = FALSE]
           f == NumberedBy(c, PeerFrame("OFFER", offersMade + 1, 0))
<1>1. /\ peerCmd[c] = "idle" /\ k.linked /\ k.xfer = "none" /\ ~OfferOpen(k)
      /\ offersMade < MaxOffers /\ offersMade' = offersMade + 1
      /\ core' = [core EXCEPT ![c] = l] /\ peerCmd' = [peerCmd EXCEPT ![c] = "OFFER"]
      /\ peerSlot' = [peerSlot EXCEPT ![c] = "none"] /\ wire' = Sent(c, f)
      /\ peerSeq' = (IF k.linked THEN [peerSeq EXCEPT ![c] = RequestSeq(c)] ELSE peerSeq)
      /\ UNCHANGED <<peerIncoming, peerToServe, peerServing, peerLinks, peerGhosts>>
  BY DEF Offer, Idle, MayStart, Offering, OfferOpen, Keep, AskPeer
<1>2. k \in CoreSet /\ offersMade \in 0..MaxOffers /\ offersMade + 1 \in 0..MaxOffers
  <2>1. k \in CoreSet /\ offersMade \in 0..MaxOffers /\ offersMade < MaxOffers
    BY <1>1, Before
  <2> QED
    BY ONLY <2>1, BoundsAssumption DEF BoundsAssumption
<1>3. /\ l \in CoreSet /\ l.linked = k.linked /\ l.offerIn = k.offerIn /\ SameTransfer(l, k)
      /\ l.offerOut = offersMade + 1 /\ ~l.answered /\ ~l.accepted
  BY <1>2 DEF CoreSet, SameTransfer
<1>4. f \in Requests /\ f.kind = "OFFER" /\ f.of = offersMade + 1
  BY <1>2, Frame, Before
<1> HIDE DEF l, f
<1>5. SidesOf(c) /\ (k.linked => Way(Other(c)) = {})
  BY <1>1, Before DEF Waits
<1>6. After(c, l, "OFFER", "none", Told(wire[c]), Way(c), Old(c), Told(wire[Other(c)]),
            IF k.linked /\ core[Other(c)].linked THEN {f} ELSE Way(Other(c)))
  BY <1>1, <1>3, <1>4, <1>5, OfferSides, ZenonT(30) DEF SidesOf, After, peerGhosts
<1>7. RestRight'
  BY <1>1, InvShape, Numbers DEF RestRight, peerGhosts, queues
<1> QED
  BY <1>1, <1>3, <1>4, <1>5, <1>6, <1>7, AskOnly

\* WITHDRAW, with or without a link, keeps it.
LEMMA WithdrawKeeps ==
  ASSUME PeersInv, NEW c \in Cores, Withdraw(c)
  PROVE  PeersInv'
<1> DEFINE k == core[c]
           l == [k EXCEPT !.offerOut = 0, !.answered = FALSE]
           f == NumberedBy(c, PeerFrame("ABORT", k.offerOut, 0))
<1>1. k.offerOut # 0 /\ k.linked
  BY Before DEF Withdraw, Offering, SideInv, Commanded
<1>2. /\ peerCmd[c] = "idle" /\ OfferOpen(k)
      /\ core' = [core EXCEPT ![c] = l] /\ peerCmd' = [peerCmd EXCEPT ![c] = "WITHDRAW"]
      /\ peerSlot' = [peerSlot EXCEPT ![c] = "none"] /\ wire' = Sent(c, f)
      /\ peerSeq' = (IF k.linked THEN [peerSeq EXCEPT ![c] = RequestSeq(c)] ELSE peerSeq)
      /\ UNCHANGED <<peerIncoming, peerToServe, peerServing, peerLinks, offersMade, peerGhosts>>
  BY <1>1 DEF Withdraw, Idle, Offering, OfferOpen, Keep, AskPeer
<1>3. /\ l \in CoreSet /\ l.linked = k.linked /\ l.offerIn = k.offerIn /\ SameTransfer(l, k)
      /\ l.offerOut = 0 /\ ~l.answered /\ l.accepted = k.accepted
  <2>1. k \in CoreSet /\ 0 \in 0..MaxOffers
    BY Before, BoundsAssumption DEF BoundsAssumption
  <2> QED
    BY <2>1 DEF CoreSet, SameTransfer
<1>4. f \in Requests /\ f.kind = "ABORT"
  BY Frame, Before
<1> HIDE DEF l, f
<1>5. SidesOf(c) /\ (k.linked => Way(Other(c)) = {})
  BY <1>2, Before DEF Waits
<1>6. After(c, l, "WITHDRAW", "none", Told(wire[c]), Way(c), Old(c), Told(wire[Other(c)]),
            IF k.linked /\ core[Other(c)].linked THEN {f} ELSE Way(Other(c)))
  BY <1>1, <1>2, <1>3, <1>4, <1>5, WithdrawSides, ZenonT(30) DEF SidesOf, After, peerGhosts
<1>7. RestRight'
  BY <1>2, InvShape, Numbers DEF RestRight, peerGhosts, queues
<1> QED
  BY <1>2, <1>3, <1>4, <1>5, <1>6, <1>7, AskOnly

\* answerOffer() keeps it: it empties incoming_ before its frame goes out.
LEMMA AnswerOfferKeeps ==
  ASSUME PeersInv, NEW c \in Cores, NEW accept \in BOOLEAN, AnswerOffer(c, accept)
  PROVE  PeersInv'
<1> DEFINE k == core[c]
           f == NumberedBy(c, PeerFrame("FILE_ANSWER", k.offerIn, IF accept THEN 1 ELSE 0))
           back == IF k.linked THEN "none" ELSE "GONE"
           V == IF k.linked /\ core[Other(c)].linked THEN {f} ELSE Way(Other(c))
<1>1. /\ peerCmd[c] = "idle" /\ k.xfer = "none" /\ ~OfferOpen(k) /\ k.offerIn # 0
      /\ peerCmd' = [peerCmd EXCEPT ![c] = "ANSWER"]
      /\ peerSlot' = [peerSlot EXCEPT ![c] = back] /\ wire' = Sent(c, f)
      /\ peerSeq' = (IF k.linked THEN [peerSeq EXCEPT ![c] = RequestSeq(c)] ELSE peerSeq)
      /\ UNCHANGED <<peerToServe, peerServing, peerLinks, offersMade, peerGhosts>>
  BY DEF AnswerOffer, Idle, MayStart, Offering, OfferOpen, AskPeer
<1>2. /\ f \in Requests /\ f.kind = "FILE_ANSWER" /\ f.of = k.offerIn
      /\ f.arg = IF accept THEN 1 ELSE 0
  BY Frame, Before
<1>3. SidesOf(c) /\ (k.linked => Way(Other(c)) = {})
  BY <1>1, Before DEF Waits
<1>4. RestRight'
  BY <1>1, InvShape, Numbers DEF RestRight, peerGhosts, queues
<1>5. CASE accept
  <2> DEFINE l == Receiving(c, k.offerIn)
  <2>1. core' = [core EXCEPT ![c] = l] /\ peerIncoming' = [peerIncoming EXCEPT ![c] = <<>>]
    BY <1>5 DEF AnswerOffer, Keep
  <2>2. /\ l \in CoreSet /\ SameOffers(l, k) /\ l.offerIn = 0 /\ l.xfer = "get"
        /\ l.xid = k.offerIn /\ ~l.failed /\ ~l.ended /\ l.got = <<>>
    <3>1. /\ k \in CoreSet /\ 0 \in 0..MaxOffers /\ k.offerIn \in 0..MaxOffers
          /\ <<>> \in Seq([of : Offers, n : 1..MaxPeerChunks])
      BY Before, BoundsAssumption DEF BoundsAssumption
    <3> QED
      BY <3>1 DEF Receiving, CoreSet, SameOffers
  <2>3. l.linked = k.linked
    BY <2>2 DEF SameOffers
  <2> HIDE DEF l, f
  <2>4. Way(c)' \in SUBSET Way(c)
    BY <1>1, <1>2, <1>3, <1>4, <2>1, <2>3, AskStep
  <2>5. After(c, l, "ANSWER", back, Told(wire[c]), Way(c)', Old(c), Told(wire[Other(c)]), V)
    <3>1. /\ V = IF k.linked /\ core[Other(c)].linked THEN {f} ELSE Way(Other(c))
          /\ f.arg = 1 /\ file' = file /\ whole' = whole /\ offersMade' = offersMade
      BY <1>1, <1>2, <1>5 DEF peerGhosts
    <3>2. Sides(k, "idle", peerSlot[c], Told(wire[c]), Way(c), Old(c),
                core[Other(c)], peerCmd[Other(c)], peerSlot[Other(c)], Told(wire[Other(c)]), Way(Other(c)),
                Old(Other(c)), file, whole, offersMade)
      BY <1>1, <1>3 DEF SidesOf
    <3>3. k.xfer = "none" /\ ~OfferOpen(k) /\ k.offerIn # 0 /\ (k.linked => back = "none") /\ (~k.linked => back = "GONE")
      BY <1>1
    <3> HIDE DEF V, k, back
    <3>4. Sides(l, "ANSWER", back, Told(wire[c]), Way(c)', Old(c),
                core[Other(c)], peerCmd[Other(c)], peerSlot[Other(c)], Told(wire[Other(c)]), V,
                Old(Other(c)), file, whole, offersMade)
      BY ONLY <1>2, <2>2, <2>4, <3>1, <3>2, <3>3, AcceptSides
    <3> QED
      BY <3>1, <3>4 DEF After
  <2> QED
    BY <1>1, <1>2, <1>3, <1>4, <2>1, <2>3, <2>5, AskStep
<1>6. CASE ~accept
  <2> DEFINE l == [k EXCEPT !.offerIn = 0]
  <2>1. core' = [core EXCEPT ![c] = l] /\ peerIncoming' = peerIncoming
    BY <1>6 DEF AnswerOffer, Keep
  <2>2. l \in CoreSet /\ SameOffers(l, k) /\ SameTransfer(l, k) /\ l.offerIn = 0
    <3>1. k \in CoreSet /\ 0 \in 0..MaxOffers
      BY Before, BoundsAssumption DEF BoundsAssumption
    <3> QED
      BY <3>1 DEF CoreSet, SameOffers, SameTransfer
  <2>3. l.linked = k.linked
    BY <2>2 DEF SameOffers
  <2> HIDE DEF l, f
  <2>4. Way(c)' = Way(c)
    BY <1>1, <1>2, <1>3, <1>4, <2>1, <2>3, AskStep
  <2>5. After(c, l, "ANSWER", back, Told(wire[c]), Way(c)', Old(c), Told(wire[Other(c)]), V)
    BY <1>1, <1>2, <1>3, <1>6, <2>2, <2>4, RefuseSides DEF SidesOf, After, peerGhosts
  <2> QED
    BY <1>1, <1>2, <1>3, <1>4, <2>1, <2>3, <2>5, AskStep
<1> QED
  BY <1>5, <1>6

\* SEND of an accepted offer keeps it.
LEMMA SendKeeps ==
  ASSUME PeersInv, NEW c \in Cores, SendAccepted(c)
  PROVE  PeersInv'
<1> DEFINE k == core[c]
           l == [k EXCEPT !.offerOut = 0, !.answered = FALSE, !.xfer = "put", !.xid = k.offerOut,
                          !.failed = FALSE]
<1>1. /\ peerCmd[c] = "idle" /\ Accepted(k) /\ k.linked /\ core' = [core EXCEPT ![c] = l]
      /\ UNCHANGED <<queues, peerServing, peerCmd, peerSlot, peerLinks, offersMade, peerGhosts>>
  BY DEF SendAccepted, Idle, Accepted, Keep
<1>2. /\ l \in CoreSet /\ l.linked = k.linked /\ l.offerIn = k.offerIn /\ l.offerOut = 0 /\ ~l.answered
      /\ l.accepted = k.accepted /\ l.xfer = "put" /\ l.xid = k.offerOut /\ ~l.failed
      /\ l.ended = k.ended /\ l.got = k.got
  <2>1. k \in CoreSet /\ 0 \in 0..MaxOffers /\ k.offerOut \in 0..MaxOffers
    BY Before, BoundsAssumption DEF BoundsAssumption
  <2> QED
    BY <2>1 DEF CoreSet
<1> HIDE DEF l
<1>3. After(c, l, peerCmd[c], peerSlot[c], Told(wire[c]), Way(c), Old(c), Told(wire[Other(c)]), Way(Other(c)))
  BY <1>1, <1>2, Before, SendSides DEF SidesOf, After, peerGhosts
<1>4. peerCmd' = [peerCmd EXCEPT ![c] = peerCmd[c]] /\ peerSlot' = [peerSlot EXCEPT ![c] = peerSlot[c]]
  BY <1>1, InvShape DEF Shaped
<1>5. RestRight'
  BY <1>1, InvShape DEF RestRight, peerGhosts, queues
<1> QED
  BY <1>1, <1>2, <1>3, <1>4, <1>5, OwnStep, ZenonT(30)

\* write() keeps it: the chunk it sends is the next one.
LEMMA WriteKeeps ==
  ASSUME PeersInv, NEW c \in Cores, WriteCmd(c)
  PROVE  PeersInv'
<1> DEFINE k == core[c]
           f == NumberedBy(c, PeerFrame("DATA", k.xid, file[k.xid] + 1))
<1>1. k.linked /\ k.xid \in Offers
  BY Before DEF WriteCmd, SideInv, Commanded, Offers
<1>2. /\ peerCmd[c] = "idle" /\ k.xfer = "put" /\ ~k.failed /\ file[k.xid] < MaxPeerChunks
      /\ file' = [file EXCEPT ![k.xid] = @ + 1]
      /\ peerCmd' = [peerCmd EXCEPT ![c] = "WRITE"]
      /\ peerSlot' = [peerSlot EXCEPT ![c] = "none"] /\ wire' = Sent(c, f)
      /\ peerSeq' = (IF k.linked THEN [peerSeq EXCEPT ![c] = RequestSeq(c)] ELSE peerSeq)
      /\ UNCHANGED <<core, peerIncoming, peerToServe, peerServing, peerLinks, offersMade, whole, closed, peerMistaken>>
  BY <1>1 DEF WriteCmd, Idle, AskPeer
<1>3. core' = [core EXCEPT ![c] = k]
  BY <1>2, InvShape DEF Shaped
<1>4. f \in Requests /\ f.kind = "DATA" /\ f.of = k.xid /\ f.arg = file[k.xid] + 1
  <2>1. file[k.xid] \in 0..MaxPeerChunks
    BY <1>1, Before
  <2>2. file[k.xid] + 1 \in 0..MaxPeerChunks + 1
    BY <2>1, BoundsAssumption DEF BoundsAssumption
  <2> QED
    BY <2>2, Frame, Before
<1> HIDE DEF f
<1>5. SidesOf(c) /\ (k.linked => Way(Other(c)) = {})
  BY <1>2, Before DEF Waits
<1>6. After(c, k, "WRITE", "none", Told(wire[c]), Way(c), Old(c), Told(wire[Other(c)]),
            IF k.linked /\ core[Other(c)].linked THEN {f} ELSE Way(Other(c)))
  <2> DEFINE V == IF k.linked /\ core[Other(c)].linked THEN {f} ELSE Way(Other(c))
             more == [file EXCEPT ![k.xid] = @ + 1]
  <2>1. file' = more /\ whole' = whole /\ offersMade' = offersMade
    BY <1>2
  <2>2. Sides(k, "WRITE", "none", Told(wire[c]), Way(c), Old(c),
              core[Other(c)], peerCmd[Other(c)], peerSlot[Other(c)], Told(wire[Other(c)]), V, Old(Other(c)),
              more, whole, offersMade)
    <3>1. /\ V = IF k.linked /\ core[Other(c)].linked THEN {f} ELSE Way(Other(c))
          /\ more = [file EXCEPT ![k.xid] = @ + 1]
      OBVIOUS
    <3>2. Sides(k, "idle", peerSlot[c], Told(wire[c]), Way(c), Old(c),
                core[Other(c)], peerCmd[Other(c)], peerSlot[Other(c)], Told(wire[Other(c)]), Way(Other(c)),
                Old(Other(c)), file, whole, offersMade)
      BY <1>2, <1>5 DEF SidesOf
    <3>3. k.linked /\ k.xfer = "put" /\ ~k.failed /\ file[k.xid] < MaxPeerChunks
      BY <1>1, <1>2
    <3> HIDE DEF V, more, k
    <3> QED
      BY ONLY <1>4, <3>1, <3>2, <3>3, WriteSides
  <2> QED
    BY <2>1, <2>2 DEF After
<1>7. RestRight'
  BY <1>2, InvShape, Numbers DEF RestRight
<1> QED
  BY <1>2, <1>3, <1>4, <1>5, <1>6, <1>7, AskOnly

\* read() that waits keeps it.
LEMMA ReadKeeps ==
  ASSUME PeersInv, NEW c \in Cores, ReadCmd(c)
  PROVE  PeersInv'
<1> DEFINE k == core[c]
<1>1. /\ peerCmd[c] = "idle" /\ k.xfer = "get" /\ ~k.failed /\ ~k.ended
      /\ peerCmd' = [peerCmd EXCEPT ![c] = "READ"] /\ peerSlot' = [peerSlot EXCEPT ![c] = "none"]
      /\ UNCHANGED <<core, queues, peerServing, peerLinks, offersMade, peerGhosts>>
  BY DEF ReadCmd, Idle
<1>2. core' = [core EXCEPT ![c] = k]
  BY <1>1, InvShape DEF Shaped
<1>3. After(c, k, "READ", "none", Told(wire[c]), Way(c), Old(c), Told(wire[Other(c)]), Way(Other(c)))
  BY <1>1, Before, ReadSides DEF SidesOf, After, peerGhosts
<1>4. RestRight'
  BY <1>1, InvShape DEF RestRight, peerGhosts, queues
<1> QED
  BY <1>1, <1>2, <1>3, <1>4, OwnStep

\* close() keeps it: FILE_END, ABORT, or the end of a receiver's transfer.
LEMMA CloseKeeps ==
  ASSUME PeersInv, NEW c \in Cores, NEW abandon \in BOOLEAN, Close(c, abandon)
  PROVE  PeersInv'
<1> DEFINE k == core[c]
           failed == k.failed \/ abandon
<1>1. /\ peerCmd[c] = "idle" /\ k.xfer # "none" /\ k \in CoreSet /\ failed \in BOOLEAN
      /\ UNCHANGED <<peerIncoming, peerToServe, peerServing, peerLinks, offersMade, file, whole, peerMistaken>>
  BY Before DEF Close, Idle, CoreSet
<1>2. /\ SidesOf(c) /\ (k.linked => Way(Other(c)) = {}) /\ k.xid \in Offers
      /\ ~OfferOpen(k) /\ (k.xfer = "put" /\ ~k.failed => k.linked)
      /\ Gets(k) /\ k.ended => k.xid \in whole
  BY <1>1, Before DEF SideInv, Commanded, Received, Waits, Offers
<1>3. CASE k.xfer = "put" /\ (failed => k.linked)
  <2> DEFINE l == [k EXCEPT !.failed = failed]
             f == NumberedBy(c, PeerFrame(IF failed THEN "ABORT" ELSE "END", k.xid, 0))
             V == IF k.linked /\ core[Other(c)].linked THEN {f} ELSE Way(Other(c))
             op == IF failed THEN "ABORT" ELSE "END"
  <2>1. /\ k.linked /\ core' = [core EXCEPT ![c] = l] /\ closed' = closed
        /\ peerCmd' = [peerCmd EXCEPT ![c] = op] /\ peerSlot' = [peerSlot EXCEPT ![c] = "none"]
        /\ wire' = Sent(c, f)
        /\ peerSeq' = (IF k.linked THEN [peerSeq EXCEPT ![c] = RequestSeq(c)] ELSE peerSeq)
    BY <1>2, <1>3 DEF Close, Keep, AskPeer
  <2>2. /\ l \in CoreSet /\ SameOffers(l, k) /\ l.offerIn = k.offerIn /\ l.xfer = k.xfer
        /\ l.xid = k.xid /\ l.ended = k.ended /\ l.got = k.got /\ l.linked = k.linked
        /\ ~failed => l = k
    BY <1>1 DEF CoreSet, SameOffers
  <2>3. f \in Requests /\ (failed => f.kind = "ABORT") /\ (~failed => f.kind = "END" /\ f.of = k.xid)
    BY Frame, Before
  <2>4. V = IF k.linked /\ core[Other(c)].linked THEN {f} ELSE Way(Other(c))
    OBVIOUS
  <2>5. RestRight'
    BY <1>1, <2>1, InvShape, Numbers DEF RestRight
  <2>6. failed => op = "ABORT" /\ k.xfer = "put"
    BY <1>3
  <2>7. ~failed => op = "END" /\ k.xfer = "put" /\ ~k.failed
    BY <1>3
  <2> HIDE DEF l, f, V, op, failed
  <2>8. After(c, l, op, "none", Told(wire[c]), Way(c), Old(c), Told(wire[Other(c)]), V)
    <3>1. CASE failed
      BY <1>1, <1>2, <2>1, <2>2, <2>3, <2>4, <2>6, <3>1, AbortSides DEF SidesOf, After
    <3>2. CASE ~failed
      BY <1>1, <1>2, <2>1, <2>2, <2>3, <2>4, <2>7, <3>2, EndSides DEF SidesOf, After
    <3> QED
      BY <3>1, <3>2
  <2> QED
    BY <1>1, <1>2, <2>1, <2>2, <2>3, <2>4, <2>5, <2>8, AskOnly
<1>4. CASE ~(k.xfer = "put" /\ (failed => k.linked))
  <2> DEFINE l == [k EXCEPT !.failed = failed, !.xfer = "none"]
  <2>1. /\ core' = [core EXCEPT ![c] = l]
        /\ closed' = IF k.xfer # "put" /\ ~failed /\ k.ended THEN closed \cup {<<c, k.xid>>} ELSE closed
        /\ UNCHANGED <<peerCmd, peerSlot, peerSeq, wire>>
    BY <1>4 DEF Close, Keep, ReceivedAll
  <2>2. /\ l \in CoreSet /\ SameOffers(l, k) /\ l.offerIn = k.offerIn /\ l.xfer = "none"
        /\ l.xid = k.xid /\ l.ended = k.ended /\ l.got = k.got /\ l.linked = k.linked
    BY <1>1 DEF CoreSet, SameOffers
  <2>3. k.xfer # "put" /\ ~failed /\ k.ended => k.xid \in whole
    BY <1>1, <1>2 DEF Gets, CoreSet
  <2> HIDE DEF l
  <2>4. RestRight'
    BY <1>1, <1>2, <2>1, <2>3, InvShape, Numbers DEF RestRight
  <2>5. After(c, l, "idle", "none", Told(wire[c]), Way(c), Old(c), Told(wire[Other(c)]), Way(Other(c)))
    BY <1>1, <1>2, <2>2, OverSides DEF SidesOf, After
  <2>6. /\ peerCmd' = [peerCmd EXCEPT ![c] = "idle"] /\ peerSlot' = [peerSlot EXCEPT ![c] = "none"]
    <3>1. peerSlot[c] = "none"
      BY <1>1, Before DEF SideInv, Commanded
    <3> QED
      BY <1>1, <2>1, <3>1, InvShape DEF Shaped
  <2> QED
    <3>1. UNCHANGED <<queues, peerServing, peerLinks>>
      BY <1>1, <2>1 DEF queues
    <3>2. core' = [core EXCEPT ![c] = l] /\ l.linked = core[c].linked
      BY <2>1, <2>2
    <3> QED
      BY ONLY PeersInv, c \in Cores, <2>4, <2>5, <2>6, <3>1, <3>2, OwnStep
<1> QED
  BY <1>3, <1>4

-----------------------------------------------------------------------------
(* The commands that waited.                                               *)

\* A command that ends and leaves the queues and the ghosts alone.
LEMMA EndStep ==
  ASSUME PeersInv, NEW c \in Cores, NEW l, l.linked = core[c].linked,
         core' = [core EXCEPT ![c] = l], Done(c), UNCHANGED <<queues, peerServing, peerLinks, offersMade, peerGhosts>>,
         Sides(l, "idle", "none", Told(wire[c]), Way(c), Old(c),
               core[Other(c)], peerCmd[Other(c)], peerSlot[Other(c)], Told(wire[Other(c)]), Way(Other(c)),
               Old(Other(c)), file, whole, offersMade)
  PROVE  PeersInv'
<1>1. After(c, l, "idle", "none", Told(wire[c]), Way(c), Old(c), Told(wire[Other(c)]), Way(Other(c)))
  BY DEF After, peerGhosts
<1>2. RestRight'
  BY InvShape DEF RestRight, peerGhosts, queues
<1> QED
  BY <1>1, <1>2, OwnStep DEF Done

\* offer() answered, or given up, keeps it.
LEMMA OfferEndsKeeps ==
  ASSUME PeersInv, NEW c \in Cores, OfferEnds(c)
  PROVE  PeersInv'
<1> DEFINE k == core[c]
<1>1. /\ peerCmd[c] = "OFFER" /\ peerSlot[c] # "none" /\ SidesOf(c) /\ Done(c)
      /\ UNCHANGED <<queues, peerServing, peerLinks, offersMade, peerGhosts>>
  BY Before DEF OfferEnds
<1>2. CASE peerSlot[c] = "ACK"
  <2>1. core' = [core EXCEPT ![c] = k]
    BY <1>2 DEF OfferEnds, Keep
  <2> QED
    BY <1>1, <1>2, <2>1, EndsSides, EndStep DEF SidesOf
<1>3. CASE peerSlot[c] # "ACK"
  <2> DEFINE l == [k EXCEPT !.offerOut = 0]
  <2>1. core' = [core EXCEPT ![c] = l]
    BY <1>3 DEF OfferEnds, Keep
  <2>2. /\ l \in CoreSet /\ SameTransfer(l, k) /\ l.linked = k.linked /\ l.offerIn = k.offerIn
        /\ l.offerOut = 0 /\ l.answered = k.answered /\ l.accepted = k.accepted
    <3>1. k \in CoreSet /\ 0 \in 0..MaxOffers
      BY Before, BoundsAssumption DEF BoundsAssumption
    <3> QED
      BY <3>1 DEF CoreSet, SameTransfer
  <2> HIDE DEF l
  <2> QED
    BY <1>1, <1>3, <2>1, <2>2, RefusedSides, EndStep DEF SidesOf
<1> QED
  BY <1>2, <1>3

\* WITHDRAW answered keeps it.
LEMMA WithdrawEndsKeeps ==
  ASSUME PeersInv, NEW c \in Cores, WithdrawEnds(c)
  PROVE  PeersInv'
<1>1. /\ peerCmd[c] = "WITHDRAW" /\ peerSlot[c] # "none" /\ SidesOf(c) /\ Done(c)
      /\ UNCHANGED <<core, queues, peerServing, peerLinks, offersMade, peerGhosts>>
  BY Before DEF WithdrawEnds
<1>2. core' = [core EXCEPT ![c] = core[c]]
  BY <1>1, InvShape DEF Shaped
<1> QED
  BY <1>1, <1>2, EndsSides, EndStep DEF SidesOf

\* answerOffer() answered, or given up with its transfer, keeps it.
LEMMA AnswerCmdEndsKeeps ==
  ASSUME PeersInv, NEW c \in Cores, AnswerCmdEnds(c)
  PROVE  PeersInv'
<1> DEFINE k == core[c]
<1>1. /\ peerCmd[c] = "ANSWER" /\ peerSlot[c] # "none" /\ SidesOf(c) /\ Done(c)
      /\ UNCHANGED <<queues, peerServing, peerLinks, offersMade, peerGhosts>>
  BY Before DEF AnswerCmdEnds
<1>2. CASE peerSlot[c] = "ACK"
  <2>1. core' = [core EXCEPT ![c] = k]
    BY <1>2 DEF AnswerCmdEnds, Keep
  <2> QED
    BY <1>1, <1>2, <2>1, EndsSides, EndStep DEF SidesOf
<1>3. CASE peerSlot[c] # "ACK"
  <2> DEFINE l == [k EXCEPT !.xfer = "none"]
  <2>1. core' = [core EXCEPT ![c] = l]
    BY <1>3 DEF AnswerCmdEnds, Keep
  <2>2. /\ l \in CoreSet /\ SameOffers(l, k) /\ l.offerIn = k.offerIn /\ l.xfer = "none"
        /\ l.xid = k.xid /\ l.ended = k.ended /\ l.got = k.got /\ l.linked = k.linked
    <3>1. k \in CoreSet
      BY Before
    <3> QED
      BY <3>1 DEF CoreSet, SameOffers
  <2>3. ~OfferOpen(k)
    BY <1>1, Before DEF SideInv, Commanded
  <2> HIDE DEF l
  <2> QED
    <3>1. Sides(l, "idle", "none", Told(wire[c]), Way(c), Old(c),
                core[Other(c)], peerCmd[Other(c)], peerSlot[Other(c)], Told(wire[Other(c)]), Way(Other(c)),
                Old(Other(c)), file, whole, offersMade)
      BY <1>1, <2>2, <2>3, OverSides DEF SidesOf
    <3> QED
      BY <1>1, <2>1, <2>2, <3>1, EndStep
<1> QED
  BY <1>2, <1>3

\* write() or read() that fails.
LEMMA FailStep ==
  ASSUME PeersInv, NEW c \in Cores, core' = [core EXCEPT ![c] = [core[c] EXCEPT !.failed = TRUE]],
         peerCmd[c] \in {"WRITE", "READ"}, peerSlot[c] \notin {"none", "ACK"}, Done(c),
         UNCHANGED <<queues, peerServing, peerLinks, offersMade, peerGhosts>>
  PROVE  PeersInv'
<1> DEFINE k == core[c]
           l == [k EXCEPT !.failed = TRUE]
<1>1. /\ l \in CoreSet /\ SameOffers(l, k) /\ l.offerIn = k.offerIn /\ l.xfer = k.xfer
      /\ l.xid = k.xid /\ l.failed /\ l.ended = k.ended /\ l.got = k.got /\ l.linked = k.linked
  <2>1. k \in CoreSet
    BY Before
  <2> QED
    BY <2>1 DEF CoreSet, SameOffers
<1>2. core' = [core EXCEPT ![c] = l] /\ SidesOf(c)
  BY Before
<1> HIDE DEF l
<1> QED
  BY <1>1, <1>2, FailsSides, EndStep DEF SidesOf

\* write() answered, or failed, keeps it.
LEMMA WriteCmdEndsKeeps ==
  ASSUME PeersInv, NEW c \in Cores, WriteCmdEnds(c)
  PROVE  PeersInv'
<1>1. /\ peerCmd[c] = "WRITE" /\ peerSlot[c] # "none" /\ SidesOf(c) /\ Done(c)
      /\ UNCHANGED <<queues, peerServing, peerLinks, offersMade, peerGhosts>>
  BY Before DEF WriteCmdEnds
<1>2. CASE peerSlot[c] = "ACK"
  <2>1. core' = [core EXCEPT ![c] = core[c]]
    BY <1>2 DEF WriteCmdEnds, Keep
  <2> QED
    BY <1>1, <1>2, <2>1, EndsSides, EndStep DEF SidesOf
<1>3. CASE peerSlot[c] # "ACK"
  <2>1. core' = [core EXCEPT ![c] = [core[c] EXCEPT !.failed = TRUE]]
    BY <1>3 DEF WriteCmdEnds, Keep
  <2> QED
    BY <1>1, <1>3, <2>1, FailStep
<1> QED
  BY <1>2, <1>3

\* read() without a link keeps it.
LEMMA ReadFailsKeeps ==
  ASSUME PeersInv, NEW c \in Cores, ReadFails(c)
  PROVE  PeersInv'
BY FailStep DEF ReadFails, Keep

\* ABORT answered keeps it.
LEMMA AbortEndsKeeps ==
  ASSUME PeersInv, NEW c \in Cores, AbortEnds(c)
  PROVE  PeersInv'
<1> DEFINE k == core[c]
           l == [k EXCEPT !.xfer = "none"]
<1>1. /\ peerCmd[c] = "ABORT" /\ peerSlot[c] # "none" /\ SidesOf(c) /\ Done(c)
      /\ core' = [core EXCEPT ![c] = l]
      /\ UNCHANGED <<queues, peerServing, peerLinks, offersMade, peerGhosts>>
  BY Before DEF AbortEnds, Keep
<1>2. /\ l \in CoreSet /\ SameOffers(l, k) /\ l.offerIn = k.offerIn /\ l.xfer = "none"
      /\ l.xid = k.xid /\ l.ended = k.ended /\ l.got = k.got /\ l.linked = k.linked
  <2>1. k \in CoreSet
    BY Before
  <2> QED
    BY <2>1 DEF CoreSet, SameOffers
<1>3. ~OfferOpen(k)
  BY <1>1, Before DEF SideInv, Commanded
<1> HIDE DEF l
<1> QED
  BY <1>1, <1>2, <1>3, OverSides, EndStep, ZenonT(30) DEF SidesOf

\* FILE_END answered keeps it: SUCCESS only for an ACK, sent for the whole file.
LEMMA EndCmdEndsKeeps ==
  ASSUME PeersInv, NEW c \in Cores, EndCmdEnds(c)
  PROVE  PeersInv'
<1> DEFINE k == core[c]
<1>1. /\ peerCmd[c] = "END" /\ peerSlot[c] # "none" /\ SidesOf(c) /\ k \in CoreSet
      /\ UNCHANGED <<peerIncoming, peerToServe, peerServing, peerLinks, offersMade, file, whole, peerMistaken>>
  BY Before DEF EndCmdEnds
<1>2. /\ (k.linked => Way(Other(c)) = {}) /\ k.xid \in Offers /\ k.xfer = "put" /\ ~OfferOpen(k)
      /\ peerSlot[c] = "ACK" => k.xid \in whole
  BY <1>1, Before DEF SideInv, Commanded, Answered, Acked, Waits, Offers
<1>3. CASE peerSlot[c] # "ACK" /\ k.linked
  <2> DEFINE f == NumberedBy(c, PeerFrame("ABORT", k.xid, 0))
             V == IF k.linked /\ core[Other(c)].linked THEN {f} ELSE Way(Other(c))
  <2>1. /\ core' = core /\ closed' = closed /\ wire' = Sent(c, f)
        /\ peerSeq' = (IF k.linked THEN [peerSeq EXCEPT ![c] = RequestSeq(c)] ELSE peerSeq)
        /\ peerCmd' = [peerCmd EXCEPT ![c] = "ABORT"] /\ peerSlot' = [peerSlot EXCEPT ![c] = "none"]
    BY <1>3 DEF EndCmdEnds, AskPeer
  <2>2. /\ SameOffers(k, k) /\ core' = [core EXCEPT ![c] = k]
    BY <2>1, InvShape DEF SameOffers, Shaped
  <2>3. f \in Requests /\ f.kind = "ABORT"
    BY Frame, Before
  <2>4. V = IF k.linked /\ core[Other(c)].linked THEN {f} ELSE Way(Other(c))
    OBVIOUS
  <2>5. RestRight'
    BY <1>1, <2>1, InvShape, Numbers DEF RestRight
  <2> HIDE DEF f, V
  <2>6. After(c, k, "ABORT", "none", Told(wire[c]), Way(c), Old(c), Told(wire[Other(c)]), V)
    BY <1>1, <1>2, <1>3, <2>2, <2>3, <2>4, AbortSides DEF SidesOf, After
  <2> QED
    BY <1>1, <1>2, <2>1, <2>2, <2>3, <2>4, <2>5, <2>6, AskOnly
<1>4. CASE ~(peerSlot[c] # "ACK" /\ k.linked)
  <2> DEFINE l == [k EXCEPT !.xfer = "none"]
  <2>1. /\ core' = [core EXCEPT ![c] = l] /\ wire' = wire /\ peerSeq' = peerSeq
        /\ closed' = IF peerSlot[c] = "ACK" THEN closed \cup {<<c, k.xid>>} ELSE closed
        /\ peerCmd' = [peerCmd EXCEPT ![c] = "idle"] /\ peerSlot' = [peerSlot EXCEPT ![c] = "none"]
    BY <1>4 DEF EndCmdEnds, Keep, Done
  <2>2. /\ l \in CoreSet /\ SameOffers(l, k) /\ l.offerIn = k.offerIn /\ l.xfer = "none"
        /\ l.xid = k.xid /\ l.ended = k.ended /\ l.got = k.got /\ l.linked = k.linked
    BY <1>1 DEF CoreSet, SameOffers
  <2> HIDE DEF l
  <2>3. RestRight'
    BY <1>1, <1>2, <2>1, InvShape, Numbers DEF RestRight
  <2>4. After(c, l, "idle", "none", Told(wire[c]), Way(c), Old(c), Told(wire[Other(c)]), Way(Other(c)))
    BY <1>1, <1>2, <2>2, OverSides DEF SidesOf, After
  <2> QED
    BY <1>1, <2>1, <2>2, <2>3, <2>4, OwnStep DEF queues
<1> QED
  BY <1>3, <1>4

\* read() takes a frame of incoming_ and answers it.
LEMMA ReadFrameKeeps ==
  ASSUME PeersInv, NEW c \in Cores, ReadFrame(c)
  PROVE  PeersInv'
<1> DEFINE k == core[c]
           o == Other(c)
           q == peerIncoming[c]
           f == Head(q)
           n == peerServing[c]
           a == IF f.kind \in {"DATA", "END", "ABORT"} THEN "ACK" ELSE "ERR"
           g == AnswerTo(f, a, peerLinks)
           U == IF k.linked /\ core[o].linked THEN Told(wire[o]) \cup {a} ELSE Told(wire[o])
<1>1. /\ peerCmd[c] = "READ" /\ peerSlot[c] # "GONE" /\ q # <<>> /\ k \in CoreSet /\ SidesOf(c) /\ QueuedOf(c)
      /\ peerIncoming' = [peerIncoming EXCEPT ![c] = Tail(q)] /\ Done(c)
      /\ UNCHANGED <<peerToServe, peerSeq, peerServing, peerLinks, offersMade, file, closed, peerMistaken>>
  <2>1. k \in CoreSet /\ SidesOf(c) /\ QueuedOf(c)
    BY InvShape
  <2> QED
    BY <2>1 DEF ReadFrame
<1>2. /\ Queued(k, core[o], wire[c], Tail(q), peerToServe[c], n, peerLinks) /\ f \in Way(c)
      /\ Pending(wire[c], Tail(q), peerToServe[c], n, peerLinks) = {}
  BY <1>1, QueueRead, ZenonT(30) DEF QueuedOf, Way
<1>3. a \in Answers /\ a = IF f.kind \in {"DATA", "END", "ABORT"} THEN "ACK" ELSE "ERR"
  BY DEF Answers
<1>4. U = IF k.linked /\ core[o].linked THEN Told(wire[o]) \cup {a} ELSE Told(wire[o])
  OBVIOUS
<1> HIDE DEF a, g, U
<1>5. TellsRight(k, core[o], peerCmd[o], peerSlot[o], f, a, Told(wire[o]), U, file)
  BY <1>1, <1>2, <1>3, <1>4, Tells DEF SidesOf
<1>6. g \in Replies /\ g.kind = a /\ g.of = peerLinks
  <2>1. f \in Requests /\ peerLinks \in 0..MaxPeerLinks
    BY <1>1, <1>2, InvShape DEF SidesOf, Sides, SideType
  <2> QED
    BY <1>3, <2>1, Answer DEF g
<1>7. U \in SUBSET Answers /\ (k.linked /\ core[o].linked => Told(wire[o]) = {})
  BY <1>5 DEF TellsRight
<1>8. ASSUME NEW l \in CoreSet, l.linked = k.linked, core' = [core EXCEPT ![c] = l], wire' = Sent(c, g),
             After(c, l, "idle", "none", Told(wire[c]), {}, Old(c), U, Way(o)), RestRight'
      PROVE  PeersInv'
  <2>1. peerServing' = [peerServing EXCEPT ![c] = n]
    BY <1>1, InvShape DEF Shaped
  <2>2. /\ peerCmd' = [peerCmd EXCEPT ![c] = "idle"] /\ peerSlot' = [peerSlot EXCEPT ![c] = "none"]
        /\ UNCHANGED <<peerToServe, peerLinks>>
    BY <1>1 DEF Done
  <2>3. U = IF k.linked /\ core[o].linked /\ g.of = peerLinks
            THEN Told(wire[o]) \cup {g.kind} ELSE Told(wire[o])
    BY <1>4, <1>6
  <2>4. After(c, l, "idle", "none", Told(wire[c]), Pending(wire[c], Tail(q), peerToServe[c], n, peerLinks),
              Stale(n, peerLinks), U, Way(o))
    BY <1>2, <1>8 DEF Old
  <2> QED
    BY <1>1, <1>2, <1>7, <1>8, <1>6, <2>1, <2>2, <2>3, <2>4, TellStep
<1>9. /\ RestRight /\ file' = file /\ offersMade' = offersMade /\ closed' = closed
      /\ peerSeq' = peerSeq /\ peerMistaken' = peerMistaken
  BY <1>1, InvShape
<1>10. CASE f.kind = "DATA"
  <2> DEFINE x == [of |-> f.of, n |-> f.arg]
             l == [k EXCEPT !.got = Append(@, x)]
  <2>1. core' = [core EXCEPT ![c] = l] /\ wire' = Sent(c, g) /\ whole' = whole /\ a = "ACK"
    BY <1>3, <1>10 DEF ReadFrame, Keep, IsData, a, g
  <2>2. [of |-> f.of, n |-> f.arg] \in [of : Offers, n : 1..MaxPeerChunks]
    <3>1. f.of \in Offers /\ f.arg \in 1..file[f.of]
      BY <1>2, <1>10, Before DEF SideInv, Incoming
    <3>2. file[f.of] \in 0..MaxPeerChunks /\ MaxPeerChunks \in Nat
      BY <3>1, Before, BoundsAssumption DEF BoundsAssumption
    <3> QED
      BY <3>1, <3>2
  <2>3. /\ l \in CoreSet /\ SameOffers(l, k) /\ l.offerIn = k.offerIn /\ l.xfer = k.xfer /\ l.xid = k.xid
        /\ l.failed = k.failed /\ l.ended = k.ended /\ l.got = Append(k.got, x)
        /\ l.linked = k.linked
    <3>1. k.got \in Seq([of : Offers, n : 1..MaxPeerChunks])
      BY <1>1 DEF CoreSet
    <3>2. Append(k.got, [of |-> f.of, n |-> f.arg]) \in Seq([of : Offers, n : 1..MaxPeerChunks])
      BY <2>2, <3>1
    <3> HIDE DEF f
    <3> QED
      BY <1>1, <3>2 DEF CoreSet, SameOffers
  <2> HIDE DEF l
  <2>4. After(c, l, "idle", "none", Told(wire[c]), {}, Old(c), U, Way(o))
    <3>1. x = [of |-> f.of, n |-> f.arg]
      OBVIOUS
    <3>2. /\ Sides(k, "READ", peerSlot[c], Told(wire[c]), Way(c), Old(c), core[o], peerCmd[o], peerSlot[o],
                   Told(wire[o]), Way(o), Old(o), file, whole, offersMade)
          /\ peerSlot[c] # "GONE" /\ f \in Way(c) /\ f.kind = "DATA" /\ a = "ACK"
          /\ U \in SUBSET Answers
      BY <1>1, <1>2, <1>7, <1>10, <2>1 DEF SidesOf
    <3> HIDE DEF x, k, f, o
    <3>3. Sides(l, "idle", "none", Told(wire[c]), {}, Old(c), core[o], peerCmd[o], peerSlot[o],
                U, Way(o), Old(o), file, whole, offersMade)
      BY ONLY <1>4, <2>3, <3>1, <3>2, DataSides
    <3> QED
      BY <1>9, <2>1, <3>3 DEF After, o
  <2>5. RestRight'
    BY <1>9, <2>1 DEF RestRight
  <2> QED
    BY <1>8, <2>1, <2>3, <2>4, <2>5
<1>11. CASE f.kind = "END"
  <2> DEFINE l == [k EXCEPT !.ended = TRUE]
  <2>1. /\ core' = [core EXCEPT ![c] = l] /\ wire' = Sent(c, g) /\ a = "ACK"
        /\ whole' = IF f.of = k.xid /\ Complete(f.of, k.got) THEN whole \cup {f.of} ELSE whole
    BY <1>3, <1>11 DEF ReadFrame, Keep, IsData, a, g
  <2>2. /\ l \in CoreSet /\ SameOffers(l, k) /\ l.offerIn = k.offerIn /\ l.xfer = k.xfer /\ l.xid = k.xid
        /\ l.failed = k.failed /\ l.ended /\ l.got = k.got /\ l.linked = k.linked
    BY <1>1 DEF CoreSet, SameOffers
  <2>3. f.of \in Offers /\ f.of = k.xid /\ Complete(f.of, k.got)
    <3>1. Gets(k)
      BY <1>1, Before DEF SideInv, Commanded, Gets
    <3>2. f.of \in Offers /\ f.of = k.xid /\ file[f.of] = Len(k.got)
      BY <1>2, <1>11, <3>1, Before DEF SideInv, Incoming, Gets
    <3>3. /\ k.got \in Seq([of : Offers, n : 1..MaxPeerChunks])
          /\ \A i \in 1..Len(k.got) : k.got[i] = [of |-> k.xid, n |-> i]
      BY <1>1, <3>1, Before DEF CoreSet, SideInv, Received
    <3>4. k.got = [i \in 1..Len(k.got) |-> k.got[i]]
      BY <3>3
    <3> QED
      BY <3>2, <3>3, <3>4 DEF Complete
  <2> HIDE DEF l
  <2>4. whole' \in SUBSET Offers /\ whole \subseteq whole' /\ f.of \in whole'
    BY <2>1, <2>3, Before
  <2>5. After(c, l, "idle", "none", Told(wire[c]), {}, Old(c), U, Way(o))
    BY <1>1, <1>2, <1>4, <1>7, <1>9, <1>11, <2>1, <2>2, <2>4, FileEndSides DEF SidesOf, After
  <2>6. RestRight'
    BY <1>9, <2>4 DEF RestRight
  <2> QED
    BY <1>8, <2>1, <2>2, <2>5, <2>6
<1>12. CASE f.kind \notin {"DATA", "END"}
  <2> DEFINE l == [k EXCEPT !.failed = TRUE]
  <2>1. /\ core' = [core EXCEPT ![c] = l] /\ wire' = Sent(c, g) /\ whole' = whole
        /\ a = IF f.kind = "ABORT" THEN "ACK" ELSE "ERR"
    BY <1>3, <1>12 DEF ReadFrame, Keep, IsData, a, g
  <2>2. /\ l \in CoreSet /\ SameOffers(l, k) /\ l.offerIn = k.offerIn /\ l.xfer = k.xfer /\ l.xid = k.xid
        /\ l.failed /\ l.ended = k.ended /\ l.got = k.got /\ l.linked = k.linked
    BY <1>1 DEF CoreSet, SameOffers
  <2> HIDE DEF l
  <2>3. After(c, l, "idle", "none", Told(wire[c]), {}, Old(c), U, Way(o))
    BY <1>1, <1>2, <1>4, <1>7, <1>9, <1>12, <2>1, <2>2, OtherFrameSides DEF SidesOf, After
  <2>4. RestRight'
    BY <1>9, <2>1 DEF RestRight
  <2> QED
    BY <1>8, <2>1, <2>2, <2>3, <2>4
<1> QED
  BY <1>10, <1>11, <1>12

-----------------------------------------------------------------------------
(* The frames.                                                             *)

\* onFrame() keeps it, an answer to its slot, a request to its queue: unless the
\* answer is to a frame of an earlier link and taken for this one's.
LEMMA OnFrameKeeps ==
  ASSUME PeersInv, NEW c \in Cores, OnFrame(c)
  PROVE  PeersInv' \/ peerMistaken' = TRUE
<1> DEFINE k == core[c]
           o == Other(c)
           w == wire[c]
           f == Head(w)
<1>1. /\ o \in Cores /\ o # c /\ Other(o) = c /\ Shaped /\ QueuedOf(c) /\ QueuedOf(o) /\ SidesOf(c)
      /\ RestRight /\ peerLinks \in 0..MaxPeerLinks
  BY TwoCores, InvShape
<1>2. /\ w # <<>> /\ f # DownFrame /\ wire' = [wire EXCEPT ![c] = Tail(w)]
      /\ UNCHANGED <<core, peerSeq, peerServing, peerCmd, peerLinks, offersMade, file, whole, closed>>
  BY DEF OnFrame
<1>3. Queued(k, core[o], w, peerIncoming[c], peerToServe[c], peerServing[c], peerLinks)
  BY <1>1 DEF QueuedOf
<1>4. (peerLinks \in 0..MaxPeerLinks)'
  BY <1>1, <1>2
<1>5. wire'[c] = Tail(w) /\ wire'[o] = wire[o]
  BY <1>1, <1>2 DEF Shaped
<1>6. CASE f \in Replies
  <2>1. /\ UNCHANGED <<peerIncoming, peerToServe>> /\ f.kind \in {"ACK", "ERR"}
        /\ peerSlot' = IF Waiting(c) THEN [peerSlot EXCEPT ![c] = IF f.seq = peerSeq[c] THEN f.kind ELSE "none"]
                                     ELSE peerSlot
        /\ peerMistaken' = (peerMistaken \/ (Waiting(c) /\ f.seq = peerSeq[c] /\ f.of # peerLinks))
    BY <1>6, FramesDiffer DEF OnFrame, Answers
  <2> SUFFICES ASSUME ~peerMistaken' PROVE PeersInv'
    OBVIOUS
  <2>2. ~(Waiting(c) /\ f.seq = peerSeq[c] /\ f.of # peerLinks) /\ peerMistaken' = FALSE
    BY <1>1, <2>1 DEF RestRight
  <2> DEFINE s == peerSlot'[c]
             S == Told(Tail(w))
  <2>3. /\ Queued(k, core[o], Tail(w), peerIncoming[c], peerToServe[c], peerServing[c], peerLinks)
        /\ Pending(Tail(w), peerIncoming[c], peerToServe[c], peerServing[c], peerLinks) = Way(c)
        /\ k.linked
        /\ IF f.of = peerLinks THEN Told(w) = {f.kind} /\ S = {} ELSE S = Told(w)
    <3>1. /\ Queued(k, core[o], Tail(w), peerIncoming[c], peerToServe[c], peerServing[c], peerLinks)
          /\ Pending(Tail(w), peerIncoming[c], peerToServe[c], peerServing[c], peerLinks)
               = Pending(w, peerIncoming[c], peerToServe[c], peerServing[c], peerLinks)
          /\ k.linked
          /\ IF Head(w).of = peerLinks
             THEN ToldOf(w, peerLinks) = {Head(w).kind} /\ ToldOf(Tail(w), peerLinks) = {}
             ELSE ToldOf(Tail(w), peerLinks) = ToldOf(w, peerLinks)
      <4> HIDE DEF k, w, o
      <4> QED
        BY ONLY <1>2, <1>3, <1>6, QueueAnswer DEF f
    <3> QED
      BY <3>1 DEF Way, Told
  <2>4. /\ peerSlot'[o] = peerSlot[o] /\ peerSlot' = [d \in Cores |-> peerSlot'[d]]
        /\ s = IF Waiting(c) THEN IF f.seq = peerSeq[c] THEN f.kind ELSE "none" ELSE peerSlot[c]
    BY <1>1, <2>1 DEF Shaped
  <2> HIDE DEF s, S
  <2>5. Sides(k, peerCmd[c], peerSlot[c], Told(w), Way(c), Old(c),
              core[o], peerCmd[o], peerSlot[o], Told(wire[o]), Way(o), Old(o), file, whole, offersMade)
    BY <1>1 DEF SidesOf
  <2>6. Sides(k, peerCmd[c], s, S, Way(c), Old(c),
              core[o], peerCmd[o], peerSlot[o], Told(wire[o]), Way(o), Old(o), file, whole, offersMade)
    <3>1. f.of = peerLinks => Waiting(c)
      BY <2>3, <2>5 DEF Sides, SideInv, Answered, Waits, Waiting
    <3>2. CASE Waiting(c) /\ f.seq = peerSeq[c]
      <4>1. f.of = peerLinks /\ Told(w) = {f.kind} /\ S = {} /\ s = f.kind /\ f.kind \in Answers
        BY <2>1, <2>2, <2>3, <2>4, <3>2 DEF Answers
      <4> HIDE DEF k, w, f, o
      <4> QED
        BY <2>3, <2>5, <4>1, AnswerSides
    <3>3. CASE Waiting(c) /\ f.seq # peerSeq[c]
      <4>1. s = "none" /\ S \in SUBSET Told(w) /\ peerCmd[c] \notin {"idle", "READ"} /\ peerSlot[c] # "GONE"
        BY <2>3, <2>4, <3>3 DEF Waiting
      <4> HIDE DEF k, w, f, o
      <4> QED
        BY <2>3, <2>5, <4>1, UnheardSides
    <3>4. CASE ~Waiting(c)
      BY <2>3, <2>4, <2>5, <3>1, <3>4
    <3> QED
      BY <3>2, <3>3, <3>4
  <2>7. QueuedOf(c)' /\ QueuedOf(o)'
    BY <1>1, <1>2, <1>5, <2>1, <2>3 DEF QueuedOf
  <2>8. Shaped'
    BY <1>1, <1>2, <2>1, <2>4 DEF Shaped
  <2>9. /\ Way(c)' = Way(c) /\ Way(o)' = Way(o) /\ Old(c)' = Old(c) /\ Old(o)' = Old(o)
        /\ Told(wire[c])' = S /\ Told(wire[o])' = Told(wire[o])
    BY <1>2, <1>5, <2>1, <2>3 DEF Way, Old, Told, S
  <2>10. SidesOf(c)'
    BY <1>2, <2>4, <2>6, <2>9 DEF SidesOf, s
  <2>11. RestRight'
    BY <1>1, <1>2, <2>2 DEF RestRight
  <2> QED
    BY <1>1, <1>4, <2>7, <2>8, <2>10, <2>11, Rebuilt
<1>7. CASE f \notin Replies
  <2>1. /\ peerSlot' = peerSlot /\ peerMistaken' = peerMistaken
        /\ \/ peerToServe' = [peerToServe EXCEPT ![c] = Append(@, f)] /\ peerIncoming' = peerIncoming
           \/ peerIncoming' = [peerIncoming EXCEPT ![c] = Append(@, f)] /\ peerToServe' = peerToServe
    <3>1. w \in Seq(OnWire)
      BY <1>3 DEF Queued, QueueType
    <3>2. f \in OnWire
      BY <1>2, <3>1, Taken, FramesOf
    <3>3. f.kind \notin {"ACK", "ERR"}
      BY <1>2, <1>7, <3>2, FramesDiffer DEF OnWire
    <3> QED
      BY <3>3 DEF OnFrame
  <2>2. /\ peerIncoming'[o] = peerIncoming[o] /\ peerToServe'[o] = peerToServe[o]
        /\ \/ peerToServe'[c] = Append(peerToServe[c], f) /\ peerIncoming'[c] = peerIncoming[c]
           \/ peerIncoming'[c] = Append(peerIncoming[c], f) /\ peerToServe'[c] = peerToServe[c]
    BY <1>1, <2>1 DEF Shaped
  <2>3. /\ Queued(k, core[o], Tail(w), peerIncoming'[c], peerToServe'[c], peerServing[c], peerLinks)
        /\ Pending(Tail(w), peerIncoming'[c], peerToServe'[c], peerServing[c], peerLinks) = Way(c)
        /\ Told(Tail(w)) = Told(w)
    <3>1. /\ Queued(k, core[o], Tail(w), peerIncoming[c], Append(peerToServe[c], f), peerServing[c], peerLinks)
          /\ Pending(Tail(w), peerIncoming[c], Append(peerToServe[c], f), peerServing[c], peerLinks) = Way(c)
          /\ Queued(k, core[o], Tail(w), Append(peerIncoming[c], f), peerToServe[c], peerServing[c], peerLinks)
          /\ Pending(Tail(w), Append(peerIncoming[c], f), peerToServe[c], peerServing[c], peerLinks) = Way(c)
          /\ Told(Tail(w)) = Told(w)
      BY <1>2, <1>3, <1>7, QueueRequest DEF Way, Told
    <3> QED
      BY <2>2, <3>1
  <2>4. QueuedOf(c)' /\ QueuedOf(o)'
    BY <1>1, <1>2, <1>5, <2>2, <2>3 DEF QueuedOf
  <2>5. Shaped'
    BY <1>1, <1>2, <2>1 DEF Shaped
  <2>6. Way(c)' = Way(c) /\ Way(o)' = Way(o) /\ Old(c)' = Old(c) /\ Old(o)' = Old(o)
    BY <1>2, <1>5, <2>2, <2>3 DEF Way, Old
  <2>7. SidesOf(c)'
    BY <1>1, <1>2, <1>5, <2>1, <2>3, <2>6 DEF SidesOf, Told
  <2>8. RestRight'
    BY <1>1, <1>2, <2>1 DEF RestRight
  <2> QED
    BY <1>1, <1>4, <2>4, <2>5, <2>7, <2>8, Rebuilt
<1> QED
  BY <1>6, <1>7

\* serverLoop() that takes a frame keeps it.
LEMMA TakeToServeKeeps ==
  ASSUME PeersInv, NEW c \in Cores, TakeToServe(c)
  PROVE  PeersInv'
<1> DEFINE o == Other(c)
           t == peerToServe[c]
           p == [frame |-> Head(t), link |-> peerLinks]
<1>1. /\ o \in Cores /\ o # c /\ Other(o) = c /\ Shaped /\ QueuedOf(c) /\ QueuedOf(o) /\ SidesOf(c)
      /\ RestRight /\ peerLinks \in 0..MaxPeerLinks
  BY TwoCores, InvShape
<1>2. /\ peerServing[c].frame = Nothing /\ t # <<>>
      /\ peerServing' = [peerServing EXCEPT ![c] = p] /\ peerToServe' = [peerToServe EXCEPT ![c] = Tail(t)]
      /\ UNCHANGED <<core, wire, peerIncoming, peerSeq, peerCmd, peerSlot, peerLinks, offersMade, peerGhosts>>
  BY DEF TakeToServe
<1>3. p = [frame |-> Head(t), link |-> peerLinks]
  OBVIOUS
<1> HIDE DEF p
<1>4. /\ peerServing'[c] = p /\ peerServing'[o] = peerServing[o]
      /\ peerToServe'[c] = Tail(t) /\ peerToServe'[o] = peerToServe[o]
  BY <1>1, <1>2 DEF Shaped
<1>5. /\ Queued(core[c], core[o], wire[c], peerIncoming[c], Tail(t), p, peerLinks)
      /\ Pending(wire[c], peerIncoming[c], Tail(t), p, peerLinks) = Way(c)
      /\ ~Stale(peerServing[c], peerLinks) /\ ~Stale(p, peerLinks)
  BY <1>1, <1>2, <1>3, QueueTaken DEF QueuedOf, Way
<1>6. QueuedOf(c)' /\ QueuedOf(o)'
  BY <1>1, <1>2, <1>4, <1>5 DEF QueuedOf
<1>7. Shaped'
  BY <1>1, <1>2 DEF Shaped
<1>8. Way(c)' = Way(c) /\ Way(o)' = Way(o) /\ Old(c)' = Old(c) /\ Old(o)' = Old(o)
  BY <1>2, <1>4, <1>5 DEF Way, Old, Stale
<1>9. SidesOf(c)' /\ RestRight' /\ (peerLinks \in 0..MaxPeerLinks)'
  BY <1>1, <1>2, <1>8 DEF SidesOf, Told, RestRight, peerGhosts
<1> QED
  BY <1>1, <1>6, <1>7, <1>9, Rebuilt

\* What serve() does to the offers with f, and the answer a to it.
Served(l, k, f, a) ==
  \/ /\ f.kind = "OFFER" /\ k.offerIn = 0 /\ k.xfer = "none" /\ a = "ACK"
     /\ SameOffers(l, k) /\ SameTransfer(l, k) /\ l.offerIn = f.of
  \/ /\ f.kind = "FILE_ANSWER" /\ k.offerOut # 0 /\ ~k.answered /\ a = "ACK"
     /\ SameTransfer(l, k) /\ l.linked = k.linked /\ l.offerIn = k.offerIn /\ l.offerOut = k.offerOut
     /\ l.answered /\ l.accepted = (f.arg = 1)
  \/ f.kind = "ABORT" /\ SameOffers(l, k) /\ SameTransfer(l, k) /\ l.offerIn = 0 /\ a = "ACK"
  \/ /\ f.kind # "ABORT" /\ (f.kind = "OFFER" => ~(k.offerIn = 0 /\ k.xfer = "none"))
     /\ l = k /\ a = "ERR"

\* serve() and the sides: a frame of the link that is up.
LEMMA ServedSides ==
  ASSUME NEW k, NEW m, NEW s, NEW T, NEW W, NEW st, NEW ko, NEW mo, NEW so, NEW To, NEW Wo, NEW sto,
         NEW size, NEW done, NEW made,
         Sides(k, m, s, T, W, st, ko, mo, so, To, Wo, sto, size, done, made),
         ~st, NEW f \in W, NEW l \in CoreSet, NEW a, Served(l, k, f, a),
         NEW U \in SUBSET Answers, U = IF k.linked /\ ko.linked THEN To \cup {a} ELSE To
  PROVE  Sides(l, m, s, T, {}, st, ko, mo, so, U, Wo, sto, size, done, made)
<1>1. CASE /\ f.kind = "OFFER" /\ k.offerIn = 0 /\ k.xfer = "none" /\ a = "ACK"
           /\ SameOffers(l, k) /\ SameTransfer(l, k) /\ l.offerIn = f.of
  BY <1>1, OfferHeldSides
<1>2. CASE /\ f.kind = "FILE_ANSWER" /\ k.offerOut # 0 /\ ~k.answered /\ a = "ACK"
           /\ SameTransfer(l, k) /\ l.linked = k.linked /\ l.offerIn = k.offerIn /\ l.offerOut = k.offerOut
           /\ l.answered /\ l.accepted = (f.arg = 1)
  BY <1>2, OfferTakenSides
<1>3. CASE f.kind = "ABORT" /\ SameOffers(l, k) /\ SameTransfer(l, k) /\ l.offerIn = 0 /\ a = "ACK"
  BY <1>3, OfferDroppedSides
<1>4. CASE /\ f.kind # "ABORT" /\ (f.kind = "OFFER" => ~(k.offerIn = 0 /\ k.xfer = "none"))
           /\ l = k /\ a = "ERR"
  BY <1>4, NotServedSides
<1> QED
  BY <1>1, <1>2, <1>3, <1>4 DEF Served

\* serve() and the sides: a frame of an earlier link changes nothing that matters.
LEMMA OldServedSides ==
  ASSUME NEW k, NEW m, NEW s, NEW T, NEW W, NEW st, NEW ko, NEW mo, NEW so, NEW To, NEW Wo, NEW sto,
         NEW size, NEW done, NEW made,
         Sides(k, m, s, T, W, st, ko, mo, so, To, Wo, sto, size, done, made),
         st, NEW f \in Requests, NEW l \in CoreSet, NEW a, Served(l, k, f, a)
  PROVE  Sides(l, m, s, T, W, FALSE, ko, mo, so, To, Wo, sto, size, done, made)
<1>1. CASE /\ f.kind = "OFFER" /\ k.offerIn = 0 /\ k.xfer = "none" /\ a = "ACK"
           /\ SameOffers(l, k) /\ SameTransfer(l, k) /\ l.offerIn = f.of
  BY <1>1, OldOfferHeldSides
<1>2. CASE /\ f.kind = "FILE_ANSWER" /\ k.offerOut # 0 /\ ~k.answered /\ a = "ACK"
           /\ SameTransfer(l, k) /\ l.linked = k.linked /\ l.offerIn = k.offerIn /\ l.offerOut = k.offerOut
           /\ l.answered /\ l.accepted = (f.arg = 1)
  BY <1>2, OldOfferTakenSides
<1>3. CASE f.kind = "ABORT" /\ SameOffers(l, k) /\ SameTransfer(l, k) /\ l.offerIn = 0 /\ a = "ACK"
  BY <1>3, OldOfferDroppedSides
<1>4. CASE /\ f.kind # "ABORT" /\ (f.kind = "OFFER" => ~(k.offerIn = 0 /\ k.xfer = "none"))
           /\ l = k /\ a = "ERR"
  BY <1>4, OldNotServedSides
<1> QED
  BY <1>1, <1>2, <1>3, <1>4 DEF Served

\* serve() is done.
LEMMA ServeKeeps ==
  ASSUME PeersInv, NEW c \in Cores, Serve(c)
  PROVE  PeersInv'
<1> DEFINE k == core[c]
           o == Other(c)
           n == peerServing[c]
           f == n.frame
           l == FrameServed(c, f)
           ok == \/ f.kind = "OFFER" /\ HoldsOffer(c)
                 \/ f.kind = "FILE_ANSWER" /\ TakesAnswer(c)
                 \/ f.kind = "ABORT"
           a == IF ok THEN "ACK" ELSE "ERR"
           g == AnswerTo(f, a, n.link)
           p == [frame |-> Nothing, link |-> 0]
           U == IF k.linked /\ core[o].linked THEN Told(wire[o]) \cup {a} ELSE Told(wire[o])
<1>1. /\ o \in Cores /\ o # c /\ Other(o) = c /\ Shaped /\ QueuedOf(c) /\ QueuedOf(o) /\ SidesOf(c)
      /\ RestRight /\ peerLinks \in 0..MaxPeerLinks /\ k \in CoreSet
  BY TwoCores, InvShape
<1>2. /\ f # Nothing /\ core' = [core EXCEPT ![c] = l] /\ peerServing' = [peerServing EXCEPT ![c] = p]
      /\ wire' = Sent(c, g)
      /\ UNCHANGED <<peerIncoming, peerToServe, peerSeq, peerCmd, peerSlot, peerLinks, offersMade, peerGhosts>>
  BY DEF Serve, Keep
<1>3. /\ f \in Requests /\ f.kind \in {"OFFER", "FILE_ANSWER", "ABORT", "DATA", "END"}
      /\ f.of \in 0..MaxOffers /\ n.link \in 0..MaxPeerLinks
  <2>1. n \in [frame : Requests \cup {Nothing}, link : 0..MaxPeerLinks]
    BY <1>1 DEF QueuedOf, Queued, QueueType
  <2>2. f \in Requests /\ n.link \in 0..MaxPeerLinks
    BY <1>2, <2>1
  <2> QED
    BY <2>2 DEF Requests
<1>4. 0 \in 0..MaxOffers
  BY BoundsAssumption DEF BoundsAssumption
<1>5. l \in CoreSet /\ l.linked = k.linked /\ Served(l, k, f, a)
  <2>1. CASE f.kind = "OFFER" /\ HoldsOffer(c)
    <3>1. l = [k EXCEPT !.offerIn = f.of] /\ a = "ACK"
      BY <2>1 DEF FrameServed
    <3> HIDE DEF l, a, f
    <3> QED
      BY <1>1, <1>3, <2>1, <3>1 DEF Served, SameOffers, SameTransfer, CoreSet, HoldsOffer
  <2>2. CASE f.kind = "FILE_ANSWER" /\ TakesAnswer(c)
    <3>1. l = [k EXCEPT !.answered = TRUE, !.accepted = (f.arg = 1)] /\ a = "ACK"
      BY <2>2 DEF FrameServed
    <3> HIDE DEF l, a, f
    <3> QED
      BY <1>1, <1>3, <2>2, <3>1 DEF Served, SameOffers, SameTransfer, CoreSet, TakesAnswer
  <2>3. CASE f.kind = "ABORT"
    <3>1. l = [k EXCEPT !.offerIn = 0] /\ a = "ACK"
      BY <2>3 DEF FrameServed
    <3> HIDE DEF l, a, f
    <3> QED
      BY <1>1, <1>3, <1>4, <2>3, <3>1 DEF Served, SameOffers, SameTransfer, CoreSet
  <2>4. CASE ~ok
    <3>1. l = k /\ a = "ERR"
      BY <2>4 DEF FrameServed
    <3> HIDE DEF l, a
    <3> QED
      BY <1>1, <2>4, <3>1 DEF Served, HoldsOffer
  <2> QED
    BY <2>1, <2>2, <2>3, <2>4
<1>6. a \in Answers /\ p = [frame |-> Nothing, link |-> 0] /\ RestRight'
      /\ U = IF k.linked /\ core[o].linked THEN Told(wire[o]) \cup {a} ELSE Told(wire[o])
  BY <1>1, <1>2 DEF Answers, RestRight, peerGhosts
<1>7. g \in Replies /\ g.kind = a /\ g.of = n.link
  BY <1>3, <1>6, Answer
<1> HIDE DEF l, a, g, p, U
<1>8. /\ Queued(k, core[o], wire[c], peerIncoming[c], peerToServe[c], p, peerLinks) /\ ~Stale(p, peerLinks)
      /\ n.link = peerLinks => /\ f \in Way(c) /\ ~Old(c)
                               /\ Pending(wire[c], peerIncoming[c], peerToServe[c], p, peerLinks) = {}
      /\ n.link # peerLinks => /\ Old(c)
                               /\ Pending(wire[c], peerIncoming[c], peerToServe[c], p, peerLinks) = Way(c)
  <2>1. Queued(k, core[o], wire[c], peerIncoming[c], peerToServe[c], n, peerLinks)
    BY <1>1 DEF QueuedOf
  <2> QED
    BY <1>1, <1>2, <1>6, <2>1, QueueServed DEF Way, Old
<1>9. Sides(k, peerCmd[c], peerSlot[c], Told(wire[c]), Way(c), Old(c), core[o], peerCmd[o], peerSlot[o],
            Told(wire[o]), Way(o), Old(o), file, whole, offersMade)
  BY <1>1 DEF SidesOf
<1>10. CASE n.link = peerLinks
  <2>1. /\ f \in Way(c) /\ Old(c) = FALSE /\ Stale(p, peerLinks) = FALSE
        /\ Pending(wire[c], peerIncoming[c], peerToServe[c], p, peerLinks) = {}
    BY <1>8, <1>10 DEF Old, Stale
  <2>2. TellsRight(k, core[o], peerCmd[o], peerSlot[o], f, a, Told(wire[o]), U, file)
    BY <1>6, <1>9, <2>1, Tells
  <2>3. U \in SUBSET Answers /\ (k.linked /\ core[o].linked => Told(wire[o]) = {})
    BY <2>2 DEF TellsRight
  <2>4. Sides(l, peerCmd[c], peerSlot[c], Told(wire[c]), {}, FALSE, core[o], peerCmd[o], peerSlot[o],
              U, Way(o), Old(o), file, whole, offersMade)
    <3> HIDE DEF k, f, o
    <3> QED
      BY ONLY <1>5, <1>6, <1>9, <2>1, <2>3, ServedSides, ZenonT(30)
  <2>5. After(c, l, peerCmd[c], peerSlot[c], Told(wire[c]),
              Pending(wire[c], peerIncoming[c], peerToServe[c], p, peerLinks), Stale(p, peerLinks), U, Way(o))
    BY <1>2, <2>1, <2>4 DEF After, peerGhosts
  <2>6. /\ wire' = Sent(c, g) /\ peerCmd' = [peerCmd EXCEPT ![c] = peerCmd[c]]
        /\ peerSlot' = [peerSlot EXCEPT ![c] = peerSlot[c]]
        /\ peerIncoming' = [peerIncoming EXCEPT ![c] = peerIncoming[c]]
    BY <1>1, <1>2 DEF Shaped
  <2>7. U = IF k.linked /\ core[o].linked /\ g.of = peerLinks
            THEN Told(wire[o]) \cup {g.kind} ELSE Told(wire[o])
    BY <1>6, <1>10, <1>7
  <2> HIDE DEF n, f
  <2> QED
    BY <1>2, <1>5, <1>6, <1>8, <1>7, <2>3, <2>5, <2>6, <2>7, TellStep
<1>11. CASE n.link # peerLinks
  <2>1. /\ Old(c) = TRUE /\ Stale(p, peerLinks) = FALSE
        /\ Pending(wire[c], peerIncoming[c], peerToServe[c], p, peerLinks) = Way(c)
    BY <1>8, <1>11 DEF Old, Stale
  <2>2. Sides(l, peerCmd[c], peerSlot[c], Told(wire[c]), Way(c), FALSE, core[o], peerCmd[o], peerSlot[o],
              Told(wire[o]), Way(o), Old(o), file, whole, offersMade)
    <3> HIDE DEF k, f, o
    <3> QED
      BY ONLY <1>3, <1>5, <1>9, <2>1, OldServedSides
  <2>3. After(c, l, peerCmd[c], peerSlot[c], Told(wire[c]),
              Pending(wire[c], peerIncoming[c], peerToServe[c], p, peerLinks), Stale(p, peerLinks),
              Told(wire[o]), Way(o))
    BY <1>2, <2>1, <2>2 DEF After, peerGhosts
  <2>4. /\ wire' = Sent(c, g) /\ peerCmd' = [peerCmd EXCEPT ![c] = peerCmd[c]]
        /\ peerSlot' = [peerSlot EXCEPT ![c] = peerSlot[c]]
        /\ peerIncoming' = [peerIncoming EXCEPT ![c] = peerIncoming[c]]
    BY <1>1, <1>2 DEF Shaped
  <2>5. g.of # peerLinks
    BY <1>11, <1>7
  <2>6. Told(wire[o]) = IF k.linked /\ core[o].linked /\ g.of = peerLinks
                        THEN Told(wire[o]) \cup {g.kind} ELSE Told(wire[o])
    BY <2>5
  <2> HIDE DEF n, f
  <2> QED
    BY <1>2, <1>5, <1>6, <1>8, <1>7, <2>3, <2>4, <2>5, <2>6, TellStep
<1> QED
  BY <1>10, <1>11

-----------------------------------------------------------------------------
(* The link.                                                               *)

\* A side that loses the link keeps the invariant.
LEMMA LoseStep ==
  ASSUME PeersInv, NEW c \in Cores, NEW l \in CoreSet, LosesLink(c, l),
         ~l.linked, l.offerIn = 0, l.offerOut = 0, ~l.answered, l.accepted = core[c].accepted,
         l.xid = core[c].xid, l.failed = (core[c].failed \/ core[c].xfer # "none"),
         l.ended = core[c].ended, l.got = core[c].got,
         l.xfer = core[c].xfer \/ (peerCmd[c] = "idle" /\ l.xfer = "none")
  PROVE  PeersInv'
<1> DEFINE k == core[c]
           o == Other(c)
           ko == core[o]
           b == IF peerCmd[c] = "idle" THEN "none" ELSE "GONE"
<1>1. /\ o \in Cores /\ o # c /\ Other(o) = c /\ Shaped /\ QueuedOf(c) /\ QueuedOf(o) /\ SidesOf(c)
      /\ RestRight /\ peerLinks \in 0..MaxPeerLinks
  BY TwoCores, InvShape
<1>2. /\ core' = [core EXCEPT ![c] = l]
      /\ peerIncoming' = [peerIncoming EXCEPT ![c] = <<>>]
      /\ peerToServe' = [peerToServe EXCEPT ![c] = <<>>]
      /\ peerSlot' = [peerSlot EXCEPT ![c] = b] /\ peerSeq' = [peerSeq EXCEPT ![c] = 255]
      /\ UNCHANGED <<peerServing, peerCmd, peerLinks, offersMade, peerGhosts>>
  BY DEF LosesLink, Keep, Idle
<1>3. PICK i \in 0..Len(wire[o]) :
        wire' = [d \in Cores |-> IF d = c THEN <<>>
                  ELSE IF core[d].linked THEN Append(SubSeq(wire[d], 1, i), DownFrame)
                  ELSE <<>>]
  BY DEF LosesLink
<1>4. /\ wire'[c] = <<>> /\ wire'[o] = IF ko.linked THEN Append(SubSeq(wire[o], 1, i), DownFrame) ELSE <<>>
      /\ wire' = [d \in Cores |-> wire'[d]]
  BY <1>1, <1>3
<1>5. /\ core'[c] = l /\ core'[o] = ko /\ peerIncoming'[c] = <<>> /\ peerIncoming'[o] = peerIncoming[o]
      /\ peerToServe'[c] = <<>> /\ peerToServe'[o] = peerToServe[o]
      /\ peerSlot'[c] = b /\ peerSlot'[o] = peerSlot[o]
  BY <1>1, <1>2 DEF Shaped
<1>6. Shaped'
  BY <1>1, <1>2, <1>4 DEF Shaped
<1>7. /\ Queued(l, ko, <<>>, <<>>, <<>>, peerServing[c], peerLinks)
      /\ Pending(<<>>, <<>>, <<>>, peerServing[c], peerLinks) \subseteq Way(c) /\ Told(<<>>) = {}
  <2>1. Queued(k, ko, wire[c], peerIncoming[c], peerToServe[c], peerServing[c], peerLinks)
    BY <1>1 DEF QueuedOf
  <2> HIDE DEF k, ko
  <2> QED
    BY ONLY <2>1, QueueLost DEF Way, Told
<1>8. /\ Queued(ko, l, wire'[o], peerIncoming[o], peerToServe[o], peerServing[o], peerLinks)
      /\ Pending(wire'[o], peerIncoming[o], peerToServe[o], peerServing[o], peerLinks) \subseteq Way(o)
      /\ Told(wire'[o]) \subseteq Told(wire[o])
  <2>1. Queued(ko, k, wire[o], peerIncoming[o], peerToServe[o], peerServing[o], peerLinks)
    BY <1>1 DEF QueuedOf
  <2>2. /\ ko.linked => wire'[o] = Append(SubSeq(wire[o], 1, i), DownFrame)
        /\ ~ko.linked => wire'[o] = <<>>
    BY <1>4
  <2>3. ~l.linked
    OBVIOUS
  <2>4. Way(o) = Pending(wire[o], peerIncoming[o], peerToServe[o], peerServing[o], peerLinks)
    BY DEF Way
  <2> HIDE DEF k, ko, o
  <2> QED
    BY ONLY <2>1, <2>2, <2>3, <2>4, i \in 0..Len(wire[o]), QueueCut DEF Told
<1>9. QueuedOf(c)' /\ QueuedOf(o)'
  BY <1>1, <1>2, <1>4, <1>5, <1>7, <1>8 DEF QueuedOf
<1>10. Way(c)' \in SUBSET Way(c) /\ Way(o)' \in SUBSET Way(o) /\ Old(c)' = Old(c) /\ Old(o)' = Old(o)
  BY <1>2, <1>4, <1>5, <1>7, <1>8 DEF Way, Old
<1>11. (peerCmd[c] = "idle" => b = "none") /\ (peerCmd[c] # "idle" => b = "GONE")
  OBVIOUS
<1>12. Sides(k, peerCmd[c], peerSlot[c], Told(wire[c]), Way(c), Old(c),
             ko, peerCmd[o], peerSlot[o], Told(wire[o]), Way(o), Old(o), file, whole, offersMade)
  BY <1>1 DEF SidesOf
<1> HIDE DEF b
<1>13. Sides(l, peerCmd[c], b, {}, Way(c)', Old(c), ko, peerCmd[o], peerSlot[o], Told(wire'[o]),
             Way(o)', Old(o), file, whole, offersMade)
  BY <1>8, <1>10, <1>11, <1>12, LosesSides
<1>14. SidesOf(c)'
  BY <1>2, <1>4, <1>5, <1>7, <1>10, <1>13 DEF SidesOf, Told, peerGhosts
<1>15. RestRight' /\ (peerLinks \in 0..MaxPeerLinks)'
  <2>1. peerSeq \in [Cores -> SeqSet] /\ 255 \in SeqSet
    BY <1>1 DEF RestRight, SeqSet
  <2>2. peerSeq' \in [Cores -> SeqSet]
    BY <1>2, <2>1
  <2> QED
    BY <1>1, <1>2, <2>2 DEF RestRight, peerGhosts
<1> QED
  BY <1>6, <1>9, <1>14, <1>15, Rebuilt

\* onLink(false) of a core.
LEMMA Lost ==
  ASSUME NEW c \in Cores, core[c] \in CoreSet, NEW l, l = Relinked(c, FALSE)
  PROVE  /\ l \in CoreSet /\ ~l.linked /\ l.offerIn = 0 /\ l.offerOut = 0 /\ ~l.answered
         /\ l.accepted = core[c].accepted /\ l.xid = core[c].xid /\ l.xfer = core[c].xfer
         /\ l.failed = (core[c].failed \/ core[c].xfer # "none")
         /\ l.ended = core[c].ended /\ l.got = core[c].got
<1>1. 0 \in 0..MaxOffers
  BY BoundsAssumption DEF BoundsAssumption
<1> QED
  BY <1>1 DEF Relinked, CoreSet

\* A lost link keeps it, noticed here or told by the other side.
LEMMA DropPeerLinkKeeps ==
  ASSUME PeersInv, NEW c \in Cores, DropPeerLink(c) \/ SeesDown(c)
  PROVE  PeersInv'
<1>1. LosesLink(c, Relinked(c, FALSE))
  BY DEF DropPeerLink, SeesDown
<1> DEFINE l == Relinked(c, FALSE)
<1>2. core[c] \in CoreSet
  BY InvShape
<1>3. l = Relinked(c, FALSE)
  OBVIOUS
<1> HIDE DEF l
<1> QED
  BY <1>1, <1>2, <1>3, Lost, LoseStep

\* disconnectLink() keeps it.
LEMMA DisconnectLinkKeeps ==
  ASSUME PeersInv, NEW c \in Cores, DisconnectLink(c)
  PROVE  PeersInv'
<1> DEFINE r == Relinked(c, FALSE)
           l == [r EXCEPT !.xfer = "none"]
<1>1. core[c] \in CoreSet /\ r = Relinked(c, FALSE) /\ peerCmd[c] = "idle" /\ LosesLink(c, l)
  BY InvShape DEF DisconnectLink, Idle
<1> HIDE DEF r
<1>2. /\ r \in CoreSet /\ ~r.linked /\ r.offerIn = 0 /\ r.offerOut = 0 /\ ~r.answered
      /\ r.accepted = core[c].accepted /\ r.xid = core[c].xid /\ r.xfer = core[c].xfer
      /\ r.failed = (core[c].failed \/ core[c].xfer # "none")
      /\ r.ended = core[c].ended /\ r.got = core[c].got
  BY <1>1, Lost
<1>3. /\ l \in CoreSet /\ ~l.linked /\ l.offerIn = 0 /\ l.offerOut = 0 /\ ~l.answered
      /\ l.accepted = core[c].accepted /\ l.xid = core[c].xid /\ l.xfer = "none"
      /\ l.failed = (core[c].failed \/ core[c].xfer # "none")
      /\ l.ended = core[c].ended /\ l.got = core[c].got
  BY <1>2 DEF CoreSet
<1> HIDE DEF l
<1> QED
  BY <1>1, <1>3, LoseStep

\* A side after connect(): its old transfer has failed.
LEMMA RelinkedSide ==
  ASSUME NEW c \in Cores, core[c] \in CoreSet, NEW up \in BOOLEAN, NEW b, up => b.xfer = "none",
         up => core[c].xfer = "none", 0 \in 0..MaxOffers
  PROVE  Relinked(c, up) \in CoreSet /\ Relinks(Relinked(c, up), core[c], b)
<1> DEFINE l == Relinked(c, up)
<1>1. l \in CoreSet
  BY DEF Relinked, CoreSet
<1>2. l.linked = up /\ l.offerIn = 0 /\ l.offerOut = 0 /\ ~l.answered /\ l.accepted = core[c].accepted
      /\ l.xfer = core[c].xfer /\ l.xid = core[c].xid /\ l.ended = core[c].ended /\ l.got = core[c].got
  BY DEF Relinked, CoreSet
<1>3. core[c].failed => l.failed
  BY DEF Relinked, CoreSet
<1>4. ~up /\ core[c].xfer # "none" => l.failed
  BY DEF Relinked, CoreSet
<1> QED
  BY <1>1, <1>2, <1>3, <1>4 DEF Relinks

\* Both sides of A's connect(): new links are numbered, so no frame is of it yet.
LEMMA ConnectToKeeps ==
  ASSUME PeersInv, ConnectTo
  PROVE  PeersInv'
<1> DEFINE k == core["A"]
           ko == core["B"]
           up == ko.xfer = "none"
           l == Relinked("A", up)
           lo == Relinked("B", up)
           m == peerCmd["A"]
           mo == peerCmd["B"]
           ro == IF mo = "idle" THEN "none" ELSE "GONE"
           links == peerLinks + 1
<1>1. /\ "A" \in Cores /\ "B" \in Cores /\ Other("A") = "B" /\ Other("B") = "A"
      /\ Shaped /\ QueuedOf("A") /\ QueuedOf("B") /\ SidesOf("A")
      /\ RestRight /\ peerLinks \in 0..MaxPeerLinks /\ k \in CoreSet /\ ko \in CoreSet
  BY InvShape DEF Cores, Other
<1>2. /\ m = "idle" /\ k.xfer = "none" /\ ~k.linked /\ ~ko.linked /\ wire["A"] = <<>> /\ wire["B"] = <<>>
      /\ peerLinks < MaxPeerLinks /\ peerLinks' = links /\ peerServing["B"].frame = Nothing
      /\ core' = [d \in Cores |-> Relinked(d, up)]
      /\ peerIncoming' = [d \in Cores |-> <<>>] /\ peerToServe' = [d \in Cores |-> <<>>]
      /\ peerSlot' = [d \in Cores |-> IF peerCmd[d] = "idle" THEN "none" ELSE "GONE"]
      /\ peerSeq' = [d \in Cores |-> IF d = "A" THEN 1 ELSE 255]
      /\ UNCHANGED <<wire, peerServing, peerCmd, offersMade, peerGhosts>>
  BY <1>1 DEF ConnectTo, Idle, MayStart
<1>3. /\ core'["A"] = l /\ core'["B"] = lo /\ peerSlot'["A"] = "none" /\ peerSlot'["B"] = ro
      /\ \A d \in Cores : wire'[d] = <<>> /\ peerIncoming'[d] = <<>> /\ peerToServe'[d] = <<>>
  BY <1>1, <1>2 DEF Cores
<1>4. links \in 0..MaxPeerLinks /\ links \in Nat /\ peerLinks \in Nat
  BY <1>1, <1>2, BoundsAssumption DEF BoundsAssumption
<1>5. 0 \in 0..MaxOffers /\ up \in BOOLEAN
  BY BoundsAssumption DEF BoundsAssumption
<1>6. Relinks(l, k, ko)
  BY <1>1, <1>2, <1>5, RelinkedSide
<1>7. Relinks(lo, ko, ko)
  BY <1>1, <1>5, RelinkedSide
<1>8. (mo = "idle" => ro = "none") /\ (mo # "idle" => ro = "GONE")
  OBVIOUS
<1> HIDE DEF l, lo, ro
<1>9. ASSUME NEW d \in Cores
      PROVE  /\ QueuedOf(d)' /\ Way(d)' = {} /\ Told(wire[d])' = {}
             /\ peerServing[d].frame = Nothing => ~Old(d)'
  <2>1. /\ QueueType(wire[d], peerIncoming[d], peerToServe[d], peerServing[d])
        /\ peerServing[d].link <= peerLinks /\ (peerServing[d].frame # Nothing => peerServing[d].frame \in Requests)
    BY <1>1, <1>9 DEF Cores, QueuedOf, Queued, InOnePlace
  <2>2. peerServing[d].link \in 0..MaxPeerLinks
    BY <2>1 DEF QueueType
  <2>3. peerServing[d].link # links /\ peerServing[d].link <= links
    BY <1>4, <2>1, <2>2
  <2>4. /\ Frames(<<>>) = {} /\ Asked(<<>>) = {} /\ ToldOf(<<>>, links) = {} /\ OneEach(<<>>, links) /\ Len(<<>>) = 0
        /\ <<>> \in Seq(OnWire) /\ <<>> \in Seq(Requests)
    BY NoFrames
  <2>5. Now(peerServing[d], links) = {}
    BY <2>3 DEF Now
  <2>6. Queued(core'[d], core'[Other(d)], <<>>, <<>>, <<>>, peerServing[d], links)
    BY <2>1, <2>3, <2>4, <2>5 DEF Queued, QueueType, InOnePlace, Placed
  <2>7. Pending(<<>>, <<>>, <<>>, peerServing[d], links) = {}
    BY <2>4, <2>5 DEF Pending
  <2> QED
    BY <1>2, <1>3, <2>4, <2>6, <2>7 DEF QueuedOf, Way, Old, Stale, Told
<1>10. /\ Way("A")' = {} /\ Way("B")' = {} /\ Told(wire["A"])' = {} /\ Told(wire["B"])' = {}
       /\ Old("B")' = FALSE /\ Old("A")' \in BOOLEAN /\ QueuedOf("A")' /\ QueuedOf("B")'
  BY <1>1, <1>2, <1>9 DEF Old, Stale
<1>11. Sides(k, m, peerSlot["A"], Told(wire["A"]), Way("A"), Old("A"), ko, mo, peerSlot["B"],
             Told(wire["B"]), Way("B"), Old("B"), file, whole, offersMade)
  BY <1>1 DEF SidesOf
<1>12. Sides(l, "idle", "none", {}, {}, Old("A")', lo, mo, ro, {}, {}, FALSE, file, whole, offersMade)
  <2>1. m = "idle" /\ k.xfer = "none" /\ ~k.linked /\ ~ko.linked
    BY <1>2
  <2> HIDE DEF k, ko, m, mo, up
  <2> QED
    BY ONLY <1>6, <1>7, <1>8, <1>10, <1>11, <2>1, ConnectSides, ZenonT(30)
<1>13. SidesOf("A")'
  BY <1>1, <1>2, <1>3, <1>10, <1>12 DEF SidesOf, peerGhosts
<1>14. Shaped'
  <2>1. core' = [d \in Cores |-> core'[d]] /\ peerSlot' = [d \in Cores |-> peerSlot'[d]]
        /\ peerIncoming' = [d \in Cores |-> peerIncoming'[d]] /\ peerToServe' = [d \in Cores |-> peerToServe'[d]]
    BY <1>2
  <2> QED
    BY <1>1, <1>2, <2>1 DEF Shaped
<1>15. RestRight' /\ (peerLinks \in 0..MaxPeerLinks)'
  BY <1>1, <1>2, <1>4 DEF RestRight, peerGhosts, SeqSet
<1> QED
  BY <1>1, <1>10, <1>13, <1>14, <1>15, Rebuilt

-----------------------------------------------------------------------------
(* The theorem.                                                            *)

\* The invariant holds at the start.
LEMMA PeersInitInv == PeersInit => PeersInv
<1> SUFFICES ASSUME PeersInit PROVE PeersInv
  OBVIOUS
<1>1. /\ 0 \in 0..MaxOffers /\ 0 \in 0..MaxPeerLinks /\ 0 \in 0..MaxPeerChunks /\ MaxOffers \in Nat
      /\ <<>> \in Seq(OnWire) /\ <<>> \in Seq(Requests)
      /\ <<>> \in Seq([of : Offers, n : 1..MaxPeerChunks]) /\ Len(<<>>) = 0
      /\ Frames(<<>>) = {} /\ Asked(<<>>) = {} /\ ToldOf(<<>>, 0) = {} /\ OneEach(<<>>, 0)
  BY BoundsAssumption, NoFrames DEF BoundsAssumption
<1>2. /\ FreshCore \in CoreSet /\ ~FreshCore.linked /\ FreshCore.offerIn = 0 /\ FreshCore.offerOut = 0
      /\ FreshCore.xfer = "none" /\ ~FreshCore.answered
  BY <1>1 DEF FreshCore, CoreSet
<1>3. \A c \in Cores : /\ core[c] = FreshCore /\ wire[c] = <<>> /\ peerIncoming[c] = <<>> /\ peerToServe[c] = <<>>
                       /\ peerServing[c] = [frame |-> Nothing, link |-> 0]
                       /\ peerCmd[c] = "idle" /\ peerSlot[c] = "none"
  BY DEF PeersInit
<1>4. peerLinks = 0 /\ offersMade = 0 /\ file = [i \in Offers |-> 0] /\ whole = {} /\ closed = {}
  BY DEF PeersInit
<1>5. \A c \in Cores : Way(c) = {} /\ Old(c) = FALSE /\ Told(wire[c]) = {}
  BY <1>1, <1>3, <1>4 DEF Way, Old, Pending, Now, Stale, Told
<1>6. SideInv(FreshCore, "idle", "none", {}, {}, FALSE, FreshCore, {}, FALSE, file, whole, offersMade)
  BY <1>1, <1>2, <1>4 DEF SideInv, Commanded, Answered, Incoming, Received, Offered, Numbered, Flow, Sends,
     OldFrame,
       Acked, Accepted, Sending, OfferOpen, Gets
<1>7. \A c \in Cores : SidesOf(c)
  <2>1. GhostType(file, whole, offersMade)
    BY <1>1, <1>4 DEF GhostType
  <2>2. SideType(FreshCore, "idle", "none", {}, {}, FALSE)
    BY <1>2 DEF SideType
  <2>3. Sides(FreshCore, "idle", "none", {}, {}, FALSE, FreshCore, "idle", "none", {}, {}, FALSE,
              file, whole, offersMade)
    BY <1>6, <2>1, <2>2 DEF Sides
  <2> QED
    BY <1>3, <1>5, <2>3, TwoCores DEF SidesOf
<1>8. \A c \in Cores : QueuedOf(c)
  <2> SUFFICES ASSUME NEW c \in Cores PROVE QueuedOf(c)
    OBVIOUS
  <2> DEFINE n == [frame |-> Nothing, link |-> 0]
  <2>1. n \in [frame : Requests \cup {Nothing}, link : 0..MaxPeerLinks] /\ n.link = 0 /\ n.frame = Nothing
    BY <1>1
  <2> HIDE DEF n
  <2>2. Queued(FreshCore, FreshCore, <<>>, <<>>, <<>>, n, 0)
    BY <1>1, <2>1 DEF Queued, QueueType, InOnePlace, Placed, Now
  <2> QED
    BY <1>3, <1>4, <2>2, TwoCores DEF QueuedOf, n
<1>9. RestRight /\ peerLinks \in 0..MaxPeerLinks
  BY <1>1, <1>4 DEF RestRight, SeqSet, PeersInit
<1>10. PeersTypeOK
  <2>1. peerSeq \in [Cores -> SeqSet] /\ peerMistaken \in BOOLEAN
    <3>1. 255 \in SeqSet
      BY DEF SeqSet
    <3> QED
      BY <3>1 DEF PeersInit
  <2> QED
    BY <1>1, <1>2, <2>1 DEF PeersInit, PeersTypeOK, CoreSet, OnWire
<1> QED
  BY <1>7, <1>8, <1>9, <1>10 DEF PeersInv

\* Every step keeps it, or a command takes an answer to a frame of an earlier link.
LEMMA PeersStep == PeersInv /\ [PeersNext]_peersVars => PeersInv' \/ peerMistaken' = TRUE
<1> SUFFICES ASSUME PeersInv, [PeersNext]_peersVars PROVE PeersInv' \/ peerMistaken' = TRUE
  OBVIOUS
<1>1. ASSUME NEW c \in Cores, Command(c) PROVE PeersInv'
  <2>1. CASE \E flag \in BOOLEAN : AnswerOffer(c, flag) \/ Close(c, flag)
    BY <2>1, AnswerOfferKeeps, CloseKeeps
  <2> QED
    BY <1>1, <2>1, OfferKeeps, WithdrawKeeps, SendKeeps, WriteKeeps, ReadKeeps, DisconnectLinkKeeps
       DEF Command
<1>2. ASSUME NEW c \in Cores, GoesOn(c) PROVE PeersInv'
  BY <1>2, OfferEndsKeeps, WithdrawEndsKeeps, AnswerCmdEndsKeeps, WriteCmdEndsKeeps, EndCmdEndsKeeps,
     AbortEndsKeeps, ReadFrameKeeps, ReadFailsKeeps DEF GoesOn
<1>3. CASE ConnectTo
  BY <1>3, ConnectToKeeps
<1>4. CASE UNCHANGED peersVars
  BY <1>4 DEF peersVars, queues, peerGhosts, PeersInv, PeersTypeOK, SidesOf, QueuedOf, RestRight, Way,
     Old, Told
<1>5. ASSUME NEW c \in Cores, OnFrame(c) \/ TakeToServe(c) \/ Serve(c) \/ DropPeerLink(c) \/ SeesDown(c)
      PROVE  PeersInv' \/ peerMistaken' = TRUE
  BY <1>5, OnFrameKeeps, TakeToServeKeeps, ServeKeeps, DropPeerLinkKeeps
<1> QED
  BY <1>1, <1>2, <1>3, <1>4, <1>5 DEF PeersNext

\* peerMistaken is never taken back.
LEMMA MistakenStays == peerMistaken = TRUE /\ [PeersNext]_peersVars => peerMistaken' = TRUE
<1> SUFFICES ASSUME peerMistaken = TRUE, [PeersNext]_peersVars PROVE peerMistaken' = TRUE
  OBVIOUS
<1>1. ASSUME NEW c \in Cores, Command(c) PROVE peerMistaken' = TRUE
  BY <1>1 DEF Command, Offer, Withdraw, AnswerOffer, SendAccepted, WriteCmd, ReadCmd, Close, DisconnectLink,
     LosesLink, peerGhosts
<1>2. ASSUME NEW c \in Cores, GoesOn(c) PROVE peerMistaken' = TRUE
  BY <1>2 DEF GoesOn, OfferEnds, WithdrawEnds, AnswerCmdEnds, WriteCmdEnds, EndCmdEnds, AbortEnds, ReadFrame,
     ReadFails, peerGhosts
<1>3. CASE ConnectTo \/ UNCHANGED peersVars
  BY <1>3 DEF ConnectTo, peersVars, peerGhosts
<1>4. ASSUME NEW c \in Cores, OnFrame(c) \/ TakeToServe(c) \/ Serve(c) \/ DropPeerLink(c) \/ SeesDown(c)
      PROVE  peerMistaken' = TRUE
  BY <1>4 DEF OnFrame, TakeToServe, Serve, DropPeerLink, SeesDown, LosesLink, peerGhosts
<1> QED
  BY <1>1, <1>2, <1>3, <1>4 DEF PeersNext

\* It shows that transfers are whole.
LEMMA InvIsWhole == PeersInv => TransfersAreWhole
<1> SUFFICES ASSUME PeersInv PROVE TransfersAreWhole
  OBVIOUS
<1>1. \A t \in closed : t[2] \in whole
  BY DEF PeersInv, RestRight
<1>2. ASSUME NEW c \in Cores
      PROVE  /\ core[c].xfer = "get" /\ ~core[c].failed =>
                  /\ Len(core[c].got) <= file[core[c].xid]
                  /\ \A n \in 1..Len(core[c].got) : core[c].got[n] = [of |-> core[c].xid, n |-> n]
             /\ core[c].xfer = "put" /\ ~core[c].failed /\ core[Other(c)].linked =>
                  \/ core[Other(c)].xfer = "get" /\ core[Other(c)].xid = core[c].xid
                  \/ core[Other(c)].xfer = "none"
  <2>1. /\ SideInv(core[c], peerCmd[c], peerSlot[c], Told(wire[c]), Way(c), Old(c),
                   core[Other(c)], Way(Other(c)), Old(Other(c)), file, whole, offersMade)
        /\ core[Other(c)] \in CoreSet
    BY TwoCores, InvShape, Before
  <2>2. /\ Commanded(core[c], peerCmd[c], peerSlot[c]) /\ Received(core[c], file, whole)
        /\ core[c].linked /\ core[Other(c)].linked =>
             /\ Sends(core[c], peerCmd[c], peerSlot[c], Told(wire[c]), core[Other(c)], Old(Other(c)), file)
             /\ ~(Sending(core[c]) /\ Sending(core[Other(c)]))
    BY <2>1 DEF SideInv
  <2>3. core[Other(c)].xfer \in {"none", "put", "get"}
    BY <2>1 DEF CoreSet
  <2> QED
    BY <2>2, <2>3 DEF Commanded, Received, Gets, Sends, Sending
<1> QED
  BY <1>1, <1>2 DEF TransfersAreWhole

\* As long as no command took an answer to a frame of an earlier link: CLOSE reports
\* SUCCESS only when the whole file moved, a receiver holds the beginning of the file
\* it accepted, and a sender's peer receives that file or has no transfer: close(),
\* read() and answerOffer(), for every number of offers, chunks and links.
THEOREM TransfersAreAlwaysWhole == PeersSpec => []TransfersAreWhole
<1> DEFINE Inv == peerMistaken = TRUE \/ PeersInv
<1>1. PeersInit => Inv
  BY PeersInitInv
<1>2. Inv /\ [PeersNext]_peersVars => Inv'
  BY PeersStep, MistakenStays
<1>3. Inv => TransfersAreWhole
  BY InvIsWhole DEF TransfersAreWhole
<1> QED
  BY <1>1, <1>2, <1>3, PTL DEF PeersSpec

=============================================================================
