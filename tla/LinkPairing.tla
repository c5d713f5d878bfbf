------------------------------ MODULE LinkPairing ------------------------------
(***************************************************************************)
(* HELLO, AUTH and pairing between a connector's LinkCore and an           *)
(* advertiser's (src/src/bus/ble_link_core.cpp: helloExchange, pairBegin,  *)
(* pairConfirm; serveHello, serveAuth, servePair, answerPairing).          *)
(*                                                                         *)
(* A key is what an exchange makes of both sides' parts: <<connector's,    *)
(* advertiser's>>; a proof is the key and the two nonces it was made with. *)
(* The server thread takes a frame and serves it in two steps, so a frame  *)
(* of a lost link may be served on the next one.  Both sides lose a link   *)
(* at once.                                                                *)
(***************************************************************************)
EXTENDS Naturals, Sequences, SequencesExt

CONSTANTS
  MaxLinks,     \* bound: links made
  MaxExchanges, \* bound: pairings begun
  MaxFrames     \* bound: the connector's requests on a link

ASSUME PairingAssumption ==
  MaxLinks \in Nat /\ MaxExchanges \in Nat /\ MaxFrames \in Nat

NoKey == <<0, 0>>
Down  == [on |-> FALSE, key |-> NoKey, nc |-> 0, ns |-> 0]

VARIABLES
  up,
  toS, toC,    \* frames on their way, and in toServe_ and incoming_
  taken,       \* the frame the server thread has taken
  helloOut,    \* the sequence number of its own HELLO it waits for, or 0
  kept,        \* side -> its key for the other (Security::pairs), NoKey for none
  session,     \* side -> its session
  nonces,      \* side -> nonceC, nonceS
  known,       \* peerKnown and linkLtk at the advertiser
  adv,         \* aStep, aAnswer, its part and the connector's
  con,         \* cActive, its key; the local ltk, what the command wants
  doing,       \* what the connector's command waits for
  answer,      \* the answer to it: [kind, seq, data]
  seqC, seqS,  \* txSeq_
  links, parts, \* counters: links, and random values drawn
  yes, stored  \* history: side -> keys its user confirmed; keys the advertiser kept

Sides == {"C", "S"}

wires == <<toS, toC, seqC, seqS>>
ghosts == <<links, parts, yes, stored>>
pairVars == <<up, wires, taken, helloOut, kept, session, nonces, known, adv, con, doing, answer, ghosts>>

PFrame(k, seq, data) == [kind |-> k, seq |-> seq, data |-> data]
NoFrame   == PFrame("NONE", 0, <<>>)
Answers == {"ACK", "ERR", "BUSY"}
FirstOf(q, kinds) ==
  {i \in DOMAIN q : q[i].kind \in kinds /\ \A j \in 1..(i - 1) : q[j].kind \notin kinds}
NoSlot == [kind |-> "none", seq |-> 0, data |-> <<>>]
NoAdv  == [step |-> 0, said |-> "none", key |-> NoKey]
NoCon  == [active |-> FALSE, key |-> NoKey, ltk |-> NoKey, wants |-> "none"]

PairInit ==
  /\ up = FALSE /\ toS = <<>> /\ toC = <<>> /\ seqC = 0 /\ seqS = 0
  /\ taken = NoFrame /\ helloOut = 0
  /\ kept = [s \in Sides |-> NoKey] /\ session = [s \in Sides |-> Down]
  /\ nonces = [s \in Sides |-> <<0, 0>>] /\ known = NoKey
  /\ adv = NoAdv /\ con = NoCon /\ doing = "idle" /\ answer = NoSlot
  /\ links = 0 /\ parts = 0
  /\ yes = [s \in Sides |-> {}] /\ stored = {}

-----------------------------------------------------------------------------
(* The connector.                                                          *)

Fresh == parts + 1
Drawn == parts' = parts + 1
Bounded == parts < MaxLinks + 3 * MaxExchanges

\* A request on the link there is: its frame goes out and the command waits.
AskFor(op, kind, data) ==
  /\ seqC < MaxFrames
  /\ doing' = op /\ answer' = NoSlot
  /\ toS' = Append(toS, PFrame(kind, seqC + 1, data)) /\ seqC' = seqC + 1

Answered == answer.kind # "none" /\ answer.seq = seqC

\* dropLink and onLink(false), for both sides: sessions, pairings under way
\* and queues go; a frame the server thread has taken stays with it.
Reset ==
  /\ session' = [s \in Sides |-> Down] /\ known' = NoKey /\ adv' = NoAdv
Drop ==
  /\ up' = FALSE /\ toS' = <<>> /\ toC' = <<>> /\ seqC' = 0 /\ seqS' = 0
  /\ Reset /\ con' = NoCon /\ doing' = "idle" /\ answer' = NoSlot
  /\ helloOut' = 0
  /\ UNCHANGED <<taken, kept, nonces>>

PairLinkLost == up /\ Drop /\ UNCHANGED ghosts

\* connectTo: the link, and helloExchange's HELLO with a fresh nonceC.
Connect(wants) ==
  /\ ~up /\ doing = "idle" /\ links < MaxLinks /\ Bounded
  /\ wants = "pair" => parts + 2 < MaxLinks + 3 * MaxExchanges
  /\ up' = TRUE /\ links' = links + 1 /\ Drawn
  /\ Reset /\ con' = [NoCon EXCEPT !.wants = wants]
  /\ nonces' = [nonces EXCEPT !["C"] = <<Fresh, 0>>]
  /\ AskFor("hello", "HELLO", <<Fresh>>)
  /\ UNCHANGED <<toC, seqS, taken, helloOut, kept, yes, stored>>

\* HELLO answered, and the advertiser's HELLO received and answered.
Proven(d) == SubSeq(d, 2, 4) = <<kept["C"], nonces["C"][1], d[1]>>

HelloDone ==
  /\ doing = "hello" /\ Answered
  /\ answer.kind = "ACK"
  /\ \E i \in FirstOf(toC, {"HELLO"}) :
     LET f == toC[i]  d == f.data IN
     IF con.wants = "auth" /\ ~(d[2] # NoKey /\ kept["C"] # NoKey /\ Proven(d))
     THEN Drop /\ UNCHANGED ghosts
     ELSE /\ seqC < MaxFrames /\ Bounded
          /\ nonces' = [nonces EXCEPT !["C"] = <<@[1], d[1]>>]
          /\ toC' = RemoveAt(toC, i)
          /\ answer' = NoSlot /\ seqC' = seqC + 1
          /\ IF con.wants = "auth"
             THEN /\ toS' = toS \o <<PFrame("ACK", f.seq, <<>>),
                                    PFrame("AUTH", seqC + 1, <<kept["C"], nonces["C"][1], d[1]>>)>>
                  /\ con' = [con EXCEPT !.ltk = kept["C"]]
                  /\ doing' = "auth" /\ UNCHANGED parts
             ELSE /\ toS' = toS \o <<PFrame("ACK", f.seq, <<>>), PFrame("START", seqC + 1, <<Fresh>>)>>
                  /\ con' = [con EXCEPT !.key = <<Fresh, 0>>]
                  /\ doing' = "start" /\ Drawn
          /\ UNCHANGED <<up, seqS, taken, helloOut, kept, session, known, adv, links, yes, stored>>

\* The key the proofs were made with: the user may have forgotten it since.
\* Slip: the key kept for the peer now.
SessionKeyNow == kept["C"]
SessionKey == con.ltk

AuthDone ==
  /\ doing = "auth" /\ Answered
  /\ IF answer.kind # "ACK" THEN Drop
     ELSE /\ session' = [session EXCEPT !["C"] = [on |-> TRUE, key |-> SessionKey,
                           nc |-> nonces["C"][1], ns |-> nonces["C"][2]]]
          /\ con' = NoCon /\ doing' = "idle" /\ answer' = NoSlot
          /\ UNCHANGED <<up, wires, taken, helloOut, kept, nonces, known, adv>>
  /\ UNCHANGED ghosts

StartDone ==
  /\ doing = "start" /\ Answered
  /\ IF answer.kind # "ACK" \/ Len(answer.data) # 1 THEN Drop
     ELSE /\ con' = [con EXCEPT !.key = <<@[1], answer.data[1]>>]
          /\ AskFor("nonce", "NONCE", <<con.key[1]>>)
          /\ UNCHANGED <<up, toC, seqS, taken, helloOut, kept, session, nonces, known, adv>>
  /\ UNCHANGED ghosts

NonceDone ==
  /\ doing = "nonce" /\ Answered
  /\ IF answer.kind # "ACK" THEN Drop
     ELSE /\ con' = [con EXCEPT !.active = TRUE]
          /\ doing' = "idle" /\ answer' = NoSlot
          /\ UNCHANGED <<up, wires, taken, helloOut, kept, session, nonces, known, adv>>
  /\ UNCHANGED ghosts

\* The connector's user compares the codes and answers; BLPAIR's wait asks
\* again while the other user has not.
PairConfirm(ok) ==
  /\ doing = "idle" /\ con.active /\ up
  /\ con.wants = "no" => ~ok
  /\ con' = [con EXCEPT !.wants = IF ok THEN "yes" ELSE "no"]
  /\ yes' = IF ok THEN [yes EXCEPT !["C"] = @ \union {con.key}] ELSE yes
  /\ AskFor("confirm", "CONFIRM", <<IF ok THEN 1 ELSE 0, con.key>>)
  /\ UNCHANGED <<up, toC, seqS, taken, helloOut, kept, session, nonces, known, adv, links, parts, stored>>

\* Paired: the key is kept and used at once (helloExchange again).
ConfirmDone ==
  /\ doing = "confirm" /\ Answered
  /\ IF answer.kind = "BUSY"
     THEN /\ doing' = "idle" /\ answer' = NoSlot
          /\ UNCHANGED <<up, wires, taken, helloOut, kept, session, nonces, known, adv, con, ghosts>>
     ELSE IF answer.kind = "ACK" /\ con.wants = "yes" /\ answer.data = <<1, con.key>>
     THEN /\ Bounded /\ Drawn
          /\ kept' = [kept EXCEPT !["C"] = con.key]
          /\ session' = [session EXCEPT !["C"] = Down]
          /\ con' = [NoCon EXCEPT !.wants = "auth"]
          /\ nonces' = [nonces EXCEPT !["C"] = <<Fresh, 0>>]
          /\ AskFor("hello", "HELLO", <<Fresh>>)
          /\ UNCHANGED <<up, toC, seqS, taken, helloOut, known, adv, links, yes, stored>>
     ELSE Drop /\ UNCHANGED ghosts

\* onFrame: an answer goes to the command, past the frames that are queued.
ConnectorFrame ==
  /\ \E i \in FirstOf(toC, Answers) : answer' = toC[i] /\ toC' = RemoveAt(toC, i)
  /\ UNCHANGED <<up, toS, seqC, seqS, taken, helloOut, kept, session, nonces, known, adv, con, doing, ghosts>>

-----------------------------------------------------------------------------
(* The advertiser.                                                         *)

\* Its own HELLO's answer: serveHello's request returns.
HelloAnswered ==
  /\ \E i \in FirstOf(toS, Answers) :
       /\ toS' = RemoveAt(toS, i)
       /\ helloOut' = IF toS[i].seq = helloOut THEN 0 ELSE helloOut
  /\ UNCHANGED <<up, toC, seqC, seqS, taken, kept, session, nonces, known, adv, con, doing, answer, ghosts>>

TakeFrame ==
  /\ taken = NoFrame /\ helloOut = 0 /\ toS # <<>> /\ Head(toS).kind \notin Answers
  /\ taken' = Head(toS) /\ toS' = Tail(toS)
  /\ UNCHANGED <<up, toC, seqC, seqS, helloOut, kept, session, nonces, known, adv, con, doing, answer, ghosts>>

Serving(kind) == taken.kind = kind /\ taken' = NoFrame

Reply(kind, data) == toC' = IF up THEN Append(toC, PFrame(kind, taken.seq, data)) ELSE toC

\* resetLink; ours back, with our proof if there is a pairing.
ServeHello ==
  /\ Serving("HELLO") /\ Bounded
  /\ Drawn
  /\ session' = [session EXCEPT !["S"] = Down] /\ adv' = NoAdv
  /\ known' = kept["S"]
  /\ nonces' = [nonces EXCEPT !["S"] = <<taken.data[1], Fresh>>]
  /\ IF up
     THEN /\ toC' = toC \o <<PFrame("ACK", taken.seq, <<>>),
                            PFrame("HELLO", seqS + 1, <<Fresh, kept["S"], taken.data[1], Fresh>>)>>
          /\ seqS' = seqS + 1 /\ helloOut' = seqS + 1
     ELSE UNCHANGED <<toC, seqS, helloOut>>
  /\ UNCHANGED <<up, toS, seqC, kept, con, doing, answer, links, yes, stored>>

Accepts == taken.data = <<known, nonces["S"][1], nonces["S"][2]>> /\ known # NoKey /\ ~session["S"].on

ServeAuth ==
  /\ Serving("AUTH")
  /\ IF Accepts
     THEN /\ session' = [session EXCEPT !["S"] = [on |-> TRUE, key |-> known,
                           nc |-> nonces["S"][1], ns |-> nonces["S"][2]]]
          /\ known' = NoKey /\ Reply("ACK", <<>>)
     ELSE UNCHANGED <<session, known>> /\ Reply("ERR", <<>>)
  /\ UNCHANGED <<up, toS, seqC, seqS, helloOut, kept, nonces, adv, con, doing, answer, ghosts>>

\* servePair; anything out of turn resets the pairing.
ServeStart ==
  /\ Serving("START")
  /\ IF session["S"].on THEN UNCHANGED <<adv, parts>> /\ Reply("ERR", <<>>)
     ELSE /\ Bounded /\ Drawn
          /\ adv' = [step |-> 1, said |-> "none", key |-> <<taken.data[1], Fresh>>]
          /\ Reply("ACK", <<Fresh>>)
  /\ UNCHANGED <<up, toS, seqC, seqS, helloOut, kept, session, nonces, known, con, doing, answer, links, yes, stored>>

ServeNonce ==
  /\ Serving("NONCE")
  /\ IF session["S"].on THEN UNCHANGED adv /\ Reply("ERR", <<>>)
     ELSE IF adv.step = 1
     THEN adv' = [adv EXCEPT !.step = 2, !.said = "none"] /\ Reply("ACK", <<>>)
     ELSE adv' = NoAdv /\ Reply("ERR", <<>>)
  /\ UNCHANGED <<up, toS, seqC, seqS, helloOut, kept, session, nonces, known, con, doing, answer, ghosts>>

\* Slip: the connector's own answer is not looked at.
RefusedHere == adv.said = "no"
Refused == adv.said = "no" \/ taken.data[1] # 1

ServeConfirm ==
  /\ Serving("CONFIRM")
  /\ IF session["S"].on \/ adv.step # 2
     THEN /\ adv' = IF session["S"].on THEN adv ELSE NoAdv
          /\ Reply("ERR", <<>>) /\ UNCHANGED <<kept, stored>>
     ELSE IF adv.said = "none" THEN Reply("BUSY", <<>>) /\ UNCHANGED <<adv, kept, stored>>
     ELSE /\ adv' = NoAdv
          /\ IF Refused THEN Reply("ACK", <<0>>) /\ UNCHANGED <<kept, stored>>
             ELSE IF taken.data[2] # adv.key THEN Reply("ERR", <<>>) /\ UNCHANGED <<kept, stored>>
             ELSE /\ kept' = [kept EXCEPT !["S"] = adv.key]
                  /\ stored' = stored \union {adv.key}
                  /\ Reply("ACK", <<1, adv.key>>)
  /\ UNCHANGED <<up, toS, seqC, seqS, helloOut, session, nonces, known, con, doing, answer, links, parts, yes>>

\* The advertiser's user answers the code shown (the UI, or BLADV's status).
AnswerPairing(accept) ==
  /\ adv.step = 2 /\ adv.said = "none"
  /\ adv' = [adv EXCEPT !.said = IF accept THEN "yes" ELSE "no"]
  /\ yes' = IF accept THEN [yes EXCEPT !["S"] = @ \union {adv.key}] ELSE yes
  /\ UNCHANGED <<up, wires, taken, helloOut, kept, session, nonces, known, con, doing, answer, links, parts, stored>>

\* forgetPairing, BLUNPAIR: at any time, a link in use or not.
Forget(s) ==
  /\ kept[s] # NoKey /\ kept' = [kept EXCEPT ![s] = NoKey]
  /\ UNCHANGED <<up, wires, taken, helloOut, session, nonces, known, adv, con, doing, answer, ghosts>>

ConnectorNext ==
  \/ Connect("auth") \/ Connect("pair") \/ HelloDone \/ AuthDone
  \/ StartDone \/ NonceDone \/ ConfirmDone \/ ConnectorFrame
  \/ \E ok \in BOOLEAN : PairConfirm(ok)

AdvertiserNext ==
  \/ HelloAnswered \/ TakeFrame \/ ServeHello \/ ServeAuth
  \/ ServeStart \/ ServeNonce \/ ServeConfirm
  \/ \E ok \in BOOLEAN : AnswerPairing(ok)

PairNext == ConnectorNext \/ AdvertiserNext \/ PairLinkLost \/ \E s \in Sides : Forget(s)

PairSpec == PairInit /\ [][PairNext]_pairVars

-----------------------------------------------------------------------------
\* A connector that takes the link for authenticated is on the very session
\* the advertiser is on, key and both nonces: what one seals the other opens.
SameSession == session["C"].on => session["S"] = session["C"]

\* A key is kept only if both users confirmed that very exchange, and the
\* connector keeps none the advertiser has not kept first, whatever was
\* refused, repeated, forgotten or cut off.
PairedByBoth ==
  /\ \A s \in Sides : kept[s] # NoKey => kept[s] \in yes["C"] \intersect yes["S"]
  /\ kept["C"] # NoKey => kept["C"] \in stored
=============================================================================
