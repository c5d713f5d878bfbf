-------------------------- MODULE LinkServerProof --------------------------
(***************************************************************************)
(* The file and message server, for any number of names, saves, chunks,    *)
(* messages and links: what is on disk is one save's, an ACK says what was *)
(* done, and a BLLOAD that succeeds has the whole file.                    *)
(***************************************************************************)
EXTENDS LinkServer, SequenceTheorems, TLAPS

-----------------------------------------------------------------------------
(* What a save sends.                                                      *)

(* The first n frames of the data of save s.                               *)
Wrote(s, n) == [i \in 1..n |-> <<s, i>>]

Files  == {Wrote(s, n) : s \in Nat, n \in Nat}
Wholes == {Wrote(s, n) : s \in 1..MaxSaves, n \in Nat}

\* The data of a save is a sequence, which its next frame makes one longer.
LEMMA WroteFacts ==
  ASSUME NEW s, NEW n \in Nat
  PROVE  /\ Len(Wrote(s, n)) = n /\ \A i \in 1..n : Wrote(s, n)[i] = <<s, i>>
         /\ Wrote(s, 0) = <<>>
         /\ Append(Wrote(s, n), <<s, n + 1>>) = Wrote(s, n + 1)
         /\ Wrote(s, n) \o <<<<s, n + 1>>>> = Wrote(s, n + 1)
         /\ \A m \in 0..n : SubSeq(Wrote(s, n), 1, m) = Wrote(s, m)
<1> DEFINE T == {<<s, i>> : i \in Nat}
<1>1. \A m \in Nat : Wrote(s, m) \in Seq(T) /\ Len(Wrote(s, m)) = m
  BY DEF Wrote
<1>2. \A m \in Nat : \A i \in 1..m : Wrote(s, m)[i] = <<s, i>>
  BY DEF Wrote
<1>3. <<s, n + 1>> \in T /\ <<<<s, n + 1>>>> \in Seq(T) /\ Len(<<<<s, n + 1>>>>) = 1
  OBVIOUS
<1> HIDE DEF T
<1>4. Wrote(s, 0) = <<>>
  BY <1>1, EmptySeq
<1>5. Append(Wrote(s, n), <<s, n + 1>>) = Wrote(s, n + 1)
  <2> DEFINE w == Wrote(s, n)
             e == <<s, n + 1>>
             q == Append(w, e)
             r == Wrote(s, n + 1)
  <2>0. n + 1 \in Nat /\ n + 1 \in 1..n + 1 /\ \A i \in 1..n : i \in 1..n + 1
    OBVIOUS
  <2>1. w \in Seq(T) /\ e \in T /\ Len(w) = n /\ r \in Seq(T) /\ Len(r) = n + 1 /\ r[n + 1] = e
        /\ \A i \in 1..n : r[i] = w[i]
    BY <1>1, <1>2, <1>3, <2>0
  <2> HIDE DEF w, e, r
  <2>2. q \in Seq(T) /\ Len(q) = n + 1 /\ q[n + 1] = e /\ \A i \in 1..n : q[i] = w[i]
    BY <2>1, AppendProperties
  <2> HIDE DEF q
  <2>3. \A i \in 1..Len(q) : q[i] = r[i]
    BY <2>1, <2>2
  <2> QED
    BY <2>1, <2>2, <2>3, SeqEqual DEF q, w, e, r
<1>6. Wrote(s, n) \o <<<<s, n + 1>>>> = Wrote(s, n + 1)
  <2>1. Wrote(s, n) \in Seq(T)
    BY <1>1
  <2> QED
    BY <2>1, <1>3, <1>5, AppendIsConcat
<1>7. \A m \in 0..n : SubSeq(Wrote(s, n), 1, m) = Wrote(s, m)
  <2> TAKE m \in 0..n
  <2> DEFINE w == Wrote(s, n)
             q == SubSeq(w, 1, m)
             r == Wrote(s, m)
  <2>0. m \in Nat /\ \A i \in 1..m : i \in 1..n
    OBVIOUS
  <2>1. w \in Seq(T) /\ Len(w) = n /\ r \in Seq(T) /\ Len(r) = m /\ \A i \in 1..m : r[i] = w[i]
    BY <1>1, <1>2, <2>0
  <2> HIDE DEF w, r
  <2>2. q \in Seq(T) /\ Len(q) = m /\ \A i \in 1..m : q[i] = w[i]
    BY <2>1, SubSeqProperties
  <2> HIDE DEF q
  <2> QED
    BY <2>1, <2>2, SeqEqual DEF q, w, r
<1> QED
  BY <1>1, <1>2, <1>4, <1>5, <1>6, <1>7

LEMMA EmptyIsAFile == <<>> \in Files
<1>1. Wrote(0, 0) = <<>>
  BY WroteFacts
<1> QED
  BY <1>1 DEF Files

-----------------------------------------------------------------------------
(* Frames and queues.                                                      *)

(* A queue of at most two frames, None for a frame that is not there.      *)
Line(a, b) ==
  IF a = None THEN (IF b = None THEN <<>> ELSE <<b>>)
              ELSE (IF b = None THEN <<a>> ELSE <<a, b>>)

Puts     == {"PUT", "PUT OVER"}
Commands == Puts \cup {"DATA", "END", "ABORT", "GET", "MSG"}
Answers  == {Ack, Err}
Names0   == Names \cup {NoFile}

\* Frames of different kinds differ.
LEMMA FrameKinds ==
  /\ Ack.kind = "ACK" /\ Err.kind = "ERR" /\ None.kind = "NONE"
  /\ \A k, n, z, ps : LET f == Frame(k, n, z, ps) IN f.kind = k /\ f.name = n /\ f.size = z /\ f.pieces = ps
  /\ \A k : Plain(k).kind = k
  /\ Ack # Err /\ Ack # None /\ Err # None /\ Ack \in Answers /\ Err \in Answers
BY DEF Ack, Err, None, Plain, Frame, Answers

\* A line is taken from in front and added to behind.
LEMMA LineFacts ==
  ASSUME NEW a, NEW b
  PROVE  /\ Line(a, b) = <<>> <=> a = None /\ b = None
         /\ Line(None, b) = Line(b, None)
         /\ a # None => Head(Line(a, b)) = a /\ Tail(Line(a, b)) = Line(b, None)
         /\ b # None => Append(Line(a, None), b) = Line(a, b)
<1>1. Len(<<>>) = 0 /\ Len(<<a>>) = 1 /\ Len(<<b>>) = 1 /\ Len(<<a, b>>) = 2
  OBVIOUS
<1>2. Head(<<a>>) = a /\ Head(<<a, b>>) = a
  OBVIOUS
<1>3. Tail(<<a>>) = <<>>
  OBVIOUS
<1>4. Tail(<<a, b>>) = <<b>>
  OBVIOUS
<1>5. Append(<<a>>, b) = <<a, b>>
  <2> DEFINE q == Append(<<a>>, b)
  <2>1. <<a>> \in Seq({a, b}) /\ <<a, b>> \in Seq({a, b})
    OBVIOUS
  <2>2. q \in Seq({a, b}) /\ Len(q) = 2 /\ q[1] = a /\ q[2] = b
    BY <1>1, <2>1, AppendProperties
  <2> HIDE DEF q
  <2>3. \A i \in 1..2 : q[i] = <<a, b>>[i]
    BY <2>2
  <2> QED
    BY <1>1, <2>1, <2>2, <2>3, SeqEqual DEF q
<1>6. Append(<<>>, b) = <<b>>
  OBVIOUS
<1>7. <<a>> # <<>> /\ <<b>> # <<>> /\ <<a, b>> # <<>>
  BY <1>1
<1> QED
  BY <1>2, <1>3, <1>4, <1>5, <1>6, <1>7, Zenon DEF Line

LEMMA EmptyLine == Line(None, None) = <<>>
BY DEF Line

-----------------------------------------------------------------------------
(* The inductive invariant.                                                *)

IsSeq(q) == q \in Seq(Range(q))

Transfers == [dir : {"none", "put", "get"}, failed : BOOLEAN, ended : BOOLEAN, name : Names0, data : Files, whole : Files]
Saves     == [active : BOOLEAN, name : Names0, size : Nat, data : Files]
Loads     == [at : {"none", "waits", "next"}, data : Files, sent : Nat]

ServerTypeOK ==
  /\ linked \in BOOLEAN /\ cmd \in Commands \cup {"idle"} /\ slot \in {"none", "GONE", "ACK", "ERR"}
  /\ xfer \in Transfers /\ put \in Saves /\ get \in Loads /\ saves \in 0..MaxSaves /\ msgs \in Nat
  /\ DOMAIN store = Names /\ IsSeq(inbox)

\* Who waits for what: the command and the transfer go together.
CommandFits ==
  /\ cmd = "idle" => slot = "none"
  /\ cmd \in Puts \cup {"GET"} => xfer.data = <<>> /\ ~xfer.ended
  /\ cmd \in Puts \cup {"GET", "MSG", "ABORT"} => xfer.dir = "none"
  /\ cmd \in {"DATA", "END"} => xfer.dir = "put"
  /\ cmd \in Puts \cup {"GET"} \/ xfer.dir # "none" => xfer.name \in Names
  /\ xfer.dir = "put" \/ cmd \in Puts =>
        saves > 0 /\ \E n \in Nat : xfer.data = Wrote(saves, n) /\ (cmd = "DATA" => n > 0)
  /\ xfer.dir = "get" /\ ~xfer.failed /\ xfer.ended => xfer.data = xfer.whole

StoreIsWhole ==
  /\ \A n \in Names : store[n] = NoFile \/ store[n] \in Wholes
  /\ put.active => put.name \in Names /\ put.data \in Wholes
  /\ serving.kind \in Puts \cup {"GET"} => serving.name \in Names
  /\ serving.kind \in Puts => saves > 0 /\ serving.size \in Nat
  /\ serving.kind = "MSG" => \E m \in Nat : serving.pieces = <<<<m, 0>>>>

\* Without a link nothing is on its way, and nothing that waited goes on.
Unlinked ==
  /\ toServer = <<>> /\ toClient = <<>> /\ toServe = <<>> /\ incoming = <<>>
  /\ cmd # "idle" => slot = "GONE"
  /\ xfer.dir # "none" => xfer.failed
  /\ put.active => serving = None
  /\ get.at = "none"

Asked == cmd # "idle" /\ slot = "none"

IsRequest(f) ==
  /\ cmd # "idle" /\ f.kind = cmd
  /\ cmd \in Puts \cup {"GET"} => f.name = xfer.name
  /\ cmd \in Puts => f.size \in Nat
  /\ cmd = "DATA" => f.pieces = <<<<saves, Len(xfer.data)>>>>
  /\ cmd = "MSG" => f.pieces = <<<<msgs, 0>>>>

\* An open save, which has n frames of the client's.
Open(n) == put.active /\ put.name = xfer.name /\ put.data = Wrote(saves, n)

\* What a success says of what the server did.
Done ==
  /\ cmd \in Puts => Open(0)
  /\ cmd = "DATA" => Open(Len(xfer.data))
  /\ cmd = "END" => store[xfer.name] = xfer.data
  /\ cmd = "MSG" => inbox = <<>> \/ inbox[Len(inbox)] = <<msgs, 0>>
  /\ cmd = "GET" => get.at = "waits" /\ get.sent = 1

\* A request is in one place, until its answer is.
RequestInOnePlace(request, queued, answer) ==
  /\ ~Asked => request = None /\ queued = None /\ serving = None /\ answer = None
  /\ Asked => \/ IsRequest(request) /\ queued = None /\ serving = None /\ answer = None
              \/ request = None /\ IsRequest(queued) /\ serving = None /\ answer = None
              \/ request = None /\ queued = None /\ IsRequest(serving) /\ get.at = "none" /\ answer = None
              \/ request = None /\ queued = None /\ serving = None /\ answer \in Answers
  /\ slot = "ACK" \/ answer = Ack => Done
  /\ slot # "GONE"
  /\ serving # None => get.at = "none"

\* The frame the server has sent last of a file.
Sent == IF get.sent = 1 THEN Frame("HEADER", NoFile, 0, get.data)
        ELSE IF get.sent <= Len(get.data) + 1 THEN Frame("DATA", NoFile, 0, <<get.data[get.sent - 1]>>)
        ELSE Plain("END")

FrameInOnePlace(reply, frame, arrived) ==
  /\ get.at # "waits" => reply = None /\ frame = None /\ arrived = None
  /\ get.at = "waits" => \/ reply = None /\ frame = Sent /\ arrived = None
                         \/ reply = None /\ frame = None /\ arrived = Sent
                         \/ reply \in Answers /\ frame = None /\ arrived = None
  /\ get.at # "none" => get.sent > 0 /\ get.sent <= Len(get.data) + 2

\* A save: the server has what the client wrote, or all but the frame it has yet to serve.
SaveFollows(answer) ==
  /\ cmd \in {"DATA", "END"} => ~xfer.failed
  /\ xfer.dir = "put" /\ ~xfer.failed /\ cmd = "idle" => Open(Len(xfer.data))
  /\ cmd = "DATA" /\ Asked /\ answer = None => Open(Len(xfer.data) - 1)
  /\ cmd = "END" /\ Asked /\ answer = None => Open(Len(xfer.data))

\* A load: the client has what the server sent, or all but the frame on its way.
LoadFollows(reply, frame, arrived) ==
  /\ cmd = "GET" /\ slot = "ACK" => reply = None
  /\ xfer.dir = "get" /\ ~xfer.failed /\ ~xfer.ended =>
       /\ get.at # "none" /\ xfer.whole = get.data /\ reply # Err
       /\ frame # None \/ arrived # None =>
            get.sent > 1 /\ xfer.data = SubSeq(get.data, 1, get.sent - 2)
       /\ frame = None /\ arrived = None =>
            get.sent <= Len(get.data) + 1 /\ xfer.data = SubSeq(get.data, 1, get.sent - 1)

InStep(reply, request, queued, answer, frame, arrived) ==
  /\ toServer = Line(reply, request) /\ toServe = Line(queued, None)
  /\ toClient = Line(answer, frame) /\ incoming = Line(arrived, None)
  /\ reply \in Answers \cup {None} /\ answer \in Answers \cup {None}
  /\ answer = Ack /\ cmd = "GET" => reply = None
  /\ RequestInOnePlace(request, queued, answer)
  /\ FrameInOnePlace(reply, frame, arrived)
  /\ SaveFollows(answer)
  /\ LoadFollows(reply, frame, arrived)

Lockstep ==
  \E reply, request, queued, answer, frame, arrived :
    InStep(reply, request, queued, answer, frame, arrived)

ServerInv ==
  /\ ServerTypeOK /\ CommandFits /\ StoreIsWhole
  /\ ~linked => Unlinked
  /\ linked => Lockstep

\* The inbox is a queue.
LEMMA InboxGrows ==
  ASSUME NEW q, IsSeq(q), NEW e
  PROVE  IsSeq(q \o <<e>>) /\ q \o <<e>> # <<>> /\ (q \o <<e>>)[Len(q \o <<e>>)] = e
<1> DEFINE S == Range(q) \cup {e}
           r == q \o <<e>>
<1>1. q \in Seq(S) /\ <<e>> \in Seq(S) /\ Len(<<e>>) = 1 /\ Len(q) \in Nat
  BY DEF IsSeq
<1>2. r = Append(q, e) /\ r \in Seq(S) /\ Len(r) = Len(q) + 1 /\ r[Len(q) + 1] = e
  BY <1>1, AppendIsConcat, AppendProperties
<1> HIDE DEF r
<1>3. r \in Seq(Range(r)) /\ r # <<>> /\ r[Len(r)] = e
  <2>1. r \in Seq(Range(r))
    BY <1>2, SeqOfRange
  <2>2. Len(r) # 0 /\ r[Len(r)] = e
    BY <1>1, <1>2
  <2>3. Len(<<>>) = 0
    OBVIOUS
  <2> QED
    BY <2>1, <2>2, <2>3
<1> QED
  BY <1>3 DEF IsSeq, r

LEMMA InboxShrinks ==
  ASSUME NEW q, IsSeq(q), q # <<>>
  PROVE  IsSeq(Tail(q)) /\ (Tail(q) # <<>> => Tail(q)[Len(Tail(q))] = q[Len(q)])
<1> DEFINE S == Range(q)
           r == Tail(q)
<1>1. q \in Seq(S) /\ Len(q) \in Nat
  BY DEF IsSeq
<1>2. r \in Seq(S) /\ Len(r) = Len(q) - 1 /\ \A i \in 1..Len(r) : r[i] = q[i + 1]
  BY <1>1, HeadTailProperties
<1> HIDE DEF r
<1>3. r \in Seq(Range(r))
  BY <1>2, SeqOfRange
<1>4. r # <<>> => r[Len(r)] = q[Len(q)]
  <2> SUFFICES ASSUME r # <<>> PROVE r[Len(r)] = q[Len(q)]
    OBVIOUS
  <2>1. Len(r) \in 1..Len(r)
    BY <1>2, EmptySeq
  <2> QED
    BY <1>1, <1>2, <2>1
<1> QED
  BY <1>3, <1>4 DEF IsSeq, r


\* The start.
LEMMA ServerInvInit == ServerInit => ServerInv
<1> SUFFICES ASSUME ServerInit PROVE ServerInv
  OBVIOUS
<1> USE DEF ServerInit, NoPut, NoGet, NoXfer
<1>1. <<>> \in Files
  BY EmptyIsAFile
<1>2. ServerTypeOK
  <2>1. xfer \in Transfers /\ put \in Saves /\ get \in Loads
    BY <1>1 DEF Transfers, Saves, Loads, Names0
  <2>2. IsSeq(inbox)
    BY DEF IsSeq, Range
  <2>3. DOMAIN store = Names /\ saves \in 0..MaxSaves
    BY ServerAssumption
  <2> QED
    BY <2>1, <2>2, <2>3 DEF ServerTypeOK
<1>3. serving.kind = "NONE"
  BY FrameKinds
<1> QED
  BY <1>2, <1>3 DEF ServerInv, CommandFits, StoreIsWhole, Unlinked, Puts

\* FilePutEnds: the save is open once it is answered.
LEMMA ServerInvFilePutEnds ==
  ASSUME ServerInv, FilePutEnds
  PROVE  ServerInv'
<1>1. <<>> \in Files
  BY EmptyIsAFile
<1>2. /\ cmd \in Puts /\ cmd # "idle" /\ slot # "none" /\ cmd' = "idle" /\ slot' = "none"
      /\ UNCHANGED <<linked, toServer, toClient, server, incoming, saves, msgs>>
      /\ xfer' = IF slot = "ACK" THEN [xfer EXCEPT !.dir = "put"] ELSE NoXfer
  BY DEF FilePutEnds, Puts, Finished
<1>3. ServerTypeOK'
  <2>1. xfer' \in Transfers
    BY <1>1, <1>2 DEF ServerInv, ServerTypeOK, Transfers, NoXfer, Names0
  <2> QED
    BY <1>2, <2>1 DEF ServerInv, ServerTypeOK, server
<1>4. CommandFits'
  BY <1>2 DEF ServerInv, ServerTypeOK, CommandFits, Transfers, NoXfer, Puts
<1>5. StoreIsWhole'
  BY <1>2 DEF ServerInv, StoreIsWhole, server
<1>6. ASSUME ~linked' PROVE Unlinked'
  BY <1>2, <1>6 DEF ServerInv, ServerTypeOK, Unlinked, Transfers, NoXfer, server, Puts
<1>7. ASSUME linked' PROVE Lockstep'
  <2>1. PICK reply, request, queued, answer, frame, arrived :
          InStep(reply, request, queued, answer, frame, arrived)
    BY <1>2, <1>7 DEF ServerInv, Lockstep
  <2> USE DEF InStep, server
  <2>7. ~Asked /\ ~Asked'
    BY <1>2 DEF Asked
  <2>2. RequestInOnePlace(request, queued, answer)'
    BY <2>7, <1>2, <2>1, FrameKinds DEF RequestInOnePlace
  <2>3. FrameInOnePlace(reply, frame, arrived)'
    BY <1>2, <2>1 DEF FrameInOnePlace, Sent
  <2>4. SaveFollows(answer)'
    <3>1. Len(<<>>) = 0
      OBVIOUS
    <3> QED
      BY <1>2, <2>1, <3>1 DEF SaveFollows, RequestInOnePlace, Done, Open, ServerInv, CommandFits, ServerTypeOK, Transfers, NoXfer
  <2>5. LoadFollows(reply, frame, arrived)'
    BY <1>2, <2>1 DEF LoadFollows, ServerInv, ServerTypeOK, Transfers, NoXfer
  <2> QED
    BY <1>2, <2>1, <2>2, <2>3, <2>4, <2>5 DEF Lockstep
<1> QED
  BY <1>3, <1>4, <1>5, <1>6, <1>7 DEF ServerInv

\* FilePut: the request goes out.
LEMMA ServerInvFilePut ==
  ASSUME ServerInv, NEW name \in Names, NEW size \in Nat, NEW over \in BOOLEAN, FilePut(name, size, over)
  PROVE  ServerInv'
<1> USE DEF server, client
<1>1. /\ cmd = "idle" /\ linked /\ linked' /\ xfer.dir = "none"
      /\ xfer' = [NoXfer EXCEPT !.name = name] /\ cmd' \in {"PUT", "PUT OVER"} /\ slot' = "none"
      /\ cmd' # "idle" /\ cmd' \notin {"DATA", "END", "ABORT", "GET", "MSG"}
      /\ toServer' = Append(toServer, Frame(cmd', name, size, <<>>))
      /\ UNCHANGED <<linked, toClient, server, incoming, msgs>>
  BY FrameKinds DEF FilePut, Ready, Ask, Puts
<1>7. saves' \in 0..MaxSaves /\ saves' > 0
  <2>1. saves < MaxSaves /\ saves' = saves + 1
    BY DEF FilePut
  <2>2. saves \in Nat /\ MaxSaves \in Nat
    BY ServerAssumption DEF ServerInv, ServerTypeOK
  <2> QED
    BY <2>1, <2>2
<1>2. ServerTypeOK'
  <2>1. xfer' \in Transfers
    BY <1>1, EmptyIsAFile DEF Transfers, NoXfer, Names0
  <2> QED
    BY <1>1, <1>7, <2>1 DEF ServerInv, ServerTypeOK, Commands, Puts
<1>3. CommandFits'
  BY <1>1, <1>7, WroteFacts DEF ServerInv, ServerTypeOK, CommandFits, Transfers, Puts, NoXfer
<1>4. StoreIsWhole'
  BY <1>1, <1>7 DEF ServerInv, ServerTypeOK, StoreIsWhole, Puts
<1>5. linked'
  BY <1>1 DEF ServerInv, Unlinked
<1>6. ASSUME linked' PROVE Lockstep'
  <2>1. PICK reply, request, queued, answer, frame, arrived :
          InStep(reply, request, queued, answer, frame, arrived)
    BY <1>1, <1>6 DEF ServerInv, Lockstep
  <2>7. PICK f : f = Frame(cmd', name, size, <<>>)
    OBVIOUS
  <2>0. IsRequest(f)' /\ toServer' = Append(toServer, f) /\ f # None
    <3>1. f.kind = cmd' /\ f.name = name /\ f.size = size
      BY <2>7, FrameKinds
    <3>3. cmd' # "NONE" /\ f # None
      BY <1>1, <3>1, FrameKinds
    <3>2. xfer'.name = name
      BY <1>1 DEF NoXfer
    <3> QED
      BY <1>1, <2>7, <3>1, <3>2, <3>3 DEF IsRequest, Puts
  <2>9. request = None /\ answer = None
    BY <1>1, <2>1 DEF InStep, RequestInOnePlace, Asked
  <2> USE DEF InStep
  <2>2. RequestInOnePlace(f, queued, answer)'
    BY <1>1, <2>1, FrameKinds, <2>0 DEF ServerInv, CommandFits, RequestInOnePlace, Asked, Puts, Answers
  <2>3. FrameInOnePlace(reply, frame, arrived)'
    BY <1>1, <2>1 DEF FrameInOnePlace, Sent
  <2>4. SaveFollows(answer)'
    BY <1>1, <2>1, FrameKinds DEF SaveFollows, RequestInOnePlace, Asked, Done, Open, ServerInv, CommandFits, ServerTypeOK, Transfers, Puts, NoXfer
  <2>5. LoadFollows(reply, frame, arrived)'
    BY <1>1, <2>1, FrameKinds DEF LoadFollows, ServerInv, CommandFits, ServerTypeOK, Transfers, NoXfer
  <2>8. toServer' = Line(reply, f) /\ answer = None
    BY <2>0, <2>1, <2>9, LineFacts DEF InStep
  <2>6. InStep(reply, f, queued, answer, frame, arrived)'
    BY <1>1, <2>1, <2>2, <2>3, <2>4, <2>5, FrameKinds, <2>8 DEF RequestInOnePlace, FrameInOnePlace, Asked
  <2> QED
    BY <2>6 DEF Lockstep
<1> QED
  BY <1>2, <1>3, <1>4, <1>5, <1>6 DEF ServerInv

\* WriteEnds: the frame is in the save, or the save has failed.
LEMMA ServerInvWriteEnds ==
  ASSUME ServerInv, WriteEnds
  PROVE  ServerInv'
<1> USE DEF server, client
<1>1. /\ cmd = "DATA" /\ cmd' = "idle" /\ slot # "none" /\ slot' = "none"
      /\ xfer' = [xfer EXCEPT !.failed = slot # "ACK"]
      /\ UNCHANGED <<linked, toServer, toClient, server, incoming, saves, msgs>>
  BY FrameKinds DEF WriteEnds, Finished
<1>2. ServerTypeOK'
  <2>1. xfer' \in Transfers
    BY <1>1, EmptyIsAFile DEF ServerInv, ServerTypeOK, Transfers, NoXfer, Names0
  <2> QED
    BY <1>1, <2>1 DEF ServerInv, ServerTypeOK, Commands, Puts
<1>3. CommandFits'
  BY <1>1 DEF ServerInv, ServerTypeOK, CommandFits, Transfers, Puts
<1>4. StoreIsWhole'
  BY <1>1 DEF ServerInv, ServerTypeOK, StoreIsWhole, Puts
<1>5. ASSUME ~linked' PROVE Unlinked'
  BY <1>1, <1>5 DEF ServerInv, ServerTypeOK, CommandFits, Unlinked, Transfers, Puts
<1>6. ASSUME linked' PROVE Lockstep'
  <2>1. PICK reply, request, queued, answer, frame, arrived :
          InStep(reply, request, queued, answer, frame, arrived)
    BY <1>1, <1>6 DEF ServerInv, Lockstep
  <2> USE DEF InStep
  <2>2. RequestInOnePlace(request, queued, answer)'
    BY <1>1, <2>1, FrameKinds DEF ServerInv, CommandFits, RequestInOnePlace, Asked, IsRequest, Puts, Answers
  <2>3. FrameInOnePlace(reply, frame, arrived)'
    BY <1>1, <2>1 DEF FrameInOnePlace, Sent
  <2>4. SaveFollows(answer)'
    BY <1>1, <2>1, FrameKinds DEF SaveFollows, RequestInOnePlace, Asked, Done, Open, ServerInv, CommandFits, ServerTypeOK, Transfers, Puts
  <2>5. LoadFollows(reply, frame, arrived)'
    BY <1>1, <2>1, FrameKinds DEF LoadFollows, ServerInv, CommandFits, ServerTypeOK, Transfers
  <2>6. InStep(reply, request, queued, answer, frame, arrived)'
    BY <1>1, <2>1, <2>2, <2>3, <2>4, <2>5, FrameKinds DEF RequestInOnePlace, FrameInOnePlace, Asked
  <2> QED
    BY <2>6 DEF Lockstep
<1> QED
  BY <1>2, <1>3, <1>4, <1>5, <1>6 DEF ServerInv

\* FileGet: the request goes out.
LEMMA ServerInvFileGet ==
  ASSUME ServerInv, NEW name \in Names, FileGet(name)
  PROVE  ServerInv'
<1> USE DEF server, client
<1>1. /\ cmd = "idle" /\ linked /\ linked' /\ xfer.dir = "none"
      /\ xfer' = [NoXfer EXCEPT !.name = name] /\ cmd' = "GET" /\ slot' = "none"
      /\ toServer' = Append(toServer, Frame("GET", name, 0, <<>>))
      /\ UNCHANGED <<linked, toClient, server, incoming, saves, msgs>>
  BY FrameKinds DEF FileGet, Ready, Ask
<1>2. ServerTypeOK'
  <2>1. xfer' \in Transfers
    BY <1>1, EmptyIsAFile DEF ServerInv, ServerTypeOK, Transfers, NoXfer, Names0
  <2> QED
    BY <1>1, <2>1 DEF ServerInv, ServerTypeOK, Commands, Puts
<1>3. CommandFits'
  BY <1>1 DEF ServerInv, ServerTypeOK, CommandFits, Transfers, Puts, NoXfer
<1>4. StoreIsWhole'
  BY <1>1 DEF ServerInv, ServerTypeOK, StoreIsWhole, Puts
<1>5. linked'
  BY <1>1 DEF ServerInv, Unlinked
<1>6. ASSUME linked' PROVE Lockstep'
  <2>1. PICK reply, request, queued, answer, frame, arrived :
          InStep(reply, request, queued, answer, frame, arrived)
    BY <1>1, <1>6 DEF ServerInv, Lockstep
  <2> USE DEF InStep
  <2>2. RequestInOnePlace(Frame("GET", name, 0, <<>>), queued, answer)'
    BY <1>1, <2>1, FrameKinds DEF ServerInv, CommandFits, RequestInOnePlace, Asked, IsRequest, Puts, Answers, NoXfer
  <2>3. FrameInOnePlace(reply, frame, arrived)'
    BY <1>1, <2>1 DEF FrameInOnePlace, Sent
  <2>4. SaveFollows(answer)'
    BY <1>1, <2>1, FrameKinds DEF SaveFollows, RequestInOnePlace, Asked, Done, Open, ServerInv, CommandFits, ServerTypeOK, Transfers, Puts, NoXfer
  <2>5. LoadFollows(reply, frame, arrived)'
    BY <1>1, <2>1, FrameKinds DEF LoadFollows, ServerInv, CommandFits, ServerTypeOK, Transfers, NoXfer
  <2>6. InStep(reply, Frame("GET", name, 0, <<>>), queued, answer, frame, arrived)'
    BY <1>1, <2>1, <2>2, <2>3, <2>4, <2>5, FrameKinds, LineFacts DEF RequestInOnePlace, FrameInOnePlace, Asked, ServerInv, CommandFits
  <2> QED
    BY <2>6 DEF Lockstep
<1> QED
  BY <1>2, <1>3, <1>4, <1>5, <1>6 DEF ServerInv

\* MsgSend: the request goes out.
LEMMA ServerInvMsgSend ==
  ASSUME ServerInv, MsgSend
  PROVE  ServerInv'
<1> USE DEF server, client
<1>1. /\ cmd = "idle" /\ linked /\ linked' /\ xfer.dir = "none" /\ msgs' = msgs + 1
      /\ cmd' = "MSG" /\ slot' = "none"
      /\ toServer' = Append(toServer, Frame("MSG", NoFile, 0, <<<<msgs', 0>>>>))
      /\ UNCHANGED <<linked, toClient, server, incoming, xfer, saves>>
  BY FrameKinds DEF MsgSend, Ready, Ask
<1>2. ServerTypeOK'
  BY <1>1 DEF ServerInv, ServerTypeOK, Commands
<1>3. CommandFits'
  BY <1>1 DEF ServerInv, ServerTypeOK, CommandFits, Transfers, Puts
<1>4. StoreIsWhole'
  BY <1>1 DEF ServerInv, ServerTypeOK, StoreIsWhole, Puts
<1>5. linked'
  BY <1>1 DEF ServerInv, Unlinked
<1>6. ASSUME linked' PROVE Lockstep'
  <2>1. PICK reply, request, queued, answer, frame, arrived :
          InStep(reply, request, queued, answer, frame, arrived)
    BY <1>1, <1>6 DEF ServerInv, Lockstep
  <2>7. PICK f : f = Frame("MSG", NoFile, 0, <<<<msgs', 0>>>>)
    OBVIOUS
  <2>0. IsRequest(f)' /\ toServer' = Append(toServer, f) /\ f # None
    BY <1>1, <2>7, FrameKinds DEF IsRequest, Puts
  <2> USE DEF InStep
  <2>2. RequestInOnePlace(f, queued, answer)'
    BY <1>1, <2>1, FrameKinds, <2>0 DEF ServerInv, CommandFits, RequestInOnePlace, Asked, Puts, Answers
  <2>3. FrameInOnePlace(reply, frame, arrived)'
    BY <1>1, <2>1 DEF FrameInOnePlace, Sent
  <2>4. SaveFollows(answer)'
    BY <1>1, <2>1, FrameKinds DEF SaveFollows, RequestInOnePlace, Asked, Done, Open, ServerInv, CommandFits, ServerTypeOK, Transfers, Puts
  <2>5. LoadFollows(reply, frame, arrived)'
    BY <1>1, <2>1, FrameKinds DEF LoadFollows, ServerInv, CommandFits, ServerTypeOK, Transfers
  <2>6. InStep(reply, f, queued, answer, frame, arrived)'
    BY <1>1, <2>1, <2>2, <2>3, <2>4, <2>5, FrameKinds, <2>0, LineFacts DEF RequestInOnePlace, FrameInOnePlace, Asked, ServerInv, CommandFits
  <2> QED
    BY <2>6 DEF Lockstep
<1> QED
  BY <1>2, <1>3, <1>4, <1>5, <1>6 DEF ServerInv

\* AnswerEnds: a message or an ABORT is over.
LEMMA ServerInvAnswerEnds ==
  ASSUME ServerInv, AnswerEnds
  PROVE  ServerInv'
<1> USE DEF server, client
<1>1. /\ cmd \in {"MSG", "ABORT"} /\ cmd # "idle" /\ cmd' = "idle" /\ slot # "none" /\ slot' = "none"
      /\ UNCHANGED <<linked, toServer, toClient, server, incoming, xfer, saves, msgs>>
  BY FrameKinds DEF AnswerEnds, Finished
<1>2. ServerTypeOK'
  BY <1>1 DEF ServerInv, ServerTypeOK
<1>3. CommandFits'
  BY <1>1 DEF ServerInv, ServerTypeOK, CommandFits, Transfers, Puts
<1>4. StoreIsWhole'
  BY <1>1 DEF ServerInv, ServerTypeOK, StoreIsWhole, Puts
<1>5. ASSUME ~linked' PROVE Unlinked'
  BY <1>1, <1>5 DEF ServerInv, ServerTypeOK, CommandFits, Unlinked, Transfers, Puts
<1>6. ASSUME linked' PROVE Lockstep'
  <2>1. PICK reply, request, queued, answer, frame, arrived :
          InStep(reply, request, queued, answer, frame, arrived)
    BY <1>1, <1>6 DEF ServerInv, Lockstep
  <2> USE DEF InStep
  <2>2. RequestInOnePlace(request, queued, answer)'
    BY <1>1, <2>1, FrameKinds DEF ServerInv, CommandFits, RequestInOnePlace, Asked, IsRequest, Puts, Answers
  <2>3. FrameInOnePlace(reply, frame, arrived)'
    BY <1>1, <2>1 DEF FrameInOnePlace, Sent
  <2>4. SaveFollows(answer)'
    BY <1>1, <2>1, FrameKinds DEF SaveFollows, RequestInOnePlace, Asked, Done, Open, ServerInv, CommandFits, ServerTypeOK, Transfers, Puts
  <2>5. LoadFollows(reply, frame, arrived)'
    BY <1>1, <2>1, FrameKinds DEF LoadFollows, ServerInv, CommandFits, ServerTypeOK, Transfers
  <2>6. InStep(reply, request, queued, answer, frame, arrived)'
    BY <1>1, <2>1, <2>2, <2>3, <2>4, <2>5, FrameKinds DEF RequestInOnePlace, FrameInOnePlace, Asked
  <2> QED
    BY <2>6 DEF Lockstep
<1> QED
  BY <1>2, <1>3, <1>4, <1>5, <1>6 DEF ServerInv

\* CloseGet: the load is over.
LEMMA ServerInvCloseGet ==
  ASSUME ServerInv, NEW abandon \in BOOLEAN, CloseGet(abandon)
  PROVE  ServerInv'
<1> USE DEF server, client
<1>1. /\ cmd = "idle" /\ xfer.dir = "get" /\ xfer' = [xfer EXCEPT !.dir = "none", !.failed = ~LoadsWhole(abandon)]
      /\ UNCHANGED <<linked, toServer, toClient, server, cmd, slot, incoming, saves, msgs>>
  BY FrameKinds DEF CloseGet, Ready
<1>2. ServerTypeOK'
  <2>1. LoadsWhole(abandon) \in BOOLEAN
    BY DEF LoadsWhole
  <2>2. xfer' \in Transfers
    BY <1>1, <2>1 DEF ServerInv, ServerTypeOK, Transfers
  <2> QED
    BY <1>1, <2>2 DEF ServerInv, ServerTypeOK
<1>3. CommandFits'
  BY <1>1 DEF ServerInv, ServerTypeOK, CommandFits, Transfers, Puts
<1>4. StoreIsWhole'
  BY <1>1 DEF ServerInv, ServerTypeOK, StoreIsWhole, Puts
<1>5. ASSUME ~linked' PROVE Unlinked'
  BY <1>1, <1>5 DEF ServerInv, ServerTypeOK, CommandFits, Unlinked, Transfers, Puts
<1>6. ASSUME linked' PROVE Lockstep'
  <2>1. PICK reply, request, queued, answer, frame, arrived :
          InStep(reply, request, queued, answer, frame, arrived)
    BY <1>1, <1>6 DEF ServerInv, Lockstep
  <2> USE DEF InStep
  <2>2. RequestInOnePlace(request, queued, answer)'
    BY <1>1, <2>1, FrameKinds DEF ServerInv, CommandFits, RequestInOnePlace, Asked, IsRequest, Puts, Answers
  <2>3. FrameInOnePlace(reply, frame, arrived)'
    BY <1>1, <2>1 DEF FrameInOnePlace, Sent
  <2>4. SaveFollows(answer)'
    BY <1>1, <2>1, FrameKinds DEF SaveFollows, RequestInOnePlace, Asked, Done, Open, ServerInv, CommandFits, ServerTypeOK, Transfers, Puts
  <2>5. LoadFollows(reply, frame, arrived)'
    BY <1>1, <2>1, FrameKinds DEF LoadFollows, ServerInv, CommandFits, ServerTypeOK, Transfers
  <2>6. InStep(reply, request, queued, answer, frame, arrived)'
    BY <1>1, <2>1, <2>2, <2>3, <2>4, <2>5, FrameKinds DEF RequestInOnePlace, FrameInOnePlace, Asked
  <2> QED
    BY <2>6 DEF Lockstep
<1> QED
  BY <1>2, <1>3, <1>4, <1>5, <1>6 DEF ServerInv

\* The frame that is on its way to the client.
LEMMA SentFacts ==
  /\ Sent # None /\ Sent \notin Answers /\ Sent.kind \in {"HEADER", "DATA", "END"}
  /\ get.sent = 1 => Sent.kind = "HEADER" /\ Sent.pieces = get.data
  /\ get.sent # 1 => Sent.kind \in {"DATA", "END"}
  /\ get.sent # 1 /\ get.sent <= Len(get.data) + 1 => Sent.kind = "DATA" /\ Sent.pieces = <<get.data[get.sent - 1]>>
  /\ get.sent # 1 /\ ~(get.sent <= Len(get.data) + 1) => Sent.kind = "END"
<1>1. \A f : f.kind \in {"HEADER", "DATA", "END"} => f # None /\ f \notin Answers
  BY FrameKinds DEF Answers
<1>2. /\ get.sent = 1 => Sent.kind = "HEADER" /\ Sent.pieces = get.data
      /\ get.sent # 1 /\ get.sent <= Len(get.data) + 1 => Sent.kind = "DATA" /\ Sent.pieces = <<get.data[get.sent - 1]>>
      /\ get.sent # 1 /\ ~(get.sent <= Len(get.data) + 1) => Sent.kind = "END"
  BY FrameKinds DEF Sent
<1>3. Sent.kind \in {"HEADER", "DATA", "END"}
  BY <1>2
<1> QED
  BY <1>1, <1>2, <1>3

\* Write: the next frame goes out.
LEMMA ServerInvWrite ==
  ASSUME ServerInv, Write
  PROVE  ServerInv'
<1> USE DEF server, client
<1>1. /\ cmd = "idle" /\ slot = "none" /\ cmd' = "DATA" /\ slot' = "none" /\ linked /\ linked' /\ xfer.dir = "put" /\ ~xfer.failed
      /\ xfer' = [xfer EXCEPT !.data = Append(@, <<saves, Len(xfer.data) + 1>>)]
      /\ toServer' = Append(toServer, Frame("DATA", NoFile, 0, <<<<saves, Len(xfer.data) + 1>>>>))
      /\ UNCHANGED <<linked, toClient, server, incoming, saves, msgs>>
  BY FrameKinds DEF Write, Ready, Ask, ServerInv, Unlinked, CommandFits
<1>7. PICK n \in Nat : xfer.data = Wrote(saves, n)
  BY <1>1 DEF ServerInv, CommandFits
<1>8. Len(xfer.data) = n /\ Append(xfer.data, <<saves, n + 1>>) = Wrote(saves, n + 1) /\ n + 1 \in Nat /\ Len(Wrote(saves, n + 1)) = n + 1
  <2>1. n + 1 \in Nat
    OBVIOUS
  <2> QED
    BY <1>7, <2>1, WroteFacts
<1>9. /\ xfer' \in Transfers /\ xfer'.data = Wrote(saves, n + 1) /\ Len(xfer'.data) = n + 1
      /\ xfer'.dir = "put" /\ ~xfer'.failed /\ xfer'.name = xfer.name
  <2>1. Wrote(saves, n + 1) \in Files
    BY <1>8 DEF Files, ServerInv, ServerTypeOK
  <2> QED
    BY <1>1, <1>7, <1>8, <2>1 DEF ServerInv, ServerTypeOK, Transfers
<1>10. saves > 0 /\ \E m \in Nat : xfer'.data = Wrote(saves', m) /\ m > 0
  <2>1. saves > 0 /\ saves' = saves
    BY <1>1 DEF ServerInv, CommandFits
  <2>2. n + 1 \in Nat /\ n + 1 > 0 /\ xfer'.data = Wrote(saves', n + 1)
    BY <1>7, <1>8, <1>9, <2>1
  <2> QED
    BY <2>1, <2>2
<1>11. xfer'.name \in Names
  BY <1>1, <1>9 DEF ServerInv, CommandFits
<1>2. ServerTypeOK'
  BY <1>1, <1>9 DEF ServerInv, ServerTypeOK, Commands
<1>3. CommandFits'
  BY <1>1, <1>9, <1>10, <1>11 DEF ServerInv, ServerTypeOK, CommandFits, Transfers, Puts
<1>4. StoreIsWhole'
  BY <1>1 DEF ServerInv, ServerTypeOK, StoreIsWhole, Puts
<1>5. linked'
  BY <1>1 DEF ServerInv, Unlinked
<1>6. ASSUME linked' PROVE Lockstep'
  <2>1. PICK reply, request, queued, answer, frame, arrived :
          InStep(reply, request, queued, answer, frame, arrived)
    BY <1>1, <1>6 DEF ServerInv, Lockstep
  <2>7. PICK f : f = Frame("DATA", NoFile, 0, <<<<saves, n + 1>>>>)
    OBVIOUS
  <2>0. IsRequest(f)' /\ toServer' = Append(toServer, f) /\ f # None
    <3>1. f.kind = "DATA" /\ f # None /\ f.pieces = <<<<saves, n + 1>>>>
      BY <2>7, FrameKinds
    <3> QED
      BY <1>1, <1>8, <1>9, <2>7, <3>1 DEF IsRequest, Puts
  <2>9. request = None /\ answer = None
    BY <1>1, <2>1 DEF InStep, RequestInOnePlace, Asked
  <2> USE DEF InStep
  <2>2. RequestInOnePlace(f, queued, answer)'
    BY <1>1, <2>1, FrameKinds, <2>0 DEF ServerInv, CommandFits, RequestInOnePlace, Asked, Puts, Answers
  <2>3. FrameInOnePlace(reply, frame, arrived)'
    BY <1>1, <2>1 DEF FrameInOnePlace, Sent
  <2>4. SaveFollows(answer)'
    BY <1>1, <2>1, FrameKinds, <1>7, <1>8, <1>9 DEF SaveFollows, RequestInOnePlace, Asked, Done, Open, ServerInv, CommandFits, ServerTypeOK, Transfers, Puts
  <2>5. LoadFollows(reply, frame, arrived)'
    BY <1>1, <2>1, FrameKinds, <1>9 DEF LoadFollows, ServerInv, CommandFits, ServerTypeOK, Transfers
  <2>8. toServer' = Line(reply, f) /\ answer = None
    BY <2>0, <2>1, <2>9, LineFacts DEF InStep
  <2>6. InStep(reply, f, queued, answer, frame, arrived)'
    BY <1>1, <2>1, <2>2, <2>3, <2>4, <2>5, FrameKinds, <2>8 DEF RequestInOnePlace, FrameInOnePlace, Asked
  <2> QED
    BY <2>6 DEF Lockstep
<1> QED
  BY <1>2, <1>3, <1>4, <1>5, <1>6 DEF ServerInv

\* ClosePut without a link: the save was given up.
LEMMA ServerInvCloseNoLink ==
  ASSUME ServerInv, NEW abandon \in BOOLEAN, ~linked, ClosePut(abandon)
  PROVE  ServerInv'
<1> USE DEF server, client
<1>1. /\ cmd = "idle" /\ xfer.dir = "put" /\ ~linked /\ xfer' = [xfer EXCEPT !.dir = "none"] /\ xfer.failed
      /\ UNCHANGED <<linked, toServer, toClient, server, cmd, slot, incoming, saves, msgs>>
  BY FrameKinds DEF ClosePut, Ready, ServerInv, Unlinked
<1>2. ServerTypeOK'
  <2>1. xfer' \in Transfers
    BY <1>1, EmptyIsAFile DEF ServerInv, ServerTypeOK, Transfers, NoXfer, Names0
  <2> QED
    BY <1>1, <2>1 DEF ServerInv, ServerTypeOK, Commands, Puts
<1>3. CommandFits'
  BY <1>1 DEF ServerInv, ServerTypeOK, CommandFits, Transfers, Puts
<1>4. StoreIsWhole'
  BY <1>1 DEF ServerInv, ServerTypeOK, StoreIsWhole, Puts
<1>5. ASSUME ~linked' PROVE Unlinked'
  BY <1>1, <1>5 DEF ServerInv, ServerTypeOK, CommandFits, Unlinked, Transfers, Puts
<1>6. ASSUME linked' PROVE Lockstep'
  <2>1. PICK reply, request, queued, answer, frame, arrived :
          InStep(reply, request, queued, answer, frame, arrived)
    BY <1>1, <1>6 DEF ServerInv, Lockstep
  <2> USE DEF InStep
  <2>2. RequestInOnePlace(request, queued, answer)'
    BY <1>1, <2>1, FrameKinds DEF ServerInv, CommandFits, RequestInOnePlace, Asked, IsRequest, Puts, Answers
  <2>3. FrameInOnePlace(reply, frame, arrived)'
    BY <1>1, <2>1 DEF FrameInOnePlace, Sent
  <2>4. SaveFollows(answer)'
    BY <1>1, <2>1, FrameKinds DEF SaveFollows, RequestInOnePlace, Asked, Done, Open, ServerInv, CommandFits, ServerTypeOK, Transfers, Puts
  <2>5. LoadFollows(reply, frame, arrived)'
    BY <1>1, <2>1, FrameKinds DEF LoadFollows, ServerInv, CommandFits, ServerTypeOK, Transfers
  <2>6. InStep(reply, request, queued, answer, frame, arrived)'
    BY <1>1, <2>1, <2>2, <2>3, <2>4, <2>5, FrameKinds DEF RequestInOnePlace, FrameInOnePlace, Asked
  <2> QED
    BY <2>6 DEF Lockstep
<1> QED
  BY <1>2, <1>3, <1>4, <1>5, <1>6 DEF ServerInv

\* ClosePut of a save that failed, or is abandoned: ABORT.
LEMMA ServerInvCloseAborts ==
  ASSUME ServerInv, NEW abandon \in BOOLEAN, linked, xfer.failed \/ abandon, ClosePut(abandon)
  PROVE  ServerInv'
<1> USE DEF server, client
<1>1. /\ cmd = "idle" /\ slot = "none" /\ xfer.dir = "put" /\ linked /\ linked' /\ xfer' = [xfer EXCEPT !.dir = "none"]
      /\ cmd' = "ABORT" /\ slot' = "none" /\ toServer' = Append(toServer, Plain("ABORT"))
      /\ UNCHANGED <<linked, toClient, server, incoming, saves, msgs>>
  BY FrameKinds DEF ClosePut, Ready, Ask, ServerInv, CommandFits
<1>2. ServerTypeOK'
  <2>1. xfer' \in Transfers
    BY <1>1, EmptyIsAFile DEF ServerInv, ServerTypeOK, Transfers, NoXfer, Names0
  <2> QED
    BY <1>1, <2>1 DEF ServerInv, ServerTypeOK, Commands, Puts
<1>3. CommandFits'
  BY <1>1 DEF ServerInv, ServerTypeOK, CommandFits, Transfers, Puts
<1>4. StoreIsWhole'
  BY <1>1 DEF ServerInv, ServerTypeOK, StoreIsWhole, Puts
<1>5. linked'
  BY <1>1 DEF ServerInv, Unlinked
<1>6. ASSUME linked' PROVE Lockstep'
  <2>1. PICK reply, request, queued, answer, frame, arrived :
          InStep(reply, request, queued, answer, frame, arrived)
    BY <1>1, <1>6 DEF ServerInv, Lockstep
  <2>7. PICK f : f = Plain("ABORT")
    OBVIOUS
  <2>0. IsRequest(f)' /\ toServer' = Append(toServer, f) /\ f # None
    BY <1>1, <2>7, FrameKinds DEF IsRequest, Puts
  <2>9. request = None /\ answer = None /\ queued = None /\ serving = None
    BY <1>1, <2>1 DEF InStep, RequestInOnePlace, Asked
  <2> USE DEF InStep
  <2>2. RequestInOnePlace(f, queued, answer)'
    BY <1>1, <2>1, FrameKinds, <2>0 DEF ServerInv, CommandFits, RequestInOnePlace, Asked, Puts, Answers
  <2>3. FrameInOnePlace(reply, frame, arrived)'
    BY <1>1, <2>1 DEF FrameInOnePlace, Sent
  <2>4. SaveFollows(answer)'
    BY <1>1, <2>1, FrameKinds DEF SaveFollows, RequestInOnePlace, Asked, Done, Open, ServerInv, CommandFits, ServerTypeOK, Transfers, Puts
  <2>5. LoadFollows(reply, frame, arrived)'
    BY <1>1, <2>1, FrameKinds DEF LoadFollows, ServerInv, CommandFits, ServerTypeOK, Transfers
  <2>8. toServer' = Line(reply, f) /\ answer = None
    BY <2>0, <2>1, <2>9, LineFacts DEF InStep
  <2>6. InStep(reply, f, queued, answer, frame, arrived)'
    BY <1>1, <2>1, <2>2, <2>3, <2>4, <2>5, FrameKinds, <2>8 DEF RequestInOnePlace, FrameInOnePlace, Asked
  <2> QED
    BY <2>6 DEF Lockstep
<1> QED
  BY <1>2, <1>3, <1>4, <1>5, <1>6 DEF ServerInv

\* ClosePut of a save that went well: FILE_END.
LEMMA ServerInvCloseEnds ==
  ASSUME ServerInv, NEW abandon \in BOOLEAN, ~(xfer.failed \/ abandon), ClosePut(abandon)
  PROVE  ServerInv'
<1> USE DEF server, client
<1>1. /\ cmd = "idle" /\ slot = "none" /\ xfer.dir = "put" /\ ~xfer.failed /\ linked /\ linked' /\ xfer' = xfer
      /\ cmd' = "END" /\ slot' = "none" /\ toServer' = Append(toServer, Plain("END"))
      /\ UNCHANGED <<linked, toClient, server, incoming, saves, msgs>>
  BY FrameKinds DEF ClosePut, Ready, Ask, ServerInv, CommandFits, Unlinked
<1>2. ServerTypeOK'
  <2>1. xfer' \in Transfers
    BY <1>1, EmptyIsAFile DEF ServerInv, ServerTypeOK, Transfers, NoXfer, Names0
  <2> QED
    BY <1>1, <2>1 DEF ServerInv, ServerTypeOK, Commands, Puts
<1>3. CommandFits'
  BY <1>1 DEF ServerInv, ServerTypeOK, CommandFits, Transfers, Puts
<1>4. StoreIsWhole'
  BY <1>1 DEF ServerInv, ServerTypeOK, StoreIsWhole, Puts
<1>5. linked'
  BY <1>1 DEF ServerInv, Unlinked
<1>6. ASSUME linked' PROVE Lockstep'
  <2>1. PICK reply, request, queued, answer, frame, arrived :
          InStep(reply, request, queued, answer, frame, arrived)
    BY <1>1, <1>6 DEF ServerInv, Lockstep
  <2>7. PICK f : f = Plain("END")
    OBVIOUS
  <2>0. IsRequest(f)' /\ toServer' = Append(toServer, f) /\ f # None
    BY <1>1, <2>7, FrameKinds DEF IsRequest, Puts
  <2>9. request = None /\ answer = None /\ queued = None /\ serving = None
    BY <1>1, <2>1 DEF InStep, RequestInOnePlace, Asked
  <2> USE DEF InStep
  <2>2. RequestInOnePlace(f, queued, answer)'
    BY <1>1, <2>1, FrameKinds, <2>0 DEF ServerInv, CommandFits, RequestInOnePlace, Asked, Puts, Answers
  <2>3. FrameInOnePlace(reply, frame, arrived)'
    BY <1>1, <2>1 DEF FrameInOnePlace, Sent
  <2>4. SaveFollows(answer)'
    BY <1>1, <2>1, FrameKinds DEF SaveFollows, RequestInOnePlace, Asked, Done, Open, ServerInv, CommandFits, ServerTypeOK, Transfers, Puts
  <2>5. LoadFollows(reply, frame, arrived)'
    BY <1>1, <2>1, FrameKinds DEF LoadFollows, ServerInv, CommandFits, ServerTypeOK, Transfers
  <2>8. toServer' = Line(reply, f) /\ answer = None
    BY <2>0, <2>1, <2>9, LineFacts DEF InStep
  <2>6. InStep(reply, f, queued, answer, frame, arrived)'
    BY <1>1, <2>1, <2>2, <2>3, <2>4, <2>5, FrameKinds, <2>8 DEF RequestInOnePlace, FrameInOnePlace, Asked
  <2> QED
    BY <2>6 DEF Lockstep
<1> QED
  BY <1>2, <1>3, <1>4, <1>5, <1>6 DEF ServerInv

\* EndEnds: FILE_END was refused, and an ABORT follows.
LEMMA ServerInvEndRefused ==
  ASSUME ServerInv, linked, slot # "ACK", EndEnds
  PROVE  ServerInv'
<1> USE DEF server, client
<1>1. /\ cmd = "END" /\ slot # "none" /\ xfer.dir = "put" /\ linked /\ linked' /\ xfer' = [xfer EXCEPT !.dir = "none"]
      /\ cmd' = "ABORT" /\ slot' = "none" /\ toServer' = Append(toServer, Plain("ABORT"))
      /\ UNCHANGED <<linked, toClient, server, incoming, saves, msgs>>
  BY FrameKinds DEF EndEnds, Ask, ServerInv, CommandFits
<1>2. ServerTypeOK'
  <2>1. xfer' \in Transfers
    BY <1>1, EmptyIsAFile DEF ServerInv, ServerTypeOK, Transfers, NoXfer, Names0
  <2> QED
    BY <1>1, <2>1 DEF ServerInv, ServerTypeOK, Commands, Puts
<1>3. CommandFits'
  BY <1>1 DEF ServerInv, ServerTypeOK, CommandFits, Transfers, Puts
<1>4. StoreIsWhole'
  BY <1>1 DEF ServerInv, ServerTypeOK, StoreIsWhole, Puts
<1>5. linked'
  BY <1>1 DEF ServerInv, Unlinked
<1>6. ASSUME linked' PROVE Lockstep'
  <2>1. PICK reply, request, queued, answer, frame, arrived :
          InStep(reply, request, queued, answer, frame, arrived)
    BY <1>1, <1>6 DEF ServerInv, Lockstep
  <2>7. PICK f : f = Plain("ABORT")
    OBVIOUS
  <2>0. IsRequest(f)' /\ toServer' = Append(toServer, f) /\ f # None
    BY <1>1, <2>7, FrameKinds DEF IsRequest, Puts
  <2>9. request = None /\ answer = None /\ queued = None /\ serving = None
    BY <1>1, <2>1 DEF InStep, RequestInOnePlace, Asked
  <2> USE DEF InStep
  <2>2. RequestInOnePlace(f, queued, answer)'
    BY <1>1, <2>1, FrameKinds, <2>0 DEF ServerInv, CommandFits, RequestInOnePlace, Asked, Puts, Answers
  <2>3. FrameInOnePlace(reply, frame, arrived)'
    BY <1>1, <2>1 DEF FrameInOnePlace, Sent
  <2>4. SaveFollows(answer)'
    BY <1>1, <2>1, FrameKinds DEF SaveFollows, RequestInOnePlace, Asked, Done, Open, ServerInv, CommandFits, ServerTypeOK, Transfers, Puts
  <2>5. LoadFollows(reply, frame, arrived)'
    BY <1>1, <2>1, FrameKinds DEF LoadFollows, ServerInv, CommandFits, ServerTypeOK, Transfers
  <2>8. toServer' = Line(reply, f) /\ answer = None
    BY <2>0, <2>1, <2>9, LineFacts DEF InStep
  <2>6. InStep(reply, f, queued, answer, frame, arrived)'
    BY <1>1, <2>1, <2>2, <2>3, <2>4, <2>5, FrameKinds, <2>8 DEF RequestInOnePlace, FrameInOnePlace, Asked
  <2> QED
    BY <2>6 DEF Lockstep
<1> QED
  BY <1>2, <1>3, <1>4, <1>5, <1>6 DEF ServerInv

\* EndEnds: the save is on disk, or the link has gone.
LEMMA ServerInvEndEnds ==
  ASSUME ServerInv, ~(slot # "ACK" /\ linked), EndEnds
  PROVE  ServerInv'
<1> USE DEF server, client
<1>1. /\ cmd = "END" /\ slot # "none" /\ xfer.dir = "put" /\ xfer' = [xfer EXCEPT !.dir = "none"]
      /\ cmd' = "idle" /\ slot' = "none"
      /\ UNCHANGED <<linked, toServer, toClient, server, incoming, saves, msgs>>
  BY FrameKinds DEF EndEnds, Finished, ServerInv, CommandFits
<1>2. ServerTypeOK'
  <2>1. xfer' \in Transfers
    BY <1>1, EmptyIsAFile DEF ServerInv, ServerTypeOK, Transfers, NoXfer, Names0
  <2> QED
    BY <1>1, <2>1 DEF ServerInv, ServerTypeOK, Commands, Puts
<1>3. CommandFits'
  BY <1>1 DEF ServerInv, ServerTypeOK, CommandFits, Transfers, Puts
<1>4. StoreIsWhole'
  BY <1>1 DEF ServerInv, ServerTypeOK, StoreIsWhole, Puts
<1>5. ASSUME ~linked' PROVE Unlinked'
  BY <1>1, <1>5 DEF ServerInv, ServerTypeOK, CommandFits, Unlinked, Transfers, Puts
<1>6. ASSUME linked' PROVE Lockstep'
  <2>1. PICK reply, request, queued, answer, frame, arrived :
          InStep(reply, request, queued, answer, frame, arrived)
    BY <1>1, <1>6 DEF ServerInv, Lockstep
  <2> USE DEF InStep
  <2>2. RequestInOnePlace(request, queued, answer)'
    BY <1>1, <2>1, FrameKinds DEF ServerInv, CommandFits, RequestInOnePlace, Asked, IsRequest, Puts, Answers
  <2>3. FrameInOnePlace(reply, frame, arrived)'
    BY <1>1, <2>1 DEF FrameInOnePlace, Sent
  <2>4. SaveFollows(answer)'
    BY <1>1, <2>1, FrameKinds DEF SaveFollows, RequestInOnePlace, Asked, Done, Open, ServerInv, CommandFits, ServerTypeOK, Transfers, Puts
  <2>5. LoadFollows(reply, frame, arrived)'
    BY <1>1, <2>1, FrameKinds DEF LoadFollows, ServerInv, CommandFits, ServerTypeOK, Transfers
  <2>6. InStep(reply, request, queued, answer, frame, arrived)'
    BY <1>1, <2>1, <2>2, <2>3, <2>4, <2>5, FrameKinds DEF RequestInOnePlace, FrameInOnePlace, Asked
  <2> QED
    BY <2>6 DEF Lockstep
<1> QED
  BY <1>2, <1>3, <1>4, <1>5, <1>6 DEF ServerInv

\* FileGetEnds: no such file, or no link.
LEMMA ServerInvGetRefused ==
  ASSUME ServerInv, slot # "ACK", FileGetEnds
  PROVE  ServerInv'
<1> USE DEF server, client
<1>1. /\ cmd = "GET" /\ slot # "none" /\ xfer' = NoXfer
      /\ cmd' = "idle" /\ slot' = "none"
      /\ UNCHANGED <<linked, toServer, toClient, server, incoming, saves, msgs>>
  BY FrameKinds DEF FileGetEnds, Finished
<1>2. ServerTypeOK'
  <2>1. xfer' \in Transfers
    BY <1>1, EmptyIsAFile DEF ServerInv, ServerTypeOK, Transfers, NoXfer, Names0
  <2> QED
    BY <1>1, <2>1 DEF ServerInv, ServerTypeOK, Commands, Puts
<1>3. CommandFits'
  BY <1>1 DEF ServerInv, ServerTypeOK, CommandFits, Transfers, Puts, NoXfer
<1>4. StoreIsWhole'
  BY <1>1 DEF ServerInv, ServerTypeOK, StoreIsWhole, Puts
<1>5. ASSUME ~linked' PROVE Unlinked'
  BY <1>1, <1>5 DEF ServerInv, ServerTypeOK, CommandFits, Unlinked, Transfers, Puts, NoXfer
<1>6. ASSUME linked' PROVE Lockstep'
  <2>1. PICK reply, request, queued, answer, frame, arrived :
          InStep(reply, request, queued, answer, frame, arrived)
    BY <1>1, <1>6 DEF ServerInv, Lockstep
  <2> USE DEF InStep
  <2>2. RequestInOnePlace(request, queued, answer)'
    BY <1>1, <2>1, FrameKinds DEF ServerInv, CommandFits, RequestInOnePlace, Asked, IsRequest, Puts, Answers
  <2>3. FrameInOnePlace(reply, frame, arrived)'
    BY <1>1, <2>1 DEF FrameInOnePlace, Sent
  <2>4. SaveFollows(answer)'
    BY <1>1, <2>1, FrameKinds DEF SaveFollows, RequestInOnePlace, Asked, Done, Open, ServerInv, CommandFits, ServerTypeOK, Transfers, Puts, NoXfer
  <2>5. LoadFollows(reply, frame, arrived)'
    BY <1>1, <2>1, FrameKinds DEF LoadFollows, ServerInv, CommandFits, ServerTypeOK, Transfers, NoXfer
  <2>6. InStep(reply, request, queued, answer, frame, arrived)'
    BY <1>1, <2>1, <2>2, <2>3, <2>4, <2>5, FrameKinds DEF RequestInOnePlace, FrameInOnePlace, Asked
  <2> QED
    BY <2>6 DEF Lockstep
<1> QED
  BY <1>2, <1>3, <1>4, <1>5, <1>6 DEF ServerInv

\* FileGetEnds: the file's FILE_PUT comes, and is answered.
LEMMA ServerInvGetBegins ==
  ASSUME ServerInv, slot = "ACK", FileGetEnds
  PROVE  ServerInv'
<1> USE DEF server, client
<1>0. PICK reply, request, queued, answer, frame, arrived :
          InStep(reply, request, queued, answer, frame, arrived)
  BY DEF ServerInv, Lockstep, Unlinked, FileGetEnds
<1>7. /\ cmd = "GET" /\ linked /\ cmd' = "idle" /\ slot' = "none" /\ ~Asked /\ incoming # <<>>
      /\ xfer.dir = "none" /\ xfer.data = <<>> /\ ~xfer.ended
      /\ Done /\ request = None /\ queued = None /\ serving = None /\ answer = None /\ get.at = "waits" /\ get.sent = 1
  BY <1>0 DEF FileGetEnds, Finished, ServerInv, CommandFits, Unlinked, InStep, RequestInOnePlace, Asked, Done
<1>8. /\ arrived = Sent /\ Head(incoming) = Sent /\ Tail(incoming) = <<>> /\ reply = None /\ frame = None
      /\ Sent.kind = "HEADER" /\ Sent.pieces = get.data
      /\ incoming' = Tail(incoming) /\ toServer' = Append(toServer, Ack)
      /\ xfer' = [xfer EXCEPT !.dir = "get", !.whole = Head(incoming).pieces]
      /\ UNCHANGED <<linked, toClient, server, saves, msgs>>
  <2>1. arrived # None
    BY <1>0, <1>7, EmptyLine DEF InStep
  <2>2. arrived = Sent /\ reply = None /\ frame = None
    BY <1>0, <1>7, <2>1, FrameKinds DEF InStep, FrameInOnePlace
  <2>3. Head(incoming) = Sent /\ Tail(incoming) = <<>>
    BY <1>0, <2>1, <2>2, LineFacts, EmptyLine DEF InStep
  <2>4. Sent.kind = "HEADER" /\ Sent.pieces = get.data
    BY <1>7, SentFacts
  <2> QED
    BY <1>7, <2>2, <2>3, <2>4 DEF FileGetEnds
<1>1. /\ cmd = "GET" /\ linked /\ linked' /\ cmd' = "idle" /\ slot' = "none" /\ xfer.dir = "none" /\ xfer.data = <<>> /\ ~xfer.ended
      /\ request = None /\ queued = None /\ serving = None /\ answer = None /\ reply = None /\ frame = None
      /\ get.at = "waits" /\ get.sent = 1 /\ arrived = Sent /\ incoming' = <<>>
      /\ xfer' = [xfer EXCEPT !.dir = "get", !.whole = get.data] /\ toServer' = Append(toServer, Ack)
      /\ UNCHANGED <<linked, toClient, server, saves, msgs>>
  BY <1>7, <1>8, FrameKinds DEF InStep
<1>9. /\ xfer' \in Transfers /\ xfer'.dir = "get" /\ xfer'.data = <<>> /\ ~xfer'.ended /\ xfer'.whole = get.data
      /\ SubSeq(get.data, 1, get.sent - 1) = <<>> /\ get.sent <= Len(get.data) + 1 /\ get' = get
  <2>1. get.data \in Files /\ xfer \in Transfers
    BY DEF ServerInv, ServerTypeOK, Loads
  <2>2. PICK s \in Nat, k \in Nat : get.data = Wrote(s, k)
    BY <2>1 DEF Files
  <2>3. SubSeq(get.data, 1, 0) = <<>> /\ Len(get.data) \in Nat
    BY <2>2, WroteFacts
  <2>4. SubSeq(get.data, 1, get.sent - 1) = <<>> /\ get.sent <= Len(get.data) + 1 /\ get' = get
    <3>1. get.sent - 1 = 0
      BY <1>1
    <3> QED
      BY <1>1, <2>3, <3>1
  <2>5. /\ xfer' \in Transfers /\ xfer'.dir = "get" /\ xfer'.data = <<>> /\ ~xfer'.ended /\ xfer'.whole = get.data
    BY <1>1, <2>1 DEF Transfers
  <2> QED
    BY <2>4, <2>5
<1>2. ServerTypeOK'
  BY <1>1, <1>9 DEF ServerInv, ServerTypeOK
<1>3. CommandFits'
  BY <1>1, <1>9 DEF ServerInv, ServerTypeOK, CommandFits, Transfers, Puts
<1>4. StoreIsWhole'
  BY <1>1 DEF ServerInv, ServerTypeOK, StoreIsWhole, Puts
<1>5. linked'
  BY <1>1 DEF ServerInv, Unlinked
<1>6. ASSUME linked' PROVE Lockstep'
  <2>7. toServer' = Line(Ack, request)
    <3>1. toServer = Line(None, None) /\ request = None
      BY <1>0, <1>1 DEF InStep
    <3>2. Append(Line(None, None), Ack) = Line(None, Ack) /\ Line(None, Ack) = Line(Ack, None)
      BY LineFacts, FrameKinds
    <3> QED
      BY <1>1, <3>1, <3>2
  <2> USE DEF InStep
  <2>2. RequestInOnePlace(request, queued, answer)'
    BY <1>1, <1>0, FrameKinds DEF ServerInv, CommandFits, RequestInOnePlace, Asked, IsRequest, Puts, Answers
  <2>3. FrameInOnePlace(Ack, frame, None)'
    BY <1>1, <1>0 DEF FrameInOnePlace, Sent, Answers
  <2>4. SaveFollows(answer)'
    BY <1>1, <1>0, FrameKinds, <1>9 DEF SaveFollows, RequestInOnePlace, Asked, Done, Open, ServerInv, CommandFits, ServerTypeOK, Transfers, Puts
  <2>5. LoadFollows(Ack, frame, None)'
    BY <1>1, <1>0, FrameKinds, <1>9 DEF LoadFollows, ServerInv, CommandFits, ServerTypeOK, Transfers
  <2>8. toServer' = Line(Ack, request) /\ incoming' = Line(None, None)
    BY <2>7, <1>1, EmptyLine
  <2>6. InStep(Ack, request, queued, answer, frame, None)'
    BY <1>1, <1>0, <2>2, <2>3, <2>4, <2>5, FrameKinds, <2>8 DEF RequestInOnePlace, FrameInOnePlace, Asked
  <2> QED
    BY <2>6 DEF Lockstep
<1> QED
  BY <1>2, <1>3, <1>4, <1>5, <1>6 DEF ServerInv

\* Read of FILE_DATA: it joins what was read.
LEMMA ServerInvReadData ==
  ASSUME ServerInv, get.sent <= Len(get.data) + 1, Read
  PROVE  ServerInv'
<1> USE DEF server, client
<1>0. PICK reply, request, queued, answer, frame, arrived :
          InStep(reply, request, queued, answer, frame, arrived)
  BY DEF ServerInv, Lockstep, Unlinked, Read
<1>7. /\ cmd = "idle" /\ slot = "none" /\ linked /\ incoming # <<>> /\ xfer.dir = "get" /\ ~xfer.failed /\ ~xfer.ended
      /\ xfer \in Transfers
  BY DEF Read, Ready, ServerInv, ServerTypeOK, CommandFits, Unlinked
<1>8. /\ request = None /\ queued = None /\ serving = None /\ answer = None /\ reply = None /\ frame = None
      /\ arrived = Sent /\ get.at = "waits" /\ Head(incoming) = Sent /\ Tail(incoming) = <<>>
      /\ get.sent > 1 /\ get.sent <= Len(get.data) + 2 /\ xfer.whole = get.data /\ xfer.data = SubSeq(get.data, 1, get.sent - 2)
  <2>1. arrived # None
    BY <1>0, <1>7, EmptyLine DEF InStep
  <2>2. arrived = Sent /\ reply = None /\ frame = None /\ get.at = "waits" /\ get.sent <= Len(get.data) + 2
    BY <1>0, <2>1, FrameKinds DEF InStep, FrameInOnePlace
  <2>3. Head(incoming) = Sent /\ Tail(incoming) = <<>>
    BY <1>0, <2>1, <2>2, LineFacts, EmptyLine DEF InStep
  <2>4. request = None /\ queued = None /\ serving = None /\ answer = None
    BY <1>0, <1>7 DEF InStep, RequestInOnePlace, Asked
  <2> QED
    BY <1>0, <1>7, <2>1, <2>2, <2>3, <2>4 DEF InStep, LoadFollows
<1>9. PICK s \in Nat, k \in Nat : get.data = Wrote(s, k)
  BY DEF ServerInv, ServerTypeOK, Loads, Files
<1>10. get.sent \in Nat /\ Len(get.data) = k /\ SubSeq(get.data, 1, k) = get.data
  <2>1. k \in Nat /\ k \in 0..k
    BY <1>9
  <2>2. Len(Wrote(s, k)) = k /\ SubSeq(Wrote(s, k), 1, k) = Wrote(s, k)
    BY <2>1, WroteFacts
  <2>3. get.sent \in Nat
    BY DEF ServerInv, ServerTypeOK, Loads
  <2> QED
    BY <1>9, <2>2, <2>3
<1>11. Sent.kind = "DATA" /\ Sent.pieces = <<get.data[get.sent - 1]>>
  BY <1>8, <1>10, SentFacts
<1>1. /\ cmd = "idle" /\ slot = "none" /\ linked /\ linked' /\ incoming' = <<>> /\ toServer' = Append(toServer, Ack)
      /\ request = None /\ queued = None /\ serving = None /\ answer = None /\ reply = None /\ frame = None
      /\ get.at = "waits" /\ get' = get /\ arrived = Sent /\ xfer.dir = "get" /\ ~xfer.failed
      /\ UNCHANGED <<linked, toClient, server, cmd, slot, saves, msgs>>
      /\ xfer' = [xfer EXCEPT !.data = @ \o <<get.data[get.sent - 1]>>]
  BY <1>7, <1>8, <1>11, FrameKinds DEF Read, Ready
<1>12. /\ xfer' \in Transfers /\ xfer'.dir = "get" /\ ~xfer'.failed /\ ~xfer'.ended /\ xfer'.name = xfer.name
       /\ xfer'.whole = get.data /\ xfer'.data = SubSeq(get.data, 1, get.sent - 1)
  <2> DEFINE m == get.sent - 2
  <2>1. m \in Nat /\ m + 1 = get.sent - 1 /\ m + 1 \in 1..k /\ m \in 0..k /\ m + 1 \in 0..k
    BY <1>8, <1>10
  <2> HIDE DEF m
  <2>2. get.data[m + 1] = <<s, m + 1>> /\ SubSeq(get.data, 1, m) = Wrote(s, m) /\ SubSeq(get.data, 1, m + 1) = Wrote(s, m + 1)
    BY <1>9, <2>1, WroteFacts
  <2>3. Wrote(s, m) \o <<<<s, m + 1>>>> = Wrote(s, m + 1) /\ Wrote(s, m + 1) \in Files
    BY <2>1, WroteFacts, m + 1 \in Nat DEF Files
  <2>4. xfer' = [xfer EXCEPT !.data = Wrote(s, m + 1)]
    BY <1>1, <1>8, <2>1, <2>2, <2>3 DEF m
  <2> QED
    BY <1>7, <1>8, <2>1, <2>2, <2>3, <2>4 DEF Transfers
<1>2. ServerTypeOK'
  BY <1>1, <1>12 DEF ServerInv, ServerTypeOK
<1>3. CommandFits'
  BY <1>1, <1>12 DEF ServerInv, ServerTypeOK, CommandFits, Transfers, Puts
<1>4. StoreIsWhole'
  BY <1>1 DEF ServerInv, ServerTypeOK, StoreIsWhole, Puts
<1>5. linked'
  BY <1>1 DEF ServerInv, Unlinked
<1>6. ASSUME linked' PROVE Lockstep'
  <2>7. toServer' = Line(Ack, request)
    <3>1. toServer = Line(None, None) /\ request = None
      BY <1>0, <1>1 DEF InStep
    <3>2. Append(Line(None, None), Ack) = Line(None, Ack) /\ Line(None, Ack) = Line(Ack, None)
      BY LineFacts, FrameKinds
    <3> QED
      BY <1>1, <3>1, <3>2
  <2> USE DEF InStep
  <2>2. RequestInOnePlace(request, queued, answer)'
    BY <1>1, <1>0, FrameKinds DEF ServerInv, CommandFits, RequestInOnePlace, Asked, IsRequest, Puts, Answers
  <2>3. FrameInOnePlace(Ack, frame, None)'
    BY <1>1, <1>0, FrameKinds DEF FrameInOnePlace, Sent, Answers
  <2>4. SaveFollows(answer)'
    BY <1>1, <1>0, FrameKinds, <1>12 DEF SaveFollows, RequestInOnePlace, Asked, Done, Open, ServerInv, CommandFits, ServerTypeOK, Transfers, Puts
  <2>5. LoadFollows(Ack, frame, None)'
    BY <1>1, <1>0, FrameKinds, <1>12, <1>10, <1>8 DEF LoadFollows, ServerInv, CommandFits, ServerTypeOK, Transfers
  <2>8. toServer' = Line(Ack, request) /\ incoming' = Line(None, None)
    BY <2>7, <1>1, EmptyLine
  <2>6. InStep(Ack, request, queued, answer, frame, None)'
    BY <1>1, <1>0, <2>2, <2>3, <2>4, <2>5, FrameKinds, <2>8 DEF RequestInOnePlace, FrameInOnePlace, Asked
  <2> QED
    BY <2>6 DEF Lockstep
<1> QED
  BY <1>2, <1>3, <1>4, <1>5, <1>6 DEF ServerInv

\* Read of FILE_END: what was read is the whole.
LEMMA ServerInvReadEnd ==
  ASSUME ServerInv, ~(get.sent <= Len(get.data) + 1), Read
  PROVE  ServerInv'
<1> USE DEF server, client
<1>0. PICK reply, request, queued, answer, frame, arrived :
          InStep(reply, request, queued, answer, frame, arrived)
  BY DEF ServerInv, Lockstep, Unlinked, Read
<1>7. /\ cmd = "idle" /\ slot = "none" /\ linked /\ incoming # <<>> /\ xfer.dir = "get" /\ ~xfer.failed /\ ~xfer.ended
      /\ xfer \in Transfers
  BY DEF Read, Ready, ServerInv, ServerTypeOK, CommandFits, Unlinked
<1>8. /\ request = None /\ queued = None /\ serving = None /\ answer = None /\ reply = None /\ frame = None
      /\ arrived = Sent /\ get.at = "waits" /\ Head(incoming) = Sent /\ Tail(incoming) = <<>>
      /\ get.sent > 1 /\ get.sent <= Len(get.data) + 2 /\ xfer.whole = get.data /\ xfer.data = SubSeq(get.data, 1, get.sent - 2)
  <2>1. arrived # None
    BY <1>0, <1>7, EmptyLine DEF InStep
  <2>2. arrived = Sent /\ reply = None /\ frame = None /\ get.at = "waits" /\ get.sent <= Len(get.data) + 2
    BY <1>0, <2>1, FrameKinds DEF InStep, FrameInOnePlace
  <2>3. Head(incoming) = Sent /\ Tail(incoming) = <<>>
    BY <1>0, <2>1, <2>2, LineFacts, EmptyLine DEF InStep
  <2>4. request = None /\ queued = None /\ serving = None /\ answer = None
    BY <1>0, <1>7 DEF InStep, RequestInOnePlace, Asked
  <2> QED
    BY <1>0, <1>7, <2>1, <2>2, <2>3, <2>4 DEF InStep, LoadFollows
<1>9. PICK s \in Nat, k \in Nat : get.data = Wrote(s, k)
  BY DEF ServerInv, ServerTypeOK, Loads, Files
<1>10. get.sent \in Nat /\ Len(get.data) = k /\ SubSeq(get.data, 1, k) = get.data
  <2>1. k \in Nat /\ k \in 0..k
    BY <1>9
  <2>2. Len(Wrote(s, k)) = k /\ SubSeq(Wrote(s, k), 1, k) = Wrote(s, k)
    BY <2>1, WroteFacts
  <2>3. get.sent \in Nat
    BY DEF ServerInv, ServerTypeOK, Loads
  <2> QED
    BY <1>9, <2>2, <2>3
<1>11. Sent.kind = "END"
  BY <1>8, <1>10, SentFacts
<1>1. /\ cmd = "idle" /\ slot = "none" /\ linked /\ linked' /\ incoming' = <<>> /\ toServer' = Append(toServer, Ack)
      /\ request = None /\ queued = None /\ serving = None /\ answer = None /\ reply = None /\ frame = None
      /\ get.at = "waits" /\ get' = get /\ arrived = Sent /\ xfer.dir = "get" /\ ~xfer.failed
      /\ UNCHANGED <<linked, toClient, server, cmd, slot, saves, msgs>>
      /\ xfer' = [xfer EXCEPT !.ended = TRUE]
  BY <1>7, <1>8, <1>11, FrameKinds DEF Read, Ready
<1>12. /\ xfer' \in Transfers /\ xfer'.dir = "get" /\ ~xfer'.failed /\ xfer'.ended /\ xfer'.name = xfer.name
       /\ xfer'.whole = xfer'.data
  <2>1. get.sent - 2 = k
    BY <1>8, <1>10
  <2> QED
    BY <1>1, <1>7, <1>8, <1>10, <2>1 DEF Transfers
<1>2. ServerTypeOK'
  BY <1>1, <1>12 DEF ServerInv, ServerTypeOK
<1>3. CommandFits'
  BY <1>1, <1>12 DEF ServerInv, ServerTypeOK, CommandFits, Transfers, Puts
<1>4. StoreIsWhole'
  BY <1>1 DEF ServerInv, ServerTypeOK, StoreIsWhole, Puts
<1>5. linked'
  BY <1>1 DEF ServerInv, Unlinked
<1>6. ASSUME linked' PROVE Lockstep'
  <2>7. toServer' = Line(Ack, request)
    <3>1. toServer = Line(None, None) /\ request = None
      BY <1>0, <1>1 DEF InStep
    <3>2. Append(Line(None, None), Ack) = Line(None, Ack) /\ Line(None, Ack) = Line(Ack, None)
      BY LineFacts, FrameKinds
    <3> QED
      BY <1>1, <3>1, <3>2
  <2> USE DEF InStep
  <2>2. RequestInOnePlace(request, queued, answer)'
    BY <1>1, <1>0, FrameKinds DEF ServerInv, CommandFits, RequestInOnePlace, Asked, IsRequest, Puts, Answers
  <2>3. FrameInOnePlace(Ack, frame, None)'
    BY <1>1, <1>0, FrameKinds DEF FrameInOnePlace, Sent, Answers
  <2>4. SaveFollows(answer)'
    BY <1>1, <1>0, FrameKinds, <1>12 DEF SaveFollows, RequestInOnePlace, Asked, Done, Open, ServerInv, CommandFits, ServerTypeOK, Transfers, Puts
  <2>5. LoadFollows(Ack, frame, None)'
    BY <1>1, <1>0, FrameKinds, <1>12, <1>10, <1>8 DEF LoadFollows, ServerInv, CommandFits, ServerTypeOK, Transfers
  <2>8. toServer' = Line(Ack, request) /\ incoming' = Line(None, None)
    BY <2>7, <1>1, EmptyLine
  <2>6. InStep(Ack, request, queued, answer, frame, None)'
    BY <1>1, <1>0, <2>2, <2>3, <2>4, <2>5, FrameKinds, <2>8 DEF RequestInOnePlace, FrameInOnePlace, Asked
  <2> QED
    BY <2>6 DEF Lockstep
<1> QED
  BY <1>2, <1>3, <1>4, <1>5, <1>6 DEF ServerInv

\* ClientOnFrame: the answer the command waits for.
LEMMA ServerInvOnAnswer ==
  ASSUME ServerInv, NEW reply, NEW request, NEW queued, NEW answer, NEW frame, NEW arrived,
         InStep(reply, request, queued, answer, frame, arrived), linked,
         answer # None, ClientOnFrame
  PROVE  ServerInv'
<1> USE DEF server, client
<1>0. InStep(reply, request, queued, answer, frame, arrived)
  OBVIOUS
<1>7. /\ cmd # "idle" /\ slot = "none" /\ answer \in Answers /\ request = None /\ queued = None /\ serving = None
  BY <1>0 DEF InStep, RequestInOnePlace, Asked
<1>8. /\ Head(toClient) = answer /\ toClient' = Line(None, frame) /\ slot' = answer.kind
      /\ UNCHANGED <<linked, toServer, server, incoming, cmd, xfer, saves, msgs>>
  <2>1. Head(toClient) = answer /\ Tail(toClient) = Line(None, frame)
    BY <1>0, <1>7, LineFacts DEF InStep
  <2> QED
    BY <1>7, <2>1 DEF ClientOnFrame, Answers
<1>1. /\ cmd # "idle" /\ slot = "none" /\ slot' \in {"ACK", "ERR"} /\ (slot' = "ACK" <=> answer = Ack) /\ linked /\ linked'
      /\ toClient' = Line(None, frame) /\ request = None /\ queued = None /\ serving = None
      /\ UNCHANGED <<linked, toServer, server, incoming, cmd, xfer, saves, msgs>>
  BY <1>7, <1>8, FrameKinds DEF Answers
<1>2. ServerTypeOK'
  BY <1>1 DEF ServerInv, ServerTypeOK
<1>3. CommandFits'
  BY <1>1 DEF ServerInv, ServerTypeOK, CommandFits, Transfers, Puts
<1>4. StoreIsWhole'
  BY <1>1 DEF ServerInv, ServerTypeOK, StoreIsWhole, Puts
<1>5. linked'
  BY <1>1 DEF ServerInv, Unlinked
<1>6. ASSUME linked' PROVE Lockstep'
  <2> USE DEF InStep
  <2>2. RequestInOnePlace(request, queued, None)'
    BY <1>1, <1>0, FrameKinds DEF ServerInv, CommandFits, RequestInOnePlace, Asked, IsRequest, Puts, Answers, Done, Open
  <2>3. FrameInOnePlace(reply, frame, arrived)'
    BY <1>1, <1>0 DEF FrameInOnePlace, Sent
  <2>4. SaveFollows(None)'
    BY <1>1, <1>0, FrameKinds DEF SaveFollows, RequestInOnePlace, Asked, Done, Open, ServerInv, CommandFits, ServerTypeOK, Transfers, Puts, Answers
  <2>5. LoadFollows(reply, frame, arrived)'
    BY <1>1, <1>0, FrameKinds DEF LoadFollows, ServerInv, CommandFits, ServerTypeOK, Transfers, InStep
  <2>6. InStep(reply, request, queued, None, frame, arrived)'
    BY <1>1, <1>0, <2>2, <2>3, <2>4, <2>5, FrameKinds DEF RequestInOnePlace, FrameInOnePlace, Asked
  <2> QED
    BY <2>6 DEF Lockstep
<1> QED
  BY <1>2, <1>3, <1>4, <1>5, <1>6 DEF ServerInv

\* ClientOnFrame: the next frame of the file.
LEMMA ServerInvOnFrame ==
  ASSUME ServerInv, NEW reply, NEW request, NEW queued, NEW answer, NEW frame, NEW arrived,
         InStep(reply, request, queued, answer, frame, arrived), linked,
         answer = None, ClientOnFrame
  PROVE  ServerInv'
<1> USE DEF server, client
<1>0. InStep(reply, request, queued, answer, frame, arrived)
  OBVIOUS
<1>7. /\ frame = Sent /\ frame # None /\ arrived = None /\ reply = None /\ get.at = "waits"
  <2>1. frame # None
    BY <1>0, EmptyLine DEF InStep, ClientOnFrame
  <2> QED
    BY <1>0, <2>1 DEF InStep, FrameInOnePlace
<1>8. /\ toClient' = Line(answer, None) /\ incoming' = Line(frame, None)
      /\ UNCHANGED <<linked, toServer, server, slot, cmd, xfer, saves, msgs>>
  <2>1. Head(toClient) = frame /\ Tail(toClient) = Line(answer, None)
    BY <1>0, <1>7, LineFacts DEF InStep
  <2>2. frame \notin {Ack, Err}
    BY <1>7, SentFacts DEF Answers
  <2>3. Append(incoming, frame) = Line(frame, None)
    <3>1. incoming = Line(None, None)
      BY <1>0, <1>7 DEF InStep
    <3>2. Append(Line(None, None), frame) = Line(None, frame) /\ Line(None, frame) = Line(frame, None)
      BY <1>7, LineFacts
    <3> QED
      BY <3>1, <3>2
  <2> QED
    BY <2>1, <2>2, <2>3 DEF ClientOnFrame
<1>1. /\ frame = Sent /\ frame # None /\ arrived = None /\ reply = None /\ get.at = "waits" /\ linked' /\ get' = get
      /\ toClient' = Line(answer, None) /\ incoming' = Line(frame, None)
      /\ UNCHANGED <<linked, toServer, server, slot, cmd, xfer, saves, msgs>>
  BY <1>7, <1>8, FrameKinds DEF ServerInv
<1>2. ServerTypeOK'
  BY <1>1 DEF ServerInv, ServerTypeOK
<1>3. CommandFits'
  BY <1>1 DEF ServerInv, ServerTypeOK, CommandFits, Transfers, Puts
<1>4. StoreIsWhole'
  BY <1>1 DEF ServerInv, ServerTypeOK, StoreIsWhole, Puts
<1>5. linked'
  BY <1>1 DEF ServerInv, Unlinked
<1>6. ASSUME linked' PROVE Lockstep'
  <2> USE DEF InStep
  <2>2. RequestInOnePlace(request, queued, answer)'
    BY <1>1, <1>0, FrameKinds DEF ServerInv, CommandFits, RequestInOnePlace, Asked, IsRequest, Puts, Answers, Done, Open
  <2>3. FrameInOnePlace(reply, None, frame)'
    BY <1>1, <1>0 DEF FrameInOnePlace, Sent
  <2>4. SaveFollows(answer)'
    BY <1>1, <1>0, FrameKinds DEF SaveFollows, RequestInOnePlace, Asked, Done, Open, ServerInv, CommandFits, ServerTypeOK, Transfers, Puts
  <2>5. LoadFollows(reply, None, frame)'
    BY <1>1, <1>0, FrameKinds DEF LoadFollows, ServerInv, CommandFits, ServerTypeOK, Transfers, InStep
  <2>6. InStep(reply, request, queued, answer, None, frame)'
    BY <1>1, <1>0, <2>2, <2>3, <2>4, <2>5, FrameKinds DEF RequestInOnePlace, FrameInOnePlace, Asked
  <2> QED
    BY <2>6 DEF Lockstep
<1> QED
  BY <1>2, <1>3, <1>4, <1>5, <1>6 DEF ServerInv

\* ServerOnFrame: the client has answered a frame of the file.
LEMMA ServerInvOnReply ==
  ASSUME ServerInv, NEW reply, NEW request, NEW queued, NEW answer, NEW frame, NEW arrived,
         InStep(reply, request, queued, answer, frame, arrived), linked,
         reply # None, ServerOnFrame
  PROVE  ServerInv'
<1> USE DEF server, client
<1>0. InStep(reply, request, queued, answer, frame, arrived)
  OBVIOUS
<1>7. /\ get.at = "waits" /\ frame = None /\ arrived = None /\ serving = None /\ reply \in Answers /\ get \in Loads
  BY <1>0 DEF InStep, FrameInOnePlace, RequestInOnePlace, ServerInv, ServerTypeOK
<1>8. /\ toServer' = Line(None, request) /\ get' = IF reply = Ack THEN [get EXCEPT !.at = "next"] ELSE NoGet
      /\ UNCHANGED <<linked, toClient, toServe, serving, put, store, inbox, client>>
  <2>1. Head(toServer) = reply /\ Tail(toServer) = Line(None, request)
    BY <1>0, <1>7, LineFacts DEF InStep
  <2> QED
    BY <1>7, <2>1 DEF ServerOnFrame, Answers
<1>9. /\ get' \in Loads
      /\ reply = Ack => get'.at = "next" /\ get'.data = get.data /\ get'.sent = get.sent
      /\ reply # Ack => reply = Err /\ get'.at = "none"
  BY <1>7, <1>8, EmptyIsAFile DEF Loads, NoGet, Answers
<1>1. /\ get.at = "waits" /\ frame = None /\ arrived = None /\ serving = None /\ get' \in Loads /\ linked'
      /\ reply = Ack => get'.at = "next" /\ get'.data = get.data /\ get'.sent = get.sent
      /\ reply # Ack => reply = Err /\ get'.at = "none"
      /\ toServer' = Line(None, request)
      /\ UNCHANGED <<linked, toClient, toServe, serving, put, store, inbox, client>>
  BY <1>7, <1>8, <1>9, FrameKinds DEF ServerInv
<1>2. ServerTypeOK'
  BY <1>1 DEF ServerInv, ServerTypeOK
<1>3. CommandFits'
  BY <1>1 DEF ServerInv, ServerTypeOK, CommandFits, Transfers, Puts
<1>4. StoreIsWhole'
  BY <1>1 DEF ServerInv, ServerTypeOK, StoreIsWhole, Puts
<1>5. linked'
  BY <1>1 DEF ServerInv, Unlinked
<1>6. ASSUME linked' PROVE Lockstep'
  <2> USE DEF InStep
  <2>2. RequestInOnePlace(request, queued, answer)'
    BY <1>1, <1>0, FrameKinds DEF ServerInv, CommandFits, RequestInOnePlace, Asked, IsRequest, Puts, Answers, Done, Open, LoadFollows, InStep
  <2>3. FrameInOnePlace(None, frame, arrived)'
    BY <1>1, <1>0, FrameKinds DEF FrameInOnePlace, Sent
  <2>4. SaveFollows(answer)'
    BY <1>1, <1>0, FrameKinds DEF SaveFollows, RequestInOnePlace, Asked, Done, Open, ServerInv, CommandFits, ServerTypeOK, Transfers, Puts
  <2>5. LoadFollows(None, frame, arrived)'
    BY <1>1, <1>0, FrameKinds DEF LoadFollows, ServerInv, CommandFits, ServerTypeOK, Transfers
  <2>6. InStep(None, request, queued, answer, frame, arrived)'
    BY <1>1, <1>0, <2>2, <2>3, <2>4, <2>5, FrameKinds DEF RequestInOnePlace, FrameInOnePlace, Asked
  <2> QED
    BY <2>6 DEF Lockstep
<1> QED
  BY <1>2, <1>3, <1>4, <1>5, <1>6 DEF ServerInv

\* ServerOnFrame: a request, for the server thread.
LEMMA ServerInvOnRequest ==
  ASSUME ServerInv, NEW reply, NEW request, NEW queued, NEW answer, NEW frame, NEW arrived,
         InStep(reply, request, queued, answer, frame, arrived), linked,
         reply = None, ServerOnFrame
  PROVE  ServerInv'
<1> USE DEF server, client
<1>0. InStep(reply, request, queued, answer, frame, arrived)
  OBVIOUS
<1>7. /\ cmd # "idle" /\ slot = "none" /\ IsRequest(request) /\ queued = None /\ serving = None /\ answer = None
      /\ request # None /\ request \notin {Ack, Err}
  <2>1. request # None
    BY <1>0, EmptyLine DEF InStep, ServerOnFrame
  <2>2. cmd # "idle" /\ slot = "none" /\ IsRequest(request) /\ queued = None /\ serving = None /\ answer = None
    BY <1>0, <2>1 DEF InStep, RequestInOnePlace, Asked
  <2>3. cmd \in Commands
    BY <2>2 DEF ServerInv, ServerTypeOK
  <2> QED
    BY <2>1, <2>2, <2>3, FrameKinds DEF IsRequest, Commands, Puts
<1>8. /\ toServer' = Line(reply, None) /\ toServe' = Line(request, None) /\ get' = get
      /\ UNCHANGED <<linked, toClient, serving, put, store, inbox, client>>
  <2>1. Head(toServer) = request /\ Tail(toServer) = Line(reply, None)
    BY <1>0, <1>7, LineFacts DEF InStep
  <2>2. Append(toServe, request) = Line(request, None)
    <3>1. toServe = Line(None, None)
      BY <1>0, <1>7 DEF InStep
    <3>2. Append(Line(None, None), request) = Line(None, request) /\ Line(None, request) = Line(request, None)
      BY <1>7, LineFacts
    <3> QED
      BY <3>1, <3>2
  <2> QED
    BY <1>7, <2>1, <2>2 DEF ServerOnFrame
<1>1. /\ cmd # "idle" /\ slot = "none" /\ linked' /\ IsRequest(request) /\ queued = None /\ serving = None /\ answer = None /\ request # None
      /\ toServer' = Line(reply, None) /\ toServe' = Line(request, None) /\ get' = get
      /\ UNCHANGED <<linked, toClient, serving, put, store, inbox, client>>
  BY <1>7, <1>8, FrameKinds DEF ServerInv
<1>2. ServerTypeOK'
  BY <1>1 DEF ServerInv, ServerTypeOK
<1>3. CommandFits'
  BY <1>1 DEF ServerInv, ServerTypeOK, CommandFits, Transfers, Puts
<1>4. StoreIsWhole'
  BY <1>1 DEF ServerInv, ServerTypeOK, StoreIsWhole, Puts
<1>5. linked'
  BY <1>1 DEF ServerInv, Unlinked
<1>6. ASSUME linked' PROVE Lockstep'
  <2> USE DEF InStep
  <2>2. RequestInOnePlace(None, request, answer)'
    BY <1>1, <1>0, FrameKinds DEF ServerInv, CommandFits, RequestInOnePlace, Asked, IsRequest, Puts, Answers
  <2>3. FrameInOnePlace(reply, frame, arrived)'
    BY <1>1, <1>0 DEF FrameInOnePlace, Sent
  <2>4. SaveFollows(answer)'
    BY <1>1, <1>0, FrameKinds DEF SaveFollows, RequestInOnePlace, Asked, Done, Open, ServerInv, CommandFits, ServerTypeOK, Transfers, Puts
  <2>5. LoadFollows(reply, frame, arrived)'
    BY <1>1, <1>0, FrameKinds DEF LoadFollows, ServerInv, CommandFits, ServerTypeOK, Transfers
  <2>6. InStep(reply, None, request, answer, frame, arrived)'
    BY <1>1, <1>0, <2>2, <2>3, <2>4, <2>5, FrameKinds DEF RequestInOnePlace, FrameInOnePlace, Asked
  <2> QED
    BY <2>6 DEF Lockstep
<1> QED
  BY <1>2, <1>3, <1>4, <1>5, <1>6 DEF ServerInv

\* Take: the server thread has the request.
LEMMA ServerInvTake ==
  ASSUME ServerInv, NEW reply, NEW request, NEW queued, NEW answer, NEW frame, NEW arrived,
         InStep(reply, request, queued, answer, frame, arrived), linked,
         Take
  PROVE  ServerInv'
<1> USE DEF server, client
<1>0. InStep(reply, request, queued, answer, frame, arrived)
  OBVIOUS
<1>7. /\ cmd # "idle" /\ slot = "none" /\ IsRequest(queued) /\ request = None /\ answer = None /\ queued # None
  <2>1. queued # None
    BY <1>0, EmptyLine DEF InStep, Take
  <2> QED
    BY <1>0, <2>1 DEF InStep, RequestInOnePlace, Asked
<1>8. /\ get.at = "none" /\ toServe' = Line(None, None) /\ serving' = queued
      /\ UNCHANGED <<linked, toServer, toClient, put, get, store, inbox, client>>
  <2>1. Head(toServe) = queued /\ Tail(toServe) = Line(None, None)
    BY <1>0, <1>7, LineFacts DEF InStep
  <2> QED
    BY <2>1 DEF Take
<1>1. /\ cmd # "idle" /\ slot = "none" /\ linked' /\ IsRequest(queued) /\ request = None /\ answer = None /\ queued # None
      /\ get.at = "none" /\ toServe' = Line(None, None) /\ serving' = queued
      /\ UNCHANGED <<linked, toServer, toClient, put, get, store, inbox, client>>
  BY <1>7, <1>8, FrameKinds DEF ServerInv
<1>2. ServerTypeOK'
  BY <1>1 DEF ServerInv, ServerTypeOK
<1>3. CommandFits'
  BY <1>1 DEF ServerInv, ServerTypeOK, CommandFits, Transfers, Puts
<1>4. StoreIsWhole'
  BY <1>1 DEF ServerInv, ServerTypeOK, StoreIsWhole, Puts, CommandFits, IsRequest
<1>5. linked'
  BY <1>1 DEF ServerInv, Unlinked
<1>6. ASSUME linked' PROVE Lockstep'
  <2> USE DEF InStep
  <2>2. RequestInOnePlace(request, None, answer)'
    BY <1>1, <1>0, FrameKinds DEF ServerInv, CommandFits, RequestInOnePlace, Asked, IsRequest, Puts, Answers
  <2>3. FrameInOnePlace(reply, frame, arrived)'
    BY <1>1, <1>0 DEF FrameInOnePlace, Sent
  <2>4. SaveFollows(answer)'
    BY <1>1, <1>0, FrameKinds DEF SaveFollows, RequestInOnePlace, Asked, Done, Open, ServerInv, CommandFits, ServerTypeOK, Transfers, Puts
  <2>5. LoadFollows(reply, frame, arrived)'
    BY <1>1, <1>0, FrameKinds DEF LoadFollows, ServerInv, CommandFits, ServerTypeOK, Transfers
  <2>6. InStep(reply, request, None, answer, frame, arrived)'
    BY <1>1, <1>0, <2>2, <2>3, <2>4, <2>5, FrameKinds DEF RequestInOnePlace, FrameInOnePlace, Asked
  <2> QED
    BY <2>6 DEF Lockstep
<1> QED
  BY <1>2, <1>3, <1>4, <1>5, <1>6 DEF ServerInv

Serves == ServePut \/ ServeData \/ ServeEnd \/ ServeAbort \/ ServeMsg \/ ServeGet

\* What the thread serves after its link has gone: nobody is told, and
\* only a save without data can be left open.
LEMMA ServerInvServesNobody ==
  ASSUME ServerInv, ~linked, Serves
  PROVE  ServerInv'
<1>1. /\ serving.kind \in Commands /\ serving # None /\ ~put.active /\ serving' = None /\ toClient' = toClient
      /\ get' = get /\ UNCHANGED <<linked, toServer, toServe, client>>
  <2>1. serving.kind \in Commands
    BY DEF Serves, ServePut, ServeData, ServeEnd, ServeAbort, ServeMsg, ServeGet, Commands, Puts
  <2>2. serving # None
    BY <2>1, FrameKinds DEF Commands, Puts
  <2>3. ~put.active
    BY <2>2 DEF ServerInv, Unlinked
  <2>4. /\ serving' = None /\ toClient' = toClient /\ get' = get
        /\ UNCHANGED <<linked, toServer, toServe, client>>
    BY DEF Serves, ServePut, ServeData, ServeEnd, ServeAbort, ServeMsg, ServeGet, Served, Answer
  <2> QED
    BY <2>1, <2>2, <2>3, <2>4
<1>2. put' \in Saves /\ (put' = put \/ ~put'.active \/ (put' = Begun(serving) /\ serving.kind \in Puts))
  <2>1. put' = put \/ put' = [put EXCEPT !.active = FALSE] \/ (put' = Begun(serving) /\ serving.kind \in Puts)
    BY <1>1 DEF Serves, ServePut, ServeData, ServeEnd, ServeAbort, ServeMsg, ServeGet, Puts
  <2>2. put \in Saves
    BY DEF ServerInv, ServerTypeOK
  <2>3. serving.kind \in Puts => serving.name \in Names0 /\ serving.size \in Nat
    BY DEF ServerInv, StoreIsWhole, Names0
  <2>4. CASE put' = put
    BY <2>2, <2>4
  <2>5. CASE put' = [put EXCEPT !.active = FALSE]
    BY <2>2, <2>5 DEF Saves
  <2>6. CASE put' = Begun(serving) /\ serving.kind \in Puts
    <3>1. Begun(serving) \in Saves
      BY <2>3, <2>6, EmptyIsAFile DEF Saves, Begun
    <3> QED
      BY <2>6, <3>1
  <2> QED
    BY <2>1, <2>4, <2>5, <2>6
<1>3. store' = store
  BY <1>1 DEF Serves, ServePut, ServeData, ServeEnd, ServeAbort, ServeMsg, ServeGet
<1>4. IsSeq(inbox')
  <2>1. CASE inbox' = inbox
    BY <2>1 DEF ServerInv, ServerTypeOK
  <2>2. CASE inbox' = inbox \o serving.pieces /\ serving.kind = "MSG"
    BY <2>2, InboxGrows DEF ServerInv, ServerTypeOK, StoreIsWhole
  <2> QED
    BY <2>1, <2>2 DEF Serves, ServePut, ServeData, ServeEnd, ServeAbort, ServeMsg, ServeGet
<1>5. ServerTypeOK'
  BY <1>1, <1>2, <1>3, <1>4 DEF ServerInv, ServerTypeOK, client
<1>6. CommandFits'
  BY <1>1 DEF ServerInv, CommandFits, client
<1>7. StoreIsWhole'
  <2>1. serving'.kind \notin Puts \cup {"GET", "MSG"}
    BY <1>1, FrameKinds DEF Puts
  <2>2. put' = Begun(serving) /\ serving.kind \in Puts => put'.name \in Names /\ put'.data \in Wholes
    <3>1. serving.kind \in Puts => serving.name \in Names /\ saves \in 1..MaxSaves
      BY DEF ServerInv, ServerTypeOK, StoreIsWhole
    <3>2. saves \in 1..MaxSaves => <<>> \in Wholes
      <4>1. Wrote(saves, 0) = <<>>
        BY WroteFacts
      <4> QED
        BY <4>1 DEF Wholes
    <3> QED
      BY <3>1, <3>2 DEF Begun
  <2> QED
    BY <1>1, <1>2, <1>3, <2>1, <2>2 DEF ServerInv, StoreIsWhole
<1>8. Unlinked'
  BY <1>1 DEF ServerInv, Unlinked, client
<1> QED
  BY <1>1, <1>5, <1>6, <1>7, <1>8 DEF ServerInv

\* What the thread serves on its link is the client's request, and nothing
\* else is on its way.
LEMMA ServingFacts ==
  ASSUME ServerInv, linked, serving.kind \in Commands
  PROVE  /\ InStep(None, None, None, None, None, None) /\ IsRequest(serving)
         /\ serving.kind = cmd /\ cmd # "idle" /\ slot = "none" /\ get.at = "none"
<1>0. PICK reply, request, queued, answer, frame, arrived :
          InStep(reply, request, queued, answer, frame, arrived)
  BY DEF ServerInv, Lockstep
<1>1. serving # None
  BY FrameKinds DEF Commands, Puts
<1>2. cmd # "idle" /\ slot = "none" /\ request = None /\ queued = None /\ answer = None /\ IsRequest(serving) /\ get.at = "none"
  BY <1>0, <1>1 DEF InStep, RequestInOnePlace, Asked
<1>3. reply = None /\ frame = None /\ arrived = None
  BY <1>0, <1>2 DEF InStep, FrameInOnePlace
<1> QED
  BY <1>0, <1>2, <1>3 DEF IsRequest

\* ServePut: a save begins, or is refused.
LEMMA ServerInvServePut ==
  ASSUME ServerInv, linked, ServePut
  PROVE  ServerInv'
<1> USE DEF server, client
<1>0. /\ InStep(None, None, None, None, None, None) /\ IsRequest(serving)
      /\ serving.kind = cmd /\ cmd # "idle" /\ slot = "none" /\ get.at = "none"
  BY ServingFacts DEF ServePut, Commands, Puts
<1>8. PICK a \in Answers : /\ toClient' = Line(a, None) /\ serving' = None
          /\ serving.kind \in Puts /\ UNCHANGED <<linked, toServer, toServe, get, store, inbox, client>>
          /\ put' = IF a = Ack THEN Begun(serving) ELSE put
  <2>1. \A a \in Answers : Answer(a) => toClient' = Line(a, None)
    <3> TAKE a \in Answers
    <3>1. a # None /\ toClient = Line(None, None)
      BY <1>0, FrameKinds DEF InStep, Answers
    <3>2. Append(Line(None, None), a) = Line(None, a) /\ Line(None, a) = Line(a, None)
      BY <3>1, LineFacts
    <3> QED
      BY <3>1, <3>2 DEF Answer
  <2> QED
    BY <2>1, FrameKinds DEF ServePut, Served, Puts
<1>1. /\ cmd # "idle" /\ slot = "none" /\ linked /\ linked' /\ get.at = "none" /\ a \in Answers
      /\ serving.kind = cmd /\ serving' = None /\ serving'.kind = "NONE" /\ cmd \in Puts
      /\ toClient' = Line(a, None)
      /\ put' = IF a = Ack THEN Begun(serving) ELSE put
      /\ UNCHANGED <<linked, toServer, toServe, store, inbox, get, client>>
  BY <1>0, <1>8, FrameKinds DEF IsRequest, Puts
<1>9. a # Ack => put' = put
  BY <1>1
<1>10. a = Ack => /\ put' \in Saves /\ put'.name \in Names /\ put'.name = xfer.name /\ put'.active
                  /\ put'.data \in Wholes /\ put'.data = Wrote(saves, 0)
  <2>1. serving.name \in Names /\ serving.name = xfer.name /\ serving.size \in Nat /\ saves \in 1..MaxSaves
    BY <1>0, <1>1 DEF ServerInv, ServerTypeOK, StoreIsWhole, IsRequest
  <2>2. <<>> = Wrote(saves, 0)
    BY WroteFacts
  <2>3. <<>> \in Wholes /\ <<>> \in Files
    BY <2>1, <2>2, EmptyIsAFile DEF Wholes
  <2> QED
    BY <1>1, <2>1, <2>2, <2>3 DEF Begun, Saves, Names0
<1>2. ServerTypeOK'
  BY <1>1, <1>9, <1>10 DEF ServerInv, ServerTypeOK
<1>3. CommandFits'
  BY <1>1 DEF ServerInv, ServerTypeOK, CommandFits, Transfers, Puts
<1>4. StoreIsWhole'
  BY <1>1, <1>9, <1>10 DEF ServerInv, ServerTypeOK, StoreIsWhole, Puts
<1>5. linked'
  BY <1>1 DEF ServerInv, Unlinked
<1>6. ASSUME linked' PROVE Lockstep'
  <2> USE DEF InStep
  <2>2. RequestInOnePlace(None, None, a)'
    BY <1>1, <1>0, FrameKinds, <1>9, <1>10 DEF ServerInv, CommandFits, RequestInOnePlace, Asked, IsRequest, Puts, Answers, Done, Open
  <2>3. FrameInOnePlace(None, None, None)'
    BY <1>1, <1>0 DEF FrameInOnePlace, Sent
  <2>4. SaveFollows(a)'
    BY <1>1, <1>0, FrameKinds, <1>9, <1>10 DEF SaveFollows, RequestInOnePlace, Asked, Done, Open, ServerInv, CommandFits, ServerTypeOK, Transfers, Puts
  <2>5. LoadFollows(None, None, None)'
    BY <1>1, <1>0, FrameKinds DEF LoadFollows, ServerInv, CommandFits, ServerTypeOK, Transfers, InStep
  <2>6. InStep(None, None, None, a, None, None)'
    BY <1>1, <1>0, <2>2, <2>3, <2>4, <2>5, FrameKinds DEF RequestInOnePlace, FrameInOnePlace, Asked
  <2> QED
    BY <2>6 DEF Lockstep
<1> QED
  BY <1>2, <1>3, <1>4, <1>5, <1>6 DEF ServerInv

\* ServeData: the frame joins the save.
LEMMA ServerInvServeData ==
  ASSUME ServerInv, linked, ServeData
  PROVE  ServerInv'
<1> USE DEF server, client
<1>0. /\ InStep(None, None, None, None, None, None) /\ IsRequest(serving)
      /\ serving.kind = cmd /\ cmd # "idle" /\ slot = "none" /\ get.at = "none"
  BY ServingFacts DEF ServeData, Commands, Puts
<1>7. PICK n \in Nat : /\ xfer.data = Wrote(saves, n + 1) /\ Len(xfer.data) = n + 1 /\ put.data = Wrote(saves, n)
                        /\ put.active /\ put.name = xfer.name /\ saves \in 1..MaxSaves
  <2>1. cmd = "DATA" /\ xfer.dir = "put" /\ Open(Len(xfer.data) - 1)
    BY <1>0 DEF ServeData, InStep, SaveFollows, Asked, ServerInv, CommandFits
  <2>2. PICK m \in Nat : xfer.data = Wrote(saves, m) /\ m > 0
    BY <2>1 DEF ServerInv, CommandFits
  <2>3. saves \in 1..MaxSaves /\ Len(xfer.data) = m
    <3>1. saves \in 1..MaxSaves
      BY <2>1 DEF ServerInv, ServerTypeOK, CommandFits
    <3>2. Len(Wrote(saves, m)) = m
      BY <2>2, WroteFacts
    <3> QED
      BY <2>2, <3>1, <3>2
  <2>4. m - 1 \in Nat /\ (m - 1) + 1 = m
    BY <2>2
  <2> QED
    BY <2>1, <2>2, <2>3, <2>4 DEF Open
<1>9. /\ xfer.data = Wrote(saves, n + 1) /\ Len(xfer.data) = n + 1 /\ put.data \o serving.pieces = Wrote(saves, n + 1)
      /\ Wrote(saves, n + 1) \in Files /\ Wrote(saves, n + 1) \in Wholes /\ put.active
  <2>1. serving.pieces = <<<<saves, n + 1>>>>
    BY <1>0, <1>7 DEF ServeData, IsRequest
  <2>2. Wrote(saves, n) \o <<<<saves, n + 1>>>> = Wrote(saves, n + 1) /\ n + 1 \in Nat
    <3>1. n \in Nat /\ n + 1 \in Nat
      BY <1>7
    <3> QED
      BY <3>1, WroteFacts
  <2>3. saves \in Nat
    BY <1>7
  <2> QED
    BY <1>7, <2>1, <2>2, <2>3 DEF Files, Wholes
<1>8. PICK a \in Answers : /\ toClient' = Line(a, None) /\ serving' = None
          /\ a = Ack /\ serving.kind = "DATA" /\ UNCHANGED <<linked, toServer, toServe, get, store, inbox, client>>
          /\ put' = [put EXCEPT !.data = Wrote(saves, n + 1)]
  <2>1. \A a \in Answers : Answer(a) => toClient' = Line(a, None)
    <3> TAKE a \in Answers
    <3>1. a # None /\ toClient = Line(None, None)
      BY <1>0, FrameKinds DEF InStep, Answers
    <3>2. Append(Line(None, None), a) = Line(None, a) /\ Line(None, a) = Line(a, None)
      BY <3>1, LineFacts
    <3> QED
      BY <3>1, <3>2 DEF Answer
  <2> QED
    BY <1>9, <2>1, FrameKinds DEF ServeData, Served
<1>1. /\ cmd # "idle" /\ slot = "none" /\ linked /\ linked' /\ get.at = "none" /\ a \in Answers
      /\ serving.kind = cmd /\ serving' = None /\ serving'.kind = "NONE" /\ cmd = "DATA" /\ a = Ack
      /\ toClient' = Line(a, None)
      /\ put' = [put EXCEPT !.data = Wrote(saves, n + 1)]
      /\ UNCHANGED <<linked, toServer, toServe, store, inbox, get, client>>
  BY <1>0, <1>8, FrameKinds DEF IsRequest, Puts
<1>10. /\ put' \in Saves /\ put'.data = Wrote(saves, n + 1) /\ put'.active /\ put'.name = xfer.name
       /\ xfer.dir = "put" /\ xfer.name \in Names
  <2>1. put \in Saves /\ xfer.dir = "put" /\ xfer.name \in Names
    BY <1>1 DEF ServerInv, ServerTypeOK, CommandFits
  <2> QED
    BY <1>1, <1>7, <1>9, <2>1 DEF Saves
<1>2. ServerTypeOK'
  BY <1>1, <1>10 DEF ServerInv, ServerTypeOK
<1>3. CommandFits'
  BY <1>1 DEF ServerInv, ServerTypeOK, CommandFits, Transfers, Puts
<1>4. StoreIsWhole'
  BY <1>1, <1>9, <1>10 DEF ServerInv, ServerTypeOK, StoreIsWhole, Puts
<1>5. linked'
  BY <1>1 DEF ServerInv, Unlinked
<1>6. ASSUME linked' PROVE Lockstep'
  <2> USE DEF InStep
  <2>2. RequestInOnePlace(None, None, a)'
    BY <1>1, <1>0, FrameKinds, <1>9, <1>10 DEF ServerInv, CommandFits, RequestInOnePlace, Asked, IsRequest, Puts, Answers, Done, Open
  <2>3. FrameInOnePlace(None, None, None)'
    BY <1>1, <1>0 DEF FrameInOnePlace, Sent
  <2>4. SaveFollows(a)'
    BY <1>1, <1>0, FrameKinds, <1>9, <1>10 DEF SaveFollows, RequestInOnePlace, Asked, Done, Open, ServerInv, CommandFits, ServerTypeOK, Transfers, Puts
  <2>5. LoadFollows(None, None, None)'
    BY <1>1, <1>0, FrameKinds DEF LoadFollows, ServerInv, CommandFits, ServerTypeOK, Transfers, InStep
  <2>6. InStep(None, None, None, a, None, None)'
    BY <1>1, <1>0, <2>2, <2>3, <2>4, <2>5, FrameKinds DEF RequestInOnePlace, FrameInOnePlace, Asked
  <2> QED
    BY <2>6 DEF Lockstep
<1> QED
  BY <1>2, <1>3, <1>4, <1>5, <1>6 DEF ServerInv

\* ServeEnd: the save is over, and on disk if it is right.
LEMMA ServerInvServeEnd ==
  ASSUME ServerInv, linked, ServeEnd
  PROVE  ServerInv'
<1> USE DEF server, client
<1>0. /\ InStep(None, None, None, None, None, None) /\ IsRequest(serving)
      /\ serving.kind = cmd /\ cmd # "idle" /\ slot = "none" /\ get.at = "none"
  BY ServingFacts DEF ServeEnd, Commands, Puts
<1>8. PICK a \in Answers : /\ toClient' = Line(a, None) /\ serving' = None
          /\ serving.kind = "END" /\ UNCHANGED <<linked, toServer, toServe, get, inbox, client>>
          /\ put' = [put EXCEPT !.active = FALSE]
          /\ store' = IF a = Ack THEN [store EXCEPT ![put.name] = put.data] ELSE store
  <2>1. \A a \in Answers : Answer(a) => toClient' = Line(a, None)
    <3> TAKE a \in Answers
    <3>1. a # None /\ toClient = Line(None, None)
      BY <1>0, FrameKinds DEF InStep, Answers
    <3>2. Append(Line(None, None), a) = Line(None, a) /\ Line(None, a) = Line(a, None)
      BY <3>1, LineFacts
    <3> QED
      BY <3>1, <3>2 DEF Answer
  <2> QED
    BY <2>1, FrameKinds DEF ServeEnd, Served
<1>1. /\ cmd # "idle" /\ slot = "none" /\ linked /\ linked' /\ get.at = "none" /\ a \in Answers
      /\ serving.kind = cmd /\ serving' = None /\ serving'.kind = "NONE" /\ cmd = "END"
      /\ toClient' = Line(a, None)
      /\ put' = [put EXCEPT !.active = FALSE]
      /\ store' = IF a = Ack THEN [store EXCEPT ![put.name] = put.data] ELSE store
      /\ UNCHANGED <<linked, toServer, toServe, inbox, get, client>>
  BY <1>0, <1>8, FrameKinds DEF IsRequest, Puts
<1>9. /\ xfer.dir = "put" /\ xfer.name \in Names /\ put.name = xfer.name /\ put.data = xfer.data /\ put.data \in Wholes
      /\ DOMAIN store = Names /\ put \in Saves
  <2>1. xfer.dir = "put" /\ Open(Len(xfer.data)) /\ xfer.name \in Names /\ DOMAIN store = Names /\ put \in Saves
    BY <1>0, <1>1 DEF InStep, SaveFollows, Asked, ServerInv, ServerTypeOK, CommandFits
  <2>2. PICK n \in Nat : xfer.data = Wrote(saves, n)
    BY <2>1 DEF ServerInv, CommandFits
  <2>3. Len(Wrote(saves, n)) = n
    BY <2>2, WroteFacts
  <2> QED
    BY <2>1, <2>2, <2>3 DEF Open, ServerInv, StoreIsWhole
<1>10. /\ put' \in Saves /\ ~put'.active /\ DOMAIN store' = Names /\ (a = Ack => store'[xfer.name] = xfer.data)
       /\ \A n \in Names : store'[n] = store[n] \/ store'[n] \in Wholes
  <2>1. put' \in Saves /\ ~put'.active
    BY <1>1, <1>9 DEF Saves
  <2>2. /\ DOMAIN store' = Names /\ (a = Ack => store'[xfer.name] = xfer.data)
        /\ \A n \in Names : store'[n] = store[n] \/ store'[n] \in Wholes
    BY <1>1, <1>9
  <2> QED
    BY <2>1, <2>2
<1>2. ServerTypeOK'
  BY <1>1, <1>10 DEF ServerInv, ServerTypeOK
<1>3. CommandFits'
  BY <1>1 DEF ServerInv, ServerTypeOK, CommandFits, Transfers, Puts
<1>4. StoreIsWhole'
  BY <1>1, <1>10 DEF ServerInv, ServerTypeOK, StoreIsWhole, Puts
<1>5. linked'
  BY <1>1 DEF ServerInv, Unlinked
<1>6. ASSUME linked' PROVE Lockstep'
  <2> USE DEF InStep
  <2>2. RequestInOnePlace(None, None, a)'
    BY <1>1, <1>0, FrameKinds, <1>10 DEF ServerInv, CommandFits, RequestInOnePlace, Asked, IsRequest, Puts, Answers, Done, Open
  <2>3. FrameInOnePlace(None, None, None)'
    BY <1>1, <1>0 DEF FrameInOnePlace, Sent
  <2>4. SaveFollows(a)'
    BY <1>1, <1>0, FrameKinds, <1>9, <1>10 DEF SaveFollows, RequestInOnePlace, Asked, Done, Open, ServerInv, CommandFits, ServerTypeOK, Transfers, Puts, Answers
  <2>5. LoadFollows(None, None, None)'
    BY <1>1, <1>0, FrameKinds DEF LoadFollows, ServerInv, CommandFits, ServerTypeOK, Transfers, InStep
  <2>6. InStep(None, None, None, a, None, None)'
    BY <1>1, <1>0, <2>2, <2>3, <2>4, <2>5, FrameKinds DEF RequestInOnePlace, FrameInOnePlace, Asked
  <2> QED
    BY <2>6 DEF Lockstep
<1> QED
  BY <1>2, <1>3, <1>4, <1>5, <1>6 DEF ServerInv

\* ServeAbort: the save is over.
LEMMA ServerInvServeAbort ==
  ASSUME ServerInv, linked, ServeAbort
  PROVE  ServerInv'
<1> USE DEF server, client
<1>0. /\ InStep(None, None, None, None, None, None) /\ IsRequest(serving)
      /\ serving.kind = cmd /\ cmd # "idle" /\ slot = "none" /\ get.at = "none"
  BY ServingFacts DEF ServeAbort, Commands, Puts
<1>8. PICK a \in Answers : /\ toClient' = Line(a, None) /\ serving' = None
          /\ serving.kind = "ABORT" /\ UNCHANGED <<linked, toServer, toServe, get, store, inbox, client>>
          /\ put' = [put EXCEPT !.active = FALSE]
  <2>1. \A a \in Answers : Answer(a) => toClient' = Line(a, None)
    <3> TAKE a \in Answers
    <3>1. a # None /\ toClient = Line(None, None)
      BY <1>0, FrameKinds DEF InStep, Answers
    <3>2. Append(Line(None, None), a) = Line(None, a) /\ Line(None, a) = Line(a, None)
      BY <3>1, LineFacts
    <3> QED
      BY <3>1, <3>2 DEF Answer
  <2> QED
    BY <2>1, FrameKinds DEF ServeAbort, Served
<1>1. /\ cmd # "idle" /\ slot = "none" /\ linked /\ linked' /\ get.at = "none" /\ a \in Answers
      /\ serving.kind = cmd /\ serving' = None /\ serving'.kind = "NONE" /\ cmd = "ABORT"
      /\ toClient' = Line(a, None)
      /\ put' = [put EXCEPT !.active = FALSE]
      /\ UNCHANGED <<linked, toServer, toServe, store, inbox, get, client>>
  BY <1>0, <1>8, FrameKinds DEF IsRequest, Puts
<1>10. put' \in Saves /\ ~put'.active
  BY <1>1 DEF Saves, ServerInv, ServerTypeOK
<1>2. ServerTypeOK'
  BY <1>1, <1>10 DEF ServerInv, ServerTypeOK
<1>3. CommandFits'
  BY <1>1 DEF ServerInv, ServerTypeOK, CommandFits, Transfers, Puts
<1>4. StoreIsWhole'
  BY <1>1, <1>10 DEF ServerInv, ServerTypeOK, StoreIsWhole, Puts
<1>5. linked'
  BY <1>1 DEF ServerInv, Unlinked
<1>6. ASSUME linked' PROVE Lockstep'
  <2> USE DEF InStep
  <2>2. RequestInOnePlace(None, None, a)'
    BY <1>1, <1>0, FrameKinds, <1>10 DEF ServerInv, CommandFits, RequestInOnePlace, Asked, IsRequest, Puts, Answers, Done, Open
  <2>3. FrameInOnePlace(None, None, None)'
    BY <1>1, <1>0 DEF FrameInOnePlace, Sent
  <2>4. SaveFollows(a)'
    BY <1>1, <1>0, FrameKinds, <1>10 DEF SaveFollows, RequestInOnePlace, Asked, Done, Open, ServerInv, CommandFits, ServerTypeOK, Transfers, Puts
  <2>5. LoadFollows(None, None, None)'
    BY <1>1, <1>0, FrameKinds DEF LoadFollows, ServerInv, CommandFits, ServerTypeOK, Transfers, InStep
  <2>6. InStep(None, None, None, a, None, None)'
    BY <1>1, <1>0, <2>2, <2>3, <2>4, <2>5, FrameKinds DEF RequestInOnePlace, FrameInOnePlace, Asked
  <2> QED
    BY <2>6 DEF Lockstep
<1> QED
  BY <1>2, <1>3, <1>4, <1>5, <1>6 DEF ServerInv

\* ServeMsg: the message is in the inbox, or refused.
LEMMA ServerInvServeMsg ==
  ASSUME ServerInv, linked, ServeMsg
  PROVE  ServerInv'
<1> USE DEF server, client
<1>0. /\ InStep(None, None, None, None, None, None) /\ IsRequest(serving)
      /\ serving.kind = cmd /\ cmd # "idle" /\ slot = "none" /\ get.at = "none"
  BY ServingFacts DEF ServeMsg, Commands, Puts
<1>8. PICK a \in Answers : /\ toClient' = Line(a, None) /\ serving' = None
          /\ serving.kind = "MSG" /\ UNCHANGED <<linked, toServer, toServe, put, get, store, client>>
          /\ inbox' = IF a = Ack THEN inbox \o serving.pieces ELSE inbox
  <2>1. \A a \in Answers : Answer(a) => toClient' = Line(a, None)
    <3> TAKE a \in Answers
    <3>1. a # None /\ toClient = Line(None, None)
      BY <1>0, FrameKinds DEF InStep, Answers
    <3>2. Append(Line(None, None), a) = Line(None, a) /\ Line(None, a) = Line(a, None)
      BY <3>1, LineFacts
    <3> QED
      BY <3>1, <3>2 DEF Answer
  <2> QED
    BY <2>1, FrameKinds DEF ServeMsg, Served
<1>1. /\ cmd # "idle" /\ slot = "none" /\ linked /\ linked' /\ get.at = "none" /\ a \in Answers
      /\ serving.kind = cmd /\ serving' = None /\ serving'.kind = "NONE" /\ cmd = "MSG"
      /\ toClient' = Line(a, None)
      /\ inbox' = IF a = Ack THEN inbox \o serving.pieces ELSE inbox
      /\ UNCHANGED <<linked, toServer, toServe, put, store, get, client>>
  BY <1>0, <1>8, FrameKinds DEF IsRequest, Puts
<1>10. IsSeq(inbox') /\ (a = Ack => inbox'[Len(inbox')] = <<msgs, 0>>)
  <2>1. serving.pieces = <<<<msgs, 0>>>> /\ IsSeq(inbox)
    BY <1>0, <1>1 DEF IsRequest, ServerInv, ServerTypeOK
  <2>2. IsSeq(inbox \o <<<<msgs, 0>>>>) /\ (inbox \o <<<<msgs, 0>>>>)[Len(inbox \o <<<<msgs, 0>>>>)] = <<msgs, 0>>
    BY <2>1, InboxGrows
  <2> QED
    BY <1>1, <2>1, <2>2
<1>2. ServerTypeOK'
  BY <1>1, <1>10 DEF ServerInv, ServerTypeOK
<1>3. CommandFits'
  BY <1>1 DEF ServerInv, ServerTypeOK, CommandFits, Transfers, Puts
<1>4. StoreIsWhole'
  BY <1>1 DEF ServerInv, ServerTypeOK, StoreIsWhole, Puts
<1>5. linked'
  BY <1>1 DEF ServerInv, Unlinked
<1>6. ASSUME linked' PROVE Lockstep'
  <2> USE DEF InStep
  <2>2. RequestInOnePlace(None, None, a)'
    BY <1>1, <1>0, FrameKinds, <1>10 DEF ServerInv, CommandFits, RequestInOnePlace, Asked, IsRequest, Puts, Answers, Done, Open
  <2>3. FrameInOnePlace(None, None, None)'
    BY <1>1, <1>0 DEF FrameInOnePlace, Sent
  <2>4. SaveFollows(a)'
    BY <1>1, <1>0, FrameKinds DEF SaveFollows, RequestInOnePlace, Asked, Done, Open, ServerInv, CommandFits, ServerTypeOK, Transfers, Puts, InStep
  <2>5. LoadFollows(None, None, None)'
    BY <1>1, <1>0, FrameKinds DEF LoadFollows, ServerInv, CommandFits, ServerTypeOK, Transfers, InStep
  <2>6. InStep(None, None, None, a, None, None)'
    BY <1>1, <1>0, <2>2, <2>3, <2>4, <2>5, FrameKinds DEF RequestInOnePlace, FrameInOnePlace, Asked
  <2> QED
    BY <2>6 DEF Lockstep
<1> QED
  BY <1>2, <1>3, <1>4, <1>5, <1>6 DEF ServerInv

\* ServeGet: there is no such file.
LEMMA ServerInvGetRefusedHere ==
  ASSUME ServerInv, linked, store[serving.name] = NoFile, ServeGet
  PROVE  ServerInv'
<1> USE DEF server, client
<1>0. /\ InStep(None, None, None, None, None, None) /\ IsRequest(serving)
      /\ serving.kind = cmd /\ cmd # "idle" /\ slot = "none" /\ get.at = "none"
  BY ServingFacts DEF ServeGet, Commands, Puts
<1>8. PICK a \in Answers : /\ toClient' = Line(a, None) /\ serving' = None
          /\ serving.kind = "GET" /\ a = Err /\ UNCHANGED <<linked, toServer, toServe, put, get, store, inbox, client>>
  <2>1. \A a \in Answers : Answer(a) => toClient' = Line(a, None)
    <3> TAKE a \in Answers
    <3>1. a # None /\ toClient = Line(None, None)
      BY <1>0, FrameKinds DEF InStep, Answers
    <3>2. Append(Line(None, None), a) = Line(None, a) /\ Line(None, a) = Line(a, None)
      BY <3>1, LineFacts
    <3> QED
      BY <3>1, <3>2 DEF Answer
  <2> QED
    BY <2>1, FrameKinds DEF ServeGet, Served
<1>1. /\ cmd # "idle" /\ slot = "none" /\ linked /\ linked' /\ get.at = "none" /\ a \in Answers
      /\ serving.kind = cmd /\ serving' = None /\ serving'.kind = "NONE" /\ cmd = "GET"
      /\ toClient' = Line(a, None)
      /\ a = Err
      /\ UNCHANGED <<linked, toServer, toServe, put, store, inbox, get, client>>
  BY <1>0, <1>8, FrameKinds DEF IsRequest, Puts
<1>2. ServerTypeOK'
  BY <1>1 DEF ServerInv, ServerTypeOK
<1>3. CommandFits'
  BY <1>1 DEF ServerInv, ServerTypeOK, CommandFits, Transfers, Puts
<1>4. StoreIsWhole'
  BY <1>1 DEF ServerInv, ServerTypeOK, StoreIsWhole, Puts
<1>5. linked'
  BY <1>1 DEF ServerInv, Unlinked
<1>6. ASSUME linked' PROVE Lockstep'
  <2> USE DEF InStep
  <2>2. RequestInOnePlace(None, None, a)'
    BY <1>1, <1>0, FrameKinds DEF ServerInv, CommandFits, RequestInOnePlace, Asked, IsRequest, Puts, Answers, Done, Open
  <2>3. FrameInOnePlace(None, None, None)'
    BY <1>1, <1>0 DEF FrameInOnePlace, Sent
  <2>4. SaveFollows(a)'
    BY <1>1, <1>0, FrameKinds DEF SaveFollows, RequestInOnePlace, Asked, Done, Open, ServerInv, CommandFits, ServerTypeOK, Transfers, Puts, InStep
  <2>5. LoadFollows(None, None, None)'
    BY <1>1, <1>0, FrameKinds DEF LoadFollows, ServerInv, CommandFits, ServerTypeOK, Transfers, InStep
  <2>6. InStep(None, None, None, a, None, None)'
    BY <1>1, <1>0, <2>2, <2>3, <2>4, <2>5, FrameKinds DEF RequestInOnePlace, FrameInOnePlace, Asked
  <2> QED
    BY <2>6 DEF Lockstep
<1> QED
  BY <1>2, <1>3, <1>4, <1>5, <1>6 DEF ServerInv

\* ServeGet: the file is read, and its FILE_PUT sent after the ACK.
LEMMA ServerInvServeGet ==
  ASSUME ServerInv, linked, store[serving.name] # NoFile, ServeGet
  PROVE  ServerInv'
<1> USE DEF server, client
<1>0. /\ InStep(None, None, None, None, None, None) /\ IsRequest(serving)
      /\ serving.kind = cmd /\ cmd # "idle" /\ slot = "none" /\ get.at = "none"
  BY ServingFacts DEF ServeGet, Commands, Puts
<1>7. PICK h : h = Frame("HEADER", NoFile, 0, store[serving.name]) /\ h # None /\ toClient \o <<Ack, h>> = Line(Ack, h)
  <2>1. PICK h : h = Frame("HEADER", NoFile, 0, store[serving.name])
    OBVIOUS
  <2>2. h # None
    BY <2>1, FrameKinds
  <2>3. toClient = <<>>
    BY <1>0, EmptyLine DEF InStep
  <2>4. <<>> \o <<Ack, h>> = <<Ack, h>>
    BY <<Ack, h>> \in Seq({Ack, h}), ConcatEmptySeq
  <2> QED
    BY <2>1, <2>2, <2>3, <2>4, FrameKinds DEF Line
<1>1. /\ cmd = "GET" /\ slot = "none" /\ linked /\ linked' /\ get.at = "none" /\ serving' = None /\ serving'.kind = "NONE"
      /\ get' = [at |-> "waits", data |-> store[serving.name], sent |-> 1] /\ toClient' = Line(Ack, h)
      /\ UNCHANGED <<linked, toServer, toServe, put, store, inbox, client>>
  BY <1>0, <1>7, FrameKinds DEF ServeGet, Served
<1>9. get' \in Loads /\ get'.at = "waits" /\ get'.sent = 1 /\ Len(get'.data) \in Nat
  <2>1. serving.name \in Names
    BY <1>0 DEF ServerInv, StoreIsWhole, ServeGet
  <2>2. PICK s \in 1..MaxSaves, k \in Nat : store[serving.name] = Wrote(s, k)
    BY <2>1 DEF ServerInv, StoreIsWhole, Wholes
  <2>3. k \in Nat /\ s \in Nat
    BY <2>2
  <2>4. Len(Wrote(s, k)) = k /\ Wrote(s, k) \in Files
    <3>1. Len(Wrote(s, k)) = k
      BY <2>3, WroteFacts
    <3> QED
      BY <2>3, <3>1 DEF Files
  <2>5. store[serving.name] \in Files /\ Len(store[serving.name]) \in Nat
    BY <2>2, <2>3, <2>4
  <2> QED
    BY <1>1, <2>5 DEF Loads
<1>10. Sent' = h
  BY <1>1, <1>7 DEF Sent
<1>2. ServerTypeOK'
  BY <1>1, <1>9 DEF ServerInv, ServerTypeOK
<1>3. CommandFits'
  BY <1>1 DEF ServerInv, ServerTypeOK, CommandFits, Transfers, Puts
<1>4. StoreIsWhole'
  BY <1>1 DEF ServerInv, ServerTypeOK, StoreIsWhole, Puts
<1>5. linked'
  BY <1>1 DEF ServerInv, Unlinked
<1>6. ASSUME linked' PROVE Lockstep'
  <2> USE DEF InStep
  <2>2. RequestInOnePlace(None, None, Ack)'
    BY <1>1, <1>0, FrameKinds, <1>9 DEF ServerInv, CommandFits, RequestInOnePlace, Asked, IsRequest, Puts, Answers, Done, Open
  <2>3. FrameInOnePlace(None, h, None)'
    BY <1>1, <1>0, <1>9, <1>10, FrameKinds DEF FrameInOnePlace
  <2>4. SaveFollows(Ack)'
    BY <1>1, <1>0, FrameKinds DEF SaveFollows, RequestInOnePlace, Asked, Done, Open, ServerInv, CommandFits, ServerTypeOK, Transfers, Puts, InStep
  <2>5. LoadFollows(None, h, None)'
    BY <1>1, <1>0, FrameKinds DEF LoadFollows, ServerInv, CommandFits, ServerTypeOK, Transfers, InStep
  <2>6. InStep(None, None, None, Ack, h, None)'
    BY <1>1, <1>0, <2>2, <2>3, <2>4, <2>5, FrameKinds DEF RequestInOnePlace, FrameInOnePlace, Asked
  <2> QED
    BY <2>6 DEF Lockstep
<1> QED
  BY <1>2, <1>3, <1>4, <1>5, <1>6 DEF ServerInv

\* MsgRecv: a message leaves the inbox.
LEMMA ServerInvMsgRecv ==
  ASSUME ServerInv, MsgRecv
  PROVE  ServerInv'
<1> USE DEF server, client
<1>1. /\ inbox # <<>> /\ inbox' = Tail(inbox)
      /\ UNCHANGED <<linked, toServer, toClient, toServe, serving, put, get, store, client>>
  BY FrameKinds DEF MsgRecv
<1>7. IsSeq(inbox') /\ (inbox' # <<>> => inbox'[Len(inbox')] = inbox[Len(inbox)])
  BY <1>1, InboxShrinks DEF ServerInv, ServerTypeOK
<1>2. ServerTypeOK'
  BY <1>1, <1>7 DEF ServerInv, ServerTypeOK
<1>3. CommandFits'
  BY <1>1 DEF ServerInv, ServerTypeOK, CommandFits, Transfers, Puts
<1>4. StoreIsWhole'
  BY <1>1 DEF ServerInv, ServerTypeOK, StoreIsWhole, Puts
<1>5. ASSUME ~linked' PROVE Unlinked'
  BY <1>1, <1>5 DEF ServerInv, ServerTypeOK, CommandFits, Unlinked, Transfers, Puts
<1>6. ASSUME linked' PROVE Lockstep'
  <2>1. PICK reply, request, queued, answer, frame, arrived :
          InStep(reply, request, queued, answer, frame, arrived)
    BY <1>1, <1>6 DEF ServerInv, Lockstep
  <2> USE DEF InStep
  <2>2. RequestInOnePlace(request, queued, answer)'
    BY <1>1, <2>1, FrameKinds, <1>7 DEF ServerInv, CommandFits, RequestInOnePlace, Asked, IsRequest, Puts, Answers, Done, Open
  <2>3. FrameInOnePlace(reply, frame, arrived)'
    BY <1>1, <2>1 DEF FrameInOnePlace, Sent
  <2>4. SaveFollows(answer)'
    BY <1>1, <2>1, FrameKinds DEF SaveFollows, RequestInOnePlace, Asked, Done, Open, ServerInv, CommandFits, ServerTypeOK, Transfers, Puts
  <2>5. LoadFollows(reply, frame, arrived)'
    BY <1>1, <2>1, FrameKinds DEF LoadFollows, ServerInv, CommandFits, ServerTypeOK, Transfers, InStep
  <2>6. InStep(reply, request, queued, answer, frame, arrived)'
    BY <1>1, <2>1, <2>2, <2>3, <2>4, <2>5, FrameKinds DEF RequestInOnePlace, FrameInOnePlace, Asked
  <2> QED
    BY <2>6 DEF Lockstep
<1> QED
  BY <1>2, <1>3, <1>4, <1>5, <1>6 DEF ServerInv

\* ServeGetOn: the next piece of the file goes out, and FILE_END at its end.
LEMMA ServerInvServeGetOn ==
  ASSUME ServerInv, ServeGetOn
  PROVE  ServerInv'
<1> USE DEF server, client
<1>1. /\ linked /\ linked' /\ get.at = "next" /\ get \in Loads
      /\ UNCHANGED <<linked, toServer, toServe, serving, put, store, inbox, client>>
  BY DEF ServeGetOn, ServerInv, ServerTypeOK, Unlinked
<1>2. PICK reply, request, queued, answer, frame, arrived :
          InStep(reply, request, queued, answer, frame, arrived)
  BY <1>1 DEF ServerInv, Lockstep
<1>3. reply = None /\ frame = None /\ arrived = None /\ serving = None /\ get.sent > 0 /\ get.sent <= Len(get.data) + 2
  BY <1>1, <1>2 DEF InStep, FrameInOnePlace, RequestInOnePlace
<1>4. PICK s \in Nat, k \in Nat : get.data = Wrote(s, k)
  BY <1>1 DEF Loads, Files
<1>5. k \in Nat /\ Len(get.data) = k /\ get.sent \in Nat
  <2>1. k \in Nat /\ get.sent \in Nat
    BY <1>1, <1>4 DEF Loads
  <2>2. Len(Wrote(s, k)) = k
    BY <2>1, WroteFacts
  <2> QED
    BY <1>4, <2>1, <2>2
\* The frame, if there is one, is the one it has now sent.
<1>6. PICK next : /\ get' \in Loads /\ get'.at = IF next = None THEN "none" ELSE "waits"
                  /\ toClient' = Line(answer, next)
                  /\ next # None => /\ get'.data = get.data /\ get'.sent = get.sent + 1 /\ next = Sent'
                                    /\ get.sent <= k + 1
                  /\ next = None => get.sent = k + 2
  <2>1. toClient = Line(answer, None)
    BY <1>2, <1>3 DEF InStep
  <2>2. \A f : f # None /\ Answer(f) => toClient' = Line(answer, f)
    BY <1>1, <2>1, LineFacts DEF Answer
  <2>3. CASE /\ ChunksLeft /\ Answer(Frame("DATA", NoFile, 0, <<get.data[get.sent]>>))
             /\ get' = [get EXCEPT !.at = "waits", !.sent = @ + 1]
    <3> DEFINE f == Frame("DATA", NoFile, 0, <<get.data[get.sent]>>)
    <3>1. f # None /\ toClient' = Line(answer, f)
      BY <2>2, <2>3, FrameKinds
    <3>2. get' \in Loads /\ get'.at = "waits" /\ get'.data = get.data /\ get'.sent = get.sent + 1 /\ get.sent <= k
      <4>1. get.sent <= k /\ get.sent + 1 \in Nat
        BY <1>5, <2>3 DEF ChunksLeft
      <4>2. get' = [get EXCEPT !.at = "waits", !.sent = get.sent + 1]
        BY <2>3
      <4> QED
        BY <1>1, <4>1, <4>2 DEF Loads
    <3>3. get'.sent # 1 /\ get'.sent <= Len(get'.data) + 1 /\ get'.sent - 1 = get.sent
      BY <1>3, <1>5, <3>2
    <3>4. f = Sent'
      BY <3>2, <3>3 DEF Sent
    <3>5. get.sent <= k + 1
      BY <1>5, <3>2
    <3> QED
      BY <3>1, <3>2, <3>4, <3>5
  <2>4. CASE /\ ~ChunksLeft /\ get.sent <= Len(get.data) + 1 /\ Answer(Plain("END"))
             /\ get' = [get EXCEPT !.at = "waits", !.sent = Len(get.data) + 2]
    <3> DEFINE f == Plain("END")
    <3>1. f # None /\ toClient' = Line(answer, f)
      BY <2>2, <2>4, FrameKinds
    <3>2. get.sent = k + 1
      BY <1>5, <2>4 DEF ChunksLeft
    <3>3. get' \in Loads /\ get'.at = "waits" /\ get'.data = get.data /\ get'.sent = k + 2
      <4>1. k + 2 \in Nat /\ get' = [get EXCEPT !.at = "waits", !.sent = k + 2]
        BY <1>5, <2>4
      <4> QED
        BY <1>1, <4>1 DEF Loads
    <3>4. get'.sent = get.sent + 1 /\ get'.sent # 1 /\ ~(get'.sent <= Len(get'.data) + 1) /\ get.sent <= k + 1
      BY <1>5, <3>2, <3>3
    <3>5. f = Sent'
      BY <3>4 DEF Sent
    <3> QED
      BY <3>1, <3>3, <3>4, <3>5
  <2>5. CASE get.sent = Len(get.data) + 2 /\ get' = NoGet /\ UNCHANGED toClient
    <3>1. get' \in Loads /\ get'.at = "none"
      BY <2>5, EmptyIsAFile DEF Loads, NoGet
    <3> QED
      BY <1>5, <2>1, <2>5, <3>1
  <2> QED
    BY <2>3, <2>4, <2>5 DEF ServeGetOn
<1>7. ServerTypeOK' /\ CommandFits' /\ StoreIsWhole'
  BY <1>1, <1>6 DEF ServerInv, ServerTypeOK, CommandFits, StoreIsWhole
<1>8. InStep(None, request, queued, answer, next, None)'
  <2> USE DEF InStep
  <2>1. RequestInOnePlace(request, queued, answer)'
    BY <1>1, <1>2, <1>3, <1>6, FrameKinds DEF RequestInOnePlace, Asked, IsRequest, Done, Open
  <2>2. FrameInOnePlace(None, next, None)'
    <3>1. next # None => get'.sent > 0 /\ get'.sent <= Len(get'.data) + 2
      BY <1>3, <1>5, <1>6
    <3> QED
      BY <1>6, <3>1 DEF FrameInOnePlace
  <2>3. SaveFollows(answer)'
    BY <1>1, <1>2 DEF SaveFollows, Asked, Open
  <2>4. LoadFollows(None, next, None)'
    <3>1. xfer.dir = "get" /\ ~xfer.failed /\ ~xfer.ended =>
            xfer.whole = get.data /\ get.sent <= k + 1 /\ xfer.data = SubSeq(get.data, 1, get.sent - 1)
      BY <1>2, <1>3, <1>5 DEF LoadFollows
    <3>2. get.sent = k + 2 => ~(get.sent <= k + 1)
      BY <1>5
    <3>3. next # None => get'.sent > 1 /\ get'.sent - 2 = get.sent - 1
      BY <1>3, <1>5, <1>6
    <3> QED
      BY <1>1, <1>6, <3>1, <3>2, <3>3, FrameKinds DEF LoadFollows
  <2> QED
    BY <1>1, <1>2, <1>3, <1>6, <2>1, <2>2, <2>3, <2>4
<1> QED
  BY <1>1, <1>7, <1>8 DEF ServerInv, Lockstep

\* LinkLost: what was on its way is gone, and what waited fails.
LEMMA ServerInvLinkLost ==
  ASSUME ServerInv, LinkLost
  PROVE  ServerInv'
<1> DEFINE lost == xfer.failed \/ xfer.dir # "none"
<1>1. /\ linked' = FALSE /\ toServer' = <<>> /\ toClient' = <<>> /\ toServe' = <<>> /\ incoming' = <<>>
      /\ put' = [put EXCEPT !.active = FALSE] /\ get' = NoGet /\ slot' = IF cmd = "idle" THEN slot ELSE "GONE"
      /\ xfer' = [xfer EXCEPT !.failed = lost]
      /\ UNCHANGED <<serving, store, inbox, cmd, saves, msgs>>
  BY DEF LinkLost
<1>2. put \in Saves /\ xfer \in Transfers
  BY DEF ServerInv, ServerTypeOK
<1>3. put' \in Saves /\ ~put'.active /\ get' \in Loads /\ get'.at = "none"
  BY <1>1, <1>2, EmptyIsAFile DEF Saves, Loads, NoGet
<1>4. /\ xfer' \in Transfers /\ xfer'.dir = xfer.dir /\ xfer'.data = xfer.data /\ xfer'.name = xfer.name
      /\ xfer'.ended = xfer.ended /\ xfer'.failed = lost
  <2>1. lost \in BOOLEAN
    OBVIOUS
  <2> HIDE DEF lost
  <2> QED
    BY <1>1, <1>2, <2>1 DEF Transfers
<1>5. ServerTypeOK'
  BY <1>1, <1>3, <1>4 DEF ServerInv, ServerTypeOK
<1>6. CommandFits'
  BY <1>1, <1>4 DEF ServerInv, CommandFits
<1>7. StoreIsWhole'
  BY <1>1, <1>3 DEF ServerInv, StoreIsWhole
<1>8. Unlinked'
  BY <1>1, <1>3, <1>4 DEF Unlinked
<1> QED
  BY <1>1, <1>5, <1>6, <1>7, <1>8 DEF ServerInv

\* LinkMade: nothing is on its way, and no transfer goes on.
LEMMA ServerInvLinkMade ==
  ASSUME ServerInv, LinkMade
  PROVE  ServerInv'
<1> USE DEF server, client
<1>1. /\ ~linked /\ linked' = TRUE /\ cmd = "idle" /\ serving = None /\ inbox' = <<>>
      /\ UNCHANGED <<toServer, toClient, toServe, serving, put, get, store, client>>
  BY DEF LinkMade, Ready
<1>2. slot = "none" /\ toServer = <<>> /\ toClient = <<>> /\ toServe = <<>> /\ incoming = <<>> /\ get.at = "none"
      /\ (xfer.dir # "none" => xfer.failed)
  BY <1>1 DEF ServerInv, CommandFits, Unlinked
<1>3. ServerTypeOK'
  <2>1. IsSeq(<<>>)
    BY DEF IsSeq, Range
  <2> QED
    BY <1>1, <2>1 DEF ServerInv, ServerTypeOK
<1>4. CommandFits' /\ StoreIsWhole'
  BY <1>1 DEF ServerInv, CommandFits, StoreIsWhole
<1>5. InStep(None, None, None, None, None, None)'
  BY <1>1, <1>2, EmptyLine, FrameKinds DEF InStep, RequestInOnePlace, Asked, FrameInOnePlace, SaveFollows, LoadFollows, Puts
<1> QED
  BY <1>1, <1>3, <1>4, <1>5 DEF ServerInv, Lockstep

-----------------------------------------------------------------------------
(* The invariant, and the three properties.                                *)

LEMMA ServerInvStep == ServerInv /\ [ServerStep]_vars => ServerInv'
<1> SUFFICES ASSUME ServerInv, [ServerStep]_vars PROVE ServerInv'
  OBVIOUS
<1>1. CASE UNCHANGED vars
  <2>1. ServerTypeOK' /\ CommandFits' /\ StoreIsWhole' /\ (~linked' => Unlinked')
    BY <1>1 DEF vars, ServerInv, ServerTypeOK, CommandFits, StoreIsWhole, Unlinked
  <2>2. ASSUME linked' PROVE Lockstep'
    <3>1. PICK reply, request, queued, answer, frame, arrived :
            InStep(reply, request, queued, answer, frame, arrived)
      BY <1>1, <2>2 DEF vars, ServerInv, Lockstep
    <3> USE <1>1, <3>1 DEF vars, InStep
    <3>2. RequestInOnePlace(request, queued, answer)'
      BY DEF RequestInOnePlace, Asked, IsRequest, Done, Open
    <3>3. FrameInOnePlace(reply, frame, arrived)'
      BY DEF FrameInOnePlace, Sent
    <3>4. SaveFollows(answer)' /\ LoadFollows(reply, frame, arrived)'
      BY DEF SaveFollows, LoadFollows, Asked, Open
    <3> QED
      BY <3>2, <3>3, <3>4 DEF Lockstep
  <2> QED
    BY <2>1, <2>2 DEF ServerInv
<1>2. ASSUME NEW name \in Names, FileGet(name) PROVE ServerInv'
  BY <1>2, ServerInvFileGet
<1>3. ASSUME NEW name \in Names, NEW size \in {1, Unknown}, NEW over \in BOOLEAN, FilePut(name, size, over)
      PROVE  ServerInv'
  <2>1. size \in Nat
    BY ServerAssumption DEF Unknown
  <2> QED
    BY <1>3, <2>1, ServerInvFilePut
<1>4. ASSUME NEW abandon \in BOOLEAN, ClosePut(abandon) PROVE ServerInv'
  <2>1. CASE ~linked
    BY <1>4, <2>1, ServerInvCloseNoLink
  <2>2. CASE linked /\ (xfer.failed \/ abandon)
    BY <1>4, <2>2, ServerInvCloseAborts
  <2>3. CASE linked /\ ~(xfer.failed \/ abandon)
    BY <1>4, <2>3, ServerInvCloseEnds
  <2> QED
    BY <2>1, <2>2, <2>3
<1>5. ASSUME NEW abandon \in BOOLEAN, CloseGet(abandon) PROVE ServerInv'
  BY <1>5, ServerInvCloseGet
<1>6. ASSUME EndEnds PROVE ServerInv'
  <2>1. CASE slot # "ACK" /\ linked
    BY <1>6, <2>1, ServerInvEndRefused
  <2> QED
    BY <1>6, <2>1, ServerInvEndEnds
<1>7. ASSUME FileGetEnds PROVE ServerInv'
  BY <1>7, ServerInvGetRefused, ServerInvGetBegins
<1>8. ASSUME Read PROVE ServerInv'
  BY <1>8, ServerInvReadData, ServerInvReadEnd
<1>9. ASSUME ClientOnFrame PROVE ServerInv'
  <2>1. linked
    BY <1>9 DEF ClientOnFrame, ServerInv, Unlinked
  <2>2. PICK reply, request, queued, answer, frame, arrived :
          InStep(reply, request, queued, answer, frame, arrived)
    BY <2>1 DEF ServerInv, Lockstep
  <2> QED
    BY <1>9, <2>1, <2>2, ServerInvOnAnswer, ServerInvOnFrame
<1>10. ASSUME ServerOnFrame PROVE ServerInv'
  <2>1. linked
    BY <1>10 DEF ServerOnFrame, ServerInv, Unlinked
  <2>2. PICK reply, request, queued, answer, frame, arrived :
          InStep(reply, request, queued, answer, frame, arrived)
    BY <2>1 DEF ServerInv, Lockstep
  <2> QED
    BY <1>10, <2>1, <2>2, ServerInvOnReply, ServerInvOnRequest
<1>11. ASSUME Take PROVE ServerInv'
  <2>1. linked
    BY <1>11 DEF Take, ServerInv, Unlinked
  <2>2. PICK reply, request, queued, answer, frame, arrived :
          InStep(reply, request, queued, answer, frame, arrived)
    BY <2>1 DEF ServerInv, Lockstep
  <2> QED
    BY <1>11, <2>1, <2>2, ServerInvTake
<1>12. ASSUME Serves PROVE ServerInv'
  <2>1. CASE ~linked
    BY <1>12, <2>1, ServerInvServesNobody
  <2>2. CASE linked
    BY <1>12, <2>2, ServerInvServePut, ServerInvServeData, ServerInvServeEnd, ServerInvServeAbort, ServerInvServeMsg,
       ServerInvGetRefusedHere, ServerInvServeGet DEF Serves
  <2> QED
    BY <2>1, <2>2
<1> QED
  BY <1>1, <1>2, <1>3, <1>4, <1>5, <1>6, <1>7, <1>8, <1>9, <1>10, <1>11, <1>12,
     ServerInvFilePutEnds, ServerInvWrite, ServerInvWriteEnds, ServerInvMsgSend, ServerInvAnswerEnds,
     ServerInvMsgRecv, ServerInvServeGetOn, ServerInvLinkLost, ServerInvLinkMade
     DEF ServerStep, ClientNext, ServerNext, Serves

LEMMA ServerInvariant == ServerSpec => []ServerInv
<1>1. ServerInit => ServerInv
  BY ServerInvInit
<1>2. ServerInv /\ [ServerStep]_vars => ServerInv'
  BY ServerInvStep
<1> QED
  BY <1>1, <1>2, PTL DEF ServerSpec

\* SavesAreWhole: every file in the advertiser's directory (filesDir_) is
\* one BLSAVE's, from its first FILE_DATA to its FILE_END, whatever saves
\* were abandoned or cut by the link's going, also between the taking of a
\* frame and its serving.
THEOREM SavedFilesAreWhole == ServerSpec => []SavesAreWhole
<1>1. ServerInv => SavesAreWhole
  <2> SUFFICES ASSUME ServerInv, NEW n \in Names, store[n] # NoFile PROVE IsOfOneSave(store[n])
    BY DEF SavesAreWhole
  <2>1. PICK s \in 1..MaxSaves, k \in Nat : store[n] = Wrote(s, k)
    BY DEF ServerInv, StoreIsWhole, Wholes
  <2>2. DOMAIN Wrote(s, k) = 1..k
    BY DEF Wrote
  <2>3. Wrote(s, k) = [i \in DOMAIN Wrote(s, k) |-> <<s, i>>]
    BY <2>2 DEF Wrote
  <2> QED
    BY <2>1, <2>3 DEF IsOfOneSave
<1> QED
  BY <1>1, ServerInvariant, PTL

\* AckMeansDone: the ACK of FILE_END says that the file is on disk as it
\* was sent, and BLSEND's that the message is the newest of the inbox, or
\* has been read from it.
THEOREM AcksAreTrue == ServerSpec => AckMeansDone
<1> DEFINE Step == /\ EndEnds /\ slot = "ACK" => store[xfer.name] = xfer.data
                   /\ AnswerEnds /\ cmd = "MSG" /\ slot = "ACK" /\ inbox # <<>> => inbox[Len(inbox)] = <<msgs, 0>>
<1>1. ServerInv => Step
  <2> SUFFICES ASSUME ServerInv, slot = "ACK", cmd # "idle" PROVE Done
    BY DEF EndEnds, AnswerEnds, Done
  <2>1. linked
    BY DEF ServerInv, Unlinked
  <2> QED
    BY <2>1 DEF ServerInv, Lockstep, InStep, RequestInOnePlace
<1>2. ServerInv /\ [ServerStep]_vars => [Step]_vars
  BY <1>1
<1> QED
  BY <1>2, ServerInvariant, PTL DEF ServerSpec, AckMeansDone

\* LoadsAreWhole: a BLLOAD closed with success has read the file as the
\* advertiser had it when it was asked for.
THEOREM LoadedFilesAreWhole == ServerSpec => LoadsAreWhole
<1>1. ServerInv => (CloseGet(FALSE) /\ LoadsWhole(FALSE) => xfer.data = xfer.whole)
  BY DEF ServerInv, CommandFits, CloseGet, LoadsWhole
<1>2. ServerInv /\ [ServerStep]_vars => [CloseGet(FALSE) /\ LoadsWhole(FALSE) => xfer.data = xfer.whole]_vars
  BY <1>1
<1> QED
  BY <1>2, ServerInvariant, PTL DEF ServerSpec, LoadsAreWhole
=============================================================================
