------------------------------ MODULE LinkServer ------------------------------
(***************************************************************************)
(* The file and message server of LinkCore: an advertiser whose server     *)
(* thread serves a connector's BLSAVE, BLLOAD and BLSEND on an             *)
(* authenticated link (src/src/bus/ble_link_core.cpp: serve, serveFileGet, *)
(* and filePut, fileGet, write, read, close on the other side).            *)
(*                                                                         *)
(* The server thread's taking of a frame, with serve()'s check that the    *)
(* link is authenticated, and what it then does are separate steps: the    *)
(* link may go in between, and onLink clears putActive_ without a lock.    *)
(* The link goes for both sides at once (LinkPeers has them apart), at any *)
(* moment; a timeout of request() or receive() ends in that step too.      *)
(***************************************************************************)
EXTENDS Naturals, Sequences

CONSTANTS
  Names,      \* file names
  MaxSaves,   \* bound: saves begun in a behaviour
  MaxChunks,  \* bound: FILE_DATA frames of a file
  MaxMsgs,    \* bound: messages sent
  InboxMax,   \* kInboxMax, 8
  NoFile

ASSUME ServerAssumption ==
  /\ MaxSaves \in Nat /\ MaxChunks \in Nat \ {0} /\ MaxMsgs \in Nat /\ InboxMax \in Nat \ {0}
  /\ NoFile \notin Names

VARIABLES
  linked,    \* linked_, and authenticated
  toServer, toClient,  \* frames on their way
  toServe,   \* the server's toServe_
  serving,   \* the frame its thread has taken
  put,       \* putActive_, putName_, putSize_, putData_
  get,       \* serveFileGet: its data, the frames sent, and where it is
  store,     \* filesDir_
  inbox,     \* inbox_
  cmd,       \* what the client's command waits for
  slot,      \* the answer to it
  incoming,  \* the client's incoming_
  xfer,      \* the client's xfer_, xferFailed_, getEnded_, what it read or wrote
  saves, msgs  \* counters: they name the next save and message

vars == <<linked, toServer, toClient, toServe, serving, put, get, store, inbox,
          cmd, slot, incoming, xfer, saves, msgs>>
server == <<toServe, serving, put, get, store, inbox>>
client == <<cmd, slot, incoming, xfer, saves, msgs>>

Unknown == MaxChunks + 1  \* kSizeUnknown

(* A frame: its kind, a file's name and size, and the pieces it carries:   *)
(* <<save, chunk>>, or <<message, 0>>.                                     *)
Frame(k, name, size, ps) == [kind |-> k, name |-> name, size |-> size, pieces |-> ps]
Plain(k) == Frame(k, NoFile, 0, <<>>)
Ack  == Plain("ACK")
Err  == Plain("ERR")
None == Plain("NONE")

NoPut  == [active |-> FALSE, name |-> NoFile, size |-> 0, data |-> <<>>]
NoGet  == [at |-> "none", data |-> <<>>, sent |-> 0]
NoXfer == [dir |-> "none", failed |-> FALSE, ended |-> FALSE, name |-> NoFile, data |-> <<>>, whole |-> <<>>]

ServerInit ==
  /\ linked = FALSE /\ toServer = <<>> /\ toClient = <<>> /\ toServe = <<>>
  /\ serving = None /\ put = NoPut /\ get = NoGet
  /\ store = [n \in Names |-> NoFile] /\ inbox = <<>>
  /\ cmd = "idle" /\ slot = "none" /\ incoming = <<>> /\ xfer = NoXfer
  /\ saves = 0 /\ msgs = 0

-----------------------------------------------------------------------------
(* The connector's commands.                                               *)

Ask(op, f) ==
  /\ cmd' = op
  /\ slot' = IF linked THEN "none" ELSE "GONE"
  /\ toServer' = IF linked THEN Append(toServer, f) ELSE toServer

Ready == cmd = "idle"
Finished == cmd' = "idle" /\ slot' = "none"

FilePut(name, size, overwrite) ==
  /\ Ready /\ linked /\ xfer.dir = "none" /\ saves < MaxSaves
  /\ saves' = saves + 1
  /\ xfer' = [NoXfer EXCEPT !.name = name]
  /\ Ask(IF overwrite THEN "PUT OVER" ELSE "PUT",
         Frame(IF overwrite THEN "PUT OVER" ELSE "PUT", name, size, <<>>))
  /\ UNCHANGED <<linked, toClient, server, incoming, msgs>>

FilePutEnds ==
  /\ cmd \in {"PUT", "PUT OVER"} /\ slot # "none"
  /\ xfer' = IF slot = "ACK" THEN [xfer EXCEPT !.dir = "put"] ELSE NoXfer
  /\ Finished
  /\ UNCHANGED <<linked, toServer, toClient, server, incoming, saves, msgs>>

\* WRITE_TO_SD_FILE: a FILE_DATA frame.
Write ==
  /\ Ready /\ xfer.dir = "put" /\ ~xfer.failed /\ Len(xfer.data) < MaxChunks
  /\ LET piece == <<saves, Len(xfer.data) + 1>>
     IN /\ xfer' = [xfer EXCEPT !.data = Append(@, piece)]
        /\ Ask("DATA", Frame("DATA", NoFile, 0, <<piece>>))
  /\ UNCHANGED <<linked, toClient, server, incoming, saves, msgs>>

WriteEnds ==
  /\ cmd = "DATA" /\ slot # "none"
  /\ xfer' = [xfer EXCEPT !.failed = slot # "ACK"]
  /\ Finished
  /\ UNCHANGED <<linked, toServer, toClient, server, incoming, saves, msgs>>

\* CLOSE_SD_FILE, its flag abandoning the transfer.
ClosePut(abandon) ==
  LET failed == xfer.failed \/ abandon IN
  /\ Ready /\ xfer.dir = "put"
  /\ IF failed
     THEN /\ xfer' = [xfer EXCEPT !.dir = "none"]
          /\ IF linked THEN Ask("ABORT", Plain("ABORT")) ELSE UNCHANGED <<cmd, slot, toServer>>
     ELSE UNCHANGED xfer /\ Ask("END", Plain("END"))
  /\ UNCHANGED <<linked, toClient, server, incoming, saves, msgs>>

\* FILE_END answered: anything but an ACK is followed by an ABORT.
EndEnds ==
  /\ cmd = "END" /\ slot # "none"
  /\ xfer' = [xfer EXCEPT !.dir = "none"]
  /\ IF slot # "ACK" /\ linked THEN Ask("ABORT", Plain("ABORT"))
     ELSE Finished /\ UNCHANGED toServer
  /\ UNCHANGED <<linked, toClient, server, incoming, saves, msgs>>

FileGet(name) ==
  /\ Ready /\ linked /\ xfer.dir = "none"
  /\ xfer' = [NoXfer EXCEPT !.name = name]
  /\ Ask("GET", Frame("GET", name, 0, <<>>))
  /\ UNCHANGED <<linked, toClient, server, incoming, saves, msgs>>

\* The ACK, and then the FILE_PUT the server sends: receive().
FileGetEnds ==
  /\ cmd = "GET" /\ slot # "none"
  /\ IF slot # "ACK" THEN xfer' = NoXfer /\ Finished /\ UNCHANGED <<toServer, incoming>>
     ELSE /\ incoming # <<>>
          /\ incoming' = Tail(incoming)
          /\ IF Head(incoming).kind = "HEADER"
             THEN /\ toServer' = Append(toServer, Ack)
                  /\ xfer' = [xfer EXCEPT !.dir = "get", !.whole = Head(incoming).pieces]
             ELSE /\ toServer' = Append(toServer, Err) /\ xfer' = NoXfer
          /\ Finished
  /\ UNCHANGED <<linked, toClient, server, saves, msgs>>

\* READ_FROM_SD_FILE takes the next frame; without a link there is none.
Read ==
  /\ Ready /\ xfer.dir = "get" /\ ~xfer.failed /\ ~xfer.ended
  /\ IF ~linked THEN xfer' = [xfer EXCEPT !.failed = TRUE] /\ UNCHANGED <<toServer, incoming>>
     ELSE /\ incoming # <<>>
          /\ incoming' = Tail(incoming)
          /\ LET f == Head(incoming) IN
             \/ /\ f.kind = "DATA"
                /\ xfer' = [xfer EXCEPT !.data = @ \o f.pieces]
                /\ toServer' = Append(toServer, Ack)
             \/ /\ f.kind = "END"
                /\ xfer' = [xfer EXCEPT !.ended = TRUE]
                /\ toServer' = Append(toServer, Ack)
             \/ /\ f.kind \notin {"DATA", "END"}
                /\ xfer' = [xfer EXCEPT !.failed = TRUE]
                /\ toServer' = Append(toServer, Err)
  /\ UNCHANGED <<linked, toClient, server, cmd, slot, saves, msgs>>

\* Slip: a load stopped early is a load.
LoadsAnything(abandon) == ~(xfer.failed \/ abandon)
LoadsWhole(abandon) == ~(xfer.failed \/ abandon) /\ xfer.ended

CloseGet(abandon) ==
  /\ Ready /\ xfer.dir = "get"
  /\ xfer' = [xfer EXCEPT !.dir = "none", !.failed = ~LoadsWhole(abandon)]
  /\ UNCHANGED <<linked, toServer, toClient, server, cmd, slot, incoming, saves, msgs>>

MsgSend ==
  /\ Ready /\ linked /\ xfer.dir = "none" /\ msgs < MaxMsgs
  /\ msgs' = msgs + 1
  /\ Ask("MSG", Frame("MSG", NoFile, 0, <<<<msgs + 1, 0>>>>))
  /\ UNCHANGED <<linked, toClient, server, incoming, xfer, saves>>

\* BLSEND's answer; an ABORT's is not looked at.
AnswerEnds ==
  /\ cmd \in {"MSG", "ABORT"} /\ slot # "none"
  /\ Finished
  /\ UNCHANGED <<linked, toServer, toClient, server, incoming, xfer, saves, msgs>>

-----------------------------------------------------------------------------
(* onFrame, on either side.                                                *)

ClientOnFrame ==
  /\ toClient # <<>> /\ toClient' = Tail(toClient)
  /\ LET f == Head(toClient) IN
     IF f \in {Ack, Err} THEN slot' = f.kind /\ UNCHANGED incoming
     ELSE incoming' = Append(incoming, f) /\ UNCHANGED slot
  /\ UNCHANGED <<linked, toServer, server, cmd, xfer, saves, msgs>>

\* An answer to the server's own request lets serveFileGet go on.
ServerOnFrame ==
  /\ toServer # <<>> /\ toServer' = Tail(toServer)
  /\ LET f == Head(toServer) IN
     IF f \in {Ack, Err}
     THEN /\ get' = IF f = Ack /\ get.at = "waits" THEN [get EXCEPT !.at = "next"] ELSE NoGet
          /\ UNCHANGED toServe
     ELSE toServe' = Append(toServe, f) /\ UNCHANGED get
  /\ UNCHANGED <<linked, toClient, serving, put, store, inbox, client>>

-----------------------------------------------------------------------------
(* The server thread.                                                      *)

Answer(f) == toClient' = IF linked THEN Append(toClient, f) ELSE toClient

Take ==
  /\ serving = None /\ get.at = "none" /\ toServe # <<>>
  /\ serving' = Head(toServe) /\ toServe' = Tail(toServe)
  /\ UNCHANGED <<linked, toServer, toClient, put, get, store, inbox, client>>

Served == serving' = None

\* Slip: what an abandoned save left in the buffer stays.
BegunOnTop(f) == [active |-> TRUE, name |-> f.name, size |-> f.size, data |-> put.data]
Begun(f) == [active |-> TRUE, name |-> f.name, size |-> f.size, data |-> <<>>]

MayBegin(f) == ~put.active /\ (f.kind = "PUT OVER" \/ store[f.name] = NoFile)

ServePut ==
  /\ serving.kind \in {"PUT", "PUT OVER"} /\ Served
  /\ IF MayBegin(serving)
     THEN put' = Begun(serving) /\ Answer(Ack)
     ELSE UNCHANGED put /\ Answer(Err)
  /\ UNCHANGED <<linked, toServer, toServe, get, store, inbox, client>>

ServeData ==
  /\ serving.kind = "DATA" /\ Served
  /\ IF put.active THEN put' = [put EXCEPT !.data = @ \o serving.pieces] /\ Answer(Ack)
     ELSE UNCHANGED put /\ Answer(Err)
  /\ UNCHANGED <<linked, toServer, toServe, get, store, inbox, client>>

SizeRight == put.size = Unknown \/ Len(put.data) = put.size

\* FILE_END: the save is over, and on disk before the ACK.
\* Slip: the ACK goes out first.
ServeEndAcksFirst ==
  \/ /\ serving.kind = "END" /\ put.active /\ SizeRight
     /\ Answer(Ack) /\ serving' = [serving EXCEPT !.kind = "SAVE"]
     /\ UNCHANGED <<linked, toServer, toServe, put, get, store, inbox, client>>
  \/ /\ serving.kind = "END" /\ ~(put.active /\ SizeRight) /\ Served
     /\ put' = [put EXCEPT !.active = FALSE] /\ Answer(Err)
     /\ UNCHANGED <<linked, toServer, toServe, get, store, inbox, client>>
  \/ /\ serving.kind = "SAVE" /\ Served
     /\ put' = [put EXCEPT !.active = FALSE] /\ store' = [store EXCEPT ![put.name] = put.data]
     /\ UNCHANGED <<linked, toServer, toClient, toServe, get, inbox, client>>

ServeEnd ==
  /\ serving.kind = "END" /\ Served
  /\ put' = [put EXCEPT !.active = FALSE]
  /\ IF put.active /\ SizeRight
     THEN store' = [store EXCEPT ![put.name] = put.data] /\ Answer(Ack)
     ELSE UNCHANGED store /\ Answer(Err)
  /\ UNCHANGED <<linked, toServer, toServe, get, inbox, client>>

ServeAbort ==
  /\ serving.kind = "ABORT" /\ Served
  /\ put' = [put EXCEPT !.active = FALSE]
  /\ Answer(Ack)
  /\ UNCHANGED <<linked, toServer, toServe, get, store, inbox, client>>

ServeMsg ==
  /\ serving.kind = "MSG" /\ Served
  /\ IF Len(inbox) < InboxMax THEN inbox' = inbox \o serving.pieces /\ Answer(Ack)
     ELSE UNCHANGED inbox /\ Answer(Err)
  /\ UNCHANGED <<linked, toServer, toServe, put, get, store, client>>

\* BLRECV on the server's side.
MsgRecv ==
  /\ inbox # <<>> /\ inbox' = Tail(inbox)
  /\ UNCHANGED <<linked, toServer, toClient, toServe, serving, put, get, store, client>>

\* FILE_GET: the whole file is read, then sent frame by frame, each when
\* the one before it is answered: its FILE_PUT, the data, FILE_END.
ServeGet ==
  /\ serving.kind = "GET" /\ Served
  /\ IF store[serving.name] = NoFile THEN Answer(Err) /\ UNCHANGED get
     ELSE IF ~linked THEN UNCHANGED <<get, toClient>>
     ELSE /\ get' = [at |-> "waits", data |-> store[serving.name], sent |-> 1]
          /\ toClient' = toClient \o <<Ack, Frame("HEADER", NoFile, 0, store[serving.name])>>
  /\ UNCHANGED <<linked, toServer, toServe, put, store, inbox, client>>

ChunksLeft == get.sent <= Len(get.data)

ServeGetOn ==
  /\ get.at = "next"
  /\ \/ /\ ChunksLeft
        /\ Answer(Frame("DATA", NoFile, 0, <<get.data[get.sent]>>))
        /\ get' = [get EXCEPT !.at = "waits", !.sent = @ + 1]
     \/ /\ ~ChunksLeft /\ get.sent <= Len(get.data) + 1
        /\ Answer(Plain("END"))
        /\ get' = [get EXCEPT !.at = "waits", !.sent = Len(get.data) + 2]
     \/ /\ get.sent = Len(get.data) + 2 /\ get' = NoGet /\ UNCHANGED toClient
  /\ UNCHANGED <<linked, toServer, toServe, serving, put, store, inbox, client>>

-----------------------------------------------------------------------------
(* The link.  A new one is authenticated by the server thread, which has   *)
(* finished what it had taken of the old one by then.                      *)

LinkLost ==
  /\ linked /\ linked' = FALSE
  /\ toServer' = <<>> /\ toClient' = <<>> /\ toServe' = <<>> /\ incoming' = <<>>
  /\ put' = [put EXCEPT !.active = FALSE] /\ get' = NoGet
  /\ slot' = IF cmd = "idle" THEN slot ELSE "GONE"
  /\ xfer' = [xfer EXCEPT !.failed = @ \/ xfer.dir # "none"]
  /\ UNCHANGED <<serving, store, inbox, cmd, saves, msgs>>

LinkMade ==
  /\ ~linked /\ linked' = TRUE
  /\ Ready /\ serving = None
  /\ inbox' = <<>>
  /\ UNCHANGED <<toServer, toClient, toServe, serving, put, get, store, client>>

ClientNext ==
  \/ \E name \in Names : \/ FileGet(name)
                         \/ \E size \in {1, Unknown}, over \in BOOLEAN : FilePut(name, size, over)
  \/ \E abandon \in BOOLEAN : ClosePut(abandon) \/ CloseGet(abandon)
  \/ FilePutEnds \/ Write \/ WriteEnds \/ EndEnds \/ FileGetEnds \/ Read
  \/ MsgSend \/ AnswerEnds \/ ClientOnFrame

ServerNext ==
  \/ ServerOnFrame \/ Take \/ ServePut \/ ServeData \/ ServeEnd \/ ServeAbort
  \/ ServeMsg \/ MsgRecv \/ ServeGet \/ ServeGetOn

ServerStep == ClientNext \/ ServerNext \/ LinkLost \/ LinkMade

ServerSpec == ServerInit /\ [][ServerStep]_vars

-----------------------------------------------------------------------------
Piece == (1..MaxSaves) \X (1..MaxChunks)
Data  == UNION {[1..n -> Piece] : n \in 0..MaxChunks}

\* A file as one save wrote it.
IsOfOneSave(d) == \E s \in 1..MaxSaves : d = [i \in DOMAIN d |-> <<s, i>>]

\* Every file of the store is what one BLSAVE sent, from its first byte to
\* its FILE_END: never two saves mixed, never one a lost link cut short.
SavesAreWhole ==
  \A n \in Names : store[n] # NoFile => IsOfOneSave(store[n])

\* "on disk before the ACK says it's saved (a BLLOAD may follow at once)",
\* and the same of a message: an answer the client takes for a success says
\* what has been done, for that very save or message.
AckMeansDone ==
  [][ /\ EndEnds /\ slot = "ACK" => store[xfer.name] = xfer.data
      /\ AnswerEnds /\ cmd = "MSG" /\ slot = "ACK" /\ inbox # <<>> => inbox[Len(inbox)] = <<msgs, 0>> ]_vars

\* BLLOAD's SUCCESS: the file as the server had it when it was asked for,
\* whatever was saved, abandoned or lost before.
LoadsAreWhole ==
  [][ CloseGet(FALSE) /\ LoadsWhole(FALSE) => xfer.data = xfer.whole ]_vars
=============================================================================
