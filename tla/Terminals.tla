------------------------------ MODULE Terminals ------------------------------
(***************************************************************************)
(* The SSH session and the command history of the CE-163WL mock            *)
(* (src/src/bus/ssh_mock.cpp, history_mock.cpp).  The ROM's commands run   *)
(* on the worker; once TERM or HIST_BEGIN has given a terminal the data    *)
(* window, the emulation thread polls it about once a millisecond until    *)
(* it writes the CLOSED cell that the ROM waits for.                       *)
(*                                                                         *)
(* The server, the protocol (ssh_client.c), the screen (ssh_term.c), the   *)
(* history list (cmd_history.c) and the ROM are external: a session's      *)
(* bytes are its handshake and numbered pieces of output, and of the       *)
(* screen only the newest piece shown is kept.                             *)
(***************************************************************************)
EXTENDS Integers, Sequences, Sublists

CONSTANTS
  Hosts, HostKeys,
  MaxOutput,  \* bound: pieces of output of a session
  MaxOpens,   \* bound: sessions opened
  Lines,      \* lines typed in BASIC
  HistMax,    \* lines the history keeps
  NoKey

VARIABLES
  ssh,         \* ssh and term: state, error, output given to the screen
  session, sshTerminal, sshError, pending, gone, host,
  knownHosts,  \* knownHosts: each host's key, or NoKey
  server,      \* the other end: its key, what it sent and is on its way, how much output, gone?
  stepping,    \* the worker is in STEP's loop
  cells,       \* the window: BREAK_COUNT, LINE, CLOSED and HIST_LINE
  rom,         \* what the ROM does: "basic", or waits in "ssh" or "history"
  hist,        \* hist: the lines kept, newest first
  histAt,      \* ui: the line shown; 0 while histTerminal is false
  original,
  dialled,     \* history: the host the session was opened to
  accepted,    \* history: the hosts' keys the user has said yes to
  opens

sshVars == <<ssh, session, sshTerminal, sshError, pending, gone, host, knownHosts,
             server, stepping, dialled, accepted, opens>>
histVars == <<hist, histAt, original>>
terminalVars == <<sshVars, histVars, cells, rom>>

NoServer == [key |-> NoKey, wire |-> <<>>, sent |-> 0, ended |-> FALSE, next |-> "kex"]
Fresh == [st |-> "connecting", err |-> "none", shown |-> 0]

TerminalInit ==
  /\ ssh = [Fresh EXCEPT !.st = "closed"]
  /\ session = FALSE /\ sshTerminal = FALSE /\ sshError = "none" /\ pending = <<>> /\ gone = FALSE
  /\ host \in Hosts /\ knownHosts = [h \in Hosts |-> NoKey]
  /\ server = NoServer /\ stepping = FALSE /\ dialled = host /\ accepted = {} /\ opens = 0
  /\ hist = <<>> /\ histAt = 0 /\ original \in Lines
  /\ cells = [breaks |-> 0, line |-> 0, closed |-> "no", back |-> original]
  /\ rom = "basic"

-----------------------------------------------------------------------------
\* All that the server sent is dealt with, and it has the client's answer.
ClientAnswered == ssh.st = "auth" /\ server.wire = <<>> /\ pending = <<>>

\* The server: its key, whether it wants a password, output, and its end.
ServerTalks ==
  /\ session /\ ~server.ended
  /\ \E item \in CASE server.next = "kex" -> {"kex"}
                   [] server.next = "auth" -> IF ClientAnswered THEN {"ask", "ok", "deny"} ELSE {}
                   [] OTHER -> IF server.sent < MaxOutput THEN {"output"} ELSE {} :
       server' = [server EXCEPT
         !.wire = Append(@, item),
         !.sent = IF item = "output" THEN @ + 1 ELSE @,
         !.next = IF item \in {"kex", "ask"} THEN "auth" ELSE "open"]
  /\ UNCHANGED <<ssh, session, sshTerminal, sshError, pending, gone, host, knownHosts,
                 stepping, dialled, accepted, opens, histVars, cells, rom>>

ServerEnds ==
  /\ session /\ ~server.ended
  /\ server' = [server EXCEPT !.ended = TRUE]
  /\ UNCHANGED <<ssh, session, sshTerminal, sshError, pending, gone, host, knownHosts,
                 stepping, dialled, accepted, opens, histVars, cells, rom>>

\* ssh_close, ssh_hostkey_answer and ssh_feed.
SshClosed(s, why) == IF s.st = "closed" THEN s ELSE [s EXCEPT !.st = "closed", !.err = why]
HostKeyAnswered(s, yes) == IF yes THEN [s EXCEPT !.st = "auth"] ELSE SshClosed(s, "rejected")
FeedItem(s, item) ==
  IF s.st = "closed" THEN s
  ELSE CASE item = "kex" -> [s EXCEPT !.st = "hostkey"]
         [] item = "ask" -> [s EXCEPT !.st = "password"]
         [] item = "ok" -> [s EXCEPT !.st = "open"]
         [] item = "deny" -> SshClosed(s, "auth")
         [] item = "output" -> [s EXCEPT !.shown = @ + 1]
Fed(s, items) ==
  LET f[i \in 0..Len(items)] == IF i = 0 THEN s ELSE FeedItem(f[i - 1], items[i])
  IN f[Len(items)]

\* What select and recv may find.
Arrivals ==
  {[gone |-> gone, pending |-> pending, wire |-> server.wire]}
  \cup IF server.wire # <<>> /\ ~gone
       THEN {[gone |-> FALSE, pending |-> pending \o server.wire, wire |-> <<>>]} ELSE {}
  \cup IF server.wire = <<>> /\ server.ended
       THEN {[gone |-> TRUE, pending |-> pending, wire |-> <<>>]} ELSE {}

\* ssh_feed takes some of it, unless it waits for the user.
MayTake(p) == IF p = <<>> \/ ssh.st \in {"hostkey", "password", "closed"} THEN {0} ELSE 1..Len(p)

\* Slip: the server's end closes the session at once.
AtEndAtOnce(s, a, left) == IF a.gone THEN SshClosed(s, "lost") ELSE s
AtEnd(s, a, left) == IF a.gone /\ left = <<>> THEN SshClosed(s, "lost") ELSE s

\* pump(): the outcomes.
Pumps ==
  UNION {{LET left == SubSeq(a.pending, n + 1, Len(a.pending))
              s == Fed(ssh, SubSeq(a.pending, 1, n))
          IN [ssh |-> AtEnd(s, a, left), pending |-> left, gone |-> a.gone, wire |-> a.wire] :
          n \in MayTake(a.pending)} : a \in Arrivals}

Pumped(p) == pending' = p.pending /\ gone' = p.gone /\ server' = [server EXCEPT !.wire = p.wire]

\* teardown(), of a session whose protocol is at s.
TearDown(s) ==
  /\ ssh' = IF session THEN SshClosed(s, "none") ELSE s
  /\ sshError' = IF session /\ sshError = "none" THEN ssh'.err ELSE sshError
  /\ session' = FALSE
  /\ sshTerminal' = IF session THEN FALSE ELSE sshTerminal
Stays(s) == ssh' = s /\ UNCHANGED <<session, sshTerminal>>

-----------------------------------------------------------------------------
\* The ROM's commands: none while the worker steps or a terminal is open.
MayCommand == rom = "basic" /\ ~stepping
SshFrame == UNCHANGED <<histVars, cells, rom>>

\* Slip: the session before is ended once there is another.
SshOpenTearsLate(h, how) ==
  /\ MayCommand /\ opens < MaxOpens /\ opens' = opens + 1
  /\ host' = h
  /\ IF how # "connected"
     THEN UNCHANGED <<ssh, session, sshTerminal, sshError, dialled, pending, gone, server>>
     ELSE /\ ssh' = Fresh /\ session' = TRUE /\ sshTerminal' = FALSE /\ sshError' = "none"
          /\ pending' = <<>> /\ gone' = FALSE /\ dialled' = h
          /\ \E k \in HostKeys : server' = [NoServer EXCEPT !.key = k]
  /\ SshFrame /\ UNCHANGED <<knownHosts, stepping, accepted>>
\* open(): whatever comes of it, the session before is ended and host is set.
SshOpen(h, how) ==
  /\ MayCommand /\ opens < MaxOpens /\ opens' = opens + 1
  /\ host' = h
  /\ IF how # "connected"
     THEN TearDown(ssh) /\ UNCHANGED <<dialled, pending, gone, server>>
     ELSE /\ ssh' = Fresh /\ session' = TRUE /\ sshTerminal' = FALSE /\ sshError' = "none"
          /\ pending' = <<>> /\ gone' = FALSE /\ dialled' = h
          /\ \E k \in HostKeys : server' = [NoServer EXCEPT !.key = k]
  /\ SshFrame /\ UNCHANGED <<knownHosts, stepping, accepted>>

SshStep ==
  /\ MayCommand /\ session /\ stepping' = TRUE
  /\ SshFrame
  /\ UNCHANGED <<ssh, session, sshTerminal, sshError, pending, gone, host, knownHosts,
                 server, dialled, accepted, opens>>

\* checkHostKey(): a known host's key is answered here.
Unknown == knownHosts[host] = NoKey
Checked(s) ==
  /\ Stays(HostKeyAnswered(s, knownHosts[host] = server.key))
  /\ sshError' = IF knownHosts[host] = server.key THEN sshError ELSE "hostkey"

\* A turn of STEP's loop, which half a second may end.
StepTurn ==
  /\ stepping
  /\ \E p \in Pumps :
       /\ Pumped(p)
       /\ CASE p.ssh.st = "hostkey" /\ ~Unknown -> Checked(p.ssh) /\ stepping' = TRUE
            [] p.ssh.st = "closed" -> TearDown(p.ssh) /\ stepping' = FALSE
            [] p.ssh.st \in {"password", "open"} \/ (p.ssh.st = "hostkey" /\ Unknown) ->
                 Stays(p.ssh) /\ UNCHANGED sshError /\ stepping' = FALSE
            [] OTHER -> Stays(p.ssh) /\ UNCHANGED sshError /\ stepping' \in BOOLEAN
  /\ SshFrame /\ UNCHANGED <<host, knownHosts, dialled, accepted, opens>>

SshAnswer(yes) ==
  /\ MayCommand /\ session /\ ssh.st = "hostkey"
  /\ knownHosts' = IF yes THEN [knownHosts EXCEPT ![host] = server.key] ELSE knownHosts
  /\ accepted' = IF yes THEN accepted \cup {<<dialled, server.key>>} ELSE accepted
  /\ Stays(HostKeyAnswered(ssh, yes))
  /\ SshFrame /\ UNCHANGED <<sshError, pending, gone, host, server, stepping, dialled, opens>>

SshPassword ==
  /\ MayCommand /\ session /\ ssh.st = "password"
  /\ Stays([ssh EXCEPT !.st = "auth"])
  /\ SshFrame
  /\ UNCHANGED <<sshError, pending, gone, host, knownHosts, server, stepping, dialled,
                 accepted, opens>>

SshTerm ==
  /\ MayCommand /\ session /\ ssh.st = "open"
  /\ cells' = [cells EXCEPT !.closed = "no"]
  /\ sshTerminal' = TRUE /\ rom' = "ssh"
  /\ UNCHANGED <<ssh, session, sshError, pending, gone, host, knownHosts, server, stepping, dialled,
                 accepted, opens, histVars>>

SshClose ==
  /\ MayCommand /\ TearDown(ssh)
  /\ SshFrame
  /\ UNCHANGED <<pending, gone, host, knownHosts, server, stepping, dialled, accepted, opens>>

SshForget(hs) ==
  /\ MayCommand
  /\ knownHosts' = [h \in Hosts |-> IF h \in hs THEN NoKey ELSE knownHosts[h]]
  /\ SshFrame
  /\ UNCHANGED <<ssh, session, sshTerminal, sshError, pending, gone, host, server, stepping,
                 dialled, accepted, opens>>

\* hist_add(): a line kept already becomes the newest.
Kept(l) ==
  LET kept == <<l>> \o Those(hist, Lines \ {l})
  IN SubSeq(kept, 1, IF Len(kept) > HistMax THEN HistMax ELSE Len(kept))

HistAdd(l) ==
  /\ MayCommand /\ hist' = Kept(l)
  /\ UNCHANGED <<histAt, original, sshVars, cells, rom>>

HistBegin(l) ==
  /\ MayCommand /\ hist # <<>>
  /\ original' = l /\ histAt' = 1
  /\ cells' = [cells EXCEPT !.closed = "no", !.line = hist[1]]
  /\ rom' = "history"
  /\ UNCHANGED <<hist, sshVars>>

\* ON; in the SSH terminal it is only sent on.  And the ROM back from its terminal.
Break ==
  /\ rom = "history" /\ cells.breaks = 0
  /\ cells' = [cells EXCEPT !.breaks = 1]
  /\ UNCHANGED <<sshVars, histVars, rom>>
RomReturns ==
  /\ rom # "basic" /\ cells.closed # "no"
  /\ rom' = "basic" /\ cells' = [cells EXCEPT !.breaks = 0]
  /\ UNCHANGED <<sshVars, histVars>>

-----------------------------------------------------------------------------
\* SshMock::poll(): what arrived, a key's view, BREAK, the line, and the end.
SshPoll ==
  /\ sshTerminal
  /\ \E p \in Pumps, quits \in BOOLEAN :
       LET s == IF quits THEN SshClosed(p.ssh, "none") ELSE p.ssh IN
       /\ Pumped(p)
       /\ cells' = [cells EXCEPT !.line = s.shown, !.closed = IF s.st = "closed" THEN "ended" ELSE @]
       /\ IF s.st = "closed" THEN TearDown(s) ELSE Stays(s) /\ UNCHANGED sshError
  /\ UNCHANGED <<host, knownHosts, stepping, dialled, accepted, opens, histVars, rom>>

\* HistoryMock::poll()'s last part: the line chosen, or the line as it was.
HandedBack(how, at) == IF how \in {"run", "edit"} THEN hist[at] ELSE original

\* HistoryMock::poll().
HistPoll ==
  /\ histAt # 0
  /\ \E at \in {histAt - 1, histAt, histAt + 1} \cap DOMAIN hist,
        how \in {"no", "run", "edit", "cancel"} \cup IF cells.breaks = 1 THEN {"break"} ELSE {} :
       /\ cells' = [cells EXCEPT !.line = hist[at], !.closed = how,
                                 !.back = IF how = "no" THEN @ ELSE HandedBack(how, at)]
       /\ histAt' = IF how = "no" THEN at ELSE 0
       /\ hist' = IF how = "run" THEN Kept(hist[at]) ELSE hist
  /\ UNCHANGED <<original, sshVars, rom>>

-----------------------------------------------------------------------------
SshCommand ==
  \/ \E h \in Hosts, how \in {"connected", "failed"} : SshOpen(h, how)
  \/ SshStep \/ (\E yes \in BOOLEAN : SshAnswer(yes)) \/ SshPassword \/ SshTerm \/ SshClose
  \/ \E hs \in {{h} : h \in Hosts} \cup {Hosts} : SshForget(hs)
SshNext == SshCommand \/ StepTurn \/ SshPoll \/ ServerTalks \/ ServerEnds \/ RomReturns
HistNext == (\E l \in Lines : HistAdd(l) \/ HistBegin(l)) \/ HistPoll \/ Break \/ RomReturns
TerminalSpec == TerminalInit /\ [][SshNext \/ HistNext]_terminalVars

TerminalTypeOK ==
  /\ ssh.st \in {"connecting", "hostkey", "auth", "password", "open", "closed"}
  /\ ssh.err \in {"none", "lost", "rejected", "auth"} /\ ssh.shown \in 0..MaxOutput
  /\ sshError \in {"none", "lost", "hostkey", "rejected", "auth"}
  /\ session \in BOOLEAN /\ sshTerminal \in BOOLEAN /\ gone \in BOOLEAN /\ stepping \in BOOLEAN
  /\ knownHosts \in [Hosts -> HostKeys \cup {NoKey}] /\ histAt \in 0..HistMax
  /\ rom \in {"basic", "ssh", "history"}

\* A host is logged in to with a key the user has accepted for that very host,
\* and no other key is ever kept for it: not when a session in between failed to
\* open, was answered late, or its host was forgotten (checkHostKey, SSH_ANSWER).
HostsAreKnown ==
  /\ session /\ ssh.st \in {"auth", "password", "open"} => <<dialled, server.key>> \in accepted
  /\ \A h \in Hosts : knownHosts[h] = NoKey \/ <<h, knownHosts[h]>> \in accepted

\* When a terminal closes the window holds what it came to: all that the server
\* had sent before it ended the session, the line that the user saw chosen, or
\* the line as it was before (publish, HistoryMock::poll).
TerminalsEndWell ==
  /\ rom = "ssh" /\ cells.closed = "ended" /\ ssh.err = "lost" => cells.line = server.sent
  /\ rom = "history" /\ cells.closed \in {"run", "edit"} => cells.back = cells.line
  /\ rom = "history" /\ cells.closed \in {"cancel", "break"} => cells.back = original
=============================================================================
