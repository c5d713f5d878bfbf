---------------------------- MODULE DebugAdapter ----------------------------
(***************************************************************************)
(* The debug adapter between an editor and the emulator: a thread that     *)
(* serves the editor's requests one by one, a thread that polls a running  *)
(* target until it stops, and one lock for the commands of both.  A        *)
(* request's handler is the sequence of what it does.                      *)
(*                                                                         *)
(* The editor sends its next request once the last one is served; what it  *)
(* takes the target to be doing is `view`.  A request waits for its turn,  *)
(* and a stop may be reported before it is served.  Reports' reasons, what *)
(* frames and variables show, and line numbers are left out; an emulator   *)
(* that the editor asks to leave running at the end is too.                *)
(***************************************************************************)
EXTENDS DebugTarget, Functions

CONSTANTS
  Sessions,     \* <<does the adapter start the emulator?, stopOnEntry>>
  Breakpoints,  \* sets of places an editor asks for
  MaxRequests,  \* bound: requests of a session, its launch among them
  MaxTries,     \* bound: a launch's polls until its deadlines
  MaxFaults,    \* bound: calls that give up after two seconds, or read a torn file
  SlowPoll      \* a poll's 75 ms outlast the end of the continue request

ASSUME AdapterAssumption == Sessions \subseteq BOOLEAN \X BOOLEAN

VARIABLES
  launches, stopOnEntry,  \* the session's arguments
  up,            \* the emulator has its command FIFO
  request,       \* in the adapter's input, or being served; None
  todo,          \* what is left of the request's handler
  call,          \* the sendCommand under way, and whose: pipeMutex_
  got,           \* what the request thread's last call returned
  lastP,         \* onLaunch's lastP; -1 before the first
  poller,        \* the poll thread: "none", "asleep", "wants", "waits", "reports" or "ended"
  polling,       \* polling_
  view,          \* what the editor takes the session to be
  tries, sendsLeft, faults

adapterVars == <<launches, stopOnEntry, up, request, todo, call, got, lastP, poller,
                 polling, view, tries, sendsLeft, faults>>
debugVars == <<targetVars, adapterVars>>

None == [name |-> "none", breaks |-> {}]
NoCall == [by |-> "nobody", line |-> None]

DebugInit ==
  /\ TargetInit
  /\ \E session \in Sessions : launches = session[1] /\ stopOnEntry = session[2]
  /\ up = ~launches
  /\ request = None /\ view = "new"
  /\ todo = <<>> /\ call = NoCall /\ got = Empty /\ lastP = -1
  /\ poller = "none" /\ polling = FALSE
  /\ tries = 0 /\ sendsLeft = MaxRequests /\ faults = 0

-----------------------------------------------------------------------------
\* The handlers.  A step is a command whose answer is awaited, a command that
\* is only sent, or what `does` names.
Do(what) == [does |-> what, line |-> None]
Ask(name) == [does |-> "ask", line |-> Plain(name)]
Tell(name) == [does |-> "tell", line |-> Plain(name)]

\* Start the emulator, wait for its FIFO, for two equal P, and load the ROMs.
StartEmulator ==
  <<Do("spawn"), Do("await"), Ask("debugstatus"), Do("answered"), Ask("debugstatus"),
    Do("settled"), Ask("load"), Do("loaded")>>
\* Load the program, set P to its entry, and pause.
LoadProgram == <<Ask("load"), Do("loaded"), Tell("call"), Ask("pause"), Do("respond")>>
OnLaunch == (IF launches THEN StartEmulator ELSE <<>>) \o LoadProgram
OnSetBreakpoints(breaks) ==
  <<[does |-> "ask", line |-> Line("setbreakpoints", breaks)], Do("respond")>>
OnConfigurationDone ==
  <<Do("respond")>> \o
  IF stopOnEntry THEN <<Do("report")>> ELSE <<Ask("continue"), Do("stopPolling"), Do("startPolling")>>
\* Slip: the poll thread started before the target is.
OnContinuePollsFirst ==
  <<Do("stopPolling"), Do("startPolling"), Ask("continue"), Do("respond")>>
OnContinue == <<Ask("continue"), Do("stopPolling"), Do("startPolling"), Do("respond")>>
OnStep == <<Do("stopPolling"), Ask("debugstep"), Do("respond"), Do("report")>>
OnPause == <<Ask("pause"), Do("stopPolling"), Do("respond"), Ask("debugstatus"), Do("report")>>
OnStackTrace == <<Ask("debugstatus"), Do("respond")>>
OnVariables == <<Ask("debugstatus"), Do("respond")>>
OnReadMemory == <<Ask("peek"), Do("number"), Do("respond")>>
OnWriteMemory == <<Tell("poke"), Do("respond")>>
OnDisconnect == <<Do("stopPolling"), Do("kill"), Do("respond")>>

HandleRequest(r) ==
  CASE r.name = "launch" -> OnLaunch
    [] r.name = "setBreakpoints" -> OnSetBreakpoints(r.breaks)
    [] r.name = "configurationDone" -> OnConfigurationDone
    [] r.name = "continue" -> OnContinue
    [] r.name = "step" -> OnStep
    [] r.name = "pause" -> OnPause
    [] r.name = "stackTrace" -> OnStackTrace
    [] r.name = "variables" -> OnVariables
    [] r.name = "readMemory" -> OnReadMemory
    [] r.name = "writeMemory" -> OnWriteMemory
    [] r.name = "disconnect" -> OnDisconnect

-----------------------------------------------------------------------------
\* The editor.
MaySend(name) ==
  CASE name = "launch" -> view = "new"
    [] name = "configurationDone" -> view = "launched"
    [] name \in {"continue", "step", "stackTrace", "variables"} -> view = "stopped"
    [] name = "pause" -> view = "running"
    [] name \in {"readMemory", "writeMemory"} -> view \in {"running", "stopped"}
    [] name = "setBreakpoints" -> view \in {"launched", "running", "stopped"}
    [] name = "disconnect" -> view \in {"failed", "running", "stopped"}

Requests ==
  {Plain(name) : name \in {"launch", "configurationDone", "continue", "step", "pause", "stackTrace",
                           "variables", "readMemory", "writeMemory", "disconnect"}}
  \cup {Line("setBreakpoints", breaks) : breaks \in Breakpoints}

EditorAsks ==
  /\ request = None /\ sendsLeft > 0
  /\ \E r \in Requests : MaySend(r.name) /\ request' = r
  /\ sendsLeft' = sendsLeft - 1
  /\ UNCHANGED <<targetVars, launches, tries, stopOnEntry, up, todo, call, got, lastP, poller,
                 polling, view, faults>>

\* The request thread reads the request.
Serve ==
  /\ request # None /\ todo = <<>>
  /\ todo' = HandleRequest(request)
  /\ UNCHANGED <<targetVars, launches, tries, stopOnEntry, up, request, call, got, lastP, poller,
                 polling, view, sendsLeft, faults>>

Now(what) == todo # <<>> /\ Head(todo).does = what
\* What the handler is left with; with its last step the request is served.
LeftWith(rest) == todo' = rest /\ request' = IF rest = <<>> THEN None ELSE request

-----------------------------------------------------------------------------
\* sendCommand: look at the file's time, write the line, and wait until the
\* time has changed, or two seconds.
StartCall(who, line) ==
  /\ call = NoCall /\ up
  /\ call' = [by |-> who, line |-> line]
  /\ fifo' = Append(fifo, line) /\ file' = Unchanged
  /\ UNCHANGED <<target, batch, frameAt>>

CallReturns(who) == call.by = who /\ call' = NoCall /\ file # Unchanged /\ file' = Unchanged

\* Two ways of going wrong: the emulator answers too late, and the file is
\* read when it has been truncated and not been written yet.
CallGivesUp(who) ==
  /\ call.by = who /\ call' = NoCall /\ UNCHANGED file
  /\ faults < MaxFaults /\ faults' = faults + 1
CallReadsNothing(who) == CallReturns(who) /\ faults < MaxFaults /\ faults' = faults + 1

Asks ==
  /\ Now("ask")
  /\ StartCall("requests", Head(todo).line)
  /\ todo' = <<Do("take")>> \o Tail(todo)
  /\ UNCHANGED <<launches, tries, stopOnEntry, up, request, got, lastP, poller, polling, view,
                 sendsLeft, faults>>

TakeFrame ==
  UNCHANGED <<target, fifo, batch, frameAt, launches, stopOnEntry, up, lastP, poller, polling,
              view, tries, sendsLeft>>

Takes ==
  /\ Now("take") /\ CallReturns("requests")
  /\ got' = file /\ LeftWith(Tail(todo))
  /\ TakeFrame /\ UNCHANGED faults

\* No answer, or an empty one, and the handler goes on with that.
GoesWithout ==
  /\ Now("take")
  /\ \/ CallGivesUp("requests") /\ got' = Text("none")
     \/ CallReadsNothing("requests") /\ got' = Empty
  /\ LeftWith(Tail(todo)) /\ TakeFrame

\* sendCommandNoWait.
Tells ==
  /\ Now("tell")
  /\ call = NoCall /\ up
  /\ fifo' = Append(fifo, Head(todo).line) /\ LeftWith(Tail(todo))
  /\ UNCHANGED <<target, batch, frameAt, file, launches, tries, stopOnEntry, up, call,
                 got, lastP, poller, polling, view, sendsLeft, faults>>

-----------------------------------------------------------------------------
\* onLaunch's checks, each of which may end it with an unsuccessful response:
\* for a deadline or for what was answered.
Fail == todo' = <<Do("fail")>> /\ UNCHANGED tries
GoOn == todo' = Tail(todo) /\ UNCHANGED tries
Again(check) ==
  tries < MaxTries /\ tries' = tries + 1 /\ todo' = <<Ask("debugstatus"), Do(check)>> \o Tail(todo)

Spawn ==
  /\ Now("spawn")
  /\ GoOn \/ Fail
  /\ UNCHANGED <<targetVars, launches, stopOnEntry, up, request, call, got, lastP, poller, polling, view,
                 sendsLeft, faults>>

EmulatorUp ==
  /\ Now("await") /\ ~up /\ up' = TRUE
  /\ UNCHANGED <<targetVars, launches, tries, stopOnEntry, request, todo, call, got, lastP, poller,
                 polling, view, sendsLeft, faults>>

Check ==
  /\ \/ Now("await") /\ IF up THEN GoOn ELSE Fail
     \/ Now("answered") /\ IF got.kind # "none" THEN GoOn
                           ELSE Again("answered") \/ Fail
     \/ Now("loaded") /\ IF got.kind = "OK" THEN GoOn ELSE Fail
  /\ UNCHANGED <<targetVars, launches, stopOnEntry, up, request, call, got, lastP, poller,
                 polling, view, sendsLeft, faults>>

\* Twice the same P and the boot has settled.
Settled ==
  /\ Now("settled")
  /\ IF got.kind = "none" THEN Fail
     ELSE IF got.pc # -1 /\ got.pc = lastP THEN GoOn
     ELSE Again("settled") \/ Fail
  /\ lastP' = got.pc
  /\ UNCHANGED <<targetVars, launches, stopOnEntry, up, request, call, got, poller, polling,
                 view, sendsLeft, faults>>

Fails ==
  /\ Now("fail")
  /\ view' = "failed" /\ LeftWith(<<>>)
  /\ UNCHANGED <<targetVars, launches, tries, stopOnEntry, up, call, got, lastP, poller, polling,
                 sendsLeft, faults>>

\* std::stoi: without a number the exception ends the adapter.
ReadNumber ==
  /\ Now("number")
  /\ IF got.kind \in {"value", "none"}
     THEN LeftWith(Tail(todo)) /\ UNCHANGED <<call, poller, polling, view>>
     ELSE LeftWith(<<>>) /\ view' = "dead" /\ call' = NoCall /\ poller' = "ended" /\ polling' = FALSE
  /\ UNCHANGED <<targetVars, launches, tries, stopOnEntry, up, got, lastP, sendsLeft, faults>>

\* Slip: the flag is not cleared.
StopPollingJoins ==
  /\ Now("stopPolling")
  /\ todo' = <<Do("join")>> \o Tail(todo)
  /\ UNCHANGED <<targetVars, launches, tries, stopOnEntry, up, request, call, got, lastP, poller,
                 polling, view, sendsLeft, faults>>
StopPolling ==
  /\ Now("stopPolling")
  /\ polling' = FALSE /\ todo' = <<Do("join")>> \o Tail(todo)
  /\ UNCHANGED <<targetVars, launches, tries, stopOnEntry, up, request, call, got, lastP, poller, view,
                 sendsLeft, faults>>

JoinPoller ==
  /\ Now("join") /\ poller \in {"none", "ended"}
  /\ poller' = "none" /\ LeftWith(Tail(todo))
  /\ UNCHANGED <<targetVars, launches, tries, stopOnEntry, up, call, got, lastP, polling, view,
                 sendsLeft, faults>>

StartPolling ==
  /\ Now("startPolling")
  /\ poller' = "asleep" /\ polling' = TRUE /\ LeftWith(Tail(todo))
  /\ UNCHANGED <<targetVars, launches, tries, stopOnEntry, up, call, got, lastP, view, sendsLeft,
                 faults>>

\* What the handler's local variables are worth once it has responded.
Forget == got' = Empty /\ lastP' = -1 /\ tries' = 0

Respond ==
  /\ Now("respond")
  /\ LeftWith(Tail(todo)) /\ Forget
  /\ view' = CASE request.name = "launch" -> "launched"
               [] request.name \in {"configurationDone", "continue"} -> "running"
               [] request.name = "disconnect" -> "ended"
               [] OTHER -> view
  /\ UNCHANGED <<targetVars, launches, stopOnEntry, up, call, poller, polling, sendsLeft, faults>>

\* The reason, from the answer to onPause's debugstatus, is only shown.
ReportStopped ==
  /\ Now("report")
  /\ view' = "stopped" /\ LeftWith(Tail(todo)) /\ Forget
  /\ UNCHANGED <<targetVars, launches, stopOnEntry, up, call, poller, polling, sendsLeft, faults>>

\* An emulator the adapter started ends with the session.
Kill ==
  /\ Now("kill")
  /\ up' = (up /\ ~launches) /\ LeftWith(Tail(todo))
  /\ UNCHANGED <<targetVars, launches, tries, stopOnEntry, call, got, lastP, poller, polling, view,
                 sendsLeft, faults>>

-----------------------------------------------------------------------------
\* The poll thread: asleep, on its way into the lock, in the call, reporting.
PollFrame == UNCHANGED <<launches, tries, stopOnEntry, up, request, todo, got, lastP, sendsLeft>>

PollWakes ==
  /\ poller = "asleep"
  /\ SlowPoll => ~(request.name = "continue" /\ Now("respond"))
  /\ poller' = IF polling THEN "wants" ELSE "ended"
  /\ PollFrame /\ UNCHANGED <<targetVars, call, polling, view, faults>>

PollAsks ==
  /\ poller = "wants" /\ StartCall("poll", Plain("debugstatus"))
  /\ poller' = "waits"
  /\ PollFrame /\ UNCHANGED <<polling, view, faults>>

PollTakes ==
  /\ poller = "waits" /\ CallReturns("poll")
  /\ IF file.stopped THEN polling' = FALSE /\ poller' = "reports"
     ELSE UNCHANGED polling /\ poller' = "asleep"
  /\ PollFrame /\ UNCHANGED <<target, fifo, batch, frameAt, view, faults>>

\* Slip: without an answer there is nothing left to poll.
PollGoesAway ==
  /\ poller = "waits"
  /\ CallGivesUp("poll") \/ CallReadsNothing("poll")
  /\ poller' = "ended"
  /\ PollFrame /\ UNCHANGED <<target, fifo, batch, frameAt, polling, view>>
PollGoesWithout ==
  /\ poller = "waits"
  /\ CallGivesUp("poll") \/ CallReadsNothing("poll")
  /\ poller' = "asleep"
  /\ PollFrame /\ UNCHANGED <<target, fifo, batch, frameAt, polling, view>>

PollReports ==
  /\ poller = "reports"
  /\ view' = "stopped" /\ poller' = "ended"
  /\ PollFrame /\ UNCHANGED <<targetVars, call, polling, faults>>

-----------------------------------------------------------------------------
Emulates == up /\ TargetNext /\ UNCHANGED adapterVars
Handles == Serve \/ Takes \/ Check \/ Settled \/ Fails \/ ReadNumber \/ StopPolling \/ JoinPoller
           \/ StartPolling \/ Respond \/ ReportStopped \/ Kill
Polls == PollWakes \/ PollAsks \/ PollTakes \/ PollReports

DebugNext ==
  \/ EditorAsks \/ Handles \/ Asks \/ Tells \/ Spawn \/ EmulatorUp \/ GoesWithout
  \/ Polls \/ PollGoesWithout \/ Emulates

\* The emulator's frames go on, both threads run, and a thread that wants the
\* lock gets it: the poll thread leaves it alone for 75 ms of every poll.
DebugFairness ==
  /\ WF_debugVars(Emulates) /\ WF_debugVars(Handles) /\ WF_debugVars(Polls)
  /\ WF_debugVars(Spawn) /\ SF_debugVars(Asks) /\ SF_debugVars(Tells)

DebugSpec == DebugInit /\ [][DebugNext]_debugVars /\ DebugFairness

-----------------------------------------------------------------------------
OnTheWay(names) == \E line \in Range(fifo) \cup Range(batch) : line.name \in names

\* What the editor believes of the target is so, whatever its requests and the
\* polls crossed and wherever one answer came late or torn.  One that is said
\* to run has a thread watching it, so no stop is missed.  One that is shown as
\* stopped is, and nothing is under way that makes it run; as long as every
\* answer came in time it also stays where it is until the editor asks: the
\* debugger holds it and no step or call is under way.  After a late answer the
\* step, or the pause that takes hold of it, may still be to come.
EditorKnows ==
  request = None =>
    /\ view = "running" => poller = "reports" \/ (polling /\ poller \in {"asleep", "wants", "waits"})
    /\ view = "stopped" =>
         /\ ~target.running /\ ~OnTheWay({"continue"})
         /\ target.control \/ OnTheWay({"pause"})
         /\ faults = 0 => target.control /\ ~OnTheWay({"debugstep", "call"})

\* A target that has stopped at a breakpoint is reported to the editor, or was
\* about to be continued.
StopsAreReported ==
  view = "running" /\ ~target.running ~> view # "running" \/ target.running

\* Every request is served: the request thread, which joins the poll thread,
\* and the poll thread, which needs the lock, never wait for each other.
EveryRequestServed == request # None ~> request = None

\* The launch's comment: it parks the CPU at the entry point, rather than
\* letting the free-running frame loop take off.
ParkedAtEntry == view = "launched" => target.pc = Entry
=============================================================================
