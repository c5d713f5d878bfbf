-------------------------- MODULE ExpansionCommand --------------------------
(***************************************************************************)
(* The expansion module's command cell and its sleep: ExpansionMock's      *)
(* processCommand, pumpCommands, the command worker thread and the         *)
(* emulated MCU's DORMANT/POWMAN sleep.                                    *)
(*                                                                         *)
(* Two threads.  The emulation thread writes commands (WriteCommand,       *)
(* WriteUnserved), advances the clock (AdvanceCycles: pump, then the sleep *)
(* step, one call) and may power-cycle the module (ColdBoot).  The worker  *)
(* thread runs one command: its effect on the module's state               *)
(* (WorkerDispatch), the status it publishes under doneMutex_              *)
(* (WorkerPublish) and its end (WorkerDone) are separate steps.            *)
(*                                                                         *)
(* Deadlines in emulated cycles are the running members of `timers': a     *)
(* call of advanceCycles lets any of them run out, so every duration and   *)
(* every order of two deadlines is covered.                                *)
(***************************************************************************)
EXTENDS Naturals

CONSTANTS
  MaxWrites,         \* bound: commands written in one behaviour
  MaxMissed,         \* bound: wakes that are made to fail (missWakes)
  StampMayBeLate,    \* setStampDelay(): a BUSY stamp may land later
  ForwardTakesTime,  \* forwardCycles_ # 0
  ReopenTakesTime,   \* powmanReopenCycles_ # 0
  WakeTakenAsAlarm,  \* setDormantWakeAsAlarm(): the firmware's old bug
  SleepOn            \* setSleepEmulation()

ASSUME BoundsAssumption == MaxWrites \in Nat /\ MaxMissed \in Nat
ASSUME SettingsAssumption ==
  /\ StampMayBeLate \in BOOLEAN /\ ForwardTakesTime \in BOOLEAN
  /\ ReopenTakesTime \in BOOLEAN /\ WakeTakenAsAlarm \in BOOLEAN
  /\ SleepOn \in BOOLEAN

(* What a command does to the state modelled here: ask for sleep, end the  *)
(* ROM copy to SRAM (verified or not), undo the staging, open or close an  *)
(* SD channel.                                                             *)
Kinds == {"DONE", "FINISH", "UNSTAGE", "OPEN", "CLOSE"}

Command   == [id : 1..MaxWrites, kind : Kinds]
NoCommand == [id |-> 0, kind |-> "CLOSE"]

(* What the status cell reads: a word, and for an answer the command it    *)
(* answers (the code's final statuses are not told apart).                 *)
Busy      == <<"busy", 0>>
Awake     == <<"awake", 0>>
Answer(n) == <<"answer", n>>
Answers   == {Answer(n) : n \in 1..MaxWrites}

(* stamp: stampDueCycles_; next: nextStartCycles_; answer:                 *)
(* answerFromCycles_; event: sleepEventCycles_; wait: DONE's age;          *)
(* stray: the time since the wake; deaf: the entry of DORMANT.             *)
TimerNames  == {"stamp", "next", "answer", "event", "wait", "stray", "deaf"}
SleepStates == {"Awake", "Dormant", "PowmanPreparing", "Powman",
                "DormantWaking", "PowmanBooting"}

VARIABLES
  writes,         \* commands written so far: names the next one
  owed,           \* the newest command since power-on, 0 if none
  status,         \* pendingStatus_
  pending,        \* pendingCmd_
  worker,         \* workerActive_, workerDone_ and where the worker is
  active,         \* the command the worker runs or last ran
  newerWrite,     \* newerWrite_
  timers,         \* the deadlines not yet reached
  sleepState,     \* sleepState_
  sleepRequested, \* sleepRequested_
  awaitingFirst,  \* awaitingFirst_
  powmanLatched,  \* powmanLatched_
  coldBoot,       \* coldBoot_
  missWakes,      \* missWakes_
  staged,         \* romStagedVerified_
  channelOpen,    \* an SD channel is open
  reopenPending   \* reopenPending_

workerVars == <<worker, active, newerWrite>>
sleepVars  == <<sleepState, sleepRequested, awaitingFirst, powmanLatched,
                coldBoot, missWakes>>
moduleVars == <<staged, channelOpen>>
commandVars == <<writes, owed, status, pending, workerVars, timers, sleepVars,
          moduleVars, reopenPending>>

FlagsOK ==
  /\ newerWrite \in BOOLEAN /\ reopenPending \in BOOLEAN
  /\ sleepRequested \in BOOLEAN /\ awaitingFirst \in BOOLEAN
  /\ powmanLatched \in BOOLEAN /\ coldBoot \in BOOLEAN
  /\ staged \in BOOLEAN /\ channelOpen \in BOOLEAN

CommandTypeOK ==
  /\ writes \in 0..MaxWrites
  /\ owed \in 0..MaxWrites
  /\ status \in {Busy, Awake} \cup Answers
  /\ pending \in Command \cup {NoCommand}
  /\ worker \in {"none", "running", "dispatched", "published", "done"}
  /\ active \in Command \cup {NoCommand}
  /\ timers \subseteq TimerNames
  /\ sleepState \in SleepStates
  /\ missWakes \in 0..MaxMissed
  /\ FlagsOK

CommandInit ==
  /\ writes = 0 /\ owed = 0
  /\ status = Awake
  /\ pending = NoCommand
  /\ worker = "none" /\ active = NoCommand /\ newerWrite = FALSE
  /\ timers = {}
  /\ sleepState = "Awake"
  /\ sleepRequested = FALSE /\ awaitingFirst = FALSE
  /\ powmanLatched = FALSE /\ coldBoot = FALSE
  /\ missWakes \in 0..MaxMissed
  /\ staged = FALSE /\ channelOpen = FALSE /\ reopenPending = FALSE

-----------------------------------------------------------------------------
(* pumpCommands: the running command finished, then the newest one written *)
(* started.  `cmd' is the newest unstarted command and `held' the deadlines*)
(* not reached at the call.                                                *)

WorkerIdle    == worker \in {"none", "done"}  \* after the pump's join
CommandInFlight == pending # NoCommand \/ worker # "none"

\* The forward time runs from the moment the pump sees the worker done.
NextHeld(held) == IF worker = "done" THEN ForwardTakesTime ELSE "next" \in held

MayStart(cmd, held) ==
  /\ WorkerIdle
  /\ cmd # NoCommand
  /\ "stamp" \notin held
  /\ "answer" \notin held
  /\ ~NextHeld(held)

\* The files are reopened first, and that may take until a later call.
Reopens(cmd, held) == MayStart(cmd, held) /\ reopenPending
Starts(cmd, held)  == MayStart(cmd, held) /\ ~(reopenPending /\ ReopenTakesTime)

PumpTimers(cmd, held) ==
  LET nextRuns == IF Reopens(cmd, held) THEN ReopenTakesTime
                                        ELSE NextHeld(held)
      stale == WorkerIdle \/ "next" \notin held
  IN  (IF stale THEN held \ {"next"} ELSE held)
        \cup (IF WorkerIdle /\ nextRuns THEN {"next"} ELSE {})

PumpStatus(cmd, held, shown) == IF Starts(cmd, held) THEN Busy ELSE shown
PumpReopen(cmd, held) == reopenPending /\ ~Reopens(cmd, held)

\* Slip: the start does not reset newerWrite_.
PumpKeepsNewer(cmd, held, newer) ==
  \/ /\ Starts(cmd, held)
     /\ worker' = "running" /\ active' = cmd /\ newerWrite' = newer
     /\ pending' = NoCommand
  \/ /\ ~Starts(cmd, held)
     /\ worker' = IF worker = "done" THEN "none" ELSE worker
     /\ newerWrite' = newer
     /\ pending' = cmd
     /\ UNCHANGED active

Pump(cmd, held, newer) ==
  \/ /\ Starts(cmd, held)  \* startCommand
     /\ worker' = "running" /\ active' = cmd /\ newerWrite' = FALSE
     /\ pending' = NoCommand
  \/ /\ ~Starts(cmd, held)
     /\ worker' = IF worker = "done" THEN "none" ELSE worker
     /\ newerWrite' = newer
     /\ pending' = cmd
     /\ UNCHANGED active

-----------------------------------------------------------------------------
(* The emulation thread writes a command.                                  *)

WindowServed == sleepState \in {"Awake", "DormantWaking"}

\* processCommand: the newest command replaces one not yet started, and a
\* running one won't publish its status.
WriteCommand(kind, late) ==
  LET cmd  == [id |-> writes + 1, kind |-> kind]
      held == (timers \ ({"wait", "stray"} \cup
                         (IF sleepState = "DormantWaking" THEN {"event"} ELSE {})))
                \cup (IF kind = "DONE" THEN {"wait"} ELSE {})
                \cup (IF late THEN {"stamp"} ELSE {})
      shown == IF late THEN status ELSE Busy
  IN  /\ WindowServed
      /\ writes < MaxWrites
      /\ late => StampMayBeLate
      /\ writes' = writes + 1
      /\ owed' = writes'
      /\ sleepState' = "Awake"
      /\ sleepRequested' = (kind = "DONE")
      /\ awaitingFirst' = FALSE
      /\ Pump(cmd, held, newerWrite \/ worker # "none")
      /\ status' = PumpStatus(cmd, held, shown)
      /\ timers' = PumpTimers(cmd, held)
      /\ reopenPending' = PumpReopen(cmd, held)
      /\ UNCHANGED <<powmanLatched, coldBoot, missWakes, moduleVars>>

\* windowWriteUnserved: the write is lost; asleep, it is the wake.
WriteUnserved ==
  /\ ~WindowServed
  /\ \/ /\ sleepState = "PowmanPreparing"
        /\ powmanLatched' = TRUE
        /\ UNCHANGED <<sleepState, timers, missWakes>>
     \/ /\ sleepState = "Dormant" /\ WakeTakenAsAlarm /\ "event" \in timers
        /\ sleepState' = "PowmanPreparing"
        /\ powmanLatched' = FALSE
        /\ timers' = (timers \ {"deaf"}) \cup {"event"}
        /\ UNCHANGED missWakes
     \/ /\ \/ sleepState = "Powman"
           \/ /\ sleepState = "Dormant"
              /\ ~(WakeTakenAsAlarm /\ "event" \in timers)
              /\ "deaf" \notin timers
        /\ \/ /\ missWakes > 0
              /\ missWakes' = missWakes - 1
              /\ UNCHANGED <<sleepState, timers>>
           \/ /\ missWakes = 0
              /\ sleepState' = IF sleepState = "Powman" THEN "PowmanBooting"
                                                        ELSE "DormantWaking"
              /\ timers' = timers \cup {"event"}
              /\ UNCHANGED missWakes
        /\ UNCHANGED powmanLatched
  /\ UNCHANGED <<writes, owed, status, pending, workerVars, sleepRequested,
                 awaitingFirst, coldBoot, moduleVars, reopenPending>>

-----------------------------------------------------------------------------
(* The worker thread: dispatchCommand's effect, the status under           *)
(* doneMutex_, workerDone_.                                                *)

WorkerDispatch ==
  /\ worker = "running"
  /\ worker' = "dispatched"
  /\ CASE active.kind = "FINISH"  -> staged' \in BOOLEAN
       [] active.kind = "UNSTAGE" -> staged' = FALSE
       [] OTHER                   -> UNCHANGED staged
  /\ channelOpen' = CASE active.kind = "OPEN"  -> TRUE
                      [] active.kind = "CLOSE" -> FALSE
                      [] OTHER                 -> channelOpen
  /\ UNCHANGED <<writes, owed, status, pending, active, newerWrite, timers,
                 sleepVars, reopenPending>>

\* Slips: the status published whatever was written meanwhile, and under
\* the number of the command that waits.
WorkerPublishAlways ==
  /\ worker = "dispatched"
  /\ worker' = "published"
  /\ status' = Answer(active.id)
  /\ UNCHANGED <<writes, owed, pending, active, newerWrite, timers, sleepVars,
                 moduleVars, reopenPending>>

WorkerPublish ==
  /\ worker = "dispatched"
  /\ worker' = "published"
  /\ status' = IF newerWrite THEN status ELSE Answer(active.id)
  /\ UNCHANGED <<writes, owed, pending, active, newerWrite, timers, sleepVars,
                 moduleVars, reopenPending>>

WorkerDone ==
  /\ worker = "published"
  /\ worker' = "done"
  /\ UNCHANGED <<writes, owed, status, pending, active, newerWrite, timers,
                 sleepVars, moduleVars, reopenPending>>

-----------------------------------------------------------------------------
(* stepSleep, run after the pump: it sees the pump's pending' and worker'  *)
(* and adds to the pump's status and timers.                               *)

\* Slip: sleep without a look at the worker.
SleepDueThoughBusy(held) ==
  /\ sleepState = "Awake"
  /\ SleepOn /\ staged
  /\ \/ sleepRequested /\ "wait" \notin held
     \/ awaitingFirst /\ "stray" \notin held

SleepDue(held) ==
  /\ sleepState = "Awake"
  /\ SleepOn /\ staged
  /\ pending' = NoCommand /\ worker' = "none"
  /\ \/ sleepRequested /\ "wait" \notin held
     \/ awaitingFirst /\ "stray" \notin held

\* enterSleep, POWMANDELAY 0: to POWMAN at once; else DORMANT, with or
\* without the time after which it goes on to POWMAN.
EnterSleep(shown, held, reopen) ==
  LET quiet == held \ {"wait", "stray", "event", "deaf"}
  IN  /\ SleepDue(held)
      /\ sleepRequested' = FALSE /\ awaitingFirst' = FALSE
      /\ \/ /\ sleepState' = "PowmanPreparing"
            /\ powmanLatched' = FALSE
            /\ timers' = quiet \cup {"event"}
         \/ /\ sleepState' = "Dormant"
            /\ timers' \in {quiet \cup {"deaf"}, quiet \cup {"deaf", "event"}}
            /\ UNCHANGED powmanLatched
      /\ status' = shown
      /\ reopenPending' = reopen
      /\ UNCHANGED coldBoot

\* DORMANT's alarm: on to POWMAN.
DormantAlarm(el, shown, held, reopen) ==
  /\ sleepState = "Dormant" /\ "event" \in el
  /\ sleepState' = "PowmanPreparing"
  /\ powmanLatched' = FALSE
  /\ timers' = (held \ {"deaf"}) \cup {"event"}
  /\ status' = shown
  /\ reopenPending' = reopen
  /\ UNCHANGED <<sleepRequested, awaitingFirst, coldBoot>>

\* Slip: the latch is forgotten when the preparation ends.
PowmanPreparedUnlatched(shown, held, reopen) ==
  /\ sleepState = "PowmanPreparing" /\ "event" \notin held
  /\ sleepState' = "Powman"
  /\ timers' = held
  /\ reopenPending' = reopen
  /\ status' = shown
  /\ UNCHANGED <<sleepRequested, awaitingFirst, powmanLatched, coldBoot>>

\* POWMAN prepared: a write latched meanwhile calls it off
\* (reopenAfterPowmanPrepare, then the wake check).
PowmanPrepared(shown, held, reopen) ==
  /\ sleepState = "PowmanPreparing" /\ "event" \notin held
  /\ sleepState' = IF powmanLatched THEN "DormantWaking" ELSE "Powman"
  /\ timers' = IF powmanLatched THEN held \cup {"event"} ELSE held
  /\ reopenPending' = (reopen \/ (powmanLatched /\ channelOpen))
  /\ status' = shown
  /\ UNCHANGED <<sleepRequested, awaitingFirst, powmanLatched, coldBoot>>

\* The wake check of DORMANT, or a boot: AWAKE, unless after DORMANT a write
\* is already waiting.
WakeUp(shown, held, reopen) ==
  LET boot    == sleepState = "PowmanBooting"
      restore == boot /\ ~coldBoot
  IN  /\ sleepState \in {"DormantWaking", "PowmanBooting"}
      /\ "event" \notin held
      /\ status' = IF boot \/ pending' = NoCommand THEN Awake ELSE shown
      /\ sleepState' = "Awake"
      /\ awaitingFirst' = ~coldBoot
      /\ coldBoot' = FALSE
      /\ timers' = held \cup (IF restore THEN {"answer"} ELSE {})
                        \cup (IF coldBoot THEN {} ELSE {"stray"})
      /\ reopenPending' = (reopen \/ (restore /\ channelOpen))
      /\ UNCHANGED <<sleepRequested, powmanLatched>>

StaySo(shown, held, reopen) ==  \* no sleep event in this call
  /\ ~SleepDue(held)
  /\ sleepState \in {"Dormant", "PowmanPreparing", "DormantWaking",
                     "PowmanBooting"}
       => "event" \in held \/ (sleepState = "Dormant" /\ "event" \notin timers)
  /\ status' = shown
  /\ timers' = held
  /\ reopenPending' = reopen
  /\ UNCHANGED <<sleepState, sleepRequested, awaitingFirst, powmanLatched,
                 coldBoot>>

StepSleep(el, shown, held, reopen) ==
  \/ EnterSleep(shown, held, reopen)
  \/ DormantAlarm(el, shown, held, reopen)
  \/ PowmanPrepared(shown, held, reopen)
  \/ WakeUp(shown, held, reopen)
  \/ StaySo(shown, held, reopen)

\* advanceCycles: the deadlines `el' are reached, a late BUSY stamp lands,
\* then pumpCommands and stepSleep.
AdvanceCycles(el) ==
  LET held  == timers \ el
      shown == IF "stamp" \in el THEN Busy ELSE status
  IN  /\ Pump(pending, held, newerWrite)
      /\ StepSleep(el, PumpStatus(pending, held, shown),
                   PumpTimers(pending, held), PumpReopen(pending, held))
      /\ UNCHANGED <<writes, owed, missWakes, moduleVars>>

\* simulateColdBoot(keepStaged): joins the worker, then everything in the
\* MCU's RAM is gone.
ColdBoot(keepStaged) ==
  /\ WorkerIdle
  /\ worker' = "none"
  /\ pending' = NoCommand
  /\ owed' = 0
  /\ timers' = (timers \ {"stamp", "wait", "stray", "deaf"})
                 \cup {"event", "answer"}
  /\ reopenPending' = FALSE /\ channelOpen' = FALSE
  /\ staged' = (staged /\ keepStaged)
  /\ sleepRequested' = FALSE /\ awaitingFirst' = FALSE
  /\ coldBoot' = TRUE
  /\ sleepState' = "PowmanBooting"
  /\ UNCHANGED <<writes, status, active, newerWrite, powmanLatched, missWakes>>

-----------------------------------------------------------------------------
Advance == \E el \in SUBSET timers : AdvanceCycles(el)
Worker  == WorkerDispatch \/ WorkerPublish \/ WorkerDone

CommandNext ==
  \/ \E kind \in Kinds, late \in BOOLEAN : WriteCommand(kind, late)
  \/ WriteUnserved
  \/ Worker
  \/ Advance
  \/ \E keepStaged \in BOOLEAN : ColdBoot(keepStaged)

CommandSpec == CommandInit /\ [][CommandNext]_commandVars

(* The worker is a thread of its own and every command returns; the        *)
(* emulation thread calls advanceCycles for ever and the clock passes      *)
(* every deadline.  "wait" may stand for SLEEPWAIT -1 (never), so nothing  *)
(* is assumed of it.  Writes and power cycles are never forced.            *)
CommandFairness ==
  /\ WF_commandVars(Worker)
  /\ WF_commandVars(Advance)
  /\ \A t \in TimerNames \ {"wait"} :
       WF_commandVars(\E el \in SUBSET timers : t \in el /\ AdvanceCycles(el))

CommandFairSpec == CommandSpec /\ CommandFairness

-----------------------------------------------------------------------------
(* Properties.                                                             *)

\* While the window is served, an answer the cell reads is the newest
\* command's, unless a newer write's BUSY stamp is still on its way.
AnswerIsNewest ==
  WindowServed /\ status \in Answers /\ "stamp" \notin timers
    => status = Answer(owed)

\* The module never sleeps, wakes or boots with a command written, running
\* or unpumped: what stepSleep does to the SD channels and the window on the
\* emulation thread never races the worker.
QuietUnlessAwake == sleepState # "Awake" => ~CommandInFlight

\* The parts of the cell's inductive invariant.  A BUSY stamp still due has
\* the newest command waiting behind it, so it never lands on an answer; a
\* running command is the newest one or is overtaken by one that waits; the
\* cell reads BUSY until the running command publishes, then its answer; and
\* BUSY is never left behind with nobody to replace it.
WaitingIsNewest ==
  /\ owed <= writes
  /\ pending # NoCommand => pending.id = owed
  /\ "stamp" \in timers => pending # NoCommand
RunningIsNewestOrOvertaken ==
  worker # "none" => /\ active \in Command
                     /\ newerWrite <=> pending # NoCommand
                     /\ ~newerWrite => active.id = owed
BusyUntilPublished ==
  /\ worker \in {"running", "dispatched"} => status = Busy
  /\ worker \in {"published", "done"} /\ ~newerWrite => status = Answer(owed)
  /\ status = Busy /\ owed # 0 => CommandInFlight
AnswerIsNewestAsleep ==
  sleepState # "PowmanBooting" /\ status \in Answers /\ "stamp" \notin timers
    => status = Answer(owed)
CommandInv == /\ WaitingIsNewest /\ RunningIsNewestOrOvertaken
              /\ BusyUntilPublished /\ AnswerIsNewestAsleep

\* A write's command is answered in the end, unless a newer write or a
\* power cycle takes its place.
NewestIsAnswered ==
  \A n \in 1..MaxWrites :
    (owed = n /\ CommandInFlight) ~> (status = Answer(n) \/ owed # n)

\* Every wake ends with the window served: also a write latched while POWMAN
\* was being prepared, which was lost as a write.
WakeIsServed ==
  (\/ sleepState \in {"DormantWaking", "PowmanBooting"}
   \/ sleepState = "PowmanPreparing" /\ powmanLatched) ~> sleepState = "Awake"

\* Both: whatever is asked of the module is served in the end.
ModuleResponds == NewestIsAnswered /\ WakeIsServed

\* The command cell implements the latest-write-wins mailbox.
Cell == INSTANCE Mailbox WITH shown <- status
ImplementsMailbox == Cell!Spec

=============================================================================
