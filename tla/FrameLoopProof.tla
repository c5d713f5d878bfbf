--------------------------- MODULE FrameLoopProof ---------------------------
(***************************************************************************)
(* What the frame loop's devices promise: module ExpansionCommand's        *)
(* command cell for any number of commands, any settings and any order of  *)
(* its deadlines, with the refinement of module Mailbox, and module        *)
(* TimerPulse's BREAK and WAIT for every period, debounce, poll and frame  *)
(* time that satisfies PulseAssumption; that BREAK is only ever the ON key *)
(* holds for clocks set back at a frame's start too.                       *)
(*                                                                         *)
(* BreakOnlyByKey alone is not inductive: a read of IF is safe because TP  *)
(* runs in a WAIT and nowhere else (RunsInWait), because no edge is left   *)
(* pending between two reads (NothingPending), because the loop's own      *)
(* read of IF follows a sample, its own of OPB or a frame's, that is still *)
(* young enough to be trusted (CheckIsYoung), and because the interrupt's  *)
(* handler only ever runs for the key (InterruptIsKey).                    *)
(*                                                                         *)
(* Module DebugAdapter's EditorKnows, with one answer late or torn, rests  *)
(* on the answers still due (Due): one late answer leaves every later call *)
(* to be answered by the line before its own, never by two before it       *)
(* (OneBehind).  That is enough for what each request relies on while its  *)
(* steps are carried out: most leave a stopped target stopped (Quiet); a   *)
(* pause has stopped it or is the last line under way (Parked); a continue *)
(* starts the poll thread after the last call that might meet its answer.  *)
(* A launch ends with the pause that puts the target under debug control   *)
(* (Held): from then on control is there or that pause is due (Governed),  *)
(* and the launch's call is never the last line under way (Followed).      *)
(***************************************************************************)
EXTENDS ExpansionCommand, TimerPulse, DebugAdapter, SublistLemmas

-----------------------------------------------------------------------------
(* The command cell.                                                       *)

CellInv == CommandTypeOK /\ QuietUnlessAwake /\ CommandInv

(* TLAPS sees the assumptions and the two kinds of status through this.    *)
LEMMA StatusKinds ==
  /\ Busy # Awake
  /\ Busy \notin Answers
  /\ Awake \notin Answers
  /\ \A n : Answer(n) # Busy /\ Answer(n) # Awake
  /\ \A m, n : Answer(m) = Answer(n) => m = n
  /\ NoCommand \notin Command
BY DEF Busy, Awake, Answers, Answer, NoCommand, Command

\* What one pump does to the command: it starts the newest one, or leaves it
\* waiting and at most takes the finished worker down.
LEMMA PumpEffect ==
  ASSUME NEW cmd, NEW held, NEW newer, Pump(cmd, held, newer)
  PROVE  \/ /\ cmd # NoCommand /\ worker \in {"none", "done"}
            /\ "stamp" \notin held
            /\ worker' = "running" /\ active' = cmd /\ newerWrite' = FALSE
            /\ pending' = NoCommand
            /\ \A shown : PumpStatus(cmd, held, shown) = Busy
         \/ /\ worker' = IF worker = "done" THEN "none" ELSE worker
            /\ newerWrite' = newer /\ pending' = cmd /\ active' = active
            /\ \A shown : PumpStatus(cmd, held, shown) = shown
<1>1. CASE Starts(cmd, held)
  BY <1>1 DEF Pump, Starts, MayStart, WorkerIdle, PumpStatus
<1>2. CASE ~Starts(cmd, held)
  BY <1>2 DEF Pump, PumpStatus
<1> QED BY <1>1, <1>2

LEMMA PumpTimersEffect ==
  ASSUME NEW cmd, NEW held
  PROVE  /\ held \subseteq TimerNames => PumpTimers(cmd, held) \subseteq TimerNames
         /\ \A t : t # "next" => (t \in PumpTimers(cmd, held) <=> t \in held)
BY DEF PumpTimers, TimerNames

-----------------------------------------------------------------------------
LEMMA CellStarts == CommandInit => CellInv
<1> SUFFICES ASSUME CommandInit PROVE CellInv
  OBVIOUS
<1>0. FlagsOK
  BY DEF CommandInit, FlagsOK
<1>1. CommandTypeOK
  BY <1>0, BoundsAssumption DEF CommandInit, CommandTypeOK, SleepStates
<1>2. QuietUnlessAwake /\ CommandInv
  BY StatusKinds
     DEF CommandInit, QuietUnlessAwake, CommandInv, WaitingIsNewest,
         RunningIsNewestOrOvertaken, BusyUntilPublished, AnswerIsNewestAsleep
<1> QED BY <1>1, <1>2 DEF CellInv

LEMMA WriteInv ==
  ASSUME CellInv, NEW kind \in Kinds, NEW late \in BOOLEAN,
         WriteCommand(kind, late)
  PROVE  CellInv'
<1> DEFINE cmd  == [id |-> writes + 1, kind |-> kind]
           held == (timers \ ({"wait", "stray"} \cup
                     (IF sleepState = "DormantWaking" THEN {"event"} ELSE {})))
                     \cup (IF kind = "DONE" THEN {"wait"} ELSE {})
                     \cup (IF late THEN {"stamp"} ELSE {})
           shown == IF late THEN status ELSE Busy
           newer == newerWrite \/ worker # "none"
<1>1. /\ writes' = writes + 1 /\ owed' = writes' /\ writes' \in 1..MaxWrites
      /\ Pump(cmd, held, newer)
      /\ status' = PumpStatus(cmd, held, shown)
      /\ timers' = PumpTimers(cmd, held)
      /\ reopenPending' = PumpReopen(cmd, held)
      /\ sleepState' = "Awake"
      /\ sleepRequested' = (kind = "DONE") /\ awaitingFirst' = FALSE
      /\ UNCHANGED <<powmanLatched, coldBoot, missWakes, moduleVars>>
  BY BoundsAssumption DEF WriteCommand, CellInv, CommandTypeOK
<1>2. cmd \in Command /\ cmd # NoCommand /\ cmd.id = writes'
  BY <1>1, StatusKinds DEF Command
<1>3. held \subseteq TimerNames /\ ("stamp" \in held => late \/ "stamp" \in timers)
      /\ (late => "stamp" \in held)
  BY DEF CellInv, CommandTypeOK, TimerNames
<1>4. timers' \subseteq TimerNames /\ ("stamp" \in timers' <=> "stamp" \in held)
  BY <1>1, <1>3, PumpTimersEffect
<1>5. newerWrite' \in BOOLEAN => FlagsOK'
  BY <1>1 DEF PumpReopen, CellInv, CommandTypeOK, FlagsOK, moduleVars
<1> HIDE DEF cmd, held, newer
<1>6. CASE /\ worker \in {"none", "done"} /\ "stamp" \notin held
           /\ worker' = "running" /\ active' = cmd /\ newerWrite' = FALSE
           /\ pending' = NoCommand /\ status' = Busy
  <2>1. CommandTypeOK'
    <3>1. FlagsOK'
      BY <1>5, <1>6
    <3> QED BY <1>1, <1>2, <1>4, <1>6, <3>1 DEF CellInv, CommandTypeOK, SleepStates
  <2>2. QuietUnlessAwake' /\ CommandInv'
    BY <1>1, <1>2, <1>3, <1>4, <1>6, StatusKinds
       DEF CellInv, CommandTypeOK, QuietUnlessAwake, CommandInv, WaitingIsNewest,
           RunningIsNewestOrOvertaken, BusyUntilPublished,
           AnswerIsNewestAsleep, CommandInFlight
  <2> QED BY <2>1, <2>2 DEF CellInv
<1>7. CASE /\ worker' = IF worker = "done" THEN "none" ELSE worker
           /\ newerWrite' = newer /\ pending' = cmd /\ active' = active
           /\ status' = shown
  <2>1. CommandTypeOK'
    <3>1. newerWrite' \in BOOLEAN
      BY <1>7 DEF CellInv, CommandTypeOK, FlagsOK, newer
    <3>2. status' \in {Busy, Awake} \cup Answers
      BY <1>7 DEF CellInv, CommandTypeOK
    <3> QED BY <1>1, <1>2, <1>4, <1>5, <1>7, <3>1, <3>2 DEF CellInv, CommandTypeOK, SleepStates
  <2>2. QuietUnlessAwake' /\ WaitingIsNewest'
    BY <1>1, <1>2, <1>7 DEF CellInv, CommandTypeOK, QuietUnlessAwake, WaitingIsNewest
  <2>3. RunningIsNewestOrOvertaken'
    BY <1>1, <1>2, <1>7 DEF CellInv, CommandTypeOK, CommandInv, RunningIsNewestOrOvertaken, newer
  <2>4. BusyUntilPublished'
    BY <1>1, <1>2, <1>7 DEF CellInv, CommandTypeOK, CommandInv, BusyUntilPublished,
       CommandInFlight, newer
  <2>5. AnswerIsNewestAsleep'
    BY <1>3, <1>4, <1>7, StatusKinds DEF AnswerIsNewestAsleep
  <2> QED BY <2>1, <2>2, <2>3, <2>4, <2>5 DEF CellInv, CommandInv
<1> QED
  BY <1>1, <1>6, <1>7, PumpEffect, Zenon

LEMMA UnservedInv == CellInv /\ WriteUnserved => CellInv'
<1> SUFFICES ASSUME CellInv, WriteUnserved PROVE CellInv'
  OBVIOUS
<1>1. /\ sleepState # "Awake" /\ sleepState' # "Awake"
      /\ sleepState' = "PowmanBooting" \/ sleepState # "PowmanBooting"
      /\ sleepState' \in SleepStates
      /\ timers' \subseteq TimerNames
      /\ "stamp" \in timers' <=> "stamp" \in timers
      /\ missWakes' \in 0..MaxMissed
  <2>1. missWakes' \in 0..MaxMissed
    BY BoundsAssumption DEF WriteUnserved, CellInv, CommandTypeOK
  <2>2. /\ timers' \subseteq TimerNames
        /\ "stamp" \in timers' <=> "stamp" \in timers
    BY DEF WriteUnserved, CellInv, CommandTypeOK, TimerNames
  <2>3. /\ sleepState # "Awake" /\ sleepState' # "Awake"
        /\ sleepState' = "PowmanBooting" \/ sleepState # "PowmanBooting"
        /\ sleepState' \in SleepStates
    BY DEF WriteUnserved, WindowServed, CellInv, CommandTypeOK, SleepStates
  <2> QED BY <2>1, <2>2, <2>3
<1>2. UNCHANGED <<writes, owed, status, pending, worker, active, newerWrite>>
  BY DEF WriteUnserved, workerVars
<1>3. FlagsOK'
  BY DEF WriteUnserved, CellInv, CommandTypeOK, FlagsOK, moduleVars, workerVars
<1>4. CommandTypeOK'
  BY <1>1, <1>2, <1>3 DEF CellInv, CommandTypeOK
<1>5. QuietUnlessAwake' /\ CommandInv'
  BY <1>1, <1>2 DEF CellInv, QuietUnlessAwake, CommandInv, WaitingIsNewest,
     RunningIsNewestOrOvertaken, BusyUntilPublished, AnswerIsNewestAsleep,
     CommandInFlight
<1> QED BY <1>4, <1>5 DEF CellInv

LEMMA WorkerInv == CellInv /\ Worker => CellInv'
<1> SUFFICES ASSUME CellInv, Worker PROVE CellInv'
  OBVIOUS
<1>1. /\ UNCHANGED <<writes, owed, pending, active, newerWrite, timers,
                     sleepState, missWakes>>
      /\ worker # "none" /\ worker' # "none"
      /\ worker' \in {"dispatched", "published", "done"}
  BY DEF Worker, WorkerDispatch, WorkerPublish, WorkerDone, sleepVars
<1>2. active \in Command /\ active.id \in 1..MaxWrites /\ sleepState = "Awake"
  BY <1>1 DEF CellInv, CommandInv, RunningIsNewestOrOvertaken, QuietUnlessAwake,
     CommandInFlight, Command
<1>3. FlagsOK'
  BY DEF Worker, WorkerDispatch, WorkerPublish, WorkerDone, sleepVars,
     moduleVars, CellInv, CommandTypeOK, FlagsOK
<1>4. status' \in {Busy, Awake} \cup Answers
  BY <1>2 DEF Worker, WorkerDispatch, WorkerPublish, WorkerDone, CellInv, CommandTypeOK,
     Answers
<1>5. CommandTypeOK'
  BY <1>1, <1>3, <1>4 DEF CellInv, CommandTypeOK
<1>6. QuietUnlessAwake' /\ WaitingIsNewest' /\ RunningIsNewestOrOvertaken'
  BY <1>1, <1>2 DEF CellInv, CommandInv, QuietUnlessAwake, WaitingIsNewest,
     RunningIsNewestOrOvertaken
<1>7. BusyUntilPublished' /\ AnswerIsNewestAsleep'
  <2>1. CASE WorkerPublish /\ ~newerWrite
    <3>1. status' = Answer(owed) /\ worker' = "published"
      BY <2>1, <1>1, <1>2 DEF WorkerPublish, CellInv, CommandInv,
         RunningIsNewestOrOvertaken
    <3> QED BY <3>1, <1>1, StatusKinds DEF BusyUntilPublished,
            AnswerIsNewestAsleep, Answer, Busy
  <2>2. CASE WorkerPublish /\ newerWrite
    BY <2>2, <1>1 DEF WorkerPublish, CellInv, CommandInv, BusyUntilPublished,
       AnswerIsNewestAsleep, CommandInFlight
  <2>3. CASE WorkerDispatch \/ WorkerDone
    BY <2>3, <1>1 DEF WorkerDispatch, WorkerDone, CellInv, CommandInv,
       BusyUntilPublished, AnswerIsNewestAsleep, CommandInFlight
  <2> QED BY <2>1, <2>2, <2>3 DEF Worker
<1> QED BY <1>5, <1>6, <1>7 DEF CellInv, CommandInv

LEMMA ColdBootInv ==
  ASSUME CellInv, NEW keepStaged \in BOOLEAN, ColdBoot(keepStaged)
  PROVE  CellInv'
<1>1. /\ UNCHANGED <<writes, status, active, newerWrite, missWakes>>
      /\ worker' = "none" /\ pending' = NoCommand /\ owed' = 0
      /\ sleepState' = "PowmanBooting"
      /\ timers' \subseteq TimerNames /\ "stamp" \notin timers'
  BY DEF ColdBoot, CellInv, CommandTypeOK, TimerNames
<1>2. FlagsOK'
  BY DEF ColdBoot, CellInv, CommandTypeOK, FlagsOK
<1>3. CommandTypeOK'
  BY <1>1, <1>2, BoundsAssumption DEF CellInv, CommandTypeOK, SleepStates
<1>4. QuietUnlessAwake' /\ CommandInv'
  BY <1>1 DEF CellInv, CommandTypeOK, QuietUnlessAwake, CommandInv, WaitingIsNewest,
     RunningIsNewestOrOvertaken, BusyUntilPublished, AnswerIsNewestAsleep,
     CommandInFlight
<1> QED BY <1>3, <1>4 DEF CellInv

\* What the sleep step may do to the cell and to the sleep state.
LEMMA StepSleepEffect ==
  ASSUME NEW el, NEW shown, NEW held, NEW reopen,
         CommandTypeOK, held \subseteq TimerNames, reopen \in BOOLEAN,
         StepSleep(el, shown, held, reopen)
  PROVE  /\ status' = shown \/ (status' = Awake /\ sleepState # "Awake")
         /\ timers' \subseteq TimerNames
         /\ "stamp" \in timers' <=> "stamp" \in held
         /\ sleepState' \in SleepStates
         /\ sleepState' # "Awake" =>
              sleepState # "Awake" \/ (pending' = NoCommand /\ worker' = "none")
         /\ sleepState' = "PowmanBooting" =>
              sleepState = "PowmanBooting" /\ status' = shown
         /\ sleepState = "PowmanBooting" /\ sleepState' # "PowmanBooting"
              => status' = Awake
<1> USE DEF StepSleep, EnterSleep, DormantAlarm, PowmanPrepared, WakeUp, StaySo,
            SleepDue
<1>1. status' = shown \/ (status' = Awake /\ sleepState # "Awake")
  OBVIOUS
<1>2. /\ timers' \subseteq TimerNames
      /\ "stamp" \in timers' <=> "stamp" \in held
  BY DEF TimerNames
<1>3. sleepState' \in SleepStates
  BY DEF SleepStates, CommandTypeOK
<1>4. sleepState' # "Awake" =>
        sleepState # "Awake" \/ (pending' = NoCommand /\ worker' = "none")
  OBVIOUS
<1>5. sleepState' = "PowmanBooting" =>
        sleepState = "PowmanBooting" /\ status' = shown
  OBVIOUS
<1>6. sleepState = "PowmanBooting" =>
        sleepState' = "PowmanBooting" \/ (sleepState' = "Awake" /\ status' = Awake)
  OBVIOUS
<1> QED BY <1>1, <1>2, <1>3, <1>4, <1>5, <1>6

LEMMA AdvanceFlags ==
  ASSUME CellInv, NEW el \in SUBSET timers, AdvanceCycles(el)
  PROVE  FlagsOK'
<1> DEFINE held  == timers \ el
           shown == IF "stamp" \in el THEN Busy ELSE status
           after == PumpStatus(pending, held, shown)
           left  == PumpTimers(pending, held)
<1>1. Pump(pending, held, newerWrite)
      /\ StepSleep(el, after, left, PumpReopen(pending, held))
      /\ UNCHANGED <<staged, channelOpen>>
  BY DEF AdvanceCycles, moduleVars
<1>2. newerWrite' \in BOOLEAN
  BY <1>1 DEF Pump, CellInv, CommandTypeOK, FlagsOK
<1>3. PumpReopen(pending, held) \in BOOLEAN
  BY DEF PumpReopen
<1> HIDE DEF held, after, left
<1>4. /\ sleepRequested' \in BOOLEAN /\ awaitingFirst' \in BOOLEAN
      /\ powmanLatched' \in BOOLEAN /\ coldBoot' \in BOOLEAN
      /\ reopenPending' \in BOOLEAN
  BY <1>1, <1>3 DEF CellInv, CommandTypeOK, FlagsOK, StepSleep, EnterSleep, DormantAlarm,
     PowmanPrepared, WakeUp, StaySo
<1> QED BY <1>1, <1>2, <1>4 DEF CellInv, CommandTypeOK, FlagsOK

LEMMA AdvanceInv ==
  ASSUME CellInv, NEW el \in SUBSET timers, AdvanceCycles(el)
  PROVE  CellInv'
<1> DEFINE held  == timers \ el
           shown == IF "stamp" \in el THEN Busy ELSE status
           after == PumpStatus(pending, held, shown)
           left  == PumpTimers(pending, held)
           step  == StepSleep(el, after, left, PumpReopen(pending, held))
<1>1. /\ Pump(pending, held, newerWrite) /\ step
      /\ UNCHANGED <<writes, owed, missWakes>>
  BY DEF AdvanceCycles
<1>2. /\ left \subseteq TimerNames
      /\ "stamp" \in left <=> "stamp" \in timers /\ "stamp" \notin el
  BY PumpTimersEffect DEF CellInv, CommandTypeOK
<1>3. PumpReopen(pending, held) \in BOOLEAN /\ CommandTypeOK
  BY DEF PumpReopen, CellInv
<1>4. /\ status' = after \/ (status' = Awake /\ sleepState # "Awake")
      /\ timers' \subseteq TimerNames
      /\ "stamp" \in timers' <=> "stamp" \in left
      /\ sleepState' \in SleepStates
      /\ sleepState' # "Awake" =>
           sleepState # "Awake" \/ (pending' = NoCommand /\ worker' = "none")
      /\ sleepState' = "PowmanBooting" =>
           sleepState = "PowmanBooting" /\ status' = after
      /\ sleepState = "PowmanBooting" /\ sleepState' # "PowmanBooting"
           => status' = Awake
  <2> HIDE DEF after, left
  <2> QED BY <1>1, <1>2, <1>3, StepSleepEffect
<1>5. FlagsOK'
  BY AdvanceFlags
<1>6. /\ shown = status \/ (shown = Busy /\ "stamp" \in timers)
      /\ "stamp" \in el => shown = Busy
  OBVIOUS
<1> HIDE DEF step, left, after, held, shown
<1>7. CASE /\ pending # NoCommand /\ worker \in {"none", "done"}
           /\ "stamp" \notin held
           /\ worker' = "running" /\ active' = pending /\ newerWrite' = FALSE
           /\ pending' = NoCommand /\ after = Busy
  <2>1. sleepState = "Awake" /\ sleepState' = "Awake" /\ status' = Busy
        /\ pending \in Command /\ "stamp" \notin timers'
    BY <1>4, <1>7, <1>2 DEF CellInv, CommandTypeOK, QuietUnlessAwake, CommandInFlight, held
  <2>2. CommandTypeOK'
    BY <1>1, <1>4, <1>5, <1>7, <2>1 DEF CommandTypeOK, CellInv
  <2>3. QuietUnlessAwake' /\ CommandInv'
    BY <1>1, <1>7, <2>1, StatusKinds DEF CellInv, QuietUnlessAwake, CommandInv,
       WaitingIsNewest, RunningIsNewestOrOvertaken, BusyUntilPublished,
       AnswerIsNewestAsleep, CommandInFlight
  <2> QED BY <2>2, <2>3 DEF CellInv
<1>8. CASE /\ worker' = IF worker = "done" THEN "none" ELSE worker
           /\ newerWrite' = newerWrite /\ pending' = pending
           /\ active' = active /\ after = shown
  <2>1. status' \in {Busy, Awake} \cup Answers
    BY <1>4, <1>6, <1>8 DEF CommandTypeOK, CellInv
  <2>2. CommandTypeOK'
    <3>1. worker' \in {"none", "running", "dispatched", "published", "done"}
      BY <1>8 DEF CommandTypeOK, CellInv
    <3> QED BY <1>1, <1>4, <1>5, <1>8, <2>1, <3>1 DEF CommandTypeOK, CellInv
  <2>3. QuietUnlessAwake' /\ WaitingIsNewest' /\ RunningIsNewestOrOvertaken'
    BY <1>1, <1>2, <1>4, <1>8 DEF CellInv, QuietUnlessAwake, CommandInv,
       WaitingIsNewest, RunningIsNewestOrOvertaken, CommandInFlight
  <2>4. BusyUntilPublished'
    <3>1. worker # "none" => status' = status \/ (status' = Busy /\ newerWrite)
      BY <1>4, <1>6, <1>8 DEF CellInv, QuietUnlessAwake, CommandInv,
         WaitingIsNewest, RunningIsNewestOrOvertaken, CommandInFlight
    <3>2. status' = Busy => status = Busy \/ pending # NoCommand
      BY <1>4, <1>6, <1>8, StatusKinds DEF CellInv, CommandInv, WaitingIsNewest
    <3>3. worker' \in {"running", "dispatched"} => status' = Busy
      BY <1>8, <3>1 DEF CellInv, CommandInv, BusyUntilPublished
    <3>4. worker' \in {"published", "done"} /\ ~newerWrite'
            => status' = Answer(owed')
      BY <1>1, <1>8, <3>1 DEF CellInv, CommandInv, BusyUntilPublished
    <3>5. status' = Busy /\ owed' # 0 => CommandInFlight'
      BY <1>1, <1>8, <3>2, StatusKinds DEF CellInv, CommandInv,
         BusyUntilPublished, RunningIsNewestOrOvertaken, CommandInFlight
    <3> QED BY <3>3, <3>4, <3>5 DEF BusyUntilPublished
  <2>5. AnswerIsNewestAsleep'
    BY <1>1, <1>2, <1>4, <1>6, <1>8, StatusKinds DEF CellInv, CommandInv,
       AnswerIsNewestAsleep
  <2> QED BY <2>2, <2>3, <2>4, <2>5 DEF CellInv, CommandInv
<1> QED
  BY <1>1, <1>7, <1>8, PumpEffect, Zenon DEF after

LEMMA StutterInv == CellInv /\ UNCHANGED commandVars => CellInv'
BY DEF commandVars, workerVars, sleepVars, moduleVars, CellInv, CommandTypeOK, FlagsOK,
   QuietUnlessAwake, CommandInv, WaitingIsNewest, RunningIsNewestOrOvertaken,
   BusyUntilPublished, AnswerIsNewestAsleep, CommandInFlight

LEMMA CommandKept == CellInv /\ [CommandNext]_commandVars => CellInv'
BY WriteInv, UnservedInv, WorkerInv, AdvanceInv, ColdBootInv, StutterInv
   DEF CommandNext, Advance

-----------------------------------------------------------------------------
(* Every reachable state of the command cell is well-typed.                *)
THEOREM TypeCorrect == CommandSpec => []CommandTypeOK
<1>1. CellInv => CommandTypeOK
  BY DEF CellInv
<1> QED BY <1>1, CellStarts, CommandKept, PTL DEF CommandSpec

(* No sleep, wake or boot while a command is written, running or unpumped. *)
THEOREM QuietSleep == CommandSpec => []QuietUnlessAwake
<1>1. CellInv => QuietUnlessAwake
  BY DEF CellInv
<1> QED BY <1>1, CellStarts, CommandKept, PTL DEF CommandSpec

(* The answer the cell shows while the window is served is the newest      *)
(* command's: the worker never publishes the status of an overtaken one.   *)
THEOREM AnswersNewest == CommandSpec => []AnswerIsNewest
<1>1. CellInv => AnswerIsNewest
  BY DEF CellInv, CommandInv, AnswerIsNewestAsleep, AnswerIsNewest, WindowServed
<1> QED BY <1>1, CellStarts, CommandKept, PTL DEF CommandSpec

-----------------------------------------------------------------------------
(* The refinement: each step of the cell is a step of the mailbox or       *)
(* changes nothing it sees.                                                *)

CellSame == /\ Busy = Cell!Busy /\ Awake = Cell!Awake
            /\ \A n : Answer(n) = Cell!Answer(n)

LEMMA SameCell == CellSame
BY DEF CellSame, Busy, Awake, Answer, Cell!Busy, Cell!Awake, Cell!Answer

LEMMA CellInit == CommandInit => Cell!Init
BY SameCell DEF CellSame, CommandInit, Cell!Init

LEMMA CellStep == CellInv /\ [CommandNext]_commandVars => [Cell!Next]_<<owed, status>>
<1> SUFFICES ASSUME CellInv, [CommandNext]_commandVars PROVE [Cell!Next]_<<owed, status>>
  OBVIOUS
<1> USE SameCell DEF CellSame
<1>1. ASSUME NEW kind \in Kinds, NEW late \in BOOLEAN, WriteCommand(kind, late)
      PROVE  Cell!Write
  <2> DEFINE cmd  == [id |-> writes + 1, kind |-> kind]
             held == (timers \ ({"wait", "stray"} \cup
                       (IF sleepState = "DormantWaking" THEN {"event"} ELSE {})))
                       \cup (IF kind = "DONE" THEN {"wait"} ELSE {})
                       \cup (IF late THEN {"stamp"} ELSE {})
             shown == IF late THEN status ELSE Busy
  <2>1. owed' = writes + 1 /\ writes < MaxWrites
        /\ status' = PumpStatus(cmd, held, shown)
    BY <1>1 DEF WriteCommand
  <2>2. status' \in {status, Busy}
    BY <2>1 DEF PumpStatus
  <2>3. owed' \in 1..MaxWrites /\ owed' > owed
    BY <2>1, BoundsAssumption DEF CellInv, CommandTypeOK, CommandInv, WaitingIsNewest
  <2> QED BY <2>2, <2>3 DEF Cell!Write
<1>2. CASE WriteUnserved
  BY <1>2 DEF WriteUnserved
<1>3. CASE Worker
  <2>1. UNCHANGED owed
    BY <1>3 DEF Worker, WorkerDispatch, WorkerPublish, WorkerDone
  <2>2. CASE WorkerPublish /\ ~newerWrite
    BY <2>1, <2>2 DEF WorkerPublish, Cell!Next, Cell!Reply, CellInv, CommandInv,
       RunningIsNewestOrOvertaken, BusyUntilPublished, Command
  <2>3. CASE ~(WorkerPublish /\ ~newerWrite)
    BY <1>3, <2>1, <2>3 DEF Worker, WorkerDispatch, WorkerPublish, WorkerDone
  <2> QED BY <2>2, <2>3
<1>4. ASSUME NEW el \in SUBSET timers, AdvanceCycles(el)
      PROVE  UNCHANGED <<owed, status>> \/ Cell!Stamp \/ Cell!Wake
  <2> DEFINE held  == timers \ el
             shown == IF "stamp" \in el THEN Busy ELSE status
             after == PumpStatus(pending, held, shown)
             left  == PumpTimers(pending, held)
  <2>1. UNCHANGED owed /\ StepSleep(el, after, left, PumpReopen(pending, held))
    BY <1>4 DEF AdvanceCycles
  <2>2. after = status \/ (after = Busy /\ pending # NoCommand)
    BY DEF PumpStatus, Starts, MayStart, CellInv, CommandInv, WaitingIsNewest
  <2> HIDE DEF after, left, held
  <2>3. status' = after \/ (status' = Awake /\ sleepState # "Awake")
    BY <2>1 DEF StepSleep, EnterSleep, DormantAlarm, PowmanPrepared, WakeUp,
       StaySo
  <2>4. CASE status' = Awake /\ sleepState # "Awake"
    <3>1. status = Busy => owed = 0
      BY <2>4 DEF CellInv, QuietUnlessAwake, CommandInv, BusyUntilPublished
    <3> QED BY <2>1, <2>4, <3>1 DEF Cell!Wake
  <2>5. CASE status' = Busy /\ pending # NoCommand
    <3>1. owed # 0
      BY <2>5 DEF CellInv, CommandTypeOK, CommandInv, WaitingIsNewest, Command
    <3> QED BY <2>1, <2>5, <3>1 DEF Cell!Stamp
  <2> QED BY <2>1, <2>2, <2>3, <2>4, <2>5
<1>5. ASSUME NEW keepStaged \in BOOLEAN, ColdBoot(keepStaged)
      PROVE  Cell!Reset
  BY <1>5 DEF ColdBoot, Cell!Reset
<1>6. CASE UNCHANGED commandVars
  BY <1>6 DEF commandVars
<1> QED
  BY <1>1, <1>2, <1>3, <1>4, <1>5, <1>6 DEF CommandNext, Advance, Cell!Next

(* The command cell implements the latest-write-wins mailbox: an answer    *)
(* follows BUSY and is the newest command's, and a wake never covers the   *)
(* BUSY of a command still owed its answer.                                *)
THEOREM Refinement == CommandSpec => ImplementsMailbox
BY CellStarts, CommandKept, CellInit, CellStep, PTL
   DEF CommandSpec, ImplementsMailbox, Cell!Spec, Cell!mailboxVars

-----------------------------------------------------------------------------
(* RTC timer pulse, WAIT and BREAK.                                        *)

RunsInWait     == (configured => InWait) /\ (InWait => configured)
NothingPending == pendingEdge = FALSE
CheckIsYoung   == rom = "check" => opbAge + due <= Gap
InterruptIsKey == mi => keyed
Times          == opbAge \in Nat /\ due \in Nat

PulseInv == BreakOnlyByKey /\ RunsInWait /\ NothingPending
         /\ CheckIsYoung /\ InterruptIsKey /\ Times

LEMMA PulseStarts == PulseInit => PulseInv
BY PulseAssumption
   DEF PulseInit, PulseInv, BreakOnlyByKey, RunsInWait, NothingPending,
       CheckIsYoung, InterruptIsKey, Times, InWait

(* An IF read that sets no tick: the chip is stopped or OPB's read young. *)
LEMMA NoEdge ==
  ASSUME PulseInv, ~configured \/ rom = "check"
  PROVE  ~Edge
BY PulseAssumption
   DEF PulseInv, NothingPending, CheckIsYoung, Times, Edge, Trusts, SyncedPending

LEMMA PulseStep == PulseInv /\ [PulseNext]_pulseVars => PulseInv'
<1> SUFFICES ASSUME PulseInv, [PulseNext]_pulseVars PROVE PulseInv'
  OBVIOUS
<1> USE PulseAssumption
<1>1. CASE Tick
  <2>1. BreakOnlyByKey' /\ RunsInWait' /\ NothingPending'
        /\ InterruptIsKey'
    BY <1>1 DEF Tick, PulseInv, BreakOnlyByKey, RunsInWait,
       NothingPending, InterruptIsKey, InWait, key
  <2>2. CheckIsYoung' /\ Times'
    BY <1>1 DEF Tick, PulseInv, CheckIsYoung, Times, InWait
  <2> QED BY <2>1, <2>2 DEF PulseInv
<1>2. CASE NextFrame
  BY <1>2 DEF NextFrame, PulseInv, BreakOnlyByKey, RunsInWait, Tp,
     NothingPending, CheckIsYoung, InterruptIsKey, Times, InWait, key
<1>3. CASE PollHigh
  BY <1>3 DEF PollHigh, ReadOPB, Tp, PulseInv, BreakOnlyByKey, InWait, Times,
     RunsInWait, NothingPending, CheckIsYoung, InterruptIsKey, key
<1>4. CASE PollLow
  BY <1>4 DEF PollLow, ReadOPB, Tp, PulseInv, BreakOnlyByKey, InWait, Times,
     RunsInWait, NothingPending, CheckIsYoung, InterruptIsKey, key
<1>5. ASSUME NEW last \in BOOLEAN, CountTick(last) PROVE PulseInv'
  BY <1>5 DEF CountTick, RegisterMode, Tp, PulseInv, BreakOnlyByKey, InWait, Times,
     RunsInWait, NothingPending, CheckIsYoung, InterruptIsKey, key
<1>6. CASE CheckBreak
  BY <1>6, NoEdge DEF CheckBreak, ReadIF, PulseInv, BreakOnlyByKey, InWait, Times,
     RunsInWait, NothingPending, CheckIsYoung, InterruptIsKey, key
<1>7. CASE AbortWait
  BY <1>7, NoEdge DEF AbortWait, RegisterMode, PulseInv, BreakOnlyByKey, InWait,
     Times, RunsInWait, NothingPending, CheckIsYoung, InterruptIsKey,
     key
<1>8. CASE StartWait
  BY <1>8 DEF StartWait, SelectRate, PulseInv, BreakOnlyByKey, InWait, Times,
     RunsInWait, NothingPending, CheckIsYoung, InterruptIsKey, key
<1>9. CASE OtherStatement
  BY <1>9 DEF OtherStatement, PulseInv, BreakOnlyByKey, InWait, Times, chip,
     RunsInWait, NothingPending, CheckIsYoung, InterruptIsKey, key
<1>10. CASE BreakCheck
  BY <1>10 DEF BreakCheck, PulseInv, BreakOnlyByKey, InWait, Times,
     RunsInWait, NothingPending, CheckIsYoung, InterruptIsKey
<1>11. CASE NoBreak
  <2>1. ~configured
    BY <1>11 DEF NoBreak, PulseInv, RunsInWait, InWait
  <2> QED
    BY <1>11, <2>1, NoEdge DEF NoBreak, ReadIF, PulseInv, BreakOnlyByKey, InWait,
       Times, RunsInWait, NothingPending, CheckIsYoung,
       InterruptIsKey, key
<1>12. CASE HandleMI
  BY <1>12 DEF HandleMI, ReadIF, PulseInv, BreakOnlyByKey, InWait, Times,
     RunsInWait, NothingPending, CheckIsYoung, InterruptIsKey
<1>13. CASE PressOn
  BY <1>13 DEF PressOn, PulseInv, BreakOnlyByKey, InWait, Times, chip,
     RunsInWait, NothingPending, CheckIsYoung, InterruptIsKey
<1>14. CASE ReleaseOn
  BY <1>14 DEF ReleaseOn, PulseInv, BreakOnlyByKey, InWait, Times, chip,
     RunsInWait, NothingPending, CheckIsYoung, InterruptIsKey
<1>15. CASE UNCHANGED pulseVars
  BY <1>15 DEF pulseVars, chip, clock, key, PulseInv, BreakOnlyByKey, InWait, Times,
     RunsInWait, NothingPending, CheckIsYoung, InterruptIsKey
<1> QED
  BY <1>1, <1>2, <1>3, <1>4, <1>5, <1>6, <1>7, <1>8, <1>9, <1>10, <1>11,
     <1>12, <1>13, <1>14, <1>15 DEF PulseNext, RomRuns

(* No tick of the clock chip is ever taken for BREAK: the flag the two     *)
(* share is set only when the ON key went down.                            *)
THEOREM BreakIsTheKey == PulseSpec => []BreakOnlyByKey
<1>1. PulseInv => BreakOnlyByKey
  BY DEF PulseInv
<1> QED BY <1>1, PulseStarts, PulseStep, PTL DEF PulseSpec

-----------------------------------------------------------------------------
(* What WAIT counts.  The loop looks at OPB so often that TP cannot have   *)
(* risen and fallen again between two looks: CountInv says where in TP's   *)
(* period the next look will at latest be.  A clock set back would show    *)
(* one rise twice, hence Back = 0.                                         *)

\* The time to the loop's next read of OPB, but for the end of a frame ...
ReadIfOf(r) == IF r = "check" THEN Spin ELSE 0
ToPoll == due + ReadIfOf(rom)

\* ... and with it, of which at most one comes before.
Jump(n) == IF n >= Frame THEN Ahead ELSE 0
Late == ToPoll + Jump(frame + ToPoll)

FallAfter(t) == IF t < 2 * Half THEN 2 * Half ELSE 4 * Half
RiseAfter(t) == IF t < Half THEN Half ELSE IF t < 3 * Half THEN 3 * Half ELSE 5 * Half

\* The loop waits for TP to fall: it will see it low before it rises.
AwaitsLow ==
  due <= Spin /\ ticksOwed = 0 /\ (~High(elapsed) => elapsed + Late < RiseAfter(elapsed))

\* It waits for TP to rise: it will see it high before it falls.
AwaitsHigh ==
  \/ ticksOwed = 0 /\ ~High(elapsed)
  \/ ticksOwed = 1 /\ High(elapsed) /\ elapsed + Late < FallAfter(elapsed)

CountInv ==
  /\ lead = 0 /\ elapsed \in 0..(4 * Half - 1)
  /\ frame \in 0..Frame /\ due \in Nat
  /\ ~InWait => ticksOwed = 0
  /\ InWait => ToPoll <= Spin + Gap
  /\ rom = "high" => AwaitsLow
  /\ rom \in {"low", "check"} => AwaitsHigh

LEMMA Constants ==
  /\ Half \in Nat /\ Debounce \in Nat /\ Spin \in Nat /\ Gap \in Nat /\ Frame \in Nat
  /\ Half > 0 /\ Gap > 0 /\ Ahead \in Nat /\ Back \in Nat
  /\ Spin + Gap + Ahead <= Half /\ Spin + Gap < Frame
BY PulseAssumption

LEMMA Waits == \A r : ReadIfOf(r) \in Nat /\ ReadIfOf(r) <= Spin /\ (r # "check" => ReadIfOf(r) = 0)
BY Constants DEF ReadIfOf

LEMMA Jumps == \A n \in Int : Jump(n) \in Nat /\ Jump(n) <= Ahead /\ (n < Frame => Jump(n) = 0)
BY Constants DEF Jump

LEMMA Quotient ==
  ASSUME NEW t \in Nat, NEW h \in Nat \ {0}, NEW k \in Nat, k * h <= t, t < (k + 1) * h
  PROVE  t \div h = k
<1> DEFINE q == t \div h
<1>1. q \in Int /\ h * q <= t /\ t < h * q + h
  OBVIOUS
<1> HIDE DEF q
<1>2. ASSUME q < k PROVE FALSE
  <2>1. h * (q + 1) <= h * k
    BY <1>1, <1>2
  <2> QED BY <1>1, <2>1
<1>3. ASSUME k < q PROVE FALSE
  <2>1. h * (k + 1) <= h * q
    BY <1>1, <1>3
  <2> QED BY <1>1, <2>1
<1> QED BY <1>1, <1>2, <1>3 DEF q

\* TP's level and its rises in the first three periods.
LEMMA HighAt ==
  ASSUME NEW t \in 0..(5 * Half - 1)
  PROVE  High(t) <=> (Half <= t /\ t < 2 * Half) \/ (3 * Half <= t /\ t < 4 * Half)
<1> USE PulseAssumption
<1>1. CASE t < Half
  BY <1>1 DEF High
<1>2. CASE Half <= t /\ t < 2 * Half
  <2>1. t \div Half = 1
    BY <1>2, Quotient
  <2> QED BY <1>2, <2>1 DEF High
<1>3. CASE 2 * Half <= t /\ t < 3 * Half
  <2>1. t \div Half = 2
    BY <1>3, Quotient
  <2> QED BY <1>3, <2>1 DEF High
<1>4. CASE 3 * Half <= t /\ t < 4 * Half
  <2>1. t \div Half = 3
    BY <1>4, Quotient
  <2> QED BY <1>4, <2>1 DEF High
<1>5. CASE 4 * Half <= t
  <2>1. t \div Half = 4
    BY <1>5, Quotient
  <2> QED BY <1>5, <2>1 DEF High
<1> QED BY <1>1, <1>2, <1>3, <1>4, <1>5

LEMMA RisesAt ==
  ASSUME NEW t \in 0..(5 * Half - 1)
  PROVE  RisesUpTo(t) = IF t < Half THEN 0 ELSE IF t < 3 * Half THEN 1 ELSE 2
<1> USE PulseAssumption
<1> DEFINE u == t + Half
           p == 2 * Half
<1>0. u \in Nat /\ p \in Nat \ {0} /\ RisesUpTo(t) = u \div p
  BY DEF RisesUpTo
<1>1. CASE t < Half
  <2>1. 0 * p <= u /\ u < (0 + 1) * p
    BY <1>1
  <2>2. u \div p = 0
    BY <1>0, <2>1, Quotient
  <2> QED BY <1>0, <1>1, <2>2
<1>2. CASE Half <= t /\ t < 3 * Half
  <2>1. 1 * p <= u /\ u < (1 + 1) * p
    BY <1>2
  <2>2. u \div p = 1
    BY <1>0, <2>1, Quotient
  <2> QED BY <1>0, <1>2, <2>2
<1>3. CASE 3 * Half <= t
  <2>1. 2 * p <= u /\ u < (2 + 1) * p
    BY <1>3
  <2>2. u \div p = 2
    BY <1>0, <2>1, Quotient
  <2> QED BY <1>0, <1>3, <2>2
<1> QED BY <1>1, <1>2, <1>3

\* The clock moves on by d, of the l the loop's next look is away, and m is left.
LEMMA LowFollows ==
  ASSUME NEW e \in 0..(4 * Half - 1), NEW l \in 0..Half, NEW m \in Nat, NEW d \in Nat, m + d <= l,
         ~High(e) => e + l < RiseAfter(e)
  PROVE  /\ RisesUpTo(e + d) = RisesUpTo(e)
         /\ ~High(Fold(e + d)) => Fold(e + d) + m < RiseAfter(Fold(e + d))
<1> USE Constants
<1> DEFINE f == Fold(e + d)
<1>1. e + d \in 0..(5 * Half - 1) /\ f \in 0..(4 * Half - 1)
      /\ f = IF e + d >= 4 * Half THEN e + d - 2 * Half ELSE e + d
  BY DEF Fold
<1> HIDE DEF f
<1>2. High(e) <=> (Half <= e /\ e < 2 * Half) \/ 3 * Half <= e
  BY HighAt
<1>3. High(f) <=> (Half <= f /\ f < 2 * Half) \/ 3 * Half <= f
  BY <1>1, HighAt
<1>4. RisesUpTo(e + d) = RisesUpTo(e)
  BY <1>1, <1>2, RisesAt DEF RiseAfter
<1>5. ~High(f) => f + m < RiseAfter(f)
  BY <1>1, <1>2, <1>3 DEF RiseAfter
<1> QED BY <1>4, <1>5 DEF f

LEMMA HighFollows ==
  ASSUME NEW e \in 0..(4 * Half - 1), NEW l \in 0..Half, NEW m \in Nat, NEW d \in Nat, m + d <= l,
         High(e) => e + l < FallAfter(e)
  PROVE  LET f == Fold(e + d) IN
         /\ High(f) => f + m < FallAfter(f)
         /\ RisesUpTo(e + d) = RisesUpTo(e) + (IF High(f) /\ ~High(e) THEN 1 ELSE 0)
         /\ High(e) => High(f)
<1> USE Constants
<1> DEFINE f == Fold(e + d)
<1>1. e + d \in 0..(5 * Half - 1) /\ f \in 0..(4 * Half - 1)
      /\ f = IF e + d >= 4 * Half THEN e + d - 2 * Half ELSE e + d
  BY DEF Fold
<1> HIDE DEF f
<1>2. High(e) <=> (Half <= e /\ e < 2 * Half) \/ 3 * Half <= e
  BY HighAt
<1>3. High(f) <=> (Half <= f /\ f < 2 * Half) \/ 3 * Half <= f
  BY <1>1, HighAt
<1>4. High(f) => f + m < FallAfter(f)
  BY <1>1, <1>2, <1>3 DEF FallAfter
<1>5. High(e) => High(f)
  BY <1>1, <1>2, <1>3 DEF FallAfter
<1>6. RisesUpTo(e + d) = RisesUpTo(e) + (IF High(f) /\ ~High(e) THEN 1 ELSE 0)
  BY <1>1, <1>2, <1>3, RisesAt DEF FallAfter
<1> QED BY <1>4, <1>5, <1>6 DEF f

\* The clock moves on while the loop waits; it is no later at its next look.
LEMMA ClockMoves ==
  ASSUME CountInv, InWait, configured, NEW d \in Nat, Move(d),
         rom' = rom, due' \in Nat, due' <= due, frame' \in 0..Frame, Late' + d <= Late
  PROVE  CountInv'
<1> USE Constants
<1>1. /\ elapsed \in 0..(4 * Half - 1) /\ lead = 0 /\ due \in Nat /\ frame \in 0..Frame
      /\ ToPoll <= Spin + Gap /\ ticksOwed \in 0..1
  BY DEF CountInv, InWait, AwaitsLow, AwaitsHigh
<1>2. /\ elapsed' = Fold(elapsed + d) /\ lead' = 0
      /\ ticksOwed' = ticksOwed + RisesUpTo(elapsed + d) - RisesUpTo(elapsed)
  BY <1>1 DEF Move, Larger
<1>3. ToPoll \in Nat /\ ToPoll' \in Nat /\ ToPoll' <= ToPoll
  BY <1>1, Waits DEF ToPoll
<1>4. Late \in 0..Half /\ Late' \in Nat
  <2>1. Late \in Nat /\ Late <= ToPoll + Ahead /\ Late' \in Nat
    BY <1>1, <1>3, Jumps DEF Late
  <2> QED BY <1>1, <1>3, <2>1
<1>5. elapsed' \in 0..(4 * Half - 1)
  <2>0. d <= Half
    <3>1. \A m \in Nat, l \in 0..Half : m + d <= l => d <= Half
      OBVIOUS
    <3> QED BY <1>4, <3>1
  <2>1. elapsed + d \in 0..(5 * Half - 1)
    BY <1>1, <2>0
  <2> QED BY <1>2, <2>1 DEF Fold
<1>6. RisesUpTo(elapsed) \in Nat
  BY <1>1, RisesAt
<1>7. ASSUME rom = "high" PROVE AwaitsLow'
  <2>1. AwaitsLow
    BY <1>7 DEF CountInv
  <2>2. /\ RisesUpTo(elapsed + d) = RisesUpTo(elapsed)
        /\ ~High(elapsed') => elapsed' + Late' < RiseAfter(elapsed')
    BY <1>1, <1>2, <1>4, <2>1, LowFollows DEF AwaitsLow
  <2> QED
    BY <1>1, <1>2, <1>6, <2>1, <2>2 DEF AwaitsLow
<1>8. ASSUME rom \in {"low", "check"} PROVE AwaitsHigh'
  <2>1. AwaitsHigh
    BY <1>8 DEF CountInv
  <2>2. /\ High(elapsed') => elapsed' + Late' < FallAfter(elapsed')
        /\ RisesUpTo(elapsed + d) = RisesUpTo(elapsed) + (IF High(elapsed') /\ ~High(elapsed) THEN 1 ELSE 0)
        /\ High(elapsed) => High(elapsed')
    BY <1>1, <1>2, <1>4, <2>1, HighFollows DEF AwaitsHigh
  <2> QED
    BY <1>1, <1>2, <1>6, <2>1, <2>2 DEF AwaitsHigh
<1> QED
  BY <1>1, <1>2, <1>3, <1>5, <1>7, <1>8 DEF CountInv, InWait

LEMMA CountInit == PulseInit => CountInv
BY Constants DEF PulseInit, CountInv, InWait

\* A read of OPB while TP runs shows the level of now.
LEMMA ShowsLevel == PulseInv /\ InWait => (TpBit(elapsed) <=> High(elapsed))
BY DEF PulseInv, RunsInWait, NothingPending, TpBit, SyncedLevel, SyncedPending

LEMMA CountNext ==
  ASSUME Back = 0, PulseInv, CountInv, [PulseNext]_pulseVars
  PROVE  CountInv'
<1> USE Constants
<1>1. /\ elapsed \in 0..(4 * Half - 1) /\ lead = 0 /\ due \in Nat /\ frame \in 0..Frame
      /\ configured <=> InWait
      /\ ~InWait => ticksOwed = 0
  BY DEF CountInv, PulseInv, RunsInWait
<1>2. CASE Tick
  <2>1. CASE InWait
    <3>1. /\ Move(1) /\ rom' = rom /\ due' = due - 1 /\ due' \in Nat
          /\ frame' = frame + 1 /\ frame' \in 0..Frame
      BY <1>1, <1>2, <2>1 DEF Tick
    <3>2. ToPoll' = ToPoll - 1 /\ ToPoll \in Nat
      BY <1>1, <3>1, Waits DEF ToPoll
    <3>3. Late' + 1 <= Late
      <4>1. frame' + ToPoll' = frame + ToPoll
        BY <1>1, <3>1, <3>2
      <4>2. Late' = ToPoll' + Jump(frame + ToPoll) /\ Jump(frame + ToPoll) \in Nat
        BY <1>1, <3>2, <4>1, Jumps DEF Late
      <4> QED BY <3>2, <4>2 DEF Late
    <3> QED BY <1>1, <2>1, <3>1, <3>3, ClockMoves
  <2>2. CASE ~InWait
    BY <1>1, <1>2, <2>2 DEF Tick, Move, CountInv, InWait
  <2> QED BY <2>1, <2>2
<1>3. CASE NextFrame
  <2> PICK d \in -Back..Ahead : Move(d)
    BY <1>3 DEF NextFrame
  <2>1. frame = Frame /\ frame' = 0 /\ rom' = rom /\ due' = due /\ d \in Nat /\ d <= Ahead
    BY <1>3 DEF NextFrame
  <2>2. CASE InWait
    <3>1. ToPoll' = ToPoll /\ ToPoll \in Nat /\ ToPoll < Frame
      BY <1>1, <2>1, <2>2, Waits DEF ToPoll, CountInv
    <3>2. Late' = ToPoll /\ Late = ToPoll + Ahead
      BY <1>1, <2>1, <3>1, Jumps DEF Late, Jump
    <3> QED BY <1>1, <2>1, <2>2, <3>1, <3>2, ClockMoves
  <2>3. CASE ~InWait
    BY <1>1, <2>1, <2>3 DEF Move, CountInv, InWait
  <2> QED BY <2>2, <2>3
<1>4. CASE PollHigh
  <2>1. /\ rom = "high" /\ InWait /\ due' = Spin /\ ticksOwed = 0
        /\ UNCHANGED <<configured, elapsed, frame, lead, ticksOwed>>
        /\ rom' = IF High(elapsed) THEN "high" ELSE "low"
    BY <1>4, ShowsLevel DEF PollHigh, ReadOPB, InWait, clock, CountInv, AwaitsLow
  <2>2. ToPoll' <= Spin + Gap
    BY <2>1, Waits DEF ToPoll
  <2> QED
    BY <1>1, <2>1, <2>2 DEF CountInv, InWait, AwaitsLow, AwaitsHigh
<1>5. CASE PollLow
  <2>1. /\ rom = "low" /\ InWait /\ ~High(elapsed) /\ due' = Gap /\ rom' = "check"
        /\ UNCHANGED <<configured, elapsed, frame, lead, ticksOwed>>
    BY <1>5, ShowsLevel DEF PollLow, ReadOPB, InWait, clock
  <2>2. ToPoll' <= Spin + Gap
    BY <2>1, Waits DEF ToPoll
  <2> QED
    BY <1>1, <2>1, <2>2 DEF CountInv, InWait, AwaitsHigh
<1>6. ASSUME NEW last \in BOOLEAN, CountTick(last) PROVE CountInv'
  <2>1. High(elapsed) /\ ticksOwed = 1
    BY <1>6, ShowsLevel DEF CountTick, InWait, CountInv, AwaitsHigh
  <2>2. CASE last
    BY <1>1, <1>6, <2>2 DEF CountTick, RegisterMode, CountInv, InWait
  <2>3. CASE ~last
    <3>1. /\ rom' = "high" /\ due' = Spin /\ ticksOwed' = 0
          /\ UNCHANGED <<elapsed, frame, lead>>
      BY <1>6, <2>1, <2>3 DEF CountTick
    <3>2. ToPoll' <= Spin + Gap
      BY <3>1, Waits DEF ToPoll
    <3> QED BY <1>1, <2>1, <3>1, <3>2 DEF CountInv, AwaitsLow
  <2> QED BY <2>2, <2>3
<1>7. CASE CheckBreak
  <2>1. /\ rom = "check" /\ due = 0 /\ rom' = "low" /\ due' = Spin
        /\ UNCHANGED <<elapsed, frame, lead, ticksOwed>>
    BY <1>7 DEF CheckBreak, ReadIF, clock
  <2>2. ToPoll' = ToPoll
    BY <2>1 DEF ToPoll, ReadIfOf
  <2>3. Late' = Late
    BY <2>1, <2>2 DEF Late
  <2> QED
    BY <1>1, <2>1, <2>2, <2>3 DEF CountInv, InWait, AwaitsHigh
<1>8. CASE AbortWait
  BY <1>1, <1>8 DEF AbortWait, RegisterMode, CountInv, InWait
<1>9. CASE StartWait
  <2>1. /\ rom' = "high" /\ due' = Spin /\ elapsed' = 0 /\ lead' = 0 /\ ticksOwed' = 0 /\ frame' = frame
    BY <1>9 DEF StartWait, SelectRate
  <2>2. ToPoll' = Spin
    BY <2>1, Waits DEF ToPoll
  <2>3. Late' <= Spin + Ahead /\ Late' \in Nat
    BY <1>1, <2>1, <2>2, Jumps DEF Late
  <2>4. RiseAfter(0) = Half /\ 0 + Late' < Half
    <3>1. \A m \in Nat : m <= Spin + Ahead => 0 + m < Half
      OBVIOUS
    <3> QED BY <2>3, <3>1 DEF RiseAfter
  <2>5. AwaitsLow'
    BY <2>1, <2>4 DEF AwaitsLow
  <2> QED
    BY <1>1, <2>1, <2>2, <2>5 DEF CountInv
<1>10. CASE OtherStatement \/ BreakCheck \/ NoBreak
  BY <1>1, <1>10 DEF OtherStatement, BreakCheck, NoBreak, ReadIF, chip, clock, CountInv, InWait
<1>11. CASE HandleMI \/ PressOn \/ ReleaseOn \/ UNCHANGED pulseVars
  <2>1. UNCHANGED <<elapsed, lead, frame, due, rom, ticksOwed>>
    BY <1>11 DEF HandleMI, PressOn, ReleaseOn, pulseVars, ReadIF, chip, clock
  <2>2. ToPoll' = ToPoll
    BY <2>1 DEF ToPoll
  <2>3. Late' = Late
    BY <2>1, <2>2 DEF Late
  <2>4. (AwaitsLow => AwaitsLow') /\ (AwaitsHigh => AwaitsHigh')
    BY <2>1, <2>3 DEF AwaitsLow, AwaitsHigh
  <2> QED
    BY <2>1, <2>2, <2>4 DEF CountInv, InWait
<1> QED
  BY <1>2, <1>3, <1>4, <1>5, <1>6, <1>7, <1>8, <1>9, <1>10, <1>11 DEF PulseNext, RomRuns

(* WAIT counts every period of TP, and each once, however frames fall and  *)
(* however late they are (within Ahead), as long as none is short.         *)
THEOREM EveryTickIsCounted == ASSUME Back = 0 PROVE PulseSpec => []TicksCountedOnce
<1>1. PulseInv /\ CountInv => TicksCountedOnce
  BY DEF CountInv, TicksCountedOnce, InWait, AwaitsLow, AwaitsHigh
<1>2. PulseInv /\ CountInv /\ [PulseNext]_pulseVars => (PulseInv /\ CountInv)'
  BY PulseStep, CountNext
<1> QED BY <1>1, <1>2, PulseStarts, CountInit, PTL DEF PulseSpec

-----------------------------------------------------------------------------
(* The debugger.                                                           *)

\* The lines the adapter sends, and those of them that are answered.
DebugLines ==
  {Plain(name) : name \in {"continue", "pause", "debugstep", "call", "poke", "peek", "load", "debugstatus"}}
  \cup {Line("setbreakpoints", breaks) : breaks \in Breakpoints}
AnsweredLines == {line \in DebugLines : Answered(line)}

\* What is still to be answered, in the order of the answers.
Due == Those(batch \o fifo, AnsweredLines)

Fields == {"pc", "control", "running", "breaks", "reason"}
TargetOK == DOMAIN target = Fields /\ target.running \in BOOLEAN /\ target.control \in BOOLEAN
LinesOK ==
  /\ batch \in Seq(DebugLines) /\ fifo \in Seq(DebugLines)
  /\ frameAt = "read" => batch = <<>>

NoContinue == \A i \in 1..Len(Due) : Due[i].name # "continue"
PausePending == \E i \in 1..Len(Due) : Due[i].name = "pause"
\* Under debug control, or about to be.
Governed == target.control \/ PausePending
\* What is written and not carried out; a call is followed by what is answered.
Underway == batch \o fifo
Followed ==
  \A i \in 1..Len(Underway) : Underway[i].name = "call" =>
    \E j \in 1..Len(Underway) : i < j /\ Answered(Underway[j])
\* Stopped, and nothing under way that starts it.
Quiet == ~target.running /\ NoContinue
\* Stopped, or a pause is under way.
Parked == NoContinue /\ (target.running => PausePending)

\* No answer reads as none, and only debugstatus tells of a stop.
LEMMA AnswerFacts ==
  ASSUME NEW t, NEW line, NEW a \in AnswersTo(t, line)
  PROVE  a # Unchanged /\ (a.stopped => line.name = "debugstatus" /\ ~t.running)
<1>1. /\ \A kind : Text(kind).kind = kind /\ ~Text(kind).stopped
      /\ RegisterDump(t).kind = "registers" /\ ~RegisterDump(t).stopped
      /\ Status(t).kind = "status" /\ (Status(t).stopped <=> ~t.running)
  BY DEF Text, Empty, RegisterDump, Status
<1>2. Unchanged.kind = "unchanged"
  BY <1>1 DEF Unchanged
<1>3. a \in {Status(t), RegisterDump(t), Text("value"), Text("OK"), Text("ERR")}
      /\ (line.name # "debugstatus" => a # Status(t) \/ a \in {RegisterDump(t), Text("value"), Text("OK"), Text("ERR")})
  BY DEF AnswersTo
<1> QED
  BY <1>1, <1>2, <1>3

\* Only a continue makes the target run, and nothing ends the debugger's control.
LEMMA CarriedFacts ==
  ASSUME TargetOK, NEW line, NEW t \in CarriedOut(target, line)
  PROVE  /\ DOMAIN t = Fields /\ t.running \in BOOLEAN /\ t.control \in BOOLEAN
         /\ line.name # "continue" /\ t.running => target.running
         /\ target.control => t.control
         /\ line.name = "pause" => ~t.running /\ t.control
BY DEF TargetOK, Fields, CarriedOut, SetBreakpoints, Continue, Pause, DebugStep, CallEntry, Reads

LEMMA DueOf ==
  ASSUME NEW b \in Seq(DebugLines), NEW f \in Seq(DebugLines)
  PROVE  /\ b \o f \in Seq(DebugLines)
         /\ Those(b \o f, AnsweredLines) \in Seq(DebugLines) /\ Len(Those(b \o f, AnsweredLines)) \in Nat
<1>1. b \o f \in Seq(DebugLines)
  BY ConcatProperties
<1>2. Those(b \o f, AnsweredLines) \in Seq(DebugLines)
  BY <1>1, ThosePlaces
<1> QED
  BY <1>1, <1>2, LenProperties

LEMMA DueTyped ==
  /\ LinesOK => Due \in Seq(DebugLines) /\ batch \o fifo \in Seq(DebugLines) /\ Len(Due) \in Nat
  /\ LinesOK' => Due' \in Seq(DebugLines) /\ Len(Due') \in Nat
BY DueOf DEF LinesOK, Due

\* One answer less is due, the first.
Shorter(d, e) ==
  /\ d # <<>> /\ Len(e) = Len(d) - 1 /\ \A i \in 1..Len(e) : e[i] = d[i + 1]

LEMMA Shortened ==
  ASSUME NEW T, NEW x \in T, NEW e \in Seq(T)
  PROVE  Shorter(<<x>> \o e, e) /\ (<<x>> \o e)[1] = x
<1>1. PICK d : d = <<x>> \o e
  OBVIOUS
<1>2. Len(e) \in Nat /\ d \in Seq(T) /\ Len(d) = 1 + Len(e) /\ d[1] = x
      /\ \A i \in 2..(1 + Len(e)) : d[i] = e[i - 1]
  BY <1>1, Prefixed, LenProperties
<1>3. ASSUME NEW i \in 1..Len(e) PROVE e[i] = d[i + 1]
  <2>1. i + 1 \in 2..(1 + Len(e)) /\ (i + 1) - 1 = i
    BY <1>2
  <2> QED
    BY <1>2, <2>1
<1>4. d # <<>>
  BY <1>2, EmptySeq
<1> QED
  BY <1>1, <1>2, <1>3, <1>4 DEF Shorter

\* A step of the emulator carries out at most one line that is answered, the
\* first that is due.
LEMMA Emulated ==
  ASSUME TargetOK, LinesOK, TargetNext
  PROVE  /\ TargetOK' /\ LinesOK' /\ (target.control => target'.control)
         /\ Underway' = Underway \/ (Underway # <<>> /\ Underway' = Tail(Underway))
         /\ \/ Due' = Due /\ file' = file /\ (target'.running => target.running)
            \/ /\ Shorter(Due, Due') /\ file' # Unchanged
               /\ file'.stopped => Due[1].name = "debugstatus" /\ ~target'.running
               /\ Due[1].name # "continue" /\ target'.running => target.running
               /\ Due[1].name = "pause" => ~target'.running /\ target'.control
<1>1. CASE ReadLines
  <2>1. batch' = fifo /\ fifo' = <<>> /\ batch = <<>> /\ frameAt' = "lines" /\ UNCHANGED <<target, file>>
    BY <1>1 DEF ReadLines, LinesOK
  <2>2. <<>> \o fifo = fifo /\ fifo \o <<>> = fifo
    BY ConcatEmptySeq DEF LinesOK
  <2>3. Due' = Due /\ Underway' = Underway
    BY <2>1, <2>2 DEF Due, Underway
  <2>4. <<>> \in Seq(DebugLines)
    BY EmptySeq
  <2> QED
    BY <2>1, <2>3, <2>4 DEF TargetOK, LinesOK
<1>2. CASE CarryOut
  <2> DEFINE x == Head(batch)
             p == batch \o fifo
             q == Tail(batch) \o fifo
  <2>1. /\ frameAt = "lines" /\ frameAt' = frameAt /\ batch # <<>> /\ batch' = Tail(batch) /\ fifo' = fifo
        /\ target' \in CarriedOut(target, x)
        /\ IF Answered(x) THEN file' \in AnswersTo(target', x) ELSE file' = file
    BY <1>2 DEF CarryOut
  <2>2. x \in DebugLines /\ Tail(batch) \in Seq(DebugLines)
    BY <2>1, HeadTailProperties DEF LinesOK
  <2>3. p = <<x>> \o q
    <3>1. batch = <<x>> \o Tail(batch)
      BY <2>1 DEF LinesOK
    <3>2. <<x>> \in Seq(DebugLines)
      BY <2>2
    <3>3. PICK o : o = <<x>> /\ o \in Seq(DebugLines)
      BY <3>2, Zenon
    <3>4. PICK r : r = Tail(batch) /\ r \in Seq(DebugLines)
      BY <2>2, Zenon
    <3>5. (o \o r) \o fifo = o \o (r \o fifo)
      BY <3>3, <3>4, ConcatAssociative DEF LinesOK
    <3> QED
      BY <3>1, <3>3, <3>4, <3>5, Zenon DEF p, q
  <2>4. q \in Seq(DebugLines)
    <3>1. PICK r : r = Tail(batch) /\ r \in Seq(DebugLines)
      BY <2>2, Zenon
    <3> QED
      BY <3>1, ConcatProperties DEF LinesOK
  <2>5. p \in Seq(DebugLines) /\ p # <<>> /\ Head(p) = x /\ Tail(p) = q
    <3> HIDE DEF x, p, q
    <3>1. p \in Seq(DebugLines) /\ Len(p) = 1 + Len(q) /\ Len(q) \in Nat /\ p[1] = x
      BY <2>2, <2>3, <2>4, Prefixed, LenProperties
    <3>2. Tail(p) = q
      BY <2>2, <2>3, <2>4
    <3> QED
      BY <3>1, <3>2
  <2>6. /\ Due = Those(p, AnsweredLines) /\ Due' = Those(q, AnsweredLines)
        /\ Underway = p /\ Underway' = q
    BY <2>1 DEF Due, Underway
  <2> HIDE DEF x, p, q
  <2>7. Due = IF x \in AnsweredLines THEN <<x>> \o Due' ELSE Due'
    BY <2>5, <2>6, ThoseTailed
  <2>8. TargetOK' /\ LinesOK' /\ (target.control => target'.control)
    BY <2>1, <2>2, CarriedFacts DEF TargetOK, LinesOK
  <2>9. CASE Answered(x)
    <3>1. Due = <<x>> \o Due' /\ Due' \in Seq(DebugLines)
      BY <2>2, <2>7, <2>8, <2>9, DueTyped, ThosePlaces, <2>4, <2>6 DEF AnsweredLines
    <3>2. Shorter(Due, Due') /\ Due[1] = x
      BY <2>2, <3>1, Shortened
    <3>3. file' # Unchanged /\ (file'.stopped => x.name = "debugstatus" /\ ~target'.running)
      BY <2>1, <2>9, AnswerFacts
    <3> QED
      BY <2>1, <2>5, <2>6, <2>8, <3>2, <3>3, CarriedFacts
  <2>10. CASE ~Answered(x)
    <3>1. Due' = Due /\ file' = file
      BY <2>1, <2>7, <2>10 DEF AnsweredLines
    <3>2. x.name # "continue"
      BY <2>10 DEF Answered
    <3> QED
      BY <2>1, <2>5, <2>6, <2>8, <3>1, <3>2, CarriedFacts
  <2> QED
    BY <2>9, <2>10
<1>3. CASE RunFrame
  <2>1. frameAt' = "read" /\ batch = <<>> /\ UNCHANGED <<fifo, batch, file>>
    BY <1>3 DEF RunFrame
  <2>2. \/ target' = target
        \/ \E pc : target' = [target EXCEPT !.pc = pc]
        \/ \E pc : target' = [target EXCEPT !.pc = pc, !.running = FALSE, !.reason = "breakpoint"]
    BY <1>3 DEF RunFrame
  <2>3. TargetOK' /\ (target'.running => target.running) /\ target'.control = target.control
    BY <2>2 DEF TargetOK, Fields
  <2> QED
    BY <2>1, <2>3 DEF Due, LinesOK, Underway
<1> QED
  BY <1>1, <1>2, <1>3 DEF TargetNext

-----------------------------------------------------------------------------
Calls == [by : {"requests", "poll"}, line : DebugLines]

\* A late answer leaves one more to come than calls under way.
Owed == IF call # NoCall /\ file = Unchanged THEN faults + 1 ELSE faults
OneBehind ==
  /\ faults \in {0, 1}
  /\ call = NoCall \/ call \in Calls
  /\ Len(Due) <= Owed
  /\ call # NoCall /\ Due # <<>> => Due[Len(Due)] = call.line
  /\ call # NoCall /\ call.line.name = "pause" /\ Due = <<>> => ~target.running

\* Whose call it is; a poll that finds the target stopped finds it at rest.
PollRight ==
  /\ call.by = "poll" <=> poller = "waits"
  /\ call.by = "requests" <=> Now("take")
  /\ call.by = "poll" => call.line.name = "debugstatus"
  /\ call.by = "poll" /\ file.stopped => Quiet
  /\ poller = "reports" => Quiet

Watched == poller = "reports" \/ (polling /\ poller \in {"asleep", "wants", "waits"})

LEMMA NobodyCalls ==
  /\ NoCall.by = "nobody" /\ NoCall \notin Calls
  /\ ~Unchanged.stopped
  /\ \A c \in Calls : c.by \in {"requests", "poll"} /\ c.line \in DebugLines /\ c # NoCall
  /\ \A by \in {"requests", "poll"}, line \in DebugLines : [by |-> by, line |-> line] \in Calls
BY DEF NoCall, Calls, Unchanged, Text, Empty

TargetInv == TargetOK /\ LinesOK /\ OneBehind

\* The emulator's steps disturb nothing that the adapter relies on.
LEMMA Emulation ==
  ASSUME TargetInv, PollRight, TargetNext, UNCHANGED adapterVars
  PROVE  /\ TargetInv' /\ PollRight' /\ (Quiet => Quiet') /\ (Parked => Parked')
         /\ Governed => Governed'
<1>1. TargetOK' /\ LinesOK' /\ (target.control => target'.control)
  BY Emulated DEF TargetInv
<1>2. Len(Due) \in Nat /\ Due \in Seq(DebugLines) /\ Len(Due') \in Nat /\ Due' \in Seq(DebugLines)
  BY <1>1, DueTyped DEF TargetInv
<1>3. target'.running \in BOOLEAN /\ target.running \in BOOLEAN
  BY <1>1 DEF TargetInv, TargetOK
<1>4. UNCHANGED <<call, faults, poller>> /\ (Now("take"))' = Now("take")
  BY DEF adapterVars, Now
<1>5. CASE Due' = Due /\ file' = file /\ (target'.running => target.running)
  <2>1. OneBehind'
    BY <1>3, <1>4, <1>5 DEF TargetInv, OneBehind, Owed
  <2>2. (Quiet => Quiet') /\ (Parked => Parked') /\ (Governed => Governed')
    BY <1>1, <1>3, <1>5 DEF Quiet, Parked, NoContinue, PausePending, Governed
  <2>3. PollRight'
    BY <1>4, <1>5, <2>2 DEF PollRight
  <2> QED
    BY <1>1, <2>1, <2>2, <2>3 DEF TargetInv
<1>6. CASE /\ Shorter(Due, Due') /\ file' # Unchanged
           /\ file'.stopped => Due[1].name = "debugstatus" /\ ~target'.running
           /\ Due[1].name # "continue" /\ target'.running => target.running
           /\ Due[1].name = "pause" => ~target'.running /\ target'.control
  <2> DEFINE d == Due
             e == Due'
  <2>1. /\ Len(d) \in Nat /\ Len(e) \in Nat /\ Len(e) = Len(d) - 1 /\ d # <<>>
        /\ \A i \in 1..Len(e) : e[i] = d[i + 1]
    BY <1>2, <1>6 DEF Shorter
  <2>2. e = <<>> => Len(e) = 0
    OBVIOUS
  <2>3. e # <<>> => Len(e) # 0
    BY <1>2, EmptySeq
  <2> HIDE DEF d, e
  <2>4. Owed' = faults /\ faults \in {0, 1} /\ Len(d) <= faults + 1 /\ Len(e) <= faults
    <3>1. Owed' = faults
      BY <1>4, <1>6 DEF Owed
    <3>2. faults \in {0, 1} /\ Len(d) <= Owed /\ Owed \in {faults, faults + 1}
      BY DEF TargetInv, OneBehind, Owed, d
    <3> QED
      BY <2>1, <3>1, <3>2
  <2>5. e # <<>> => e[Len(e)] = d[Len(d)]
    BY <2>1, <2>3
  <2>6. /\ call # NoCall => d[Len(d)] = call.line
        /\ call = NoCall \/ call \in Calls
    BY <2>1 DEF TargetInv, OneBehind, d
  <2>7. e = <<>> => Len(d) = 1
    BY <2>1, <2>2
  <2>8. OneBehind'
    <3>1. Len(Due') <= Owed'
      BY <2>4 DEF e
    <3>2. call' # NoCall /\ Due' # <<>> => Due'[Len(Due')] = call'.line
      BY <1>4, <2>5, <2>6 DEF e
    <3>3. call' # NoCall /\ call'.line.name = "pause" /\ Due' = <<>> => ~target'.running
      BY <1>4, <1>6, <2>6, <2>7 DEF e, d
    <3> QED
      BY <1>4, <2>4, <2>6, <3>1, <3>2, <3>3 DEF OneBehind
  <2>9. NoContinue => NoContinue' /\ Due[1].name # "continue"
    <3> SUFFICES ASSUME NoContinue PROVE NoContinue' /\ Due[1].name # "continue"
      OBVIOUS
    <3>1. \A i \in 1..Len(d) : d[i].name # "continue"
      BY DEF NoContinue, d
    <3>2. d[1].name # "continue"
      BY <2>1, <3>1
    <3>3. \A i \in 1..Len(e) : e[i].name # "continue"
      <4> TAKE i \in 1..Len(e)
      <4>1. i + 1 \in 1..Len(d) /\ e[i] = d[i + 1]
        BY <2>1
      <4> QED
        BY <3>1, <4>1
    <3> QED
      BY <3>2, <3>3 DEF NoContinue, d, e
  <2>10. Quiet => Quiet'
    BY <1>3, <1>6, <2>9 DEF Quiet
  <2>11. PausePending => PausePending' \/ (~target'.running /\ target'.control)
    <3> SUFFICES ASSUME PausePending, ~(~target'.running /\ target'.control) PROVE PausePending'
      OBVIOUS
    <3>2. PICK i \in 1..Len(d) : d[i].name = "pause"
      BY DEF PausePending, d
    <3>3. i # 1
      BY <1>6, <3>2 DEF d
    <3>4. i - 1 \in 1..Len(e) /\ e[i - 1] = d[i]
      <4>1. i - 1 \in 1..Len(e) /\ (i - 1) + 1 = i
        BY <2>1, <3>2, <3>3
      <4> QED
        BY <2>1, <4>1
    <3> QED
      BY <3>2, <3>4 DEF PausePending, e
  <2>14. (Parked => Parked') /\ (Governed => Governed')
    BY <1>1, <1>6, <2>9, <2>11 DEF Parked, Governed
  <2>12. call.by = "poll" /\ file'.stopped => Quiet'
    <3> SUFFICES ASSUME call.by = "poll", file'.stopped PROVE NoContinue'
      BY <1>6 DEF Quiet
    <3>1. call # NoCall /\ call.line.name = "debugstatus"
      BY NobodyCalls DEF PollRight
    <3>2. \A i \in 1..Len(e) : i = Len(e) /\ e # <<>>
      BY <2>1, <2>2, <2>4
    <3>3. \A i \in 1..Len(e) : e[i].name # "continue"
      BY <2>5, <2>6, <3>1, <3>2
    <3> QED
      BY <3>3 DEF NoContinue, e
  <2>13. PollRight'
    BY <1>4, <2>10, <2>12 DEF PollRight
  <2> QED
    BY <1>1, <2>8, <2>10, <2>13, <2>14 DEF TargetInv
<1> QED
  BY <1>5, <1>6, Emulated DEF TargetInv

\* A line is written.
LEMMA Written ==
  ASSUME LinesOK, NEW line \in DebugLines, fifo' = Append(fifo, line), UNCHANGED <<batch, frameAt>>
  PROVE  /\ LinesOK' /\ Due' = IF Answered(line) THEN Append(Due, line) ELSE Due
         /\ Underway' = Append(Underway, line)
<1>1. Append(fifo, line) \in Seq(DebugLines)
  BY AppendProperties DEF LinesOK
<1>2. LinesOK'
  BY <1>1 DEF LinesOK
<1>3. batch \o Append(fifo, line) = Append(batch \o fifo, line)
  <2>1. <<line>> \in Seq(DebugLines)
    OBVIOUS
  <2>2. PICK o : o = <<line>> /\ o \in Seq(DebugLines)
    BY <2>1, Zenon
  <2>3. Append(fifo, line) = fifo \o o
    BY <2>2, AppendIsConcat DEF LinesOK
  <2>4. batch \o (fifo \o o) = (batch \o fifo) \o o
    BY <2>2, ConcatAssociative DEF LinesOK
  <2>5. (batch \o fifo) \o o = Append(batch \o fifo, line)
    BY <2>2, DueTyped, AppendIsConcat
  <2> QED
    BY <2>3, <2>4, <2>5
<1>4. PICK p : p = batch \o fifo /\ p \in Seq(DebugLines)
  BY DueTyped
<1>5. Due = Those(p, AnsweredLines) /\ Due' = Those(Append(p, line), AnsweredLines)
  BY <1>3, <1>4 DEF Due
<1>6. /\ line \in AnsweredLines => Due' = Append(Due, line)
      /\ line \notin AnsweredLines => Due' = Due
  <2>1. p \in Seq(DebugLines) /\ line \in DebugLines
    BY <1>4
  <2>2. /\ line \in AnsweredLines => Those(Append(p, line), AnsweredLines) = Append(Those(p, AnsweredLines), line)
        /\ line \notin AnsweredLines => Those(Append(p, line), AnsweredLines) = Those(p, AnsweredLines)
    BY <2>1, ThoseAppended, SMT
  <2> QED
    BY <1>5, <2>2, Zenon
<1>7. line \in AnsweredLines <=> Answered(line)
  BY DEF AnsweredLines
<1>8. Underway' = Append(Underway, line)
  BY <1>3 DEF Underway
<1> QED
  BY <1>2, <1>6, <1>7, <1>8, Zenon

\* A call begins.
LEMMA CallSent ==
  ASSUME TargetInv, NEW who \in {"requests", "poll"}, NEW line \in DebugLines, Answered(line),
         StartCall(who, line), UNCHANGED faults
  PROVE  /\ TargetInv' /\ call' = [by |-> who, line |-> line] /\ call' # NoCall /\ call = NoCall
         /\ ~file'.stopped
         /\ line.name # "continue" => (Quiet => Quiet') /\ (Parked => Parked')
         /\ (Governed => Governed') /\ (line.name = "pause" => Governed')
<1>1. /\ call = NoCall /\ call' = [by |-> who, line |-> line] /\ fifo' = Append(fifo, line)
      /\ file' = Unchanged /\ UNCHANGED <<target, batch, frameAt>>
  BY DEF StartCall
<1>2. LinesOK' /\ Due' = Append(Due, line)
  BY <1>1, Written DEF TargetInv
<1> DEFINE d == Due
           e == Due'
<1>3. /\ Len(d) \in Nat /\ Len(e) = Len(d) + 1 /\ e[Len(d) + 1] = line /\ \A i \in 1..Len(d) : e[i] = d[i]
      /\ d \in Seq(DebugLines) /\ e # <<>>
  <2>1. PICK q : q = Due /\ q \in Seq(DebugLines) /\ Len(q) \in Nat
    BY DueTyped DEF TargetInv
  <2>2. /\ Len(Append(q, line)) = Len(q) + 1 /\ Append(q, line)[Len(q) + 1] = line
        /\ \A i \in 1..Len(q) : Append(q, line)[i] = q[i]
    BY <2>1, AppendProperties
  <2>3. Append(q, line) # <<>>
    BY <2>1, <2>2
  <2> QED
    BY <1>2, <2>1, <2>2, <2>3
<1> HIDE DEF d, e
<1>4. call' # NoCall /\ call' \in Calls /\ ~file'.stopped /\ call'.line = line
  BY <1>1, NobodyCalls
<1>5. OneBehind'
  <2>1. faults \in {0, 1} /\ Len(d) <= faults
    BY <1>1 DEF TargetInv, OneBehind, Owed, d
  <2>2. Owed' = faults + 1
    BY <1>1, <1>4 DEF Owed
  <2>3. Len(e) <= Owed' /\ e[Len(e)] = line
    BY <1>3, <2>1, <2>2
  <2> QED
    BY <1>3, <1>4, <2>1, <2>3 DEF OneBehind, e
<1>6. line.name # "continue" /\ NoContinue => NoContinue'
  <2> SUFFICES ASSUME line.name # "continue", NoContinue, NEW i \in 1..Len(e)
               PROVE  e[i].name # "continue"
    BY DEF NoContinue, e
  <2>1. i \in 1..Len(d) \/ i = Len(d) + 1
    BY <1>3
  <2> QED
    BY <1>3, <2>1 DEF NoContinue, d
<1>7. PausePending => PausePending'
  BY <1>3 DEF PausePending, d, e
<1>8. line.name # "continue" => (Quiet => Quiet') /\ (Parked => Parked')
  BY <1>1, <1>6, <1>7 DEF Quiet, Parked
<1>9. (Governed => Governed') /\ (line.name = "pause" => Governed')
  <2>1. line.name = "pause" => PausePending'
    <3>1. Len(d) + 1 \in 1..Len(e)
      BY <1>3
    <3> QED
      BY <1>3, <3>1 DEF PausePending, e
  <2> QED
    BY <1>1, <1>7, <2>1 DEF Governed
<1> QED
  BY <1>1, <1>2, <1>4, <1>5, <1>8, <1>9 DEF TargetInv, TargetOK

\* A line that is not answered.
LEMMA LineTold ==
  ASSUME TargetInv, NEW line \in DebugLines, ~Answered(line),
         fifo' = Append(fifo, line), UNCHANGED <<target, batch, frameAt, file, call, faults>>
  PROVE  TargetInv' /\ Quiet' = Quiet /\ Parked' = Parked /\ Governed' = Governed
<1>1. LinesOK' /\ Due' = Due
  BY Written DEF TargetInv
<1> QED
  BY <1>1 DEF TargetInv, TargetOK, OneBehind, Owed, Quiet, Parked, NoContinue, PausePending, Governed

\* A call ends, answered or not: a pause has stopped the target or is next.
LEMMA CallEnded ==
  ASSUME TargetInv, call # NoCall, UNCHANGED <<target, fifo, batch, frameAt>>,
         MaxFaults \in {0, 1},
         \/ CallReturns(call.by) /\ UNCHANGED faults
         \/ CallGivesUp(call.by)
         \/ CallReadsNothing(call.by)
  PROVE  /\ TargetInv' /\ call' = NoCall /\ Quiet' = Quiet /\ Parked' = Parked
         /\ call.line.name = "pause" => Parked'
         /\ call.line.name = "debugstatus" /\ Parked => Quiet'
<1> DEFINE d == Due
<1>1. Due' = Due /\ call' = NoCall
  BY DEF Due, CallReturns, CallGivesUp, CallReadsNothing
<1>2. Quiet' = Quiet /\ Parked' = Parked
  BY <1>1 DEF Quiet, Parked, NoContinue, PausePending
<1>3. Len(d) \in Nat /\ d \in Seq(DebugLines) /\ (d = <<>> => Len(d) = 0) /\ (d # <<>> => Len(d) # 0)
  <2>1. PICK q : q = Due /\ q \in Seq(DebugLines) /\ Len(q) \in Nat
    BY DueTyped DEF TargetInv
  <2> QED
    BY <2>1, EmptySeq
<1>4. /\ faults \in {0, 1} /\ Len(d) <= Owed
      /\ d # <<>> => d[Len(d)] = call.line
      /\ call.line.name = "pause" /\ d = <<>> => ~target.running
  BY DEF TargetInv, OneBehind, d
<1>5. /\ faults' \in {0, 1} /\ Len(d) <= faults' /\ Len(d) <= 1
      /\ faults = 1 => Len(d) <= 1
  <2>1. CASE CallReturns(call.by) /\ UNCHANGED faults
    BY <1>3, <1>4, <2>1 DEF CallReturns, Owed
  <2>2. CASE CallGivesUp(call.by) \/ CallReadsNothing(call.by)
    <3>1. faults = 0 /\ faults' = 1
      BY <1>4, <2>2 DEF CallGivesUp, CallReadsNothing
    <3> QED
      BY <1>3, <1>4, <3>1 DEF Owed
  <2> QED
    BY <2>1, <2>2
<1> HIDE DEF d
<1>6. OneBehind'
  BY <1>1, <1>5 DEF OneBehind, Owed, d
<1>7. \A i \in 1..Len(d) : i = 1 /\ Len(d) = 1 /\ d[i] = call.line
  <2> TAKE i \in 1..Len(d)
  <2> DEFINE n == Len(d)
  <2>1. n \in Nat /\ n <= 1 /\ i \in 1..n
    BY <1>3, <1>5
  <2> HIDE DEF n
  <2>2. n = 1 /\ i = 1
    BY ONLY <2>1
  <2>3. Len(d) = 1 /\ i = 1
    BY <2>2 DEF n
  <2> QED
    BY <1>3, <1>4, <2>3
<1>8. call.line.name = "pause" => Parked
  <2> SUFFICES ASSUME call.line.name = "pause" PROVE NoContinue /\ (target.running => PausePending)
    BY DEF Parked
  <2>1. NoContinue
    BY <1>7 DEF NoContinue, d
  <2>2. target.running => 1 \in 1..Len(d)
    BY <1>3, <1>4
  <2> QED
    BY <1>7, <2>1, <2>2 DEF PausePending, d
<1>9. call.line.name = "debugstatus" /\ Parked => Quiet
  <2> SUFFICES ASSUME call.line.name = "debugstatus", Parked PROVE ~PausePending
    BY DEF Parked, Quiet
  <2> QED
    BY <1>7 DEF PausePending, d
<1> QED
  BY <1>1, <1>2, <1>6, <1>8, <1>9 DEF TargetInv, TargetOK, LinesOK

-----------------------------------------------------------------------------
(* The handlers' steps.                                                    *)

Steps ==
  {Do(what) : what \in {"take", "spawn", "await", "answered", "settled", "loaded", "fail", "number",
                        "stopPolling", "join", "startPolling", "respond", "report", "kill"}}
  \cup {[does |-> "ask", line |-> line] : line \in AnsweredLines}
  \cup {[does |-> "tell", line |-> line] : line \in DebugLines \ AnsweredLines}
Untaken == Steps \ {Do("take")}

\* Only the first step may be an answer to wait for.
TodoIs(t) == t \in Seq(Steps) /\ (t # <<>> => Tail(t) \in Seq(Untaken))

LEMMA StepFacts ==
  /\ \A what : Do(what).does = what
  /\ \A name : Ask(name).does = "ask" /\ Ask(name).line = Plain(name)
  /\ \A name : Tell(name).does = "tell" /\ Tell(name).line = Plain(name)
  /\ \A name, breaks : Line(name, breaks).name = name
  /\ \A name : Plain(name).name = name
  /\ None.name = "none"
BY DEF Do, Ask, Tell, Line, Plain, None

LEMMA AsksAreSteps ==
  /\ \A name \in {"continue", "pause", "debugstep", "peek", "load", "debugstatus"} :
       Plain(name) \in AnsweredLines /\ Ask(name) \in Steps
  /\ \A breaks \in Breakpoints :
       /\ Line("setbreakpoints", breaks) \in AnsweredLines
       /\ [does |-> "ask", line |-> Line("setbreakpoints", breaks)] \in Steps
  /\ \A name \in {"call", "poke"} : Plain(name) \in DebugLines \ AnsweredLines /\ Tell(name) \in Steps
<1>1. /\ \A name \in {"continue", "pause", "debugstep", "peek", "load", "debugstatus"} :
           Plain(name) \in DebugLines /\ Answered(Plain(name))
      /\ \A breaks \in Breakpoints :
           Line("setbreakpoints", breaks) \in DebugLines /\ Answered(Line("setbreakpoints", breaks))
      /\ \A name \in {"call", "poke"} : Plain(name) \in DebugLines /\ ~Answered(Plain(name))
  BY StepFacts DEF DebugLines, Answered
<1>2. \A line \in DebugLines : line \in AnsweredLines <=> Answered(line)
  BY DEF AnsweredLines
<1>3. \A line \in AnsweredLines : [does |-> "ask", line |-> line] \in Steps
  BY DEF Steps
<1>4. \A line \in DebugLines \ AnsweredLines : [does |-> "tell", line |-> line] \in Steps
  BY DEF Steps
<1>5. \A name \in {"continue", "pause", "debugstep", "peek", "load", "debugstatus"} :
        Plain(name) \in AnsweredLines /\ Ask(name) \in Steps
  BY <1>1, <1>2, <1>3 DEF Ask
<1>6. \A name \in {"call", "poke"} : Plain(name) \in DebugLines \ AnsweredLines /\ Tell(name) \in Steps
  BY <1>1, <1>2, <1>4 DEF Tell
<1> QED
  BY <1>1, <1>2, <1>3, <1>5, <1>6

\* What a step asks is answered and what it tells is not.
LEMMA StepKinds ==
  /\ \A x \in Steps : /\ x.does = "ask" => x.line \in AnsweredLines
                      /\ x.does = "tell" => x.line \in DebugLines /\ ~Answered(x.line)
                      /\ x.does = "take" => x = Do("take")
  /\ \A x \in Untaken : x.does # "take"
<1>1. ASSUME NEW x \in Steps
      PROVE  /\ x.does = "ask" => x.line \in AnsweredLines
             /\ x.does = "tell" => x.line \in DebugLines \ AnsweredLines
             /\ x.does = "take" => x = Do("take")
  BY StepFacts DEF Steps
<1> QED
  BY <1>1 DEF Untaken, AnsweredLines

LEMMA Pushed ==
  ASSUME NEW T, NEW x, NEW t \in Seq(T)
  PROVE  <<x>> \o t # <<>> /\ Head(<<x>> \o t) = x /\ Tail(<<x>> \o t) = t
<1>1. t \in Seq(T \cup {x}) /\ x \in T \cup {x}
  BY ElementOfSeq
<1>2. Head(<<x>> \o t) = x /\ Tail(<<x>> \o t) = t /\ Len(<<x>> \o t) = 1 + Len(t) /\ Len(t) \in Nat
  BY <1>1
<1>3. <<x>> \o t # <<>>
  BY <1>2
<1> QED
  BY <1>2, <1>3

\* What may be left of a handler.
LEMMA TodoAfter ==
  /\ \A t \in Seq(Untaken) : TodoIs(t) /\ (t # <<>> => Head(t).does # "take")
  /\ \A x \in Steps, t \in Seq(Untaken) : TodoIs(<<x>> \o t)
  /\ \A x \in Untaken, t \in Seq(Untaken) : <<x>> \o t \in Seq(Untaken)
<1>1. Untaken \subseteq Steps
  BY DEF Untaken
<1>2. ASSUME NEW t \in Seq(Untaken) PROVE t \in Seq(Steps)
  BY <1>1, ElementOfSeq
<1>3. ASSUME NEW t \in Seq(Untaken) PROVE TodoIs(t) /\ (t # <<>> => Head(t).does # "take")
  <2>1. t # <<>> => Tail(t) \in Seq(Untaken) /\ Head(t) \in Untaken
    OBVIOUS
  <2> QED
    BY <1>2, <2>1, StepKinds DEF TodoIs
<1>4. ASSUME NEW x \in Steps, NEW t \in Seq(Untaken) PROVE TodoIs(<<x>> \o t)
  <2>1. <<x>> \o t \in Seq(Steps)
    BY <1>2, Prefixed
  <2>2. Tail(<<x>> \o t) = t
    BY Pushed
  <2> QED
    BY <2>1, <2>2 DEF TodoIs
<1>5. ASSUME NEW x \in Untaken, NEW t \in Seq(Untaken) PROVE <<x>> \o t \in Seq(Untaken)
  BY Prefixed
<1> QED
  BY <1>3, <1>4, <1>5

-----------------------------------------------------------------------------
(* What the threads' steps do to the target's side.                        *)

Core == TargetInv /\ PollRight /\ TodoIs(todo)
Same == Quiet' = Quiet /\ Parked' = Parked
NoPoll == poller \in {"none", "ended"}

LEMMA TargetKept ==
  ASSUME TargetInv, UNCHANGED <<targetVars, call, faults>>
  PROVE  TargetInv' /\ Same
BY DEF TargetInv, TargetOK, LinesOK, OneBehind, Owed, Due, Quiet, Parked, NoContinue, PausePending, Same,
       targetVars

LEMMA HeadIsStep ==
  ASSUME TodoIs(todo), todo # <<>>
  PROVE  /\ Head(todo) \in Steps /\ Tail(todo) \in Seq(Untaken)
         /\ TodoIs(Tail(todo)) /\ (Tail(todo) # <<>> => Head(Tail(todo)).does # "take")
<1>1. Head(todo) \in Steps /\ Tail(todo) \in Seq(Untaken)
  BY DEF TodoIs
<1> QED
  BY <1>1, TodoAfter

\* A step that only its own thread sees.
LEMMA LocalStep ==
  ASSUME Core, NEW what, what # "take", Now(what), UNCHANGED <<targetVars, call, faults>>,
         TodoIs(todo'), todo' # <<>> => Head(todo').does # "take",
         poller' = poller \/ (NoPoll /\ poller' \in {"none", "asleep"})
  PROVE  Core' /\ Same
<1>1. TargetInv' /\ Same
  BY TargetKept DEF Core
<1>2. ~Now("take") /\ ~Now("take")'
  BY DEF Now
<1>3. PollRight'
  BY <1>1, <1>2 DEF Core, PollRight, NoPoll, targetVars, Same
<1> QED
  BY <1>1, <1>3 DEF Core

\* A call begins; only a continue may start the target.
LEMMA AsksEffect ==
  ASSUME Core, Asks, Head(todo).line.name = "continue" => NoPoll
  PROVE  /\ Core' /\ Now("ask") /\ todo' = <<Do("take")>> \o Tail(todo)
         /\ call'.line = Head(todo).line
         /\ Head(todo).line.name # "continue" => (Quiet => Quiet') /\ (Parked => Parked')
<1>1. /\ Now("ask") /\ StartCall("requests", Head(todo).line) /\ todo' = <<Do("take")>> \o Tail(todo)
      /\ UNCHANGED <<poller, faults>>
  BY DEF Asks
<1>2. todo # <<>> /\ Head(todo).does = "ask" /\ Head(todo) \in Steps /\ Tail(todo) \in Seq(Untaken)
  BY <1>1, HeadIsStep DEF Now, Core
<1>3. PICK line : line = Head(todo).line /\ line \in DebugLines /\ Answered(line)
  BY <1>2, StepKinds DEF AnsweredLines
<1>4. /\ TargetInv' /\ call' = [by |-> "requests", line |-> line] /\ call = NoCall /\ ~file'.stopped
      /\ line.name # "continue" => (Quiet => Quiet') /\ (Parked => Parked')
  BY <1>1, <1>3, CallSent DEF Core
<1>5. Do("take") \in Steps
  BY DEF Steps
<1>6. TodoIs(todo') /\ todo' # <<>> /\ Head(todo') = Do("take")
  BY <1>1, <1>2, <1>5, TodoAfter, Pushed
<1>7. Now("take")'
  BY <1>6, StepFacts DEF Now
<1>8. poller # "waits" /\ call'.by = "requests" /\ call'.line = line
  BY <1>4, NobodyCalls DEF Core, PollRight
<1>9. poller = "reports" => line.name # "continue"
  BY <1>3 DEF NoPoll
<1>10. PollRight'
  BY <1>1, <1>4, <1>7, <1>8, <1>9 DEF Core, PollRight
<1> QED
  BY <1>1, <1>3, <1>4, <1>6, <1>8, <1>10 DEF Core

\* A call ends, and with a pause the target is parked.
LEMMA TakesEffect ==
  ASSUME Core, Takes \/ GoesWithout, MaxFaults \in {0, 1}
  PROVE  /\ Core' /\ Same /\ Now("take") /\ LeftWith(Tail(todo))
         /\ UNCHANGED <<poller, polling, view, stopOnEntry>>
         /\ call.line.name = "pause" => Parked'
         /\ call.line.name = "debugstatus" /\ Parked => Quiet'
<1>1. /\ Now("take") /\ LeftWith(Tail(todo)) /\ UNCHANGED <<target, fifo, batch, frameAt>>
      /\ UNCHANGED <<poller, polling, view, stopOnEntry>>
      /\ \/ CallReturns("requests") /\ UNCHANGED faults
         \/ CallGivesUp("requests")
         \/ CallReadsNothing("requests")
  BY DEF Takes, GoesWithout, TakeFrame
<1>2. call.by = "requests" /\ call # NoCall
  BY <1>1, NobodyCalls DEF Core, PollRight
<1>3. /\ TargetInv' /\ call' = NoCall /\ Quiet' = Quiet /\ Parked' = Parked
      /\ call.line.name = "pause" => Parked'
      /\ call.line.name = "debugstatus" /\ Parked => Quiet'
  BY <1>1, <1>2, CallEnded DEF Core
<1>4. todo # <<>> /\ TodoIs(todo') /\ (todo' # <<>> => Head(todo').does # "take")
  BY <1>1, HeadIsStep DEF Now, LeftWith, Core
<1>5. PollRight'
  BY <1>1, <1>2, <1>3, <1>4, NobodyCalls DEF Core, PollRight, Now
<1> QED
  BY <1>1, <1>3, <1>4, <1>5 DEF Core, Same

LEMMA TellsEffect ==
  ASSUME Core, Tells
  PROVE  Core' /\ Same /\ Now("tell") /\ LeftWith(Tail(todo)) /\ UNCHANGED <<poller, polling, view, stopOnEntry>>
<1>1. /\ Now("tell") /\ LeftWith(Tail(todo)) /\ fifo' = Append(fifo, Head(todo).line)
      /\ UNCHANGED <<target, batch, frameAt, file, call, faults>>
      /\ UNCHANGED <<poller, polling, view, stopOnEntry>>
  BY DEF Tells
<1>2. todo # <<>> /\ Head(todo).does = "tell" /\ Head(todo) \in Steps
      /\ TodoIs(todo') /\ (todo' # <<>> => Head(todo').does # "take")
  BY <1>1, HeadIsStep DEF Now, LeftWith, Core
<1>3. TargetInv' /\ Same
  BY <1>1, <1>2, StepKinds, LineTold DEF Core, Same
<1>4. PollRight'
  BY <1>1, <1>2, <1>3 DEF Core, PollRight, Now, Same
<1> QED
  BY <1>1, <1>2, <1>3, <1>4 DEF Core

\* A poll, whatever it meets, leaves a thread that watches, or a target shown
\* as stopped that is; it disturbs no call of the other thread.
LEMMA PollEffect ==
  ASSUME Core, Polls \/ PollGoesWithout, MaxFaults \in {0, 1}
  PROVE  /\ Core' /\ UNCHANGED <<request, todo, stopOnEntry>> /\ ~NoPoll
         /\ (Quiet => Quiet') /\ (Parked => Parked')
         /\ Now("take") => call' = call
         /\ \/ UNCHANGED view
            \/ view' = "stopped" /\ Quiet' /\ NoPoll'
         /\ Watched => Watched' \/ (view' = "stopped" /\ Quiet' /\ NoPoll')
         /\ poller = "asleep" => PollWakes
<1>0. UNCHANGED <<request, todo, stopOnEntry>> /\ (Now("take"))' = Now("take")
  BY DEF Polls, PollWakes, PollAsks, PollTakes, PollReports, PollGoesWithout, PollFrame, Now
<1>1. CASE PollWakes
  <2>1. /\ poller = "asleep" /\ poller' = IF polling THEN "wants" ELSE "ended"
        /\ UNCHANGED <<targetVars, call, polling, view, faults>>
    BY <1>1 DEF PollWakes
  <2>2. TargetInv' /\ Same
    BY <2>1, TargetKept DEF Core
  <2>3. PollRight'
    BY <1>0, <2>1, <2>2 DEF Core, PollRight, Same, targetVars
  <2> QED
    BY <1>0, <1>1, <2>1, <2>2, <2>3 DEF Core, Same, NoPoll, Watched
<1>2. CASE PollAsks
  <2>1. /\ poller = "wants" /\ StartCall("poll", Plain("debugstatus")) /\ poller' = "waits"
        /\ UNCHANGED <<polling, view, faults>>
    BY <1>2 DEF PollAsks
  <2>2. Plain("debugstatus") \in DebugLines /\ Answered(Plain("debugstatus"))
        /\ Plain("debugstatus").name = "debugstatus"
    BY AsksAreSteps, StepFacts DEF AnsweredLines
  <2>3. /\ TargetInv' /\ call' = [by |-> "poll", line |-> Plain("debugstatus")] /\ call = NoCall
        /\ ~file'.stopped /\ (Quiet => Quiet') /\ (Parked => Parked')
    BY <2>1, <2>2, CallSent DEF Core
  <2>4. ~Now("take")
    BY <2>3, NobodyCalls DEF Core, PollRight
  <2>5. call'.by = "poll" /\ call'.line.name = "debugstatus"
    BY <2>2, <2>3
  <2>6. PollRight'
    BY <1>0, <2>1, <2>3, <2>4, <2>5 DEF PollRight
  <2> QED
    BY <1>0, <2>1, <2>3, <2>4, <2>6 DEF Core, NoPoll, Watched
<1>3. CASE PollTakes
  <2>1. /\ poller = "waits" /\ CallReturns("poll")
        /\ \/ file.stopped /\ polling' = FALSE /\ poller' = "reports"
           \/ polling' = polling /\ poller' = "asleep"
        /\ UNCHANGED <<target, fifo, batch, frameAt, view, faults>>
    BY <1>3 DEF PollTakes
  <2>2. call.by = "poll" /\ call # NoCall
    BY <2>1, NobodyCalls DEF Core, PollRight
  <2>3. TargetInv' /\ call' = NoCall /\ Same
    BY <2>1, <2>2, CallEnded DEF Core, Same
  <2>4. file.stopped => Quiet'
    BY <2>2, <2>3 DEF Core, PollRight, Same
  <2>5. PollRight'
    BY <1>0, <2>1, <2>2, <2>3, <2>4, NobodyCalls DEF Core, PollRight
  <2>6. ~Now("take")
    BY <2>2 DEF Core, PollRight
  <2> QED
    BY <1>0, <2>1, <2>3, <2>5, <2>6 DEF Core, Same, NoPoll, Watched
<1>4. CASE PollGoesWithout
  <2>1. /\ poller = "waits" /\ poller' = "asleep"
        /\ CallGivesUp("poll") \/ CallReadsNothing("poll")
        /\ UNCHANGED <<target, fifo, batch, frameAt, polling, view>>
    BY <1>4 DEF PollGoesWithout
  <2>2. call.by = "poll" /\ call # NoCall
    BY <2>1, NobodyCalls DEF Core, PollRight
  <2>3. TargetInv' /\ call' = NoCall /\ Same
    BY <2>1, <2>2, CallEnded DEF Core, Same
  <2>4. PollRight'
    BY <1>0, <2>1, <2>2, <2>3, NobodyCalls DEF Core, PollRight
  <2>5. ~Now("take")
    BY <2>2 DEF Core, PollRight
  <2> QED
    BY <1>0, <2>1, <2>3, <2>4, <2>5 DEF Core, Same, NoPoll, Watched
<1>5. CASE PollReports
  <2>1. /\ poller = "reports" /\ view' = "stopped" /\ poller' = "ended"
        /\ UNCHANGED <<targetVars, call, polling, faults>>
    BY <1>5 DEF PollReports
  <2>2. TargetInv' /\ Same
    BY <2>1, TargetKept DEF Core
  <2>3. PollRight' /\ Quiet'
    BY <1>0, <2>1, <2>2 DEF Core, PollRight, Same, targetVars
  <2> QED
    BY <1>0, <2>1, <2>2, <2>3 DEF Core, Same, NoPoll, Watched
<1> QED
  BY <1>1, <1>2, <1>3, <1>4, <1>5 DEF Polls

RequestStep == Handles \/ Asks \/ Tells \/ Spawn \/ EmulatorUp \/ GoesWithout

\* What the next step of the handler is, and which action takes it.
LEMMA StepByHead ==
  ASSUME RequestStep, todo # <<>>
  PROVE  /\ Head(todo).does = "ask" => Asks
         /\ Head(todo).does = "take" => Takes \/ GoesWithout
         /\ Head(todo).does = "tell" => Tells
         /\ Head(todo).does \in {"spawn", "await", "answered", "loaded", "settled"}
              => Spawn \/ EmulatorUp \/ Check \/ Settled
         /\ Head(todo).does = "fail" => Fails
         /\ Head(todo).does = "number" => ReadNumber
         /\ Head(todo).does = "stopPolling" => StopPolling
         /\ Head(todo).does = "join" => JoinPoller
         /\ Head(todo).does = "startPolling" => StartPolling
         /\ Head(todo).does = "respond" => Respond
         /\ Head(todo).does = "report" => ReportStopped
         /\ Head(todo).does = "kill" => Kill
<1>1. /\ ~Serve
      /\ Asks => Head(todo).does = "ask"
      /\ Takes \/ GoesWithout => Head(todo).does = "take"
      /\ Tells => Head(todo).does = "tell"
      /\ Spawn => Head(todo).does = "spawn"
      /\ EmulatorUp => Head(todo).does = "await"
      /\ Check => Head(todo).does \in {"await", "answered", "loaded"}
      /\ Settled => Head(todo).does = "settled"
  BY DEF Serve, Asks, Takes, GoesWithout, Tells, Spawn, EmulatorUp, Check, Settled, Now
<1>2. /\ Fails => Head(todo).does = "fail"
      /\ ReadNumber => Head(todo).does = "number"
      /\ StopPolling => Head(todo).does = "stopPolling"
      /\ JoinPoller => Head(todo).does = "join"
      /\ StartPolling => Head(todo).does = "startPolling"
      /\ Respond => Head(todo).does = "respond"
      /\ ReportStopped => Head(todo).does = "report"
      /\ Kill => Head(todo).does = "kill"
  BY DEF Fails, ReadNumber, StopPolling, JoinPoller, StartPolling, Respond, ReportStopped, Kill, Now
<1> HIDE DEF Serve, Asks, Takes, GoesWithout
<1> QED
  BY <1>1, <1>2 DEF RequestStep, Handles

\* onLaunch's checks go on, try again or fail.
LEMMA LaunchLocal ==
  ASSUME Core, Spawn \/ EmulatorUp \/ Check \/ Settled
  PROVE  /\ Core' /\ Same /\ UNCHANGED <<request, view, poller, polling, stopOnEntry>>
         /\ todo # <<>> /\ Tail(todo) \in Seq(Untaken)
         /\ \/ todo' \in {todo, Tail(todo), <<Do("fail")>>}
            \/ \E check \in {"answered", "settled"} :
                 todo' = <<Ask("debugstatus"), Do(check)>> \o Tail(todo)
<1>1. /\ \E what \in {"spawn", "await", "answered", "loaded", "settled"} : Now(what)
      /\ UNCHANGED <<targetVars, call, faults, request, view, poller, polling, stopOnEntry>>
      /\ \/ todo' \in {todo, Tail(todo), <<Do("fail")>>}
         \/ \E check \in {"answered", "settled"} :
              todo' = <<Ask("debugstatus"), Do(check)>> \o Tail(todo)
  BY DEF Spawn, EmulatorUp, Check, Settled, GoOn, Fail, Again
<1>2. PICK what \in {"spawn", "await", "answered", "loaded", "settled"} : Now(what)
  BY <1>1
<1>3. todo # <<>> /\ Head(todo).does = what /\ Tail(todo) \in Seq(Untaken) /\ what # "take"
  BY <1>2, HeadIsStep DEF Now, Core
<1>4. TodoIs(todo') /\ (todo' # <<>> => Head(todo').does # "take")
  <2>1. CASE todo' = todo
    BY <1>3, <2>1 DEF Core
  <2>2. CASE todo' = Tail(todo)
    BY <1>3, <2>2, TodoAfter
  <2>3. CASE todo' = <<Do("fail")>>
    <3>1. Do("fail") \in Untaken
      BY StepFacts DEF Untaken, Steps
    <3>2. <<Do("fail")>> \in Seq(Untaken)
      BY <3>1
    <3> QED
      BY <2>3, <3>2, TodoAfter
  <2>4. ASSUME NEW check \in {"answered", "settled"},
               todo' = <<Ask("debugstatus"), Do(check)>> \o Tail(todo)
        PROVE  TodoIs(todo') /\ (todo' # <<>> => Head(todo').does # "take")
    <3>1. Do(check) \in Untaken /\ Ask("debugstatus") \in Untaken
      BY StepFacts, AsksAreSteps DEF Untaken, Steps
    <3>2. <<Ask("debugstatus"), Do(check)>> \in Seq(Untaken)
      BY <3>1
    <3>3. PICK p : p = <<Ask("debugstatus"), Do(check)>> /\ p \in Seq(Untaken)
      BY <3>2, Zenon
    <3>4. p \o Tail(todo) \in Seq(Untaken)
      BY <1>3, <3>3, ConcatProperties
    <3>5. todo' \in Seq(Untaken)
      BY <2>4, <3>3, <3>4, Zenon
    <3> QED
      BY <3>5, TodoAfter
  <2> QED
    BY <1>1, <2>1, <2>2, <2>3, <2>4
<1>5. Core' /\ Same
  BY <1>1, <1>2, <1>3, <1>4, LocalStep
<1> QED
  BY <1>1, <1>3, <1>5

\* The other steps that only the request thread takes part in.
LEMMA LeftLocal ==
  ASSUME Core, NEW what, what # "take", Now(what), LeftWith(Tail(todo)),
         UNCHANGED <<targetVars, call, faults>>,
         poller' = poller \/ (NoPoll /\ poller' \in {"none", "asleep"})
  PROVE  Core' /\ Same
<1>1. todo # <<>> /\ todo' = Tail(todo)
  BY DEF Now, LeftWith
<1> QED
  BY <1>1, HeadIsStep, LocalStep DEF Core

LEMMA FailsEffect ==
  ASSUME Core, Fails
  PROVE  /\ Core' /\ Same /\ view' = "failed" /\ request' = None /\ todo' = <<>>
         /\ UNCHANGED <<poller, polling, stopOnEntry>>
<1>1. /\ Now("fail") /\ view' = "failed" /\ request' = None /\ todo' = <<>>
      /\ UNCHANGED <<targetVars, call, faults, poller, polling, stopOnEntry>>
  BY DEF Fails, LeftWith
<1>2. TodoIs(<<>>)
  BY EmptySeq DEF TodoIs
<1> QED
  BY <1>1, <1>2, LocalStep

LEMMA NumberEffect ==
  ASSUME Core, ReadNumber
  PROVE  \/ /\ Core' /\ Same /\ LeftWith(Tail(todo))
            /\ UNCHANGED <<view, poller, polling, stopOnEntry>>
         \/ view' = "dead" /\ request' = None /\ todo' = <<>> /\ poller' = "ended"
<1>1. CASE got.kind \in {"value", "none"}
  <2>1. /\ Now("number") /\ LeftWith(Tail(todo))
        /\ UNCHANGED <<targetVars, call, faults, view, poller, polling, stopOnEntry>>
    BY <1>1 DEF ReadNumber
  <2> QED
    BY <2>1, LeftLocal
<1>2. CASE got.kind \notin {"value", "none"}
  BY <1>2 DEF ReadNumber, LeftWith
<1> QED
  BY <1>1, <1>2

LEMMA StopEffect ==
  ASSUME Core, StopPolling
  PROVE  /\ Core' /\ Same /\ todo' = <<Do("join")>> \o Tail(todo)
         /\ UNCHANGED <<request, view, poller, stopOnEntry>>
<1>1. /\ Now("stopPolling") /\ todo' = <<Do("join")>> \o Tail(todo)
      /\ UNCHANGED <<targetVars, call, faults, request, view, poller, stopOnEntry>>
  BY DEF StopPolling
<1>2. todo # <<>> /\ Tail(todo) \in Seq(Untaken)
  BY <1>1, HeadIsStep DEF Now, Core
<1>3. Do("join") \in Untaken
  BY StepFacts DEF Untaken, Steps
<1>4. todo' \in Seq(Untaken)
  BY <1>1, <1>2, <1>3, TodoAfter
<1> QED
  BY <1>1, <1>4, TodoAfter, LocalStep

LEMMA JoinEffect ==
  ASSUME Core, JoinPoller
  PROVE  /\ Core' /\ Same /\ LeftWith(Tail(todo)) /\ NoPoll'
         /\ UNCHANGED <<view, polling, stopOnEntry>>
<1>1. /\ Now("join") /\ LeftWith(Tail(todo)) /\ poller' = "none" /\ NoPoll
      /\ UNCHANGED <<targetVars, call, faults, view, polling, stopOnEntry>>
  BY DEF JoinPoller, NoPoll
<1> QED
  BY <1>1, LeftLocal DEF NoPoll

LEMMA StartEffect ==
  ASSUME Core, StartPolling, NoPoll
  PROVE  /\ Core' /\ Same /\ LeftWith(Tail(todo)) /\ poller' = "asleep" /\ polling' = TRUE
         /\ UNCHANGED <<view, stopOnEntry>>
<1>1. /\ Now("startPolling") /\ LeftWith(Tail(todo)) /\ poller' = "asleep" /\ polling' = TRUE
      /\ UNCHANGED <<targetVars, call, faults, view, stopOnEntry>>
  BY DEF StartPolling
<1> QED
  BY <1>1, LeftLocal

LEMMA RespondEffect ==
  ASSUME Core, Respond
  PROVE  /\ Core' /\ Same /\ LeftWith(Tail(todo))
         /\ UNCHANGED <<poller, polling, stopOnEntry>>
         /\ view' = CASE request.name = "launch" -> "launched"
                      [] request.name \in {"configurationDone", "continue"} -> "running"
                      [] request.name = "disconnect" -> "ended"
                      [] OTHER -> view
<1>1. /\ Now("respond") /\ LeftWith(Tail(todo))
      /\ UNCHANGED <<targetVars, call, faults, poller, polling, stopOnEntry>>
  BY DEF Respond
<1>2. view' = CASE request.name = "launch" -> "launched"
                [] request.name \in {"configurationDone", "continue"} -> "running"
                [] request.name = "disconnect" -> "ended"
                [] OTHER -> view
  BY DEF Respond
<1>3. Core' /\ Same
  BY <1>1, LeftLocal
<1> QED
  BY <1>1, <1>2, <1>3

LEMMA ReportEffect ==
  ASSUME Core, ReportStopped
  PROVE  /\ Core' /\ Same /\ LeftWith(Tail(todo)) /\ view' = "stopped"
         /\ UNCHANGED <<poller, polling, stopOnEntry>>
<1>1. /\ Now("report") /\ LeftWith(Tail(todo)) /\ view' = "stopped"
      /\ UNCHANGED <<targetVars, call, faults, poller, polling, stopOnEntry>>
  BY DEF ReportStopped
<1> QED
  BY <1>1, LeftLocal

LEMMA KillEffect ==
  ASSUME Core, Kill
  PROVE  Core' /\ Same /\ LeftWith(Tail(todo)) /\ UNCHANGED <<view, poller, polling, stopOnEntry>>
<1>1. /\ Now("kill") /\ LeftWith(Tail(todo))
      /\ UNCHANGED <<targetVars, call, faults, view, poller, polling, stopOnEntry>>
  BY DEF Kill
<1> QED
  BY <1>1, LeftLocal

-----------------------------------------------------------------------------
(* What each request relies on while it is served.                         *)

\* What the editor may believe between two requests.
Resting ==
  /\ view \in {"new", "launched", "stopped"} => Quiet /\ NoPoll
  /\ view = "running" => Watched

LaunchSteps ==
  {Do(what) : what \in {"take", "spawn", "await", "answered", "settled", "loaded", "fail", "respond"}}
  \cup {Ask(name) : name \in {"debugstatus", "load", "pause"}} \cup {Tell("call")}
Launching ==
  view \in {"new", "launched", "failed"} /\ Quiet /\ NoPoll /\ todo \in Seq(LaunchSteps)

ReadSteps ==
  {Do(what) : what \in {"take", "number", "respond"}} \cup {Ask("debugstatus"), Ask("peek"), Tell("poke")}
  \cup {[does |-> "ask", line |-> Line("setbreakpoints", breaks)] : breaks \in Breakpoints}
Reading == Resting /\ todo \in Seq(ReadSteps)

StepSteps == {Do(what) : what \in {"take", "stopPolling", "join", "respond", "report"}} \cup {Ask("debugstep")}
Stepping == view = "stopped" /\ Quiet /\ NoPoll /\ todo \in Seq(StepSteps)

LEMMA LaunchKinds ==
  ASSUME NEW x \in LaunchSteps
  PROVE  /\ x.does \in {"ask", "tell", "take", "spawn", "await", "answered", "settled", "loaded", "fail", "respond"}
         /\ x.does = "ask" => x.line.name \in {"debugstatus", "load", "pause"}
BY StepFacts DEF LaunchSteps

LEMMA ReadKinds ==
  ASSUME NEW x \in ReadSteps
  PROVE  /\ x.does \in {"ask", "tell", "take", "number", "respond"}
         /\ x.does = "ask" => x.line.name \in {"debugstatus", "peek", "setbreakpoints"}
BY StepFacts DEF ReadSteps

LEMMA SteppingKinds ==
  ASSUME NEW x \in StepSteps
  PROVE  /\ x.does \in {"ask", "take", "stopPolling", "join", "respond", "report"}
         /\ x.does = "ask" => x.line.name = "debugstep"
BY StepFacts DEF StepSteps

\* Each request keeps what it relies on until it is served, and then leaves
\* the editor with what is so.
LEMMA LaunchServed ==
  ASSUME Core, RequestStep, todo # <<>>, request.name = "launch", Launching, MaxFaults \in {0, 1}
  PROVE  /\ Core' /\ view' \in {"new", "launched", "failed"} /\ UNCHANGED stopOnEntry
         /\ \/ request' = None /\ todo' = <<>> /\ Resting'
            \/ request' = request /\ Launching'
<1>1. Head(todo) \in LaunchSteps /\ Tail(todo) \in Seq(LaunchSteps)
  BY DEF Launching
<1>2. Do("take") \in LaunchSteps /\ Do("fail") \in LaunchSteps /\ Ask("debugstatus") \in LaunchSteps
      /\ Do("answered") \in LaunchSteps /\ Do("settled") \in LaunchSteps
  BY DEF LaunchSteps
<1>3. Quiet /\ NoPoll /\ view \in {"new", "launched", "failed"}
  BY DEF Launching
<1>4. /\ Head(todo).does \in {"ask", "tell", "take", "spawn", "await", "answered", "settled", "loaded", "fail", "respond"}
      /\ Head(todo).does = "ask" => Head(todo).line.name \in {"debugstatus", "load", "pause"}
  BY <1>1, LaunchKinds
<1>5. CASE Asks
  <2>1. /\ Core' /\ Now("ask") /\ todo' = <<Do("take")>> \o Tail(todo)
        /\ Head(todo).line.name # "continue" => (Quiet => Quiet') /\ (Parked => Parked')
    BY <1>3, <1>5, AsksEffect
  <2>2. UNCHANGED <<request, view, poller, stopOnEntry>>
    BY <1>5 DEF Asks
  <2>3. Quiet'
    BY <1>3, <1>4, <2>1 DEF Now
  <2>4. todo' \in Seq(LaunchSteps)
    BY <1>1, <1>2, <2>1, Prefixed
  <2> QED
    BY <1>3, <2>1, <2>2, <2>3, <2>4 DEF Launching, NoPoll
<1>6. CASE Takes \/ GoesWithout \/ Tells \/ Respond
  <2>1. Core' /\ Same /\ LeftWith(Tail(todo)) /\ UNCHANGED <<poller, stopOnEntry>>
    BY <1>6, TakesEffect, TellsEffect, RespondEffect
  <2>2. view' \in {view, "launched"}
    BY <1>6, TakesEffect, TellsEffect, RespondEffect
  <2>3. view' \in {"new", "launched", "failed"}
    BY <1>3, <2>2
  <2> QED
    BY <1>1, <1>3, <2>1, <2>3 DEF LeftWith, Launching, NoPoll, Same, Resting
<1>7. CASE Spawn \/ EmulatorUp \/ Check \/ Settled
  <2>1. /\ Core' /\ Same /\ UNCHANGED <<request, view, poller, polling, stopOnEntry>>
        /\ \/ todo' \in {todo, Tail(todo), <<Do("fail")>>}
           \/ \E check \in {"answered", "settled"} :
                todo' = <<Ask("debugstatus"), Do(check)>> \o Tail(todo)
    BY <1>7, LaunchLocal
  <2>2. <<Do("fail")>> \in Seq(LaunchSteps)
    BY <1>2
  <2>3. ASSUME NEW check \in {"answered", "settled"}
        PROVE  <<Ask("debugstatus"), Do(check)>> \o Tail(todo) \in Seq(LaunchSteps)
    <3>1. <<Ask("debugstatus"), Do(check)>> \in Seq(LaunchSteps)
      BY <1>2
    <3>2. PICK p : p = <<Ask("debugstatus"), Do(check)>> /\ p \in Seq(LaunchSteps)
      BY <3>1, Zenon
    <3>3. p \o Tail(todo) \in Seq(LaunchSteps)
      BY <1>1, <3>2, ConcatProperties
    <3> QED
      BY <3>2, <3>3, Zenon
  <2>4. todo' \in Seq(LaunchSteps)
    BY <1>1, <2>1, <2>2, <2>3 DEF Launching
  <2> QED
    BY <1>3, <2>1, <2>4 DEF Launching, NoPoll, Same
<1>8. CASE Fails
  BY <1>3, <1>8, FailsEffect DEF Resting
<1> QED
  BY <1>4, <1>5, <1>6, <1>7, <1>8, StepByHead

LEMMA ReadingServed ==
  ASSUME Core, RequestStep, todo # <<>>, Reading, MaxFaults \in {0, 1},
         request.name \in {"setBreakpoints", "stackTrace", "variables", "readMemory", "writeMemory"}
  PROVE  \/ /\ Core' /\ view' = view /\ UNCHANGED stopOnEntry
            /\ \/ request' = None /\ todo' = <<>> /\ Resting'
               \/ request' = request /\ Reading'
         \/ view' = "dead" /\ request' = None /\ todo' = <<>> /\ poller' = "ended"
<1>1. Head(todo) \in ReadSteps /\ Tail(todo) \in Seq(ReadSteps) /\ Do("take") \in ReadSteps
  BY DEF Reading, ReadSteps
<1>2. /\ Head(todo).does \in {"ask", "tell", "take", "number", "respond"}
      /\ Head(todo).does = "ask" => Head(todo).line.name \in {"debugstatus", "peek", "setbreakpoints"}
  BY <1>1, ReadKinds
<1>3. CASE Asks
  <2>1. Head(todo).line.name # "continue"
    BY <1>2, <1>3 DEF Asks, Now
  <2>2. /\ Core' /\ todo' = <<Do("take")>> \o Tail(todo) /\ (Quiet => Quiet')
    BY <1>3, <2>1, AsksEffect
  <2>3. UNCHANGED <<request, view, poller, polling, stopOnEntry>>
    BY <1>3 DEF Asks
  <2>4. todo' \in Seq(ReadSteps)
    BY <1>1, <2>2, Prefixed
  <2>5. Resting'
    BY <2>2, <2>3 DEF Reading, Resting, NoPoll, Watched
  <2> QED
    BY <2>2, <2>3, <2>4, <2>5 DEF Reading
<1>4. CASE Takes \/ GoesWithout \/ Tells \/ Respond
  <2>1. Core' /\ Same /\ LeftWith(Tail(todo)) /\ UNCHANGED <<poller, polling, stopOnEntry>>
    BY <1>4, TakesEffect, TellsEffect, RespondEffect
  <2>2. view' = view
    BY <1>4, TakesEffect, TellsEffect, RespondEffect
  <2>3. Resting'
    BY <2>1, <2>2 DEF Reading, Resting, NoPoll, Watched, Same
  <2> QED
    BY <1>1, <2>1, <2>2, <2>3 DEF LeftWith, Reading
<1>5. CASE ReadNumber
  <2>1. CASE Core' /\ Same /\ LeftWith(Tail(todo)) /\ UNCHANGED <<view, poller, polling, stopOnEntry>>
    <3>1. Resting'
      BY <2>1 DEF Reading, Resting, NoPoll, Watched, Same
    <3> QED
      BY <1>1, <2>1, <3>1 DEF LeftWith, Reading
  <2> QED
    BY <1>5, <2>1, NumberEffect
<1> QED
  BY <1>2, <1>3, <1>4, <1>5, StepByHead

LEMMA SteppingServed ==
  ASSUME Core, RequestStep, todo # <<>>, Stepping, request.name = "step", MaxFaults \in {0, 1}
  PROVE  /\ Core' /\ view' = "stopped" /\ UNCHANGED stopOnEntry
         /\ \/ request' = None /\ todo' = <<>> /\ Resting'
            \/ request' = request /\ Stepping'
<1>1. Head(todo) \in StepSteps /\ Tail(todo) \in Seq(StepSteps)
      /\ Do("take") \in StepSteps /\ Do("join") \in StepSteps
  BY DEF Stepping, StepSteps
<1>2. /\ Head(todo).does \in {"ask", "take", "stopPolling", "join", "respond", "report"}
      /\ Head(todo).does = "ask" => Head(todo).line.name = "debugstep"
  BY <1>1, SteppingKinds
<1>3. view = "stopped" /\ Quiet /\ NoPoll
  BY DEF Stepping
<1>4. CASE Asks
  <2>1. Head(todo).line.name # "continue"
    BY <1>2, <1>4 DEF Asks, Now
  <2>2. /\ Core' /\ todo' = <<Do("take")>> \o Tail(todo) /\ (Quiet => Quiet')
    BY <1>4, <2>1, AsksEffect
  <2>3. UNCHANGED <<request, view, poller, polling, stopOnEntry>>
    BY <1>4 DEF Asks
  <2>4. todo' \in Seq(StepSteps)
    BY <1>1, <2>2, Prefixed
  <2> QED
    BY <1>3, <2>2, <2>3, <2>4 DEF Stepping, NoPoll
<1>5. CASE StopPolling
  <2>1. /\ Core' /\ Same /\ todo' = <<Do("join")>> \o Tail(todo)
        /\ UNCHANGED <<request, view, poller, stopOnEntry>>
    BY <1>5, StopEffect
  <2>2. todo' \in Seq(StepSteps)
    BY <1>1, <2>1, Prefixed
  <2> QED
    BY <1>3, <2>1, <2>2 DEF Stepping, NoPoll, Same
<1>6. CASE Takes \/ GoesWithout \/ JoinPoller \/ Respond \/ ReportStopped
  <2>1. Core' /\ Same /\ LeftWith(Tail(todo)) /\ UNCHANGED stopOnEntry
    BY <1>6, TakesEffect, JoinEffect, RespondEffect, ReportEffect
  <2>2. NoPoll'
    BY <1>3, <1>6, TakesEffect, JoinEffect, RespondEffect, ReportEffect DEF NoPoll
  <2>3. view' = "stopped"
    BY <1>3, <1>6, TakesEffect, JoinEffect, RespondEffect, ReportEffect
  <2> QED
    BY <1>1, <1>3, <2>1, <2>2, <2>3 DEF LeftWith, Stepping, Same, Resting
<1> QED
  BY <1>2, <1>4, <1>5, <1>6, StepByHead

-----------------------------------------------------------------------------
(* The requests whose steps' order matters.                                *)

ContinueRest == <<Do("stopPolling"), Do("startPolling"), Do("respond")>>
Continuing ==
  \/ todo \in {<<>>, OnContinue} /\ Quiet /\ NoPoll
  \/ /\ todo \in {<<Do("take")>> \o ContinueRest, ContinueRest, <<Do("join")>> \o Tail(ContinueRest),
                  Tail(ContinueRest)}
     /\ NoPoll
  \/ todo = <<Do("respond")>> /\ poller = "asleep" /\ polling

GoFree == <<Ask("continue"), Do("stopPolling"), Do("startPolling")>>
Configuring ==
  \/ todo \in {<<>>, OnConfigurationDone} /\ Quiet /\ NoPoll
  \/ todo = <<Do("report")>> /\ Quiet /\ NoPoll
  \/ /\ todo \in {GoFree, <<Do("take")>> \o Tail(GoFree), Tail(GoFree), <<Do("join")>> \o Tail(Tail(GoFree)),
                  Tail(Tail(GoFree))}
     /\ view = "running" /\ NoPoll

PauseRest == <<Do("stopPolling"), Do("respond"), Ask("debugstatus"), Do("report")>>
Pausing ==
  \/ todo \in {<<>>, OnPause}
  \/ todo = <<Do("take")>> \o PauseRest /\ call.line.name = "pause"
  \/ todo \in {PauseRest, <<Do("join")>> \o Tail(PauseRest)} /\ Parked
  \/ todo \in {Tail(PauseRest), Tail(Tail(PauseRest))} /\ Parked /\ NoPoll
  \/ todo = <<Do("take")>> \o <<Do("report")>> /\ Parked /\ NoPoll /\ call.line.name = "debugstatus"
  \/ todo = <<Do("report")>> /\ Quiet /\ NoPoll

Disconnecting ==
  todo \in {<<>>, OnDisconnect, <<Do("join")>> \o Tail(OnDisconnect), Tail(OnDisconnect),
            Tail(Tail(OnDisconnect))}

LEMMA ContinueTails ==
  /\ OnContinue # <<>> /\ Head(OnContinue) = Ask("continue") /\ Tail(OnContinue) = ContinueRest
  /\ ContinueRest \in Seq(Steps) /\ Head(ContinueRest) = Do("stopPolling") /\ ContinueRest # <<>>
  /\ Tail(ContinueRest) \in Seq(Steps) /\ Head(Tail(ContinueRest)) = Do("startPolling")
  /\ Tail(ContinueRest) # <<>>
  /\ Tail(Tail(ContinueRest)) = <<Do("respond")>>
  /\ Tail(<<Do("respond")>>) = <<>> /\ Head(<<Do("respond")>>) = Do("respond") /\ <<Do("respond")>> # <<>>
<1>1. Do("stopPolling") \in Steps /\ Do("startPolling") \in Steps /\ Do("respond") \in Steps
  BY DEF Steps
<1> QED
  BY <1>1 DEF OnContinue, ContinueRest

LEMMA ContinueServed ==
  ASSUME Core, RequestStep, todo # <<>>, Continuing, request.name = "continue", view # "dead",
         MaxFaults \in {0, 1}
  PROVE  /\ Core' /\ view' # "dead" /\ UNCHANGED stopOnEntry
         /\ \/ request' = None /\ todo' = <<>> /\ Resting'
            \/ request' = request /\ Continuing'
<1> USE StepFacts
<1>1. CASE todo = OnContinue /\ Quiet /\ NoPoll
  <2>1. Asks
    BY <1>1, StepByHead, ContinueTails
  <2>2. Core' /\ todo' = <<Do("take")>> \o ContinueRest
    BY <1>1, <2>1, AsksEffect, ContinueTails
  <2>3. UNCHANGED <<request, view, poller, stopOnEntry>>
    BY <2>1 DEF Asks
  <2> QED
    BY <1>1, <2>2, <2>3 DEF Continuing, NoPoll
<1>2. CASE todo = <<Do("take")>> \o ContinueRest /\ NoPoll
  <2>1. Head(todo) = Do("take") /\ Tail(todo) = ContinueRest
    <3>1. PICK r : r = ContinueRest /\ r \in Seq(Steps)
      BY ContinueTails, Zenon
    <3>2. r \in Seq(Steps)
      BY <3>1
    <3>3. Head(<<Do("take")>> \o r) = Do("take") /\ Tail(<<Do("take")>> \o r) = r
      BY ONLY <3>2, Pushed
    <3> QED
      BY <1>2, <3>1, <3>3, Zenon
  <2>2. Takes \/ GoesWithout
    BY <2>1, StepByHead
  <2>3. Core' /\ todo' = ContinueRest /\ request' = request /\ UNCHANGED <<view, poller, stopOnEntry>>
    BY <2>1, <2>2, TakesEffect, ContinueTails DEF LeftWith
  <2> QED
    BY <1>2, <2>3 DEF Continuing, NoPoll
<1>3. CASE todo = ContinueRest /\ NoPoll
  <2>1. StopPolling
    BY <1>3, StepByHead, ContinueTails
  <2>2. Core' /\ todo' = <<Do("join")>> \o Tail(ContinueRest) /\ UNCHANGED <<request, view, poller, stopOnEntry>>
    BY <1>3, <2>1, StopEffect
  <2> QED
    BY <1>3, <2>2 DEF Continuing, NoPoll
<1>4. CASE todo = <<Do("join")>> \o Tail(ContinueRest) /\ NoPoll
  <2>1. Head(todo) = Do("join") /\ Tail(todo) = Tail(ContinueRest)
    <3>1. PICK r : r = Tail(ContinueRest) /\ r \in Seq(Steps)
      BY ContinueTails, Zenon
    <3>2. r \in Seq(Steps)
      BY <3>1
    <3>3. Head(<<Do("join")>> \o r) = Do("join") /\ Tail(<<Do("join")>> \o r) = r
      BY ONLY <3>2, Pushed
    <3> QED
      BY <1>4, <3>1, <3>3, Zenon
  <2>2. JoinPoller
    BY <2>1, StepByHead
  <2>3. Core' /\ todo' = Tail(ContinueRest) /\ request' = request /\ NoPoll' /\ UNCHANGED <<view, stopOnEntry>>
    BY <2>1, <2>2, JoinEffect, ContinueTails DEF LeftWith
  <2> QED
    BY <2>3 DEF Continuing
<1>5. CASE todo = Tail(ContinueRest) /\ NoPoll
  <2>1. StartPolling
    BY <1>5, StepByHead, ContinueTails
  <2>2. /\ Core' /\ todo' = <<Do("respond")>> /\ request' = request /\ poller' = "asleep" /\ polling' = TRUE
        /\ UNCHANGED <<view, stopOnEntry>>
    BY <1>5, <2>1, StartEffect, ContinueTails DEF LeftWith
  <2> QED
    BY <2>2 DEF Continuing
<1>6. CASE todo = <<Do("respond")>> /\ poller = "asleep" /\ polling
  <2>1. Respond
    BY <1>6, StepByHead, ContinueTails
  <2>2. /\ Core' /\ todo' = <<>> /\ request' = None /\ UNCHANGED <<poller, polling, stopOnEntry>>
        /\ view' = "running"
    BY <1>6, <2>1, RespondEffect, ContinueTails DEF LeftWith
  <2> QED
    BY <1>6, <2>2 DEF Resting, Watched
<1> QED
  BY <1>1, <1>2, <1>3, <1>4, <1>5, <1>6 DEF Continuing

LEMMA ConfigureTails ==
  /\ stopOnEntry = TRUE => OnConfigurationDone = <<Do("respond")>> \o <<Do("report")>>
  /\ stopOnEntry = FALSE => OnConfigurationDone = <<Do("respond")>> \o GoFree
  /\ <<Do("report")>> \in Seq(Steps) /\ Head(<<Do("report")>>) = Do("report") /\ <<Do("report")>> # <<>>
  /\ Tail(<<Do("report")>>) = <<>>
  /\ GoFree \in Seq(Steps) /\ Head(GoFree) = Ask("continue") /\ GoFree # <<>>
  /\ Tail(GoFree) \in Seq(Steps) /\ Head(Tail(GoFree)) = Do("stopPolling") /\ Tail(GoFree) # <<>>
  /\ Tail(Tail(GoFree)) \in Seq(Steps) /\ Head(Tail(Tail(GoFree))) = Do("startPolling")
  /\ Tail(Tail(GoFree)) # <<>>
  /\ Tail(Tail(Tail(GoFree))) = <<>>
<1>1. Do("stopPolling") \in Steps /\ Do("startPolling") \in Steps /\ Do("report") \in Steps
      /\ Ask("continue") \in Steps
  BY AsksAreSteps DEF Steps
<1>2. /\ stopOnEntry = TRUE => OnConfigurationDone = <<Do("respond")>> \o <<Do("report")>>
      /\ stopOnEntry = FALSE => OnConfigurationDone = <<Do("respond")>> \o GoFree
  BY Zenon DEF OnConfigurationDone, GoFree
<1> QED
  BY <1>1, <1>2 DEF GoFree

LEMMA ConfigureServed ==
  ASSUME Core, RequestStep, todo # <<>>, Configuring, request.name = "configurationDone", view # "dead",
         MaxFaults \in {0, 1}, stopOnEntry \in BOOLEAN
  PROVE  /\ Core' /\ view' # "dead" /\ UNCHANGED stopOnEntry
         /\ \/ request' = None /\ todo' = <<>> /\ Resting'
            \/ request' = request /\ Configuring'
<1> USE StepFacts
<1>1. CASE todo = OnConfigurationDone /\ Quiet /\ NoPoll
  <2>1. Head(todo) = Do("respond")
        /\ Tail(todo) = IF stopOnEntry THEN <<Do("report")>> ELSE GoFree
    <3>1. PICK r : /\ r = IF stopOnEntry THEN <<Do("report")>> ELSE GoFree
                   /\ r \in Seq(Steps) /\ OnConfigurationDone = <<Do("respond")>> \o r
      <4>1. CASE stopOnEntry = TRUE
        BY <4>1, ConfigureTails, Zenon
      <4>2. CASE stopOnEntry = FALSE
        BY <4>2, ConfigureTails, Zenon
      <4> QED
        BY <4>1, <4>2
    <3>2. r \in Seq(Steps)
      BY <3>1
    <3>3. Head(<<Do("respond")>> \o r) = Do("respond") /\ Tail(<<Do("respond")>> \o r) = r
      BY ONLY <3>2, Pushed
    <3> QED
      BY <1>1, <3>1, <3>3, Zenon
  <2>2. Respond
    BY <2>1, StepByHead
  <2>3. Core' /\ Same /\ LeftWith(Tail(todo)) /\ UNCHANGED <<poller, polling, stopOnEntry>> /\ view' = "running"
    BY <2>2, RespondEffect
  <2>4. todo' \in {<<Do("report")>>, GoFree} /\ request' = request
    BY <2>1, <2>3, ConfigureTails DEF LeftWith
  <2> QED
    BY <1>1, <2>3, <2>4 DEF Configuring, NoPoll, Same
<1>2. CASE todo = <<Do("report")>> /\ Quiet /\ NoPoll
  <2>1. ReportStopped
    BY <1>2, StepByHead, ConfigureTails
  <2>2. /\ Core' /\ Same /\ todo' = <<>> /\ request' = None /\ view' = "stopped"
        /\ UNCHANGED <<poller, stopOnEntry>>
    BY <1>2, <2>1, ReportEffect, ConfigureTails DEF LeftWith
  <2> QED
    BY <1>2, <2>2 DEF Resting, NoPoll, Same
<1>3. CASE todo = GoFree /\ view = "running" /\ NoPoll
  <2>1. Asks
    BY <1>3, StepByHead, ConfigureTails
  <2>2. Core' /\ todo' = <<Do("take")>> \o Tail(GoFree)
    BY <1>3, <2>1, AsksEffect
  <2>3. UNCHANGED <<request, view, poller, stopOnEntry>>
    BY <2>1 DEF Asks
  <2> QED
    BY <1>3, <2>2, <2>3 DEF Configuring, NoPoll
<1>4. CASE todo = <<Do("take")>> \o Tail(GoFree) /\ view = "running" /\ NoPoll
  <2>1. Head(todo) = Do("take") /\ Tail(todo) = Tail(GoFree)
    <3>1. PICK r : r = Tail(GoFree) /\ r \in Seq(Steps)
      BY ConfigureTails, Zenon
    <3>2. r \in Seq(Steps)
      BY <3>1
    <3>3. Head(<<Do("take")>> \o r) = Do("take") /\ Tail(<<Do("take")>> \o r) = r
      BY ONLY <3>2, Pushed
    <3> QED
      BY <1>4, <3>1, <3>3, Zenon
  <2>2. Takes \/ GoesWithout
    BY <2>1, StepByHead
  <2>3. Core' /\ todo' = Tail(GoFree) /\ request' = request /\ UNCHANGED <<view, poller, stopOnEntry>>
    BY <2>1, <2>2, TakesEffect, ConfigureTails DEF LeftWith
  <2> QED
    BY <1>4, <2>3 DEF Configuring, NoPoll
<1>5. CASE todo = Tail(GoFree) /\ view = "running" /\ NoPoll
  <2>1. StopPolling
    BY <1>5, StepByHead, ConfigureTails
  <2>2. Core' /\ todo' = <<Do("join")>> \o Tail(Tail(GoFree)) /\ UNCHANGED <<request, view, poller, stopOnEntry>>
    BY <1>5, <2>1, StopEffect
  <2> QED
    BY <1>5, <2>2 DEF Configuring, NoPoll
<1>6. CASE todo = <<Do("join")>> \o Tail(Tail(GoFree)) /\ view = "running" /\ NoPoll
  <2>1. Head(todo) = Do("join") /\ Tail(todo) = Tail(Tail(GoFree))
    <3>1. PICK r : r = Tail(Tail(GoFree)) /\ r \in Seq(Steps)
      BY ConfigureTails, Zenon
    <3>2. r \in Seq(Steps)
      BY <3>1
    <3>3. Head(<<Do("join")>> \o r) = Do("join") /\ Tail(<<Do("join")>> \o r) = r
      BY ONLY <3>2, Pushed
    <3> QED
      BY <1>6, <3>1, <3>3, Zenon
  <2>2. JoinPoller
    BY <2>1, StepByHead
  <2>3. Core' /\ todo' = Tail(Tail(GoFree)) /\ request' = request /\ NoPoll' /\ UNCHANGED <<view, stopOnEntry>>
    BY <2>1, <2>2, JoinEffect, ConfigureTails DEF LeftWith
  <2> QED
    BY <1>6, <2>3 DEF Configuring
<1>7. CASE todo = Tail(Tail(GoFree)) /\ view = "running" /\ NoPoll
  <2>1. StartPolling
    BY <1>7, StepByHead, ConfigureTails
  <2>2. /\ Core' /\ todo' = <<>> /\ request' = None /\ poller' = "asleep" /\ polling' = TRUE
        /\ UNCHANGED <<view, stopOnEntry>>
    BY <1>7, <2>1, StartEffect, ConfigureTails DEF LeftWith
  <2> QED
    BY <1>7, <2>2 DEF Resting, Watched
<1> QED
  BY <1>1, <1>2, <1>3, <1>4, <1>5, <1>6, <1>7 DEF Configuring

LEMMA PauseTails ==
  /\ OnPause # <<>> /\ Head(OnPause) = Ask("pause") /\ Tail(OnPause) = PauseRest
  /\ PauseRest \in Seq(Steps) /\ Head(PauseRest) = Do("stopPolling") /\ PauseRest # <<>>
  /\ Tail(PauseRest) \in Seq(Steps) /\ Head(Tail(PauseRest)) = Do("respond") /\ Tail(PauseRest) # <<>>
  /\ Head(Tail(Tail(PauseRest))) = Ask("debugstatus") /\ Tail(Tail(PauseRest)) # <<>>
  /\ Tail(Tail(Tail(PauseRest))) = <<Do("report")>>
<1>1. Do("stopPolling") \in Steps /\ Do("respond") \in Steps /\ Do("report") \in Steps
      /\ Ask("debugstatus") \in Steps
  BY AsksAreSteps DEF Steps
<1> QED
  BY <1>1 DEF OnPause, PauseRest

LEMMA PauseServed ==
  ASSUME Core, RequestStep, todo # <<>>, Pausing, request.name = "pause", view # "dead", MaxFaults \in {0, 1}
  PROVE  /\ Core' /\ view' # "dead" /\ UNCHANGED stopOnEntry
         /\ \/ request' = None /\ todo' = <<>> /\ Resting'
            \/ request' = request /\ Pausing'
<1> USE StepFacts
<1>1. CASE todo = OnPause
  <2>1. Asks
    BY <1>1, StepByHead, PauseTails
  <2>2. Head(todo).line = Plain("pause") /\ Plain("pause").name = "pause"
    BY <1>1, PauseTails
  <2>4. Core' /\ todo' = <<Do("take")>> \o PauseRest /\ call'.line.name = "pause"
    BY <1>1, <2>1, <2>2, AsksEffect, PauseTails
  <2>3. UNCHANGED <<request, view, stopOnEntry>>
    BY <2>1 DEF Asks
  <2> QED
    BY <2>3, <2>4 DEF Pausing
<1>2. CASE todo = <<Do("take")>> \o PauseRest /\ call.line.name = "pause"
  <2>1. Head(todo) = Do("take") /\ Tail(todo) = PauseRest
    <3>1. PICK r : r = PauseRest /\ r \in Seq(Steps)
      BY PauseTails, Zenon
    <3>2. r \in Seq(Steps)
      BY <3>1
    <3>3. Head(<<Do("take")>> \o r) = Do("take") /\ Tail(<<Do("take")>> \o r) = r
      BY ONLY <3>2, Pushed
    <3> QED
      BY <1>2, <3>1, <3>3, Zenon
  <2>2. Takes \/ GoesWithout
    BY <2>1, StepByHead
  <2>3. Core' /\ todo' = PauseRest /\ request' = request /\ Parked' /\ UNCHANGED <<view, stopOnEntry>>
    BY <1>2, <2>1, <2>2, TakesEffect, PauseTails DEF LeftWith
  <2> QED
    BY <2>3 DEF Pausing
<1>3. CASE todo = PauseRest /\ Parked
  <2>1. StopPolling
    BY <1>3, StepByHead, PauseTails
  <2>2. Core' /\ Same /\ todo' = <<Do("join")>> \o Tail(PauseRest) /\ UNCHANGED <<request, view, stopOnEntry>>
    BY <1>3, <2>1, StopEffect
  <2> QED
    BY <1>3, <2>2 DEF Pausing, Same
<1>4. CASE todo = <<Do("join")>> \o Tail(PauseRest) /\ Parked
  <2>1. Head(todo) = Do("join") /\ Tail(todo) = Tail(PauseRest)
    <3>1. PICK r : r = Tail(PauseRest) /\ r \in Seq(Steps)
      BY PauseTails, Zenon
    <3>2. r \in Seq(Steps)
      BY <3>1
    <3>3. Head(<<Do("join")>> \o r) = Do("join") /\ Tail(<<Do("join")>> \o r) = r
      BY ONLY <3>2, Pushed
    <3> QED
      BY <1>4, <3>1, <3>3, Zenon
  <2>2. JoinPoller
    BY <2>1, StepByHead
  <2>3. Core' /\ Same /\ todo' = Tail(PauseRest) /\ request' = request /\ NoPoll' /\ UNCHANGED <<view, stopOnEntry>>
    BY <2>1, <2>2, JoinEffect, PauseTails DEF LeftWith
  <2> QED
    BY <1>4, <2>3 DEF Pausing, Same
<1>5. CASE todo = Tail(PauseRest) /\ Parked /\ NoPoll
  <2>1. Respond
    BY <1>5, StepByHead, PauseTails
  <2>2. /\ Core' /\ Same /\ todo' = Tail(Tail(PauseRest)) /\ request' = request
        /\ UNCHANGED <<poller, stopOnEntry>>
    BY <1>5, <2>1, RespondEffect, PauseTails DEF LeftWith
  <2>3. view' = view
    BY <2>1, RespondEffect
  <2> QED
    BY <1>5, <2>2, <2>3 DEF Pausing, Same, NoPoll
<1>6. CASE todo = Tail(Tail(PauseRest)) /\ Parked /\ NoPoll
  <2>1. Asks
    BY <1>6, StepByHead, PauseTails
  <2>2. Head(todo).line = Plain("debugstatus") /\ Plain("debugstatus").name = "debugstatus"
    BY <1>6, PauseTails
  <2>3. Core' /\ todo' = <<Do("take")>> \o <<Do("report")>> /\ call'.line.name = "debugstatus" /\ Parked'
    BY <1>6, <2>1, <2>2, AsksEffect, PauseTails
  <2>4. UNCHANGED <<request, view, poller, stopOnEntry>>
    BY <2>1 DEF Asks
  <2> QED
    BY <1>6, <2>3, <2>4 DEF Pausing, NoPoll
<1>7. CASE todo = <<Do("take")>> \o <<Do("report")>> /\ Parked /\ NoPoll /\ call.line.name = "debugstatus"
  <2>1. Head(todo) = Do("take") /\ Tail(todo) = <<Do("report")>>
    <3>1. PICK r : r = <<Do("report")>> /\ r \in Seq(Steps)
      BY ConfigureTails, Zenon
    <3>2. r \in Seq(Steps)
      BY <3>1
    <3>3. Head(<<Do("take")>> \o r) = Do("take") /\ Tail(<<Do("take")>> \o r) = r
      BY ONLY <3>2, Pushed
    <3> QED
      BY <1>7, <3>1, <3>3, Zenon
  <2>2. Takes \/ GoesWithout
    BY <2>1, StepByHead
  <2>3. Core' /\ todo' = <<Do("report")>> /\ request' = request /\ Quiet' /\ UNCHANGED <<view, poller, stopOnEntry>>
    BY <1>7, <2>1, <2>2, TakesEffect, ConfigureTails DEF LeftWith
  <2> QED
    BY <1>7, <2>3 DEF Pausing, NoPoll
<1>8. CASE todo = <<Do("report")>> /\ Quiet /\ NoPoll
  <2>1. ReportStopped
    BY <1>8, StepByHead, ConfigureTails
  <2>2. /\ Core' /\ Same /\ todo' = <<>> /\ request' = None /\ view' = "stopped"
        /\ UNCHANGED <<poller, stopOnEntry>>
    BY <1>8, <2>1, ReportEffect, ConfigureTails DEF LeftWith
  <2> QED
    BY <1>8, <2>2 DEF Resting, NoPoll, Same
<1> QED
  BY <1>1, <1>2, <1>3, <1>4, <1>5, <1>6, <1>7, <1>8 DEF Pausing

LEMMA DisconnectTails ==
  /\ OnDisconnect # <<>> /\ Head(OnDisconnect) = Do("stopPolling")
  /\ Tail(OnDisconnect) \in Seq(Steps) /\ Tail(OnDisconnect) # <<>> /\ Head(Tail(OnDisconnect)) = Do("kill")
  /\ Tail(Tail(OnDisconnect)) # <<>> /\ Head(Tail(Tail(OnDisconnect))) = Do("respond")
  /\ Tail(Tail(Tail(OnDisconnect))) = <<>>
<1>1. Do("kill") \in Steps /\ Do("respond") \in Steps
  BY DEF Steps
<1> QED
  BY <1>1 DEF OnDisconnect

LEMMA DisconnectServed ==
  ASSUME Core, RequestStep, todo # <<>>, Disconnecting, request.name = "disconnect", view # "dead"
  PROVE  /\ Core' /\ view' # "dead" /\ UNCHANGED stopOnEntry
         /\ \/ request' = None /\ todo' = <<>> /\ Resting'
            \/ request' = request /\ Disconnecting'
<1> USE StepFacts
<1>1. CASE todo = OnDisconnect
  <2>1. StopPolling
    BY <1>1, StepByHead, DisconnectTails
  <2>2. Core' /\ todo' = <<Do("join")>> \o Tail(OnDisconnect) /\ UNCHANGED <<request, view, stopOnEntry>>
    BY <1>1, <2>1, StopEffect
  <2> QED
    BY <2>2 DEF Disconnecting
<1>2. CASE todo = <<Do("join")>> \o Tail(OnDisconnect)
  <2>1. Head(todo) = Do("join") /\ Tail(todo) = Tail(OnDisconnect)
    <3>1. PICK r : r = Tail(OnDisconnect) /\ r \in Seq(Steps)
      BY DisconnectTails, Zenon
    <3>2. r \in Seq(Steps)
      BY <3>1
    <3>3. Head(<<Do("join")>> \o r) = Do("join") /\ Tail(<<Do("join")>> \o r) = r
      BY ONLY <3>2, Pushed
    <3> QED
      BY <1>2, <3>1, <3>3, Zenon
  <2>2. JoinPoller
    BY <2>1, StepByHead
  <2>3. Core' /\ todo' = Tail(OnDisconnect) /\ request' = request /\ UNCHANGED <<view, stopOnEntry>>
    BY <2>1, <2>2, JoinEffect, DisconnectTails DEF LeftWith
  <2> QED
    BY <2>3 DEF Disconnecting
<1>3. CASE todo = Tail(OnDisconnect)
  <2>1. Kill
    BY <1>3, StepByHead, DisconnectTails
  <2>2. Core' /\ todo' = Tail(Tail(OnDisconnect)) /\ request' = request /\ UNCHANGED <<view, stopOnEntry>>
    BY <1>3, <2>1, KillEffect, DisconnectTails DEF LeftWith
  <2> QED
    BY <2>2 DEF Disconnecting
<1>4. CASE todo = Tail(Tail(OnDisconnect))
  <2>1. Respond
    BY <1>4, StepByHead, DisconnectTails
  <2>2. Core' /\ todo' = <<>> /\ request' = None /\ UNCHANGED stopOnEntry /\ view' = "ended"
    BY <1>4, <2>1, RespondEffect, DisconnectTails DEF LeftWith
  <2> QED
    BY <2>2 DEF Resting
<1> QED
  BY <1>1, <1>2, <1>3, <1>4 DEF Disconnecting

-----------------------------------------------------------------------------
(* The whole of it.                                                        *)

Readings == {"setBreakpoints", "stackTrace", "variables", "readMemory", "writeMemory"}

ServedRight ==
  /\ request = None => todo = <<>> /\ Resting
  /\ request.name = "launch" => Launching
  /\ request.name = "configurationDone" => Configuring
  /\ request.name = "continue" => Continuing
  /\ request.name = "step" => Stepping
  /\ request.name = "pause" => Pausing
  /\ request.name = "disconnect" => Disconnecting
  /\ request.name \in Readings => Reading

Dead == view = "dead" /\ request = None /\ todo = <<>> /\ poller = "ended"
Alive ==
  /\ view # "dead" /\ Core /\ ServedRight
  /\ request \in Requests \cup {None} /\ stopOnEntry \in BOOLEAN
DebugInv == Dead \/ Alive

LEMMA RequestNames ==
  /\ \A r \in Requests :
       /\ r # None
       /\ r.name \in {"launch", "configurationDone", "continue", "step", "pause", "disconnect"} \cup Readings
       /\ r.name = "setBreakpoints" => r.breaks \in Breakpoints
  /\ None.name = "none"
BY StepFacts DEF Requests, Readings, Plain, Line

LEMMA Handlers ==
  /\ OnLaunch \in Seq(Untaken \cap LaunchSteps)
  /\ \A breaks \in Breakpoints : OnSetBreakpoints(breaks) \in Seq(Untaken \cap ReadSteps)
  /\ stopOnEntry \in BOOLEAN => OnConfigurationDone \in Seq(Untaken)
  /\ OnContinue \in Seq(Untaken) /\ OnPause \in Seq(Untaken) /\ OnDisconnect \in Seq(Untaken)
  /\ OnStep \in Seq(Untaken \cap StepSteps)
  /\ OnStackTrace \in Seq(Untaken \cap ReadSteps) /\ OnVariables \in Seq(Untaken \cap ReadSteps)
  /\ OnReadMemory \in Seq(Untaken \cap ReadSteps) /\ OnWriteMemory \in Seq(Untaken \cap ReadSteps)
<1>1. /\ \A what \in {"spawn", "await", "answered", "settled", "loaded", "fail", "number", "stopPolling",
                      "join", "startPolling", "respond", "report", "kill"} : Do(what) \in Untaken
      /\ \A name \in {"continue", "pause", "debugstep", "peek", "load", "debugstatus"} : Ask(name) \in Untaken
      /\ \A name \in {"call", "poke"} : Tell(name) \in Untaken
      /\ \A breaks \in Breakpoints :
           [does |-> "ask", line |-> Line("setbreakpoints", breaks)] \in Untaken
  <2>1. \A what \in {"spawn", "await", "answered", "settled", "loaded", "fail", "number", "stopPolling",
                      "join", "startPolling", "respond", "report", "kill"} : Do(what) \in Steps
    BY DEF Steps
  <2>2. \A x \in Steps : x.does # "take" => x \in Untaken
    BY StepFacts DEF Untaken
  <2> QED
    BY <2>1, <2>2, AsksAreSteps, StepFacts
<1>2. OnLaunch \in Seq(Untaken \cap LaunchSteps)
  <2> DEFINE S == Untaken \cap LaunchSteps
  <2>1. /\ Do("spawn") \in S /\ Do("await") \in S /\ Ask("debugstatus") \in S /\ Do("answered") \in S
        /\ Do("settled") \in S /\ Ask("load") \in S /\ Do("loaded") \in S /\ Tell("call") \in S
        /\ Ask("pause") \in S /\ Do("respond") \in S
    BY <1>1 DEF LaunchSteps
  <2> HIDE DEF S
  <2>2. StartEmulator \in Seq(S) /\ LoadProgram \in Seq(S)
    BY <2>1 DEF StartEmulator, LoadProgram
  <2>3. <<>> \in Seq(S)
    BY EmptySeq
  <2>4. PICK p : p = (IF launches THEN StartEmulator ELSE <<>>) /\ p \in Seq(S)
    BY <2>2, <2>3, Zenon
  <2>5. PICK q : q = LoadProgram /\ q \in Seq(S)
    BY <2>2, Zenon
  <2>6. p \o q \in Seq(S)
    BY ONLY <2>4, <2>5, ConcatProperties
  <2>7. OnLaunch \in Seq(S)
    BY <2>4, <2>5, <2>6, Zenon DEF OnLaunch
  <2> QED
    BY <2>7 DEF S
<1>3. \A breaks \in Breakpoints : OnSetBreakpoints(breaks) \in Seq(Untaken \cap ReadSteps)
  <2> TAKE breaks \in Breakpoints
  <2> DEFINE S == Untaken \cap ReadSteps
  <2>1. [does |-> "ask", line |-> Line("setbreakpoints", breaks)] \in S /\ Do("respond") \in S
    BY <1>1 DEF ReadSteps
  <2> HIDE DEF S
  <2>2. OnSetBreakpoints(breaks) \in Seq(S)
    BY <2>1 DEF OnSetBreakpoints
  <2> QED
    BY <2>2 DEF S
<1>4. stopOnEntry \in BOOLEAN => OnConfigurationDone \in Seq(Untaken)
  <2>1. GoFree \in Seq(Untaken) /\ <<Do("report")>> \in Seq(Untaken) /\ Do("respond") \in Untaken
    BY <1>1 DEF GoFree
  <2> SUFFICES ASSUME stopOnEntry \in BOOLEAN PROVE OnConfigurationDone \in Seq(Untaken)
    OBVIOUS
  <2>2. PICK r : OnConfigurationDone = <<Do("respond")>> \o r /\ r \in Seq(Untaken)
    <3>1. CASE stopOnEntry = TRUE
      BY <2>1, <3>1, ConfigureTails, Zenon
    <3>2. CASE stopOnEntry = FALSE
      BY <2>1, <3>2, ConfigureTails, Zenon
    <3> QED
      BY <3>1, <3>2
  <2>3. r \in Seq(Untaken) /\ Do("respond") \in Untaken
    BY <2>1, <2>2
  <2>4. <<Do("respond")>> \o r \in Seq(Untaken)
    BY ONLY <2>3, TodoAfter
  <2> QED
    BY <2>2, <2>4
<1>5. OnContinue \in Seq(Untaken) /\ OnPause \in Seq(Untaken) /\ OnDisconnect \in Seq(Untaken)
  <2> HIDE DEF Untaken
  <2> QED
    BY <1>1 DEF OnContinue, OnPause, OnDisconnect
<1>6. OnStep \in Seq(Untaken \cap StepSteps)
  <2> DEFINE S == Untaken \cap StepSteps
  <2>1. Do("stopPolling") \in S /\ Ask("debugstep") \in S /\ Do("respond") \in S /\ Do("report") \in S
    BY <1>1 DEF StepSteps
  <2> HIDE DEF S
  <2>2. OnStep \in Seq(S)
    BY <2>1 DEF OnStep
  <2> QED
    BY <2>2 DEF S
<1>7. /\ OnStackTrace \in Seq(Untaken \cap ReadSteps) /\ OnVariables \in Seq(Untaken \cap ReadSteps)
      /\ OnReadMemory \in Seq(Untaken \cap ReadSteps) /\ OnWriteMemory \in Seq(Untaken \cap ReadSteps)
  <2> DEFINE S == Untaken \cap ReadSteps
  <2>1. Ask("debugstatus") \in S /\ Ask("peek") \in S /\ Tell("poke") \in S /\ Do("number") \in S
        /\ Do("respond") \in S
    BY <1>1 DEF ReadSteps
  <2> HIDE DEF S
  <2>2. /\ OnStackTrace \in Seq(S) /\ OnVariables \in Seq(S)
        /\ OnReadMemory \in Seq(S) /\ OnWriteMemory \in Seq(S)
    BY <2>1 DEF OnStackTrace, OnVariables, OnReadMemory, OnWriteMemory
  <2> QED
    BY <2>2 DEF S
<1> QED
  BY <1>2, <1>3, <1>4, <1>5, <1>6, <1>7

LEMMA SeqOfBoth ==
  ASSUME NEW A, NEW B, NEW s \in Seq(A \cap B)
  PROVE  s \in Seq(A) /\ s \in Seq(B)
BY ElementOfSeq

\* The editor sends a request, and its handler is looked up.
LEMMA EditorInv ==
  ASSUME Alive, EditorAsks
  PROVE  Alive'
<1>1. /\ request = None /\ todo = <<>> /\ todo' = todo
      /\ request' \in Requests /\ MaySend(request'.name)
      /\ UNCHANGED <<targetVars, call, faults, poller, polling, view, stopOnEntry>>
  BY DEF EditorAsks, Alive, ServedRight
<1>2. Resting /\ view # "dead"
  BY <1>1 DEF Alive, ServedRight
<1>3. TargetInv' /\ Same
  BY <1>1, TargetKept DEF Alive, Core
<1>4. Core'
  BY <1>1, <1>3 DEF Alive, Core, PollRight, Same, Now, targetVars
<1>5. Resting' /\ (Quiet => Quiet') /\ (NoPoll => NoPoll')
  BY <1>1, <1>2, <1>3 DEF Resting, Same, NoPoll, Watched
<1>6. request'.name = "launch" => Launching'
  <2>1. <<>> \in Seq(LaunchSteps)
    BY EmptySeq
  <2> QED
    BY <1>1, <1>2, <1>5, <2>1 DEF MaySend, Launching, Resting
<1>7. request'.name \in Readings => Reading'
  <2>1. <<>> \in Seq(ReadSteps)
    BY EmptySeq
  <2> QED
    BY <1>1, <1>5, <2>1 DEF Reading
<1>8. request'.name = "step" => Stepping'
  <2>1. <<>> \in Seq(StepSteps)
    BY EmptySeq
  <2> QED
    BY <1>1, <1>2, <1>5, <2>1 DEF MaySend, Stepping, Resting
<1>9. request'.name = "continue" => Continuing'
  BY <1>1, <1>2, <1>5 DEF MaySend, Continuing, Resting
<1>10. request'.name = "configurationDone" => Configuring'
  BY <1>1, <1>2, <1>5 DEF MaySend, Configuring, Resting
<1>11. (request'.name = "pause" => Pausing') /\ (request'.name = "disconnect" => Disconnecting')
  BY <1>1 DEF Pausing, Disconnecting
<1>12. request' # None
  BY <1>1, RequestNames
<1>13. ServedRight'
  BY <1>6, <1>7, <1>8, <1>9, <1>10, <1>11, <1>12 DEF ServedRight
<1> QED
  BY <1>1, <1>2, <1>4, <1>13 DEF Alive

LEMMA ServeInv ==
  ASSUME Alive, Serve
  PROVE  Alive'
<1>1. /\ request # None /\ request \in Requests /\ request' = request /\ todo = <<>>
      /\ todo' = HandleRequest(request)
      /\ UNCHANGED <<targetVars, call, faults, poller, polling, view, stopOnEntry>>
      /\ stopOnEntry \in BOOLEAN
  BY DEF Serve, Alive
<1>2. request.name \in {"launch", "configurationDone", "continue", "step", "pause", "disconnect"} \cup Readings
      /\ (request.name = "setBreakpoints" => request.breaks \in Breakpoints)
  BY <1>1, RequestNames
<1>3. TargetInv' /\ Same
  BY <1>1, TargetKept DEF Alive, Core
<1>4. /\ request.name = "launch" => todo' = OnLaunch
      /\ request.name = "configurationDone" => todo' = OnConfigurationDone
      /\ request.name = "continue" => todo' = OnContinue
      /\ request.name = "step" => todo' = OnStep
      /\ request.name = "pause" => todo' = OnPause
      /\ request.name = "disconnect" => todo' = OnDisconnect
      /\ request.name = "setBreakpoints" => todo' = OnSetBreakpoints(request.breaks)
      /\ request.name = "stackTrace" => todo' = OnStackTrace
      /\ request.name = "variables" => todo' = OnVariables
      /\ request.name = "readMemory" => todo' = OnReadMemory
      /\ request.name = "writeMemory" => todo' = OnWriteMemory
  BY <1>1 DEF HandleRequest
<1>5. /\ request.name = "launch" => todo' \in Seq(Untaken \cap LaunchSteps)
      /\ request.name = "step" => todo' \in Seq(Untaken \cap StepSteps)
      /\ request.name \in Readings => todo' \in Seq(Untaken \cap ReadSteps)
      /\ request.name \in {"configurationDone", "continue", "pause", "disconnect"} => todo' \in Seq(Untaken)
  BY <1>1, <1>2, <1>4, Handlers, Zenon DEF Readings
<1>6. todo' \in Seq(Untaken)
  BY <1>2, <1>5, SeqOfBoth
<1>7. TodoIs(todo') /\ (todo' # <<>> => Head(todo').does # "take")
  BY <1>6, TodoAfter
<1>8. ~Now("take") /\ ~Now("take")'
  BY <1>1, <1>7 DEF Now
<1>9. Core'
  BY <1>1, <1>3, <1>7, <1>8 DEF Alive, Core, PollRight, Same, targetVars
<1>10. request.name = "launch" => Launching'
  BY <1>1, <1>3, <1>5, SeqOfBoth DEF Alive, ServedRight, Launching, Same, NoPoll
<1>11. request.name = "step" => Stepping'
  BY <1>1, <1>3, <1>5, SeqOfBoth DEF Alive, ServedRight, Stepping, Same, NoPoll
<1>12. request.name \in Readings => Reading'
  BY <1>1, <1>3, <1>5, SeqOfBoth DEF Alive, ServedRight, Reading, Resting, Same, NoPoll, Watched
<1>13. request.name = "continue" => Continuing'
  <2> SUFFICES ASSUME request.name = "continue" PROVE Continuing'
    OBVIOUS
  <2>1. Continuing /\ todo = <<>> /\ todo' = OnContinue
    BY <1>1, <1>4 DEF Alive, ServedRight
  <2>2. Quiet /\ NoPoll
    BY <2>1, ContinueTails, Pushed DEF Continuing
  <2> QED
    BY <1>1, <1>3, <2>1, <2>2 DEF Continuing, Same, NoPoll
<1>14. request.name = "configurationDone" => Configuring'
  <2> SUFFICES ASSUME request.name = "configurationDone" PROVE Configuring'
    OBVIOUS
  <2>1. Configuring /\ todo = <<>> /\ todo' = OnConfigurationDone
    BY <1>1, <1>4 DEF Alive, ServedRight
  <2>2. Quiet /\ NoPoll
    <3>1. PICK r, q : r = Tail(GoFree) /\ q = Tail(Tail(GoFree)) /\ r \in Seq(Steps) /\ q \in Seq(Steps)
      BY ConfigureTails, Zenon
    <3>2. r \in Seq(Steps) /\ q \in Seq(Steps)
      BY <3>1
    <3>3. <<Do("take")>> \o r # <<>> /\ <<Do("join")>> \o q # <<>>
      BY ONLY <3>2, Pushed
    <3>4. <<Do("take")>> \o Tail(GoFree) # <<>> /\ <<Do("join")>> \o Tail(Tail(GoFree)) # <<>>
      BY <3>1, <3>3, Zenon
    <3> QED
      BY <2>1, <3>4, ConfigureTails DEF Configuring
  <2>3. OnConfigurationDone' = OnConfigurationDone
    BY <1>1 DEF OnConfigurationDone
  <2> QED
    BY <1>1, <1>3, <2>1, <2>2, <2>3 DEF Configuring, Same, NoPoll
<1>15. request.name = "pause" => Pausing'
  BY <1>1, <1>4 DEF Pausing
<1>16. request.name = "disconnect" => Disconnecting'
  BY <1>1, <1>4 DEF Disconnecting
<1>17. ServedRight'
  BY <1>1, <1>10, <1>11, <1>12, <1>13, <1>14, <1>15, <1>16 DEF ServedRight
<1> QED
  BY <1>1, <1>9, <1>17 DEF Alive

\* The request thread.
LEMMA RequestInv ==
  ASSUME Alive, RequestStep, todo # <<>>, MaxFaults \in {0, 1}
  PROVE  DebugInv'
<1>1. request # None /\ request \in Requests
  BY DEF Alive, ServedRight
<1>2. request.name \in {"launch", "configurationDone", "continue", "step", "pause", "disconnect"} \cup Readings
  BY <1>1, RequestNames
<1>3. Core /\ view # "dead" /\ stopOnEntry \in BOOLEAN
  BY DEF Alive
<1>4. ASSUME Core', view' # "dead", UNCHANGED stopOnEntry, request' = None, todo' = <<>>, Resting'
      PROVE  DebugInv'
  <2>1. ServedRight'
    BY <1>4, RequestNames DEF ServedRight, Readings
  <2> QED
    BY <1>3, <1>4, <2>1 DEF DebugInv, Alive
<1>5. ASSUME Core', view' # "dead", UNCHANGED <<stopOnEntry, request>>,
             /\ request.name = "launch" => Launching'
             /\ request.name = "configurationDone" => Configuring'
             /\ request.name = "continue" => Continuing'
             /\ request.name = "step" => Stepping'
             /\ request.name = "pause" => Pausing'
             /\ request.name = "disconnect" => Disconnecting'
             /\ request.name \in Readings => Reading'
      PROVE  DebugInv'
  <2>1. ServedRight'
    BY <1>1, <1>5 DEF ServedRight
  <2> QED
    BY <1>1, <1>3, <1>5, <2>1 DEF DebugInv, Alive
<1>6. CASE request.name = "launch"
  <2>1. Launching
    BY <1>6 DEF Alive, ServedRight
  <2> QED
    BY <1>3, <1>4, <1>5, <1>6, <2>1, LaunchServed DEF Readings
<1>7. CASE request.name = "configurationDone"
  <2>1. Configuring
    BY <1>7 DEF Alive, ServedRight
  <2> QED
    BY <1>3, <1>4, <1>5, <1>7, <2>1, ConfigureServed DEF Readings
<1>8. CASE request.name = "continue"
  <2>1. Continuing
    BY <1>8 DEF Alive, ServedRight
  <2> QED
    BY <1>3, <1>4, <1>5, <1>8, <2>1, ContinueServed DEF Readings
<1>9. CASE request.name = "step"
  <2>1. Stepping
    BY <1>9 DEF Alive, ServedRight
  <2> QED
    BY <1>3, <1>4, <1>5, <1>9, <2>1, SteppingServed DEF Readings
<1>10. CASE request.name = "pause"
  <2>1. Pausing
    BY <1>10 DEF Alive, ServedRight
  <2> QED
    BY <1>3, <1>4, <1>5, <1>10, <2>1, PauseServed DEF Readings
<1>11. CASE request.name = "disconnect"
  <2>1. Disconnecting
    BY <1>11 DEF Alive, ServedRight
  <2> QED
    BY <1>3, <1>4, <1>5, <1>11, <2>1, DisconnectServed DEF Readings
<1>12. CASE request.name \in Readings
  <2>1. Reading
    BY <1>12 DEF Alive, ServedRight
  <2>2. \/ /\ Core' /\ view' = view /\ UNCHANGED stopOnEntry
           /\ \/ request' = None /\ todo' = <<>> /\ Resting'
              \/ request' = request /\ Reading'
        \/ Dead'
    BY <1>3, <1>12, <2>1, ReadingServed DEF Readings, Dead
  <2> QED
    BY <1>3, <1>4, <1>5, <1>12, <2>2 DEF Readings, DebugInv
<1> QED
  BY <1>2, <1>6, <1>7, <1>8, <1>9, <1>10, <1>11, <1>12

\* The poll thread.
LEMMA PollInv ==
  ASSUME Alive, Polls \/ PollGoesWithout, MaxFaults \in {0, 1}, SlowPoll = TRUE
  PROVE  Alive'
<1>1. /\ Core' /\ UNCHANGED <<request, todo, stopOnEntry>> /\ ~NoPoll
      /\ (Quiet => Quiet') /\ (Parked => Parked')
      /\ Now("take") => call' = call
      /\ \/ UNCHANGED view
         \/ view' = "stopped" /\ Quiet' /\ NoPoll'
      /\ Watched => Watched' \/ (view' = "stopped" /\ Quiet' /\ NoPoll')
      /\ poller = "asleep" => PollWakes
  BY PollEffect DEF Alive
<1>2. view' # "dead"
  BY <1>1 DEF Alive
<1>3. Resting => Resting'
  BY <1>1 DEF Resting
<1>4. request.name # "launch" /\ request.name # "step"
  BY <1>1 DEF Alive, ServedRight, Launching, Stepping
<1>5. request.name # "continue"
  <2> SUFFICES ASSUME request.name = "continue" PROVE FALSE
    OBVIOUS
  <2>1. todo = <<Do("respond")>> /\ poller = "asleep"
    BY <1>1 DEF Alive, ServedRight, Continuing
  <2>2. Now("respond")
    BY <2>1, ContinueTails, StepFacts DEF Now
  <2> QED
    BY <1>1, <2>1, <2>2 DEF PollWakes
<1>6. request.name # "configurationDone"
  BY <1>1 DEF Alive, ServedRight, Configuring
<1>7. request.name = "pause" => Pausing'
  <2> SUFFICES ASSUME request.name = "pause" PROVE Pausing'
    OBVIOUS
  <2>1. Pausing
    BY DEF Alive, ServedRight
  <2>2. CASE todo \in {<<>>, OnPause}
    BY <1>1, <2>2 DEF Pausing
  <2>3. CASE todo = <<Do("take")>> \o PauseRest /\ call.line.name = "pause"
    <3>1. PICK r : r = PauseRest /\ r \in Seq(Steps)
      BY PauseTails, Zenon
    <3>2. r \in Seq(Steps)
      BY <3>1
    <3>3. <<Do("take")>> \o r # <<>> /\ Head(<<Do("take")>> \o r) = Do("take")
      BY ONLY <3>2, Pushed
    <3>4. todo # <<>> /\ Head(todo) = Do("take")
      BY <2>3, <3>1, <3>3, Zenon
    <3>5. Now("take")
      BY <3>4, StepFacts DEF Now
    <3> QED
      BY <1>1, <2>3, <3>5 DEF Pausing
  <2>4. CASE todo \in {PauseRest, <<Do("join")>> \o Tail(PauseRest)} /\ Parked
    BY <1>1, <2>4 DEF Pausing
  <2> QED
    BY <1>1, <2>1, <2>2, <2>3, <2>4 DEF Pausing
<1>8. request.name = "disconnect" => Disconnecting'
  <2> SUFFICES ASSUME request.name = "disconnect" PROVE Disconnecting'
    OBVIOUS
  <2>1. Disconnecting
    BY DEF Alive, ServedRight
  <2> QED
    BY <1>1, <2>1 DEF Disconnecting
<1>9. request.name \in Readings => Reading'
  BY <1>1, <1>3 DEF Alive, ServedRight, Reading
<1>10. request = None => todo' = <<>> /\ Resting'
  BY <1>1, <1>3 DEF Alive, ServedRight
<1>11. ServedRight'
  BY <1>1, <1>4, <1>5, <1>6, <1>7, <1>8, <1>9, <1>10 DEF ServedRight
<1> QED
  BY <1>1, <1>2, <1>11 DEF Alive

\* What a request relies on outlasts the target's steps.
LEMMA ServedKept ==
  ASSUME ServedRight, UNCHANGED <<view, request, todo, stopOnEntry, call, poller, polling>>,
         Quiet => Quiet', Parked => Parked'
  PROVE  ServedRight'
<1>1. Resting => Resting'
  BY DEF Resting, NoPoll, Watched
<1>2. Launching => Launching'
  BY DEF Launching, NoPoll
<1>3. Reading => Reading'
  BY <1>1 DEF Reading
<1>4. Stepping => Stepping'
  BY DEF Stepping, NoPoll
<1>5. Continuing => Continuing'
  BY DEF Continuing, NoPoll
<1>6. Configuring => Configuring'
  <2>1. OnConfigurationDone' = OnConfigurationDone
    BY DEF OnConfigurationDone
  <2> QED
    BY <2>1 DEF Configuring, NoPoll
<1>7. Pausing => Pausing'
  BY DEF Pausing, NoPoll
<1>8. Disconnecting => Disconnecting'
  BY DEF Disconnecting
<1> QED
  BY <1>1, <1>2, <1>3, <1>4, <1>5, <1>6, <1>7, <1>8 DEF ServedRight

\* The emulator.
LEMMA EmulatesInv ==
  ASSUME Alive, TargetNext, UNCHANGED adapterVars
  PROVE  Alive'
<1>1. TargetInv' /\ PollRight' /\ (Quiet => Quiet') /\ (Parked => Parked')
  BY Emulation DEF Alive, Core
<1>2. UNCHANGED <<view, request, todo, stopOnEntry, call, poller, polling>>
  BY DEF adapterVars
<1>3. ServedRight'
  BY <1>1, <1>2, ServedKept DEF Alive
<1>4. Core'
  BY <1>1, <1>2 DEF Alive, Core
<1> QED
  BY <1>2, <1>3, <1>4 DEF Alive

LEMMA DebugStarts == DebugInit => DebugInv
<1> SUFFICES ASSUME DebugInit PROVE Alive
  BY DEF DebugInv
<1>1. /\ request = None /\ view = "new" /\ todo = <<>> /\ call = NoCall /\ poller = "none" /\ faults = 0
      /\ batch = <<>> /\ fifo = <<>> /\ frameAt = "read" /\ file = Unchanged
      /\ target \in [pc : OutsidePlaces, control : {FALSE}, running : {FALSE}, breaks : {{}}, reason : {"entry"}]
  BY DEF DebugInit, TargetInit
<1>2. stopOnEntry \in BOOLEAN
  BY AdapterAssumption DEF DebugInit
<1>3. TargetOK /\ ~target.running
  BY <1>1 DEF TargetOK, Fields
<1>4. LinesOK
  BY <1>1, EmptySeq DEF LinesOK
<1>5. Due = <<>>
  <2>1. <<>> \o <<>> = <<>>
    OBVIOUS
  <2>2. PICK z : z = <<>> /\ z \in Seq(DebugLines) /\ Len(z) = 0
    BY EmptySeq
  <2>3. PICK g : SiftsTo(g, z, AnsweredLines, DebugLines)
    BY <2>2, ThoseSteps
  <2>4. Those(z, AnsweredLines) = <<>>
    BY <2>2, <2>3 DEF SiftsTo
  <2> QED
    BY <1>1, <2>1, <2>2, <2>4 DEF Due
<1>6. OneBehind
  BY <1>1, <1>3, <1>5 DEF OneBehind, Owed
<1>7. Quiet /\ NoPoll
  BY <1>1, <1>3, <1>5 DEF Quiet, NoContinue, NoPoll
<1>8. PollRight
  BY <1>1, <1>7, NobodyCalls DEF PollRight, Now, NoPoll
<1>9. TodoIs(todo)
  BY <1>1, EmptySeq DEF TodoIs
<1>10. ServedRight
  BY <1>1, <1>7, RequestNames DEF ServedRight, Resting, Readings
<1> QED
  BY <1>1, <1>2, <1>3, <1>4, <1>6, <1>8, <1>9, <1>10 DEF Alive, Core, TargetInv

\* An adapter that has ended does nothing more.
LEMMA DeadStays == Dead /\ [DebugNext]_debugVars => Dead'
<1> SUFFICES ASSUME Dead, [DebugNext]_debugVars PROVE Dead'
  OBVIOUS
<1>1. view = "dead" /\ request = None /\ todo = <<>> /\ poller = "ended"
  BY DEF Dead
<1>2. ~EditorAsks
  <2>1. \A r \in Requests : ~MaySend(r.name)
    BY <1>1, RequestNames DEF MaySend, Readings
  <2> QED
    BY <2>1 DEF EditorAsks
<1>3. ~Handles
  BY <1>1 DEF Handles, Serve, Takes, Check, Settled, Fails, ReadNumber, StopPolling, JoinPoller, StartPolling,
              Respond, ReportStopped, Kill, Now
<1>4. ~Asks /\ ~Tells /\ ~Spawn /\ ~EmulatorUp /\ ~GoesWithout
  BY <1>1 DEF Asks, Tells, Spawn, EmulatorUp, GoesWithout, Now
<1>5. ~Polls /\ ~PollGoesWithout
  BY <1>1 DEF Polls, PollWakes, PollAsks, PollTakes, PollReports, PollGoesWithout
<1>6. UNCHANGED <<view, request, todo, poller>>
  BY <1>2, <1>3, <1>4, <1>5 DEF DebugNext, Emulates, debugVars, adapterVars
<1> QED
  BY <1>6 DEF Dead

LEMMA DebugKept ==
  ASSUME MaxFaults \in {0, 1}, SlowPoll = TRUE
  PROVE  DebugInv /\ [DebugNext]_debugVars => DebugInv'
<1> SUFFICES ASSUME DebugInv, [DebugNext]_debugVars PROVE DebugInv'
  OBVIOUS
<1>1. CASE Dead
  BY <1>1, DeadStays DEF DebugInv
<1>2. CASE Alive
  <2>1. CASE EditorAsks
    BY <1>2, <2>1, EditorInv DEF DebugInv
  <2>2. CASE RequestStep
    <3>1. CASE todo # <<>>
      BY <1>2, <2>2, <3>1, RequestInv
    <3>2. CASE todo = <<>>
      <4>1. Serve
        BY <2>2, <3>2 DEF RequestStep, Handles, Takes, Check, Settled, Fails, ReadNumber, StopPolling,
              JoinPoller, StartPolling, Respond, ReportStopped, Kill, Asks, Tells, Spawn, EmulatorUp,
              GoesWithout, Now
      <4> QED
        BY <1>2, <4>1, ServeInv DEF DebugInv
    <3> QED
      BY <3>1, <3>2
  <2>3. CASE Polls \/ PollGoesWithout
    BY <1>2, <2>3, PollInv DEF DebugInv
  <2>4. CASE Emulates
    BY <1>2, <2>4, EmulatesInv DEF DebugInv, Emulates
  <2>5. CASE UNCHANGED debugVars
    <3>1. UNCHANGED <<targetVars, adapterVars>>
      BY <2>5 DEF debugVars
    <3>2. UNCHANGED <<view, request, todo, stopOnEntry, call, poller, polling, faults>>
      BY <3>1 DEF adapterVars
    <3>3. TargetInv' /\ Same
      BY <1>2, <3>1, <3>2, TargetKept DEF Alive, Core
    <3>4. Core'
      BY <1>2, <3>1, <3>2, <3>3 DEF Alive, Core, PollRight, Same, Now, targetVars
    <3>5. ServedRight'
      BY <1>2, <3>2, <3>3, ServedKept DEF Alive, Same
    <3> QED
      BY <1>2, <3>2, <3>4, <3>5 DEF Alive, DebugInv
  <2> QED
    BY <2>1, <2>2, <2>3, <2>4, <2>5 DEF DebugNext, RequestStep
<1> QED
  BY <1>1, <1>2 DEF DebugInv

-----------------------------------------------------------------------------
(* The launch hands the target over to the debugger.                       *)

\* What is left of a launch before its pause, with the call just before it.
ToPause(t) ==
  \/ t = <<Do("fail")>>
  \/ /\ Len(t) > 1 /\ t[Len(t)] = Do("respond") /\ t[Len(t) - 1] = Ask("pause")
     /\ \A i \in 1..Len(t) : /\ t[i].does = "respond" => i = Len(t)
                             /\ t[i].does = "tell" => i = Len(t) - 2

EndSteps == {Do(what) : what \in {"stopPolling", "join", "kill", "respond"}}
Unlaunched ==
  /\ NoPoll
  /\ \/ view = "new" /\ request = None
     \/ view = "new" /\ request.name = "launch" /\ (todo = <<>> \/ ToPause(todo))
     \/ /\ view \in {"failed", "ended"}
        /\ request = None \/ (request.name = "disconnect" /\ todo \in Seq(EndSteps))
  /\ Followed \/ Now("ask")

\* Once the pause is written the target is the debugger's.
Launched ==
  /\ Governed /\ Followed
  /\ view = "new" => request.name = "launch"
  /\ request.name = "launch" => todo \in {<<Do("take")>> \o <<Do("respond")>>, <<Do("respond")>>}

\* Only a launch calls, and only a launch looks whether the emulator is there.
LaunchChecks == {"spawn", "await", "answered", "settled", "loaded"}
StaySteps == {x \in Steps : x.does \notin LaunchChecks /\ (x.does = "tell" => x.line.name = "poke")}
Held ==
  /\ request.name # "launch" => todo \in Seq(StaySteps)
  /\ Unlaunched \/ Launched

LEMMA FollowedAfter ==
  ASSUME LinesOK
  PROVE  /\ Underway' = Underway /\ Followed => Followed'
         /\ Underway # <<>> /\ Underway' = Tail(Underway) /\ Followed => Followed'
         /\ \A line \in DebugLines : Underway' = Append(Underway, line) =>
              /\ Answered(line) => Followed'
              /\ line.name # "call" /\ Followed => Followed'
<1>1. PICK p : p = Underway /\ p \in Seq(DebugLines) /\ Len(p) \in Nat
  <2>1. Underway \in Seq(DebugLines)
    BY DueTyped DEF Underway
  <2> QED
    BY <2>1, LenProperties
<1>2. Underway' = Underway /\ Followed => Followed'
  BY DEF Followed
<1>3. ASSUME p # <<>>, Underway' = Tail(p), Followed PROVE Followed'
  <2>1. PICK q : q = Tail(p) /\ Len(q) = Len(p) - 1 /\ \A i \in 1..Len(q) : q[i] = p[i + 1]
    BY <1>1, <1>3
  <2>2. ASSUME NEW i \in 1..Len(q), q[i].name = "call"
        PROVE  \E j \in 1..Len(q) : i < j /\ Answered(q[j])
    <3>1. i + 1 \in 1..Len(p) /\ p[i + 1].name = "call"
      BY <1>1, <2>1, <2>2
    <3>2. PICK k \in 1..Len(p) : i + 1 < k /\ Answered(p[k])
      BY <1>1, <1>3, <3>1 DEF Followed
    <3>3. k - 1 \in 1..Len(q) /\ i < k - 1 /\ (k - 1) + 1 = k
      BY <1>1, <2>1, <3>2
    <3>4. q[k - 1] = p[k]
      BY <2>1, <3>3
    <3> QED
      BY <3>2, <3>3, <3>4
  <2> QED
    BY <1>3, <2>1, <2>2 DEF Followed
<1>4. ASSUME NEW line \in DebugLines, Underway' = Append(p, line)
      PROVE  /\ Answered(line) => Followed'
             /\ line.name # "call" /\ Followed => Followed'
  <2>1. PICK q : /\ q = Append(p, line) /\ Len(q) = Len(p) + 1 /\ q[Len(p) + 1] = line
                 /\ \A i \in 1..Len(p) : q[i] = p[i]
    <3>1. /\ Len(Append(p, line)) = Len(p) + 1 /\ Append(p, line)[Len(p) + 1] = line
          /\ \A i \in 1..Len(p) : Append(p, line)[i] = p[i]
      BY <1>1, AppendProperties
    <3> QED
      BY <3>1
  <2>2. \A i \in 1..Len(q) : i \in 1..Len(p) \/ i = Len(q)
    BY <1>1, <2>1
  <2>3. Len(q) \in 1..Len(q) /\ \A i \in 1..Len(p) : i \in 1..Len(q) /\ i < Len(q)
    BY <1>1, <2>1
  <2>4. Answered(line) => Followed'
    <3> SUFFICES ASSUME Answered(line), NEW i \in 1..Len(q), q[i].name = "call"
                 PROVE  \E j \in 1..Len(q) : i < j /\ Answered(q[j])
      BY <1>4, <2>1 DEF Followed
    <3>1. i # Len(q)
      BY <2>1 DEF Answered
    <3> QED
      BY <2>1, <2>2, <2>3, <3>1
  <2>5. line.name # "call" /\ Followed => Followed'
    <3> SUFFICES ASSUME line.name # "call", Followed, NEW i \in 1..Len(q), q[i].name = "call"
                 PROVE  \E j \in 1..Len(q) : i < j /\ Answered(q[j])
      BY <1>4, <2>1 DEF Followed
    <3>1. i \in 1..Len(p) /\ p[i].name = "call"
      BY <2>1, <2>2
    <3>2. PICK j \in 1..Len(p) : i < j /\ Answered(p[j])
      BY <1>1, <3>1 DEF Followed
    <3> QED
      BY <2>1, <2>3, <3>2
  <2> QED
    BY <2>4, <2>5
<1> QED
  BY <1>1, <1>2, <1>3, <1>4

\* What a step does to the target's side of it.
LEMMA HeldTarget ==
  ASSUME Alive
  PROVE  /\ UNCHANGED <<target, fifo, batch>> => Governed' = Governed /\ Followed' = Followed
         /\ Asks => Followed' /\ (Governed => Governed') /\ (Head(todo) = Ask("pause") => Governed')
         /\ PollAsks => Followed' /\ (Governed => Governed')
         /\ Tells => Governed' = Governed /\ (Head(todo).line.name # "call" /\ Followed => Followed')
         /\ Emulates => (Governed => Governed') /\ (Followed => Followed')
<1>0. TargetInv /\ LinesOK /\ TodoIs(todo) /\ PollRight
  BY DEF Alive, Core, TargetInv
<1>1. UNCHANGED <<target, fifo, batch>> => Governed' = Governed /\ Followed' = Followed
  BY DEF Governed, PausePending, Due, Followed, Underway
<1>2. ASSUME NEW who \in {"requests", "poll"}, NEW line \in DebugLines, Answered(line),
             StartCall(who, line), UNCHANGED faults
      PROVE  Followed' /\ (Governed => Governed') /\ (line.name = "pause" => Governed')
  <2>1. (Governed => Governed') /\ (line.name = "pause" => Governed')
    BY <1>0, <1>2, CallSent
  <2>2. Underway' = Append(Underway, line)
    BY <1>0, <1>2, Written DEF StartCall
  <2> QED
    BY <1>0, <1>2, <2>1, <2>2, FollowedAfter
<1>3. Asks => Followed' /\ (Governed => Governed') /\ (Head(todo) = Ask("pause") => Governed')
  <2> SUFFICES ASSUME Asks
               PROVE  Followed' /\ (Governed => Governed') /\ (Head(todo) = Ask("pause") => Governed')
    OBVIOUS
  <2>1. StartCall("requests", Head(todo).line) /\ UNCHANGED faults /\ todo # <<>> /\ Head(todo).does = "ask"
    BY DEF Asks, Now
  <2>2. Head(todo).line \in DebugLines /\ Answered(Head(todo).line)
    BY <1>0, <2>1, HeadIsStep, StepKinds DEF AnsweredLines
  <2>3. Head(todo) = Ask("pause") => Head(todo).line.name = "pause"
    BY StepFacts
  <2> QED
    BY <1>2, <2>1, <2>2, <2>3
<1>4. PollAsks => Followed' /\ (Governed => Governed')
  <2> SUFFICES ASSUME PollAsks PROVE Followed' /\ (Governed => Governed')
    OBVIOUS
  <2>1. StartCall("poll", Plain("debugstatus")) /\ UNCHANGED faults
    BY DEF PollAsks
  <2>2. Plain("debugstatus") \in DebugLines /\ Answered(Plain("debugstatus"))
    BY AsksAreSteps DEF AnsweredLines
  <2> QED
    BY <1>2, <2>1, <2>2
<1>5. Tells => Governed' = Governed /\ (Head(todo).line.name # "call" /\ Followed => Followed')
  <2> SUFFICES ASSUME Tells
               PROVE  Governed' = Governed /\ (Head(todo).line.name # "call" /\ Followed => Followed')
    OBVIOUS
  <2>1. /\ fifo' = Append(fifo, Head(todo).line) /\ todo # <<>> /\ Head(todo).does = "tell"
        /\ UNCHANGED <<target, batch, frameAt, file, call, faults>>
    BY DEF Tells, Now
  <2>2. Head(todo).line \in DebugLines /\ ~Answered(Head(todo).line)
    BY <1>0, <2>1, HeadIsStep, StepKinds
  <2>3. Governed' = Governed
    BY <1>0, <2>1, <2>2, LineTold
  <2>4. Underway' = Append(Underway, Head(todo).line)
    BY <1>0, <2>1, <2>2, Written
  <2> QED
    BY <1>0, <2>2, <2>3, <2>4, FollowedAfter
<1>6. Emulates => (Governed => Governed') /\ (Followed => Followed')
  <2> SUFFICES ASSUME Emulates PROVE (Governed => Governed') /\ (Followed => Followed')
    OBVIOUS
  <2>1. TargetNext /\ UNCHANGED adapterVars
    BY DEF Emulates
  <2>2. Governed => Governed'
    BY <1>0, <2>1, Emulation
  <2>3. Underway' = Underway \/ (Underway # <<>> /\ Underway' = Tail(Underway))
    BY <1>0, <2>1, Emulated DEF TargetInv
  <2> QED
    BY <1>0, <2>2, <2>3, FollowedAfter
<1> QED
  BY <1>1, <1>3, <1>4, <1>5, <1>6

LEMMA EndStepFacts ==
  /\ EndSteps \subseteq StaySteps
  /\ \A x \in EndSteps : x.does \in {"stopPolling", "join", "kill", "respond"}
  /\ Do("join") \in EndSteps
  /\ \A what \in {"take", "join", "fail"} : Do(what) \in StaySteps
  /\ \A x \in StaySteps : x.does \notin LaunchChecks /\ (x.does = "tell" => x.line.name = "poke")
<1>1. \A x \in EndSteps : x.does \in {"stopPolling", "join", "kill", "respond"} /\ x \in Steps
  BY StepFacts DEF EndSteps, Steps
<1>2. \A x \in Steps : x.does # "tell" /\ x.does \notin LaunchChecks => x \in StaySteps
  BY DEF StaySteps
<1>3. \A what \in {"take", "join", "fail"} : Do(what) \in Steps /\ Do(what).does = what
  BY StepFacts DEF Steps
<1> QED
  BY <1>1, <1>2, <1>3 DEF EndSteps, StaySteps, LaunchChecks

\* What is left of a request after any step of its handler.
LEMMA LeftOver ==
  ASSUME Alive, RequestStep, todo # <<>>
  PROVE  /\ Dead' \/ request' \in {request, None}
         /\ \/ Dead' \/ Fails
            \/ LeftWith(Tail(todo))
            \/ todo' = <<Do("take")>> \o Tail(todo) /\ request' = request /\ Asks
            \/ todo' = <<Do("join")>> \o Tail(todo) /\ request' = request
            \/ Head(todo).does \in LaunchChecks
         /\ Fails => request' = None /\ todo' = <<>> /\ view' = "failed" /\ UNCHANGED poller
         /\ Asks \/ Tells \/ Fails \/ UNCHANGED <<target, fifo, batch>>
         /\ Tells => Head(todo).does = "tell" /\ LeftWith(Tail(todo)) /\ UNCHANGED <<view, poller>>
         /\ Asks => Head(todo).does = "ask" /\ UNCHANGED <<view, poller>>
         /\ Fails => UNCHANGED <<target, fifo, batch>>
         /\ \/ Dead' \/ UNCHANGED view \/ view' = "failed"
            \/ Head(todo).does = "respond" /\ request.name = "launch" /\ view' = "launched"
            \/ Head(todo).does = "respond" /\ request.name \in {"configurationDone", "continue"} /\ view' = "running"
            \/ Head(todo).does = "respond" /\ request.name = "disconnect" /\ view' = "ended"
            \/ Head(todo).does = "report" /\ view' = "stopped"
         /\ poller' \in {poller, "none", "ended"} \/ Head(todo).does = "startPolling"
<1>1. ~Serve /\ (Serve \/ Takes \/ Check \/ Settled \/ Fails \/ ReadNumber \/ StopPolling \/ JoinPoller
                 \/ StartPolling \/ Respond \/ ReportStopped \/ Kill \/ Asks \/ Tells \/ Spawn \/ EmulatorUp
                 \/ GoesWithout)
  BY DEF Serve, RequestStep, Handles
<1>2. CASE Takes \/ GoesWithout
  BY <1>2 DEF Takes, GoesWithout, TakeFrame, LeftWith, Now, Asks, Tells, Fails
<1>3. CASE Spawn \/ EmulatorUp \/ Check \/ Settled
  BY <1>3 DEF Spawn, EmulatorUp, Check, Settled, targetVars, Now, Asks, Tells, Fails, LaunchChecks
<1>4. CASE Fails
  BY <1>4 DEF Fails, LeftWith, targetVars, Now, Asks, Tells
<1>5. CASE ReadNumber
  <2>1. CASE got.kind \in {"value", "none"}
    BY <1>5, <2>1 DEF ReadNumber, LeftWith, targetVars, Now, Asks, Tells, Fails
  <2>2. CASE got.kind \notin {"value", "none"}
    BY <1>5, <2>2 DEF ReadNumber, LeftWith, targetVars, Now, Asks, Tells, Fails, Dead
  <2> QED
    BY <2>1, <2>2
<1>6. CASE StopPolling \/ JoinPoller \/ StartPolling \/ Kill
  BY <1>6 DEF StopPolling, JoinPoller, StartPolling, Kill, LeftWith, targetVars, Now, Asks, Tells, Fails
<1>7. CASE ReportStopped
  BY <1>7 DEF ReportStopped, LeftWith, targetVars, Now, Asks, Tells, Fails
<1>8. CASE Respond
  BY <1>8 DEF Respond, LeftWith, targetVars, Now, Asks, Tells, Fails
<1>9. CASE Asks
  BY <1>9 DEF Asks, Now, Tells, Fails
<1>10. CASE Tells
  BY <1>10 DEF Tells, Now, Asks, Fails, LeftWith
<1> QED
  BY <1>1, <1>2, <1>3, <1>4, <1>5, <1>6, <1>7, <1>8, <1>9, <1>10

\* The steps of every request but a launch.
LEMMA HeldLater ==
  ASSUME Alive, Held, RequestStep, todo # <<>>, request.name # "launch"
  PROVE  Dead' \/ Held'
<1> SUFFICES ASSUME ~Dead' PROVE Held'
  OBVIOUS
<1>1. request # None /\ request \in Requests
  BY DEF Alive, ServedRight
<1>2. todo \in Seq(StaySteps) /\ Head(todo) \in StaySteps /\ Tail(todo) \in Seq(StaySteps)
  BY DEF Held
<1>3. Head(todo).does \notin LaunchChecks /\ (Head(todo).does = "tell" => Head(todo).line.name = "poke")
  BY <1>2, EndStepFacts
<1>4. /\ Fails \/ LeftWith(Tail(todo)) \/ (todo' = <<Do("take")>> \o Tail(todo) /\ request' = request /\ Asks)
         \/ (todo' = <<Do("join")>> \o Tail(todo) /\ request' = request)
      /\ Fails => request' = None /\ todo' = <<>> /\ view' = "failed" /\ UNCHANGED <<target, fifo, batch>>
      /\ Asks \/ Tells \/ UNCHANGED <<target, fifo, batch>>
      /\ Tells => Head(todo).does = "tell"
      /\ Asks => Head(todo).does = "ask"
      /\ request' \in {request, None}
  BY <1>3, LeftOver
<1>5. /\ view' \in {view, "failed", "running", "ended", "stopped"}
      /\ request.name = "disconnect" /\ Head(todo).does # "report" => view' \in {view, "failed", "ended"}
  BY LeftOver
<1>6. request'.name # "launch"
  BY <1>4, RequestNames
<1>7. todo' \in Seq(StaySteps)
  <2>1. <<>> \in Seq(StaySteps)
    BY EmptySeq
  <2>2. ASSUME NEW what \in {"take", "join"} PROVE <<Do(what)>> \o Tail(todo) \in Seq(StaySteps)
    BY <1>2, EndStepFacts, Prefixed
  <2> QED
    BY <1>2, <1>4, <2>1, <2>2 DEF LeftWith
<1>8. CASE Unlaunched
  <2>1. /\ NoPoll /\ view \in {"failed", "ended"} /\ request.name = "disconnect" /\ todo \in Seq(EndSteps)
        /\ Followed \/ Now("ask")
    BY <1>1, <1>8, RequestNames DEF Unlaunched
  <2>2. Head(todo) \in EndSteps /\ Tail(todo) \in Seq(EndSteps)
    BY <2>1
  <2>3. Head(todo).does \in {"stopPolling", "join", "kill", "respond"}
    BY <2>2, EndStepFacts
  <2>4. Followed /\ UNCHANGED <<target, fifo, batch>> /\ ~Asks
    BY <1>4, <2>1, <2>3 DEF Now
  <2>5. Followed'
    BY <2>4, HeldTarget
  <2>6. view' \in {"failed", "ended"}
    BY <1>5, <2>1, <2>3
  <2>7. NoPoll'
    BY <2>1, <2>3, LeftOver DEF NoPoll
  <2>8. request' = None \/ (request' = request /\ todo' \in Seq(EndSteps))
    <3>1. <<Do("join")>> \o Tail(todo) \in Seq(EndSteps)
      BY <2>2, EndStepFacts, Prefixed
    <3> QED
      BY <1>4, <2>2, <2>4, <3>1 DEF LeftWith
  <2> QED
    BY <1>6, <1>7, <2>1, <2>5, <2>6, <2>7, <2>8 DEF Held, Unlaunched
<1>9. CASE Launched
  <2>1. Governed' /\ Followed'
    BY <1>3, <1>4, <1>9, HeldTarget DEF Launched
  <2>2. view' # "new"
    BY <1>5, <1>9 DEF Launched
  <2> QED
    BY <1>6, <1>7, <2>1, <2>2 DEF Held, Launched
<1> QED
  BY <1>8, <1>9 DEF Held

\* A launch's pause stays where it is in what is left, and steps before it.
LEMMA ToPausePushed ==
  ASSUME NEW t \in Seq(LaunchSteps), ToPause(t), t # <<Do("fail")>>,
         NEW x \in LaunchSteps, x.does \notin {"respond", "tell"}
  PROVE  /\ <<x>> \o t \in Seq(LaunchSteps) /\ ToPause(<<x>> \o t)
         /\ <<x>> \o t # <<Do("fail")>> /\ <<x>> \o t # <<>>
<1>1. /\ Len(t) \in Nat /\ Len(t) > 1 /\ t[Len(t)] = Do("respond") /\ t[Len(t) - 1] = Ask("pause")
      /\ \A i \in 1..Len(t) : /\ t[i].does = "respond" => i = Len(t)
                              /\ t[i].does = "tell" => i = Len(t) - 2
  BY LenProperties DEF ToPause
<1>2. PICK q : /\ q = <<x>> \o t /\ q \in Seq(LaunchSteps) /\ Len(q) = 1 + Len(t) /\ q[1] = x
               /\ \A i \in 2..(1 + Len(t)) : q[i] = t[i - 1]
  <2>1. /\ <<x>> \o t \in Seq(LaunchSteps) /\ Len(<<x>> \o t) = 1 + Len(t) /\ (<<x>> \o t)[1] = x
        /\ \A i \in 2..(1 + Len(t)) : (<<x>> \o t)[i] = t[i - 1]
    BY Prefixed
  <2> QED
    BY <2>1
<1>3. Len(q) \in 2..(1 + Len(t)) /\ Len(q) - 1 \in 2..(1 + Len(t)) /\ Len(q) - 1 = Len(t)
  BY <1>1, <1>2
<1>4. Len(q) > 1 /\ q[Len(q)] = Do("respond") /\ q[Len(q) - 1] = Ask("pause")
  BY <1>1, <1>2, <1>3
<1>5. ASSUME NEW i \in 1..Len(q)
      PROVE  (q[i].does = "respond" => i = Len(q)) /\ (q[i].does = "tell" => i = Len(q) - 2)
  <2>1. CASE i = 1
    BY <1>2, <2>1
  <2>2. CASE i # 1
    <3>1. i - 1 \in 1..Len(t) /\ q[i] = t[i - 1]
      BY <1>1, <1>2, <2>2
    <3> QED
      BY <1>1, <1>2, <3>1
  <2> QED
    BY <2>1, <2>2
<1>6. q # <<Do("fail")>> /\ q # <<>>
  <2>1. Len(<<Do("fail")>>) = 1 /\ Len(<<>>) = 0
    OBVIOUS
  <2>2. Len(q) > 1
    BY <1>4
  <2> QED
    BY <2>1, <2>2
<1> QED
  BY <1>2, <1>4, <1>5, <1>6 DEF ToPause

LEMMA ToPauseAfter ==
  ASSUME NEW t \in Seq(LaunchSteps), ToPause(t), t # <<Do("fail")>>
  PROVE  /\ Len(t) \in Nat /\ Len(t) > 1 /\ t # <<>> /\ Head(t) = t[1] /\ Head(t).does # "respond"
         /\ Head(t).does = "tell" => Len(t) = 3
         /\ Head(t).does \notin {"ask", "tell"} => Len(t) > 2
         /\ Len(t) = 2 => Head(t) = Ask("pause") /\ Tail(t) = <<Do("respond")>>
         /\ Len(t) = 3 => Head(Tail(t)) = Ask("pause") /\ Tail(t) # <<>>
         /\ Len(t) > 2 => ToPause(Tail(t)) /\ Tail(t) \notin {<<>>, <<Do("fail")>>}
<1>1. /\ Len(t) \in Nat /\ Len(t) > 1 /\ t[Len(t)] = Do("respond") /\ t[Len(t) - 1] = Ask("pause")
      /\ \A i \in 1..Len(t) : /\ t[i].does = "respond" => i = Len(t)
                              /\ t[i].does = "tell" => i = Len(t) - 2
  BY LenProperties DEF ToPause
<1>2. t # <<>> /\ Head(t) = t[1]
  BY <1>1
<1>3. 1 \in 1..Len(t) /\ Head(t).does # "respond" /\ (Head(t).does = "tell" => Len(t) = 3)
  <2>1. 1 \in 1..Len(t)
    BY <1>1
  <2>2. (t[1].does = "respond" => 1 = Len(t)) /\ (t[1].does = "tell" => 1 = Len(t) - 2)
    BY <1>1, <2>1
  <2> QED
    BY <1>1, <1>2, <2>1, <2>2
<1>4. Len(t) = 2 => Head(t) = Ask("pause")
  BY <1>1, <1>2
<1>5. PICK r : r = Tail(t) /\ r \in Seq(LaunchSteps) /\ Len(r) = Len(t) - 1 /\ \A i \in 1..Len(r) : r[i] = t[i + 1]
  <2>1. /\ Tail(t) \in Seq(LaunchSteps) /\ Len(Tail(t)) = Len(t) - 1
        /\ \A i \in 1..Len(Tail(t)) : Tail(t)[i] = t[i + 1]
    BY <1>2, HeadTailProperties
  <2> QED
    BY <2>1
<1>6. Len(t) = 2 => r = <<Do("respond")>>
  <2> SUFFICES ASSUME Len(t) = 2 PROVE r = <<Do("respond")>>
    OBVIOUS
  <2>1. Len(r) = 1 /\ 1 \in 1..Len(r) /\ 1 + 1 = Len(t)
    BY <1>1, <1>5
  <2>2. r[1] = Do("respond")
    BY <1>1, <1>5, <2>1
  <2>3. r \in Seq(LaunchSteps)
    BY <1>5
  <2>4. r = <<r[1]>>
    BY ONLY <2>1, <2>3
  <2> QED
    BY <2>2, <2>4
<1>7. Len(t) = 3 => Head(r) = Ask("pause") /\ r # <<>>
  <2> SUFFICES ASSUME Len(t) = 3 PROVE Head(r) = Ask("pause") /\ r # <<>>
    OBVIOUS
  <2>1. Len(r) = 2 /\ r \in Seq(LaunchSteps) /\ 1 \in 1..Len(r) /\ 1 + 1 = Len(t) - 1
    BY <1>5
  <2>2. r[1] = Ask("pause")
    BY <1>1, <1>5, <2>1
  <2>3. r # <<>> /\ Head(r) = r[1]
    BY ONLY <2>1
  <2> QED
    BY <2>2, <2>3
<1>8. ASSUME Len(t) > 2 PROVE ToPause(r)
  <2>1. Len(r) > 1 /\ r[Len(r)] = Do("respond") /\ r[Len(r) - 1] = Ask("pause")
    BY <1>1, <1>5, <1>8
  <2>2. ASSUME NEW i \in 1..Len(r)
        PROVE  (r[i].does = "respond" => i = Len(r)) /\ (r[i].does = "tell" => i = Len(r) - 2)
    <3>1. i + 1 \in 1..Len(t) /\ r[i] = t[i + 1]
      BY <1>1, <1>5
    <3> QED
      BY <1>1, <1>5, <3>1
  <2> QED
    BY <2>1, <2>2 DEF ToPause
<1>9. Len(t) > 2 => r \notin {<<>>, <<Do("fail")>>}
  BY <1>1, <1>5
<1>10. Head(t).does \notin {"ask", "tell"} => Len(t) > 2
  BY <1>1, <1>4, StepFacts
<1> QED
  BY <1>1, <1>2, <1>3, <1>4, <1>5, <1>6, <1>7, <1>8, <1>9, <1>10

LEMMA RespondOnly == <<Do("respond")>> \in Seq(Steps) /\ <<Do("respond")>> # <<>>
<1>1. Do("respond") \in Steps
  BY DEF Steps
<1> QED
  BY <1>1

LEMMA HeldLaunch ==
  ASSUME Alive, Held, RequestStep, todo # <<>>, request.name = "launch"
  PROVE  Held'
<1>1. Launching /\ request # None /\ Core
  BY RequestNames DEF Alive, ServedRight
<1>2. todo \in Seq(LaunchSteps) /\ Head(todo) \in LaunchSteps
  BY <1>1 DEF Launching
<1>3. Head(todo).does \in {"ask", "tell", "take", "spawn", "await", "answered", "settled", "loaded", "fail", "respond"}
  BY <1>2, LaunchKinds
<1>4. Do("take") \in LaunchSteps /\ Do("answered") \in LaunchSteps /\ Do("settled") \in LaunchSteps
      /\ Ask("debugstatus") \in LaunchSteps
  BY DEF LaunchSteps
<1>5. /\ Asks => todo' = <<Do("take")>> \o Tail(todo) /\ UNCHANGED <<request, view, poller>>
      /\ Takes \/ GoesWithout \/ Tells => LeftWith(Tail(todo)) /\ UNCHANGED <<view, poller>>
      /\ Takes \/ GoesWithout => UNCHANGED <<target, fifo, batch>>
      /\ Spawn \/ EmulatorUp \/ Check \/ Settled => UNCHANGED <<target, fifo, batch>>
      /\ Fails => view' = "failed" /\ request' = None /\ todo' = <<>> /\ UNCHANGED <<poller, target, fifo, batch>>
      /\ Respond => LeftWith(Tail(todo)) /\ view' = "launched" /\ UNCHANGED <<poller, target, fifo, batch>>
  BY DEF Asks, Takes, GoesWithout, Tells, TakeFrame, Spawn, EmulatorUp, Check, Settled, Fails, LeftWith,
         Respond, targetVars
<1>6. CASE Unlaunched
  <2>1. NoPoll /\ view = "new" /\ ToPause(todo) /\ (Followed \/ Now("ask"))
    BY <1>1, <1>6, RequestNames DEF Unlaunched
  <2>2. CASE Head(todo).does = "fail"
    <3>1. Fails
      BY <2>2, StepByHead
    <3>2. Followed
      BY <2>1, <2>2 DEF Now
    <3>3. Followed' /\ view' = "failed" /\ request' = None /\ todo' = <<>> /\ UNCHANGED poller
      BY <1>5, <3>1, <3>2, HeldTarget
    <3>4. <<>> \in Seq(StaySteps)
      BY EmptySeq
    <3> QED
      BY <2>1, <3>3, <3>4 DEF Held, Unlaunched, NoPoll
  <2>3. CASE Head(todo).does # "fail"
    <3> DEFINE n == Len(todo)
               r == Tail(todo)
    <3>1. todo # <<Do("fail")>>
      BY <2>3, StepFacts
    <3>2. /\ n \in Nat /\ n > 1 /\ Head(todo).does # "respond"
          /\ Head(todo).does = "tell" => n = 3
          /\ Head(todo).does \notin {"ask", "tell"} => n > 2
          /\ n = 2 => Head(todo) = Ask("pause") /\ r = <<Do("respond")>>
          /\ n = 3 => Head(r) = Ask("pause") /\ r # <<>>
          /\ n > 2 => ToPause(r) /\ r \notin {<<>>, <<Do("fail")>>}
          /\ r \in Seq(LaunchSteps)
      BY <1>2, <2>1, <3>1, ToPauseAfter
    <3> HIDE DEF n, r
    <3>3. n > 2 => \A x \in LaunchSteps : x.does \notin {"respond", "tell"} =>
            /\ <<x>> \o r \in Seq(LaunchSteps) /\ ToPause(<<x>> \o r) /\ <<x>> \o r \notin {<<>>, <<Do("fail")>>}
      BY <3>2, ToPausePushed
    <3>4. CASE Head(todo).does = "ask"
      <4>1. Asks /\ todo' = <<Do("take")>> \o r /\ UNCHANGED <<request, view, poller>>
        BY <1>5, <3>4, StepByHead DEF r
      <4>2. Followed' /\ (Head(todo) = Ask("pause") => Governed')
        BY <4>1, HeldTarget
      <4>3. CASE n = 2
        <5>1. Governed' /\ r = <<Do("respond")>>
          BY <3>2, <4>2, <4>3
        <5>2. todo' = <<Do("take")>> \o <<Do("respond")>>
          BY <4>1, <5>1, Zenon
        <5> QED
          BY <4>1, <4>2, <5>1, <5>2 DEF Held, Launched
      <4>4. CASE n > 2
        <5>1. ToPause(todo')
          BY <1>4, <3>3, <4>1, <4>4, StepFacts
        <5> QED
          BY <2>1, <4>1, <4>2, <5>1 DEF Held, Unlaunched, NoPoll
      <4> QED
        BY <3>2, <4>3, <4>4
    <3>5. CASE Head(todo).does = "tell"
      <4>1. Tells /\ LeftWith(r) /\ UNCHANGED <<view, poller>>
        BY <1>5, <3>5, StepByHead DEF r
      <4>2. todo' = r /\ r # <<>> /\ Head(r) = Ask("pause") /\ request' = request /\ ToPause(r)
        BY <3>2, <3>5, <4>1 DEF LeftWith
      <4>3. Now("ask")'
        BY <4>2, StepFacts DEF Now
      <4> QED
        BY <2>1, <4>1, <4>2, <4>3 DEF Held, Unlaunched, NoPoll
    <3>6. CASE Head(todo).does = "take"
      <4>1. Takes \/ GoesWithout
        BY <3>6, StepByHead
      <4>2. LeftWith(r) /\ UNCHANGED <<view, poller, target, fifo, batch>> /\ Followed
        BY <1>5, <2>1, <3>6, <4>1 DEF r, Now
      <4>3. todo' = r /\ request' = request /\ ToPause(r)
        BY <3>2, <3>6, <4>2 DEF LeftWith
      <4>4. Followed'
        BY <4>2, HeldTarget
      <4> QED
        BY <2>1, <4>2, <4>3, <4>4 DEF Held, Unlaunched, NoPoll
    <3>7. CASE Head(todo).does \in {"spawn", "await", "answered", "settled", "loaded"}
      <4>1. Spawn \/ EmulatorUp \/ Check \/ Settled
        BY <3>7, StepByHead
      <4>2. /\ UNCHANGED <<request, view, poller, target, fifo, batch>> /\ Followed
            /\ \/ todo' \in {todo, r, <<Do("fail")>>}
               \/ \E check \in {"answered", "settled"} :
                    todo' = <<Ask("debugstatus"), Do(check)>> \o r
        BY <1>1, <1>5, <2>1, <3>7, <4>1, LaunchLocal DEF r, Now
      <4>3. ASSUME NEW check \in {"answered", "settled"} PROVE ToPause(<<Ask("debugstatus"), Do(check)>> \o r)
        <5>1. /\ n > 2 /\ Do(check) \in LaunchSteps /\ Ask("debugstatus") \in LaunchSteps
              /\ Do(check).does = check /\ Ask("debugstatus").does = "ask"
          BY <1>4, <3>2, <3>7, StepFacts
        <5>2. PICK q : q = <<Do(check)>> \o r /\ q \in Seq(LaunchSteps) /\ ToPause(q) /\ q # <<Do("fail")>>
          BY <3>3, <5>1
        <5>3. ToPause(<<Ask("debugstatus")>> \o q)
          BY <5>1, <5>2, ToPausePushed
        <5>4. <<Ask("debugstatus"), Do(check)>> \o r = <<Ask("debugstatus")>> \o (<<Do(check)>> \o r)
          <6>1. <<Ask("debugstatus")>> \in Seq(LaunchSteps) /\ <<Do(check)>> \in Seq(LaunchSteps)
            BY <5>1
          <6>2. PICK a, b : /\ a = <<Ask("debugstatus")>> /\ b = <<Do(check)>>
                            /\ a \in Seq(LaunchSteps) /\ b \in Seq(LaunchSteps)
            BY <6>1, Zenon
          <6>3. (a \o b) \o r = a \o (b \o r)
            BY <3>2, <6>2, ConcatAssociative
          <6>4. <<Ask("debugstatus"), Do(check)>> = <<Ask("debugstatus")>> \o <<Do(check)>>
            OBVIOUS
          <6> QED
            BY <6>2, <6>3, <6>4, Zenon
        <5> QED
          BY <5>2, <5>3, <5>4, Zenon
      <4>4. ToPause(todo')
        BY <2>1, <3>2, <3>7, <4>2, <4>3 DEF ToPause
      <4>5. Followed'
        BY <4>2, HeldTarget
      <4> QED
        BY <2>1, <4>2, <4>4, <4>5 DEF Held, Unlaunched, NoPoll
    <3> QED
      BY <1>3, <2>3, <3>2, <3>4, <3>5, <3>6, <3>7
  <2> QED
    BY <2>2, <2>3
<1>7. CASE Launched
  <2>1. Governed /\ Followed /\ todo \in {<<Do("take")>> \o <<Do("respond")>>, <<Do("respond")>>}
    BY <1>7 DEF Launched
  <2>2. CASE todo = <<Do("take")>> \o <<Do("respond")>>
    <3>1. Head(todo) = Do("take") /\ Tail(todo) = <<Do("respond")>>
      <4>1. PICK r : r = <<Do("respond")>> /\ r \in Seq(Steps)
        BY RespondOnly, Zenon
      <4>2. r \in Seq(Steps)
        BY <4>1
      <4>3. Head(<<Do("take")>> \o r) = Do("take") /\ Tail(<<Do("take")>> \o r) = r
        BY ONLY <4>2, Pushed
      <4> QED
        BY <2>2, <4>1, <4>3, Zenon
    <3>2. Takes \/ GoesWithout
      BY <3>1, StepByHead, StepFacts
    <3>3. todo' = <<Do("respond")>> /\ request' = request /\ UNCHANGED <<view, target, fifo, batch>>
      <4>1. <<Do("respond")>> # <<>>
        OBVIOUS
      <4> QED
        BY <1>5, <3>1, <3>2, <4>1, Zenon DEF LeftWith
    <3>4. Governed' /\ Followed'
      BY <2>1, <3>3, HeldTarget
    <3> QED
      BY <1>7, <3>3, <3>4 DEF Held, Launched
  <2>3. CASE todo = <<Do("respond")>>
    <3>1. Head(todo) = Do("respond") /\ Tail(todo) = <<>>
      BY <2>3
    <3>2. Respond
      BY <3>1, StepByHead, StepFacts
    <3>3. todo' = <<>> /\ request' = None /\ view' = "launched" /\ UNCHANGED <<target, fifo, batch>>
      BY <1>5, <3>1, <3>2 DEF LeftWith
    <3>4. Governed' /\ Followed' /\ <<>> \in Seq(StaySteps)
      BY <2>1, <3>3, HeldTarget, EmptySeq
    <3> QED
      BY <3>3, <3>4, RequestNames DEF Held, Launched
  <2> QED
    BY <2>1, <2>2, <2>3
<1> QED
  BY <1>6, <1>7 DEF Held

LEMMA HeldEditor ==
  ASSUME Alive, Held, EditorAsks
  PROVE  Held'
<1>1. /\ request = None /\ todo = <<>> /\ todo' = todo
      /\ request' \in Requests /\ MaySend(request'.name)
      /\ UNCHANGED <<target, fifo, batch, poller, view>>
  BY DEF EditorAsks, Alive, ServedRight, targetVars
<1>2. /\ view = "new" => request'.name = "launch"
      /\ view # "new" => request'.name # "launch"
      /\ view = "failed" => request'.name = "disconnect"
      /\ view # "ended"
  BY <1>1, RequestNames DEF MaySend, Readings
<1>3. Governed' = Governed /\ Followed' = Followed /\ ~Now("ask")
  BY <1>1, HeldTarget DEF Now
<1>4. <<>> \in Seq(StaySteps) /\ <<>> \in Seq(EndSteps)
  BY EmptySeq
<1>5. CASE Unlaunched
  BY <1>1, <1>2, <1>3, <1>4, <1>5 DEF Held, Unlaunched, NoPoll
<1>6. CASE Launched
  <2>1. view # "new"
    BY <1>1, <1>6, RequestNames DEF Launched
  <2> QED
    BY <1>1, <1>2, <1>3, <1>4, <1>6, <2>1 DEF Held, Launched
<1> QED
  BY <1>5, <1>6 DEF Held

\* A launch's handler leads to its pause, whether the emulator is started or not.
LEMMA LaunchToPause == ToPause(OnLaunch)
<1> DEFINE S == {Do(what) : what \in {"spawn", "await", "answered", "settled", "loaded"}}
                \cup {Ask(name) : name \in {"debugstatus", "load"}}
           q == LoadProgram
<1>1. \A x \in S : x.does \notin {"respond", "tell"}
  BY StepFacts
<1>2. /\ Do("spawn") \in S /\ Do("await") \in S /\ Ask("debugstatus") \in S /\ Do("answered") \in S
      /\ Do("settled") \in S /\ Ask("load") \in S /\ Do("loaded") \in S
  OBVIOUS
<1> HIDE DEF S
<1>3. StartEmulator \in Seq(S) /\ <<>> \in Seq(S)
  BY <1>2, EmptySeq DEF StartEmulator
<1>4. PICK p : p = (IF launches THEN StartEmulator ELSE <<>>) /\ p \in Seq(S) /\ Len(p) \in Nat
  BY <1>3, LenProperties
<1>5. /\ Len(q) = 5 /\ q[1] = Ask("load") /\ q[2] = Do("loaded") /\ q[3] = Tell("call") /\ q[4] = Ask("pause")
      /\ q[5] = Do("respond")
  BY DEF LoadProgram
<1>6. LoadProgram \in Seq(Steps) /\ p \in Seq(S \cup Steps) /\ LoadProgram \in Seq(S \cup Steps)
  <2>1. Ask("load") \in Steps /\ Do("loaded") \in Steps /\ Tell("call") \in Steps /\ Ask("pause") \in Steps
        /\ Do("respond") \in Steps
    BY AsksAreSteps DEF Steps
  <2>2. LoadProgram \in Seq(Steps)
    BY <2>1 DEF LoadProgram
  <2> QED
    BY <1>4, <2>2, ElementOfSeq
<1> HIDE DEF q
<1>7. PICK t : /\ t = p \o q /\ Len(t) = Len(p) + 5
               /\ \A i \in 1..(Len(p) + 5) : t[i] = IF i <= Len(p) THEN p[i] ELSE q[i - Len(p)]
  <2>1. /\ Len(p \o q) = Len(p) + 5
        /\ \A i \in 1..(Len(p) + 5) : (p \o q)[i] = IF i <= Len(p) THEN p[i] ELSE q[i - Len(p)]
    <3>1. q \in Seq(S \cup Steps)
      BY <1>6 DEF q
    <3>2. /\ Len(p \o q) = Len(p) + Len(q)
          /\ \A i \in 1..(Len(p) + Len(q)) : (p \o q)[i] = IF i <= Len(p) THEN p[i] ELSE q[i - Len(p)]
      BY <1>6, <3>1, ConcatProperties
    <3> QED
      BY <1>5, <3>2
  <2> QED
    BY <2>1
<1>8. \A k \in 1..5 : Len(p) + k \in 1..(Len(p) + 5) /\ t[Len(p) + k] = q[k]
  <2> TAKE k \in 1..5
  <2>1. Len(p) + k \in 1..(Len(p) + 5) /\ ~(Len(p) + k <= Len(p)) /\ (Len(p) + k) - Len(p) = k
    BY <1>4
  <2> QED
    BY <1>7, <2>1
<1>9. t[Len(t)] = Do("respond") /\ t[Len(t) - 1] = Ask("pause") /\ Len(t) > 1
  <2>1. t[Len(p) + 5] = q[5] /\ t[Len(p) + 4] = q[4]
    BY <1>8
  <2>2. Len(t) = Len(p) + 5 /\ Len(t) - 1 = Len(p) + 4 /\ Len(t) > 1
    BY <1>4, <1>7
  <2> QED
    BY <1>5, <2>1, <2>2
<1>10. ASSUME NEW i \in 1..Len(t)
       PROVE  (t[i].does = "respond" => i = Len(t)) /\ (t[i].does = "tell" => i = Len(t) - 2)
  <2>1. CASE i <= Len(p)
    <3>1. i \in 1..Len(p) /\ t[i] = p[i]
      BY <1>4, <1>7, <2>1
    <3>2. p[i] \in S
      BY <1>4, <3>1, ElementOfSeq
    <3> QED
      BY <1>1, <3>1, <3>2
  <2>2. CASE ~(i <= Len(p))
    <3>1. PICK k \in 1..5 : i = Len(p) + k
      <4>1. i - Len(p) \in 1..5 /\ i = Len(p) + (i - Len(p))
        BY <1>4, <1>7, <2>2
      <4> QED
        BY <4>1
    <3>2. t[i] = q[k]
      BY <1>8, <3>1
    <3>3. (q[k].does = "respond" => k = 5) /\ (q[k].does = "tell" => k = 3)
      <4>1. k = 1 \/ k = 2 \/ k = 3 \/ k = 4 \/ k = 5
        OBVIOUS
      <4> QED
        BY <1>5, <4>1, StepFacts
    <3> QED
      BY <1>4, <1>7, <3>1, <3>2, <3>3
  <2> QED
    BY <2>1, <2>2
<1>11. OnLaunch = t
  BY <1>4, <1>7, Zenon DEF OnLaunch, q
<1> QED
  BY <1>9, <1>10, <1>11 DEF ToPause

\* No other handler calls.
LEMMA HandlersStay ==
  ASSUME NEW r \in Requests, r.name # "launch", stopOnEntry \in BOOLEAN
  PROVE  /\ HandleRequest(r) \in Seq(StaySteps)
         /\ r.name = "disconnect" => HandleRequest(r) \in Seq(EndSteps)
<1>1. /\ \A what \in {"number", "stopPolling", "join", "startPolling", "respond", "report", "kill"} :
           Do(what) \in StaySteps
      /\ \A name \in {"continue", "pause", "debugstep", "peek", "debugstatus"} : Ask(name) \in StaySteps
      /\ Tell("poke") \in StaySteps
      /\ \A breaks \in Breakpoints : [does |-> "ask", line |-> Line("setbreakpoints", breaks)] \in StaySteps
  <2>1. \A what \in {"number", "stopPolling", "join", "startPolling", "respond", "report", "kill"} :
          Do(what) \in Steps /\ Do(what).does = what
    BY StepFacts DEF Steps
  <2> QED
    BY <2>1, AsksAreSteps, StepFacts DEF StaySteps, LaunchChecks
<1>2. /\ OnContinue \in Seq(StaySteps) /\ OnPause \in Seq(StaySteps) /\ OnStep \in Seq(StaySteps)
      /\ OnStackTrace \in Seq(StaySteps) /\ OnVariables \in Seq(StaySteps)
      /\ OnReadMemory \in Seq(StaySteps) /\ OnWriteMemory \in Seq(StaySteps)
      /\ <<Do("respond")>> \in Seq(StaySteps) /\ GoFree \in Seq(StaySteps) /\ <<Do("report")>> \in Seq(StaySteps)
  <2> DEFINE T == StaySteps
  <2>1. /\ Ask("continue") \in T /\ Do("stopPolling") \in T /\ Do("startPolling") \in T /\ Do("respond") \in T
        /\ Ask("pause") \in T /\ Ask("debugstatus") \in T /\ Do("report") \in T /\ Ask("debugstep") \in T
        /\ Ask("peek") \in T /\ Do("number") \in T /\ Tell("poke") \in T
    BY <1>1
  <2> HIDE DEF T
  <2>2. /\ OnContinue \in Seq(T) /\ OnPause \in Seq(T) /\ OnStep \in Seq(T)
        /\ OnStackTrace \in Seq(T) /\ OnVariables \in Seq(T) /\ OnReadMemory \in Seq(T) /\ OnWriteMemory \in Seq(T)
        /\ <<Do("respond")>> \in Seq(T) /\ GoFree \in Seq(T) /\ <<Do("report")>> \in Seq(T)
    BY <2>1 DEF OnContinue, OnPause, OnStep, OnStackTrace, OnVariables, OnReadMemory, OnWriteMemory, GoFree
  <2> QED
    BY <2>2 DEF T
<1>3. \A breaks \in Breakpoints : OnSetBreakpoints(breaks) \in Seq(StaySteps)
  <2> TAKE breaks \in Breakpoints
  <2> DEFINE T == StaySteps
  <2>1. [does |-> "ask", line |-> Line("setbreakpoints", breaks)] \in T /\ Do("respond") \in T
    BY <1>1
  <2> HIDE DEF T
  <2>2. OnSetBreakpoints(breaks) \in Seq(T)
    BY <2>1 DEF OnSetBreakpoints
  <2> QED
    BY <2>2 DEF T
<1>4. OnConfigurationDone \in Seq(StaySteps)
  <2>1. PICK e : OnConfigurationDone = <<Do("respond")>> \o e /\ e \in Seq(StaySteps)
    <3>1. CASE stopOnEntry = TRUE
      BY <1>2, <3>1, ConfigureTails, Zenon
    <3>2. CASE stopOnEntry = FALSE
      BY <1>2, <3>2, ConfigureTails, Zenon
    <3> QED
      BY <3>1, <3>2
  <2> QED
    BY <1>1, <2>1, Prefixed
<1>5. OnDisconnect \in Seq(EndSteps)
  <2> DEFINE T == EndSteps
  <2>1. Do("stopPolling") \in T /\ Do("kill") \in T /\ Do("respond") \in T
    BY DEF EndSteps
  <2> HIDE DEF T
  <2>2. OnDisconnect \in Seq(T)
    BY <2>1 DEF OnDisconnect
  <2> QED
    BY <2>2 DEF T
<1>6. OnDisconnect \in Seq(StaySteps)
  BY <1>5, EndStepFacts, ElementOfSeq
<1>7. /\ r.name \in {"launch", "configurationDone", "continue", "step", "pause", "disconnect"} \cup Readings
      /\ r.name = "setBreakpoints" => r.breaks \in Breakpoints
  BY RequestNames
<1> QED
  BY <1>2, <1>3, <1>4, <1>5, <1>6, <1>7, Zenon DEF HandleRequest, Readings

LEMMA HeldServe ==
  ASSUME Alive, Held, Serve
  PROVE  Held'
<1>1. /\ request # None /\ request \in Requests /\ request' = request /\ todo = <<>>
      /\ todo' = HandleRequest(request) /\ stopOnEntry \in BOOLEAN
      /\ UNCHANGED <<target, fifo, batch, poller, view>>
  BY DEF Serve, Alive, targetVars
<1>2. Governed' = Governed /\ Followed' = Followed /\ ~Now("ask")
  BY <1>1, HeldTarget DEF Now
<1>3. request.name = "launch" => ToPause(todo')
  BY <1>1, LaunchToPause DEF HandleRequest
<1>4. /\ request.name # "launch" => todo' \in Seq(StaySteps)
      /\ request.name = "disconnect" => todo' \in Seq(EndSteps)
  BY <1>1, HandlersStay
<1>5. CASE Unlaunched
  BY <1>1, <1>2, <1>3, <1>4, <1>5, RequestNames DEF Held, Unlaunched, NoPoll
<1>6. CASE Launched
  <2>1. request.name # "launch"
    <3>1. <<Do("take")>> \o <<Do("respond")>> # <<>> /\ <<Do("respond")>> # <<>>
      <4>1. PICK e : e = <<Do("respond")>> /\ e \in Seq(Steps) /\ e # <<>>
        BY RespondOnly, Zenon
      <4>2. e \in Seq(Steps)
        BY <4>1
      <4>3. <<Do("take")>> \o e # <<>>
        BY ONLY <4>2, Pushed
      <4> QED
        BY <4>1, <4>3, Zenon
    <3> QED
      BY <1>1, <1>6, <3>1 DEF Launched
  <2> QED
    BY <1>1, <1>2, <1>4, <1>6, <2>1 DEF Held, Launched
<1> QED
  BY <1>5, <1>6 DEF Held

LEMMA HeldPolls ==
  ASSUME Alive, Held, Polls \/ PollGoesWithout, MaxFaults \in {0, 1}
  PROVE  Held'
<1>1. ~NoPoll /\ UNCHANGED <<request, todo>> /\ view' \in {view, "stopped"}
  BY PollEffect DEF Alive
<1>2. Launched
  BY <1>1 DEF Held, Unlaunched
<1>3. PollAsks \/ UNCHANGED <<target, fifo, batch>>
  BY DEF Polls, PollWakes, PollTakes, PollReports, PollGoesWithout, targetVars
<1>4. Governed' /\ Followed'
  BY <1>2, <1>3, HeldTarget DEF Launched
<1> QED
  BY <1>1, <1>2, <1>4 DEF Held, Launched

LEMMA HeldEmulates ==
  ASSUME Alive, Held, Emulates
  PROVE  Held'
<1>1. UNCHANGED <<request, todo, view, poller>>
  BY DEF Emulates, adapterVars
<1>2. (Governed => Governed') /\ (Followed => Followed')
  BY HeldTarget
<1>3. Now("ask")' = Now("ask")
  BY <1>1 DEF Now
<1> QED
  BY <1>1, <1>2, <1>3 DEF Held, Unlaunched, Launched, NoPoll

DebugHeld == DebugInv /\ (Dead \/ Held)

LEMMA HeldStarts == DebugInit => DebugHeld
<1> SUFFICES ASSUME DebugInit PROVE Held
  BY DebugStarts DEF DebugHeld
<1>1. request = None /\ view = "new" /\ todo = <<>> /\ poller = "none" /\ batch = <<>> /\ fifo = <<>>
  BY DEF DebugInit, TargetInit
<1>2. <<>> \in Seq(StaySteps)
  BY EmptySeq
<1>3. Followed
  <2>1. <<>> \o <<>> = <<>> /\ Len(<<>>) = 0
    OBVIOUS
  <2> QED
    BY <1>1, <2>1 DEF Followed, Underway
<1> QED
  BY <1>1, <1>2, <1>3 DEF Held, Unlaunched, NoPoll

LEMMA HeldKept ==
  ASSUME MaxFaults \in {0, 1}, SlowPoll = TRUE
  PROVE  DebugHeld /\ [DebugNext]_debugVars => DebugHeld'
<1> SUFFICES ASSUME DebugHeld, [DebugNext]_debugVars PROVE Dead' \/ Held'
  BY DebugKept DEF DebugHeld
<1>1. CASE Dead
  BY <1>1, DeadStays
<1>2. CASE Alive /\ Held
  <2>1. CASE EditorAsks
    BY <1>2, <2>1, HeldEditor
  <2>2. CASE RequestStep
    <3>1. CASE todo # <<>>
      BY <1>2, <2>2, <3>1, HeldLaunch, HeldLater
    <3>2. CASE todo = <<>>
      <4>1. Serve
        BY <2>2, <3>2 DEF RequestStep, Handles, Takes, Check, Settled, Fails, ReadNumber, StopPolling,
              JoinPoller, StartPolling, Respond, ReportStopped, Kill, Asks, Tells, Spawn, EmulatorUp,
              GoesWithout, Now
      <4> QED
        BY <1>2, <4>1, HeldServe
    <3> QED
      BY <3>1, <3>2
  <2>3. CASE Polls \/ PollGoesWithout
    BY <1>2, <2>3, HeldPolls
  <2>4. CASE Emulates
    BY <1>2, <2>4, HeldEmulates
  <2>5. CASE UNCHANGED debugVars
    <3>1. UNCHANGED <<target, fifo, batch, request, todo, view, poller>>
      BY <2>5 DEF debugVars, targetVars, adapterVars
    <3>2. Governed' = Governed /\ Followed' = Followed /\ Now("ask")' = Now("ask")
      BY <1>2, <3>1, HeldTarget DEF Now
    <3> QED
      BY <1>2, <3>1, <3>2 DEF Held, Unlaunched, Launched, NoPoll
  <2> QED
    BY <2>1, <2>2, <2>3, <2>4, <2>5 DEF DebugNext, RequestStep
<1> QED
  BY <1>1, <1>2 DEF DebugHeld, DebugInv

\* What is under way is in one of the two places, and is due if it is answered.
LEMMA WaysOf ==
  ASSUME LinesOK
  PROVE  /\ \A line \in Range(fifo) \cup Range(batch) : \E m \in 1..Len(Underway) : Underway[m] = line
         /\ \A m \in 1..Len(Underway) : Underway[m] \in Range(fifo) \cup Range(batch)
<1>1. PICK p : p = Underway /\ p \in Seq(DebugLines)
  BY DueTyped DEF Underway
<1>2. /\ Len(batch) \in Nat /\ Len(fifo) \in Nat /\ Len(p) = Len(batch) + Len(fifo)
      /\ \A i \in 1..(Len(batch) + Len(fifo)) : p[i] = IF i <= Len(batch) THEN batch[i] ELSE fifo[i - Len(batch)]
  BY <1>1, ConcatProperties, LenProperties DEF LinesOK, Underway
<1>3. DOMAIN batch = 1..Len(batch) /\ DOMAIN fifo = 1..Len(fifo)
  BY DEF LinesOK
<1>4. ASSUME NEW line \in Range(fifo) \cup Range(batch) PROVE \E m \in 1..Len(p) : p[m] = line
  <2>1. CASE line \in Range(batch)
    <3>1. PICK i \in 1..Len(batch) : batch[i] = line
      BY <1>3, <2>1 DEF Range
    <3> QED
      BY <1>2, <3>1
  <2>2. CASE line \in Range(fifo)
    <3>1. PICK i \in 1..Len(fifo) : fifo[i] = line
      BY <1>3, <2>2 DEF Range
    <3> DEFINE j == Len(batch) + i
    <3>2. j \in 1..(Len(batch) + Len(fifo)) /\ ~(j <= Len(batch)) /\ j - Len(batch) = i
      BY <1>2, <3>1
    <3> HIDE DEF j
    <3>3. p[j] = fifo[i] /\ j \in 1..Len(p)
      BY <1>2, <3>2
    <3> QED
      BY <3>1, <3>3
  <2> QED
    BY <2>1, <2>2
<1>5. ASSUME NEW m \in 1..Len(p) PROVE p[m] \in Range(fifo) \cup Range(batch)
  <2>1. CASE m <= Len(batch)
    <3>1. m \in 1..Len(batch) /\ p[m] = batch[m]
      BY <1>2, <2>1
    <3> QED
      BY <1>3, <3>1 DEF Range
  <2>2. CASE ~(m <= Len(batch))
    <3>1. m - Len(batch) \in 1..Len(fifo) /\ p[m] = fifo[m - Len(batch)]
      BY <1>2, <2>2
    <3> QED
      BY <1>3, <3>1 DEF Range
  <2> QED
    BY <2>1, <2>2
<1> QED
  BY <1>1, <1>4, <1>5

LEMMA DueIsUnderway ==
  ASSUME LinesOK
  PROVE  /\ \A m \in 1..Len(Underway) : Answered(Underway[m]) => \E j \in 1..Len(Due) : Due[j] = Underway[m]
         /\ \A j \in 1..Len(Due) : \E m \in 1..Len(Underway) : Due[j] = Underway[m]
<1>1. PICK p : p = Underway /\ p \in Seq(DebugLines)
  BY DueTyped DEF Underway
<1>2. Due = Those(p, AnsweredLines)
  BY <1>1 DEF Due, Underway
<1>3. PICK e : PlacesOf(e, Due, p, Len(p), AnsweredLines)
  BY <1>1, <1>2, ThosePlaces
<1>4. ASSUME NEW m \in 1..Len(p), Answered(p[m]) PROVE \E j \in 1..Len(Due) : Due[j] = p[m]
  <2>1. p[m] \in AnsweredLines
    BY <1>1, <1>4, ElementOfSeq DEF AnsweredLines
  <2> QED
    BY <1>3, <2>1 DEF PlacesOf
<1>5. ASSUME NEW j \in 1..Len(Due) PROVE \E m \in 1..Len(p) : Due[j] = p[m]
  BY <1>3 DEF PlacesOf
<1> QED
  BY <1>1, <1>4, <1>5

\* A target under control that is shown as stopped, after whatever came late.
LEMMA StoppedIsHeld ==
  ASSUME Alive, Held, request = None, view = "stopped"
  PROVE  /\ ~target.running /\ ~OnTheWay({"continue"})
         /\ target.control \/ OnTheWay({"pause"})
         /\ faults = 0 => target.control /\ ~OnTheWay({"debugstep", "call"})
<1>1. /\ Quiet /\ NoPoll /\ todo = <<>> /\ LinesOK /\ OneBehind /\ PollRight
      /\ Governed /\ Followed
  BY DEF Alive, ServedRight, Resting, Core, TargetInv, Held, Unlaunched, Launched
<1>2. \A line \in Range(fifo) \cup Range(batch) : \E m \in 1..Len(Underway) : Underway[m] = line
  BY <1>1, WaysOf
<1>3. ~OnTheWay({"continue"})
  <2> SUFFICES ASSUME NEW line \in Range(fifo) \cup Range(batch), line.name = "continue" PROVE FALSE
    BY DEF OnTheWay
  <2>1. PICK m \in 1..Len(Underway) : Underway[m] = line
    BY <1>2
  <2>2. PICK j \in 1..Len(Due) : Due[j] = line
    BY <1>1, <2>1, DueIsUnderway DEF Answered
  <2> QED
    BY <1>1, <2>2 DEF Quiet, NoContinue
<1>4. target.control \/ OnTheWay({"pause"})
  <2> SUFFICES ASSUME PausePending PROVE OnTheWay({"pause"})
    BY <1>1 DEF Governed
  <2>1. PICK j \in 1..Len(Due) : Due[j].name = "pause"
    BY DEF PausePending
  <2>2. PICK m \in 1..Len(Underway) : Due[j] = Underway[m]
    BY <1>1, DueIsUnderway
  <2>3. Underway[m] \in Range(fifo) \cup Range(batch)
    BY <1>1, WaysOf
  <2> QED
    BY <2>1, <2>2, <2>3 DEF OnTheWay
<1>5. ASSUME faults = 0 PROVE target.control /\ ~OnTheWay({"debugstep", "call"})
  <2>1. call = NoCall
    <3>1. call.by # "poll" /\ call.by # "requests"
      BY <1>1 DEF PollRight, NoPoll, Now
    <3> QED
      BY <1>1, <3>1, NobodyCalls DEF OneBehind
  <2>2. Len(Due) = 0
    <3>1. Len(Due) <= 0 /\ Len(Due) \in Nat
      BY <1>1, <1>5, <2>1, DueTyped DEF OneBehind, Owed
    <3> QED
      BY <3>1
  <2>3. \A j \in 1..Len(Due) : FALSE
    BY <2>2
  <2>4. target.control
    BY <1>1, <2>3 DEF Governed, PausePending
  <2>5. \A m \in 1..Len(Underway) : ~Answered(Underway[m])
    BY <1>1, <2>3, DueIsUnderway
  <2>6. \A m \in 1..Len(Underway) : Underway[m].name # "call" /\ Underway[m].name # "debugstep"
    BY <1>1, <2>5 DEF Followed, Answered
  <2> QED
    BY <1>2, <2>4, <2>6 DEF OnTheWay
<1> QED
  BY <1>1, <1>3, <1>4, <1>5 DEF Quiet

\* As long as no more than one answer comes late or torn, what the editor
\* believes of the target is so between two of its requests: a target it takes
\* for running is watched; one it takes for stopped is, with nothing under way
\* that makes it run, and is the debugger's or has the pause coming; and if no
\* answer came late it stays where it is.
THEOREM EditorAlwaysKnows ==
  ASSUME MaxFaults \in {0, 1}, SlowPoll = TRUE
  PROVE  DebugSpec => []EditorKnows
<1>1. DebugHeld => EditorKnows
  <2> SUFFICES ASSUME DebugHeld, request = None PROVE EditorKnows
    BY DEF EditorKnows
  <2>1. CASE Dead
    BY <2>1 DEF Dead, EditorKnows
  <2>2. CASE Alive /\ Held
    <3>1. Resting
      BY <2>2 DEF Alive, ServedRight
    <3>2. view = "running" => poller = "reports" \/ (polling /\ poller \in {"asleep", "wants", "waits"})
      BY <3>1 DEF Resting, Watched
    <3> QED
      BY <2>2, <3>2, StoppedIsHeld, Zenon DEF EditorKnows
  <2> QED
    BY <2>1, <2>2 DEF DebugHeld, DebugInv
<1> QED
  BY <1>1, HeldStarts, HeldKept, PTL DEF DebugSpec
=============================================================================
