\* Three commands written, one wake missed, and every way the mock may be slow
\* or wake up; half a period of TP of 8, a frame of 17 instructions; a program
\* of two places, both run in a frame, four requests of an editor, and one answer
\* that is late or torn.
CONSTANTS
  Families = {"expansion", "pulse", "debugger"}
  MaxWrites = 3
  MaxMissed = 1
  StampMayBeLate = TRUE
  ForwardTakesTime = TRUE
  ReopenTakesTime = TRUE
  WakeTakenAsAlarm = TRUE
  SleepOn = TRUE
  Half = 8
  Debounce = 3
  Spin = 1
  Gap = 2
  Frame = 17
  Ahead = 3
  Back = 0
  Places = 2
  StepsPerFrame = 2
  Sessions <- MCSessions
  Breakpoints = {{}, {1}}
  MaxRequests = 4
  MaxTries = 1
  MaxFaults = 1
  SlowPoll = TRUE
SPECIFICATION Spec
INVARIANTS QuietUnlessAwake BreakOnlyByKey TicksCountedOnce EditorKnows
PROPERTIES ImplementsMailbox ModuleResponds BreakIsHeard StopsAreReported EveryRequestServed
CHECK_DEADLOCK FALSE
