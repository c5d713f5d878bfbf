\* A launch, every answer in time; an instruction of the program is a third of it.
CONSTANTS
  Families = {"debugger"}
  MaxWrites = 3
  MaxMissed = 1
  StampMayBeLate = TRUE
  ForwardTakesTime = TRUE
  ReopenTakesTime = TRUE
  WakeTakenAsAlarm = TRUE
  SleepOn = TRUE
  Half = 8
  Debounce = 3
  Spin = 1
  Gap = 2
  Frame = 17
  Ahead = 3
  Back = 0
  Places = 3
  StepsPerFrame = 2
  Sessions <- MCSessions
  Breakpoints = {{}, {1}}
  MaxRequests = 4
  MaxTries = 1
  MaxFaults = 0
  SlowPoll = TRUE
SPECIFICATION Spec
INVARIANT ParkedAtEntry
CHECK_DEADLOCK FALSE
