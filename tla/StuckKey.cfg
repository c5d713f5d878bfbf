\* Four events of seven host keys.
CONSTANTS
  Families = {"keys"}
  Addresses <- MCAddresses
  ExtSizes = {0, 4096, 10240}
  LowSizes = {0, 16384}
  MaxWrites = 2
  MaxChanges = 3
  Files = {F, G}
  NoPath = NoPath
  Units = {TRUE}
  SessionExtSizes = {0, 4096}
  SessionLowSizes = {16384}
  MaxRuns = 2
  MaxSettings = 2
  HostKeys = {"left", "backspace", "right", "delete", "letter", "F10", "F12"}
  Hold = 2
  Initial = 5
  Repeat = 3
  Tap = 4
  Idle = 4
  MaxEvents = 4
  Bits = 2
  Selectors = {0, 2, 3}
  Cycles = {11, 704}
  MaxOpcWrites = 12
  MaxSends = 2
  MaxTicks = 1
SPECIFICATION Spec
INVARIANT NoKeyStuck
CHECK_DEADLOCK FALSE
