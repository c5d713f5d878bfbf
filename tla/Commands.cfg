\* Two numbered channels, two files' contents, paths A, D and D/A, cards of
\* the two kinds in MCCards; a behaviour ends after MaxCommands SD commands.
CONSTANTS
  c1 = c1
  c2 = c2
  h1 = h1
  h2 = h2
  k1 = k1
  k2 = k2
  l1 = l1
  l2 = l2
  l3 = l3
  Channels = {c1, c2}
  Inodes = {1, 2}
  Paths <- MCPaths
  Args <- MCArgs
  Cards <- MCCards
  MaxLen = 5
  MaxCommands = 6
  None = None
  Dir = Dir
  Blocks = {1, 2, 3}
  Patched = {2}
  Networks <- MCNetworks
  Passwords = {"p", "q"}
  Remembered = 2
  NoText = NoText
  Peers = {"P"}
  Names = {"A"}
  MaxSize = 2
  MaxMsgs = 3
  InboxRoom = 2
  NoFile = NoFile
  Hosts = {h1, h2}
  HostKeys = {k1, k2}
  MaxOutput = 2
  MaxOpens = 2
  Lines = {l1, l2, l3}
  HistMax = 2
  NoKey = NoKey
SPECIFICATION Spec
INVARIANTS WholeValues StagedRomIsWhole RememberedRight SavesWhole HostsAreKnown TerminalsEndWell
PROPERTY SleepKeepsChannels
SYMMETRY Perms
CHECK_DEADLOCK FALSE
