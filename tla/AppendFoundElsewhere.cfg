\* A line in which a word occurs twice.
CONSTANTS
  Families = {"loader"}
  Rom <- MCRom
  Inputs <- MCInputs
  KeysIn = 127
  AddressSpace = 32
  PageSize = 8
  Analyses <- MCAnalyses
  BaseSearch <- MCBaseSearch
  NoEntry = NoEntry
  Listings <- MCRepeats
  Limit = 8
  Budget = 7
  Label <- MCLabel
  MaxStalls = 2
  Space = " "
  Capitals = {"A", "B", "C", "D", "E", "F"}
  Smalls = {"x"}
  Spared = {"a", "b", "c", "d"}
  Unmapped = {"~"}
  Unstored = Unstored
SPECIFICATION Spec
INVARIANT LoadedWhole
CHECK_DEADLOCK FALSE
