\* MCLh5801's programs and inputs; images of 4 to 15 of 32 addresses; listings of
\* lines of at most 15 characters for an editor of 8.
CONSTANTS
  Families = {"cpu", "analysis", "loader"}
  Rom <- MCRom
  Inputs <- MCInputs
  KeysIn = 127
  AddressSpace = 32
  PageSize = 8
  Analyses <- MCAnalyses
  BaseSearch <- MCBaseSearch
  NoEntry = NoEntry
  Listings <- MCListings
  Limit = 8
  Budget = 7
  Label <- MCLabel
  MaxStalls = 2
  Space = " "
  Capitals = {"A", "B", "C", "D", "E", "F"}
  Smalls = {"x"}
  Spared = {"a", "b", "c", "d"}
  Unmapped = {"~"}
  Unstored = Unstored
SPECIFICATION Spec
INVARIANTS ResultsRight AnalysisIsExact LoadedWhole
PROPERTIES InterruptsLeaveNoTrace EveryRequestTaken LoadEnds
CHECK_DEADLOCK FALSE
