\* A module image whose last page is the last of 32 addresses.
CONSTANTS
  Families = {"analysis"}
  Rom <- MCRom
  Inputs <- MCInputs
  KeysIn = 127
  AddressSpace = 32
  PageSize = 8
  Analyses <- MCTop
  BaseSearch <- MCBaseSearch
  NoEntry = NoEntry
  Listings <- MCListings
  Limit = 8
  Budget = 7
  Label <- MCLabel
  MaxStalls = 2
  Space = " "
  Capitals = {"A", "B", "C", "D", "E", "F"}
  Smalls = {"x"}
  Spared = {"a", "b", "c", "d"}
  Unmapped = {"~"}
  Unstored = Unstored
SPECIFICATION AnalysisSpec
PROPERTY AnalysisEnds
CHECK_DEADLOCK FALSE
