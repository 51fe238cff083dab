CONSTANTS
  p = p
  q = q
  rel = rel
  NoDef = NoDef
  NoMove = NoMove
  Absent = Absent
  Paths <- MCPaths
  Files <- MCFiles
  absPath <- MCAbsPath
  Cases <- MCCases
  Others <- MCOthers
  MaxOthers = 1
SPECIFICATION PatchSpec
CONSTRAINT Alone
INVARIANTS UpdatesAsDescribed AllOrNothing BothSidesStored
PROPERTIES OverwritesOnlyWhatWasRead
CHECK_DEADLOCK FALSE
