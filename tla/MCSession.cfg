SPECIFICATION Spec
CONSTANTS
  Commands <- MCCommands
  MaxRuns = 3
  OldFiles <- MCOldFiles
  OldSplits <- MCOldSplits
  Dirs = {".", "d"}
  TooLong = {"longname", "longdir"}
  NoField = {"longname"}
  Binary = {"disk"}
  Long = {"long"}
  Dashed <- MCDashed
  MAX_PATHS = 4
  Number <- MCNumber
  NULL = NULL
INVARIANTS
  SplitKeepsItsWord
  VerdictIsRight
  FilesKept
  BuffersFreed
CHECK_DEADLOCK FALSE
