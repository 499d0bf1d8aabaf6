SPECIFICATION LSMSpec
CONSTANTS
  MaxKey = 3
  Types = {"value", "deletion"}
  NumLevels = 3
  MaxMemLevel = 2
  MaxFileSize = 9
  GrandLimit = 2
  ExpandLimit = 9
  MaxWrites = 4
  MaxSnapshots = 1
  MaxFiles = 9
  Manual = TRUE
CHECK_DEADLOCK FALSE
INVARIANTS
  VersionWellFormed
  ReadsLatest
