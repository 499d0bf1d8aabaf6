SPECIFICATION OpenSpec
CONSTANTS
  ReuseLogs = FALSE
  MaxWrites = 3
  MaxNumber = 11
  MaxCrashes = 2
  Compactions = TRUE
  CreationSafe = TRUE
CHECK_DEADLOCK FALSE
INVARIANTS
  FilesIntact
  UpdatesSurvive
  RepairKeeps
  DirectoryKept
