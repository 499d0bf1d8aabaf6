SPECIFICATION LogSpec
CONSTANTS
  BlockSize = 7
  HeaderSize = 3
  Sizes = {0, 2, 3, 9}
  MaxRecords = 3
  MaxOpens = 1
  MaxErrors = 0
  MaxDamage = 0
  ZeroFill = FALSE
  InitialOffsets = {0, 1, 5, 6, 7, 10}
  Absent = Absent
CHECK_DEADLOCK FALSE
INVARIANTS
  RecordsReadBack
  EncodingsReadBack
