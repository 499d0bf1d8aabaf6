SPECIFICATION TablesSpec
CONSTANTS
  MaxByte = 2
  MaxTag = 9
  Users <- MCUsers
  Tags = {1, 2}
  MaxEntries = 3
  Sizes = {1, 2}
  BlockSize = 2
  FilterBase = 3
  Trailer = 1
  MaxDamage = 1
  Paranoid = {TRUE}
  Verify = {TRUE}
CHECK_DEADLOCK FALSE
INVARIANTS
  TablesReadRight
  ShowsSnapshot
PROPERTIES
  IteratorsAreCursors
  ChainsAreMap
