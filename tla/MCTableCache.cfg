SPECIFICATION CacheSpec
CONSTANTS
  Handles = {h1, h2, h3}
  Keys = {k1, k2, k3}
  Lru = Lru
  InUse = InUse
  Nil = Nil
  Charges = {1}
  Capacity = 1
  MaxHeld = 3
  Readers = {r1, r2}
CHECK_DEADLOCK FALSE
SYMMETRY Symmetry
INVARIANTS
  CacheConsistent
  TableCacheSafe
  FilesShared
