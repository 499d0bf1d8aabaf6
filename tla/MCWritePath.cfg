SPECIFICATION WriteSpec
CONSTANTS
  Writers = {"a", "two", "c"}
  Readers = {"r"}
  Manuals = {}
  Updates <- MCUpdates
  Synchronous = {"c"}
  GroupLimit = 2
  BufferSize = 1
  L0Compaction = 1
  L0Slowdown = 2
  L0Stop = 2
  MaxLogs = 4
  MaxFaults = 2
  None = None
INVARIANTS
  AcknowledgedKept
PROPERTIES
  Linearizable
