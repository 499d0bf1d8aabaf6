SPECIFICATION ThreadsSpec
CONSTANTS
  N = 3
  MaxHeight = 2
  Readers = {"r1"}
CHECK_DEADLOCK FALSE
INVARIANTS
  ListIntact
PROPERTIES
  SearchMissesNothing
  ReadsEnd
  CallersReturn
  RunsInOrder
