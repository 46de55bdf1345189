\* A caller whose reply was lost waits for ever: the system may stop there.
CHECK_DEADLOCK FALSE
SPECIFICATION Spec
CONSTANTS
  MaxLen = 2
  MaxEntries = 3
  NumGroups = 2
  MaxEvents = 2
  MayLose = TRUE
INVARIANTS
  Drained
PROPERTIES
  Exact
  DumpComplete
  RequestEnds
