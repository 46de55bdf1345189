SPECIFICATION Spec
CONSTANTS
  MaxLen = 2
  MaxEntries = 3
  NumGroups = 2
  MaxEvents = 2
  MayLose = FALSE
INVARIANTS
  NotFreedTwice
