SPECIFICATION Spec
CONSTANTS
  Handles = {h1, h2}
  None = None
  Left = Left
  MaxRequests = 3
  MaxQueue = 2
  Patience = 2
INVARIANTS
  NoDeadSocket
PROPERTIES
  InOrder
  NotStale
  RequestEnds
