SPECIFICATION Spec
CONSTANTS
  Handles = {h1, h2}
  None = None
  Left = Left
  MaxRequests = 0
  MaxQueue = 1
  Patience = 1
SYMMETRY HandleSymmetry
PROPERTIES
  TakesOnlyLeftovers
