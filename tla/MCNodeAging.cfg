SPECIFICATION Spec
CONSTANTS
  a = a
  b = b
  Node <- NodeDef
  Modulus = 12
  Timeout = 4
  PollGap = 3
SYMMETRY Alike
INVARIANTS
  SilentGone
PROPERTIES
  NeverEarly
