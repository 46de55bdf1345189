SPECIFICATION Spec
SYMMETRY Symmetry
CONSTANTS
  Handles = {h1, h2}
  MaxFd = 2
  Answers <- AnswersMC
  MaxPlugs = 2
  MaxAdmin = 1
INVARIANTS
  OwnSocket
  NoSocketLeft
  Listens
  TableOfAnswer
