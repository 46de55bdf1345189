SPECIFICATION Spec
CONSTANTS
  n1 = n1
  n2 = n2
  n3 = n3
  e1 = e1
  e2 = e2
  zero = zero
  bcast = bcast
  mA = mA
  mB = mB
  mC = mC
  home = home
  guest = guest
  none = none
  NULL = NULL
  ZeroMac = zero
  BcastMac = bcast
  NoEssid = none
  Addr <- NodeAddr
  EAddr <- NetAddr
  Mac <- MacDef
  EssidName = {home, guest}
  Packets <- MixedPackets
SYMMETRY Memory
INVARIANTS
  TypeOK
  NoDangling
  StationListsAgree
  MemberListsAgree
  CountExact
  UniqueKeys
PROPERTIES
  LinkKept
  SplitFresh
  SweepIsTimeout
