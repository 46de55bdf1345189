SPECIFICATION InfoSpec
CONSTANTS
  n1 = n1
  n2 = n2
  n3 = n3
  e1 = e1
  e2 = e2
  zero = zero
  bcast = bcast
  mA = mA
  mB = mB
  mC = mC
  home = home
  guest = guest
  none = none
  NULL = NULL
  ZeroMac = zero
  BcastMac = bcast
  NoEssid = none
  Addr <- TwoNodes
  EAddr <- OneNet
  Mac <- MacDef
  EssidName = {home, guest}
  Packets <- HeardPackets
  Heard <- HeardDef
  ULong = 16777216
  MaxFrames = 3
  MaxReceived = 1
SYMMETRY TwoMemory
INVARIANTS
  InfoTypeOK
  AverageInRange
  MaxSinceUnknown
  RetriesExact
  StdFitsWidth
PROPERTIES
  ChannelFollows
  ImplementsDirectory
