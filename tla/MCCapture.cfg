SPECIFICATION Spec
CONSTANTS
  mA = mA
  mB = mB
  zero = zero
  bcast = bcast
  none = none
  net = net
  hidden = hidden
  long = long
  cut = cut
  NoAddr = zero
  BcastAddr = bcast
  NoSsid = none
  NameLen <- NameLenDef
  NameCut <- NameCutDef
  table <- TableDef
  Air <- AirDef
  Station = {mB}
  Essid = {net, hidden, long}
  Room = 1
INVARIANTS
  TypeOK
  RoundTrip
  HeaderTaAgrees
  ElementOrder
  ChannelRight
  SignalIsStrongest
