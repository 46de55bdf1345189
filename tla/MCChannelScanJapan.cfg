SPECIFICATION MCSpec
CONSTANTS
  NumChannels = 3
  Chans <- JapanTable
  ChannelTime = 1
  UINT32_MAX = 9
  Limits <- NoLimits
  AppSpecs <- TuneSix
  Broken = {}
  MaxEdits = 0
  MaxRefusals = 0
INVARIANTS
  NextOk
