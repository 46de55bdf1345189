SPECIFICATION MCSpec
CONSTANTS
  NumChannels = 7
  Chans <- TwoBandsTable
  ChannelTime = 1
  UINT32_MAX = 9
  Limits <- SomeLimits
  AppSpecs <- Tunings
  Broken = {}
  MaxEdits = 2
  MaxRefusals = 1
INVARIANTS
  InStep
PROPERTIES
  HopInRange
  AttemptsSpaced
  VisitsAll
