SPECIFICATION MCSpec
CONSTANTS
  NumChannels = 7
  Chans <- TwoBandsTable
  ChannelTime = 1
  UINT32_MAX = 9
  Limits <- NoLimits
  AppSpecs <- Tunings
  Broken = {2432}
  MaxEdits = 0
  MaxRefusals = 0
PROPERTIES
  GivesUpAfterAll
