SPECIFICATION SerialSpec
CONSTANTS
  Writers = {w1}
  Regions = {"left", "extra"}
  Numbers = {0, 767}
  Codes <- MCCodes
  Palette <- MCPalette
  BrightnessStep = 255
  PatternCount = 2
  Params <- MCParams
INVARIANTS
  TypeOK
  CacheTracksFirmware
  RestoredWhenQuiet
PROPERTIES
  LightsOnWhenRestored
  SleepKeepsSettings
