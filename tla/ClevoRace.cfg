SPECIFICATION Spec
CONSTANTS
  Writers = {w1}
  Regions = {"left", "extra"}
  Numbers = {0, 767}
  Codes <- MCCodes
  Palette <- MCPalette
  BrightnessStep = 200
  PatternCount = 2
  Params <- MCParams
INVARIANTS
  CacheTracksFirmware
