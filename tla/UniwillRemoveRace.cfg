SPECIFICATION Spec
CONSTANTS
  Writers = {w1}
  Channels = {"red", "blue"}
  Colors <- MCColors
  Brightness = {60, 201}
  Levels = {200}
  ParamColors = {16777216}
  ParamBrightness = {65535}
  BootBytes = {16, 18}
  Frames <- MCFrames
  CheckCount = 2
  Garbage = {60}
  MaxLives = 1
INVARIANTS
  RestoresEnableState
CHECK_DEADLOCK FALSE
