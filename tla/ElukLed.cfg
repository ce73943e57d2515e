SPECIFICATION Spec
CONSTANTS
  Effects <- MCEffects
  Levels <- MCLevels
  Colors <- MCColors
  MaxOps = 3
INVARIANTS
  TypeOK
  FirmwareGetsCheckedWords
  SuccessMeansWritten
  PresetNeverRefused
  OfflineIsDark
CHECK_DEADLOCK FALSE
