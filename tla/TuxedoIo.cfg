SPECIFICATION MCSpec
CONSTANTS
  Callers = {c1, c2}
  IoCallers = {c1, c2}
  Garbage <- MCGarbage
  Speeds <- MCSpeeds
  Modes <- MCModes
  Rounds = 2
  EcSpeeds <- MCEcSpeeds
  Levels <- MCLevels
  AnimationBits = 5
  Args <- MCArgs
  MaxOps = 3
SYMMETRY CallerSymmetry
INVARIANTS
  TypeOK
  ProfileKept
  NoFanLeftBehind
  LightbarShows
  LightbarAllOrNone
  SwitchAsAsked
  DataWhileActive
  IoGone
CHECK_DEADLOCK FALSE
