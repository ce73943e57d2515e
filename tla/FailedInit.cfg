SPECIFICATION CalmSpec
CONSTANTS
  Ifaces = {"clevo_wmi"}
  InitMayFail = TRUE
INVARIANTS
  FailedInitIsNormal
CHECK_DEADLOCK FALSE
