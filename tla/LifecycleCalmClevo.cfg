SPECIFICATION CalmSpec
CONSTANTS
  Ifaces = {"clevo_wmi", "clevo_acpi"}
  InitMayFail = FALSE
INVARIANTS
  NoTeardownFault
  ServedWhenQuiet
  NothingLeftBehind
  EventTargetLive
PROPERTIES
  CallsReturn
