SPECIFICATION CalmSpec
CONSTANTS
  Ifaces = {"clevo_wmi", "uniwill_wmi"}
  InitMayFail = FALSE
PROPERTIES
  OnlyLastInterfaceRemovesDriver
CHECK_DEADLOCK FALSE
