SPECIFICATION Spec
CONSTANTS
  Ifaces = {"clevo_wmi", "clevo_acpi", "uniwill_wmi"}
  InitMayFail = TRUE
INVARIANTS
  TypeOK
  ActiveIsRegistered
  AcpiPriority
PROPERTIES
  ArbiterSpec
  UniwillTeardownHasEc
CHECK_DEADLOCK FALSE
