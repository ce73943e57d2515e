---------------------------- MODULE ClevoArbiter ----------------------------
(***************************************************************************)
(* What the Clevo half of tuxedo_keyboard promises to the modules that     *)
(* register a firmware interface with it: one atomic Register and one      *)
(* atomic Unregister, ACPI preferred over WMI, and never an active         *)
(* interface that is not registered.  TuxedoKeyboard is shown to implement *)
(* this; there, a removal takes many steps under a mutex.                  *)
(***************************************************************************)
CONSTANTS Wmi, Acpi, None

VARIABLES registered, active

vars == <<registered, active>>

Init == registered = {} /\ active = None

\* The ACPI interface becomes active whatever was; the WMI one only when
\* nothing is.
Register(i) ==
  /\ i \notin registered
  /\ registered' = registered \cup {i}
  /\ active' = IF i = Acpi \/ active = None THEN i ELSE active

\* Unregistering the active interface leaves none active: there is no
\* falling back to the other one.
Unregister(i) ==
  /\ i \in registered
  /\ registered' = registered \ {i}
  /\ active' = IF active = i THEN None ELSE active

Next == \E i \in {Wmi, Acpi} : Register(i) \/ Unregister(i)

Spec == Init /\ [][Next]_vars

=============================================================================
