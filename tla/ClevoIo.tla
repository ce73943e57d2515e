------------------------------ MODULE ClevoIo ------------------------------
(***************************************************************************)
(* tuxedo_io on a Clevo machine: its ioctls switch settings of the         *)
(* firmware through clevo_evaluate_method, while the transports clevo_acpi *)
(* and clevo_wmi come and go.  For the life cycle behind the transports'   *)
(* registration stands what it implements, ClevoArbiter.  "webcam" is the  *)
(* switch that is read before it is set; "flightmode" stands for the       *)
(* commands that set without reading.                                      *)
(***************************************************************************)
EXTENDS Integers

CONSTANTS
  IoCallers,   \* processes inside an ioctl
  Args         \* arguments: what a caller passed, or, if it could not be
               \* copied, what was in the variable

ASSUME ArgsAssumption == Args \subseteq Nat

Wmi  == "clevo_wmi"
Acpi == "clevo_acpi"
None == "none"

Switches == {"webcam", "flightmode"}

VARIABLES
  registered, active,  \* the arbiter's
  acpiStep,    \* clevo_acpi is out, adding, in or removing
  acpiData,    \* active_driver_data is set
  toggles,     \* setting the webcam toggles it ("old and/or buggy WMI interfaces")
  position,    \* of each switch
  call,        \* what each caller is about
  wanted,      \* observer: for each switch, what the calls since it was last
               \* quiet have asked for
  clean        \* observer: switches whose calls since then neither failed nor,
               \* on firmware that toggles, overlapped

clevo == <<registered, active, acpiStep, acpiData, toggles, position, call, wanted, clean>>

Arbiter == INSTANCE ClevoArbiter

Bit(arg) == arg % 2

\* at: idle, or the method to evaluate; via: the interface it goes to; seen: the
\* pointer that is used next was found not to be NULL.
NoCall == [at |-> "idle", switch |-> "webcam", arg |-> 0, result |-> 0,
           via |-> None, seen |-> FALSE]

ClevoTypeOK ==
  /\ registered \subseteq {Wmi, Acpi} /\ active \in {Wmi, Acpi, None}
  /\ acpiStep \in {"out", "adding", "in", "removing"}
  /\ acpiData \in BOOLEAN /\ toggles \in BOOLEAN
  /\ position \in [Switches -> 0..1]
  /\ call \in [IoCallers -> [at : {"idle", "get", "set"}, switch : Switches,
                             arg : Args \cup {0}, result : 0..1, via : {Wmi, Acpi, None},
                             seen : BOOLEAN]]
  /\ wanted \in [Switches -> SUBSET (0..1)]
  /\ clean \subseteq Switches

ClevoInit ==
  /\ Arbiter!Init
  /\ acpiStep = "out" /\ acpiData = FALSE
  /\ toggles \in BOOLEAN
  /\ position \in [Switches -> 0..1]
  /\ call = [c \in IoCallers |-> NoCall]
  /\ wanted = [s \in Switches |-> {}] /\ clean = Switches

-----------------------------------------------------------------------------
(***************************************************************************)
(* The transports' probe and remove.                                       *)
(***************************************************************************)
ioctls == <<toggles, position, call, wanted, clean>>

AcpiGoes(from, to) == acpiStep = from /\ acpiStep' = to

\* clevo_acpi_add: the driver data first, then the interface.
AcpiData ==
  /\ AcpiGoes("out", "adding")
  /\ acpiData' = TRUE
  /\ UNCHANGED <<registered, active, ioctls>>

AcpiAdd ==
  /\ AcpiGoes("adding", "in")
  /\ Arbiter!Register(Acpi)
  /\ UNCHANGED <<acpiData, ioctls>>

\* Mutated form: the driver data goes before the interface.
AcpiRemoveDataFirst ==
  /\ AcpiGoes("in", "removing")
  /\ acpiData' = FALSE
  /\ UNCHANGED <<registered, active, ioctls>>

\* clevo_acpi_remove: the interface first, then the driver data.
AcpiRemove ==
  /\ AcpiGoes("in", "removing")
  /\ Arbiter!Unregister(Acpi)
  /\ UNCHANGED <<acpiData, ioctls>>

AcpiGone ==
  /\ AcpiGoes("removing", "out")
  /\ acpiData' = FALSE
  /\ UNCHANGED <<registered, active, ioctls>>

\* clevo_wmi_probe gets this far if the GUIDs are there and the test call
\* returned something: the check of its status never fails, as an unsigned
\* number is not negative, and what was not returned may look like a result.
WmiAdd ==
  /\ Arbiter!Register(Wmi)
  /\ UNCHANGED <<acpiStep, acpiData, ioctls>>

WmiRemove ==
  /\ Arbiter!Unregister(Wmi)
  /\ UNCHANGED <<acpiStep, acpiData, ioctls>>

-----------------------------------------------------------------------------
(***************************************************************************)
(* The ioctls.                                                             *)
(***************************************************************************)
transports == <<registered, active, acpiStep, acpiData>>

Quiet(s) == \A c \in IoCallers : call[c].at = "idle" \/ call[c].switch # s

\* The webcam is read first, the others are set right away.
Begin(c, s) ==
  /\ call[c].at = "idle"
  /\ \E a \in Args :
       /\ call' = [call EXCEPT ![c] = [NoCall EXCEPT
                     !.at = IF s = "webcam" THEN "get" ELSE "set", !.switch = s, !.arg = a]]
       /\ wanted' = [wanted EXCEPT ![s] = {Bit(a)} \cup (IF Quiet(s) THEN {} ELSE @)]
  /\ clean' = IF Quiet(s) THEN clean \cup {s}
              ELSE IF toggles /\ s = "webcam" THEN clean \ {s} ELSE clean
  /\ UNCHANGED <<transports, toggles, position>>

\* Mutated form: the webcam is set whatever its position is.
AfterGetAlways(c, result) ==
  [call[c] EXCEPT !.at = "set", !.result = result, !.via = None, !.seen = FALSE]

\* Only if the position is not the right one yet.
AfterGet(c, result) ==
  IF Bit(call[c].arg) # Bit(result)
    THEN [call[c] EXCEPT !.at = "set", !.result = result, !.via = None, !.seen = FALSE]
    ELSE NoCall

\* The method's status is not looked at: a result that did not come is the 0
\* it was set to before.
Returns(c, result) ==
  call' = [call EXCEPT ![c] = IF @.at = "get" THEN AfterGet(c, result) ELSE NoCall]

Fails(c) ==
  /\ Returns(c, call[c].result)
  /\ clean' = clean \ {call[c].switch}

\* A process that dereferences NULL dies there; another may take its place.
Dies(c) ==
  /\ call' = [call EXCEPT ![c] = NoCall]
  /\ clean' = clean \ {call[c].switch}

Proceeds(c, record) == call' = [call EXCEPT ![c] = record] /\ UNCHANGED clean

\* clevo_evaluate_method looks whether an interface is active ...
Look(c) ==
  /\ call[c].at # "idle" /\ call[c].via = None /\ ~call[c].seen
  /\ \/ active = None /\ Fails(c)
     \/ active # None /\ Proceeds(c, [call[c] EXCEPT !.seen = TRUE])
  /\ UNCHANGED <<transports, toggles, wanted, position>>

\* ... and reads again which one: there is no lock, and it may have gone since.
Load(c) ==
  /\ call[c].via = None /\ call[c].seen
  /\ \/ active = None /\ Dies(c)
     \/ active # None /\ Proceeds(c, [call[c] EXCEPT !.via = active, !.seen = FALSE])
  /\ UNCHANGED <<transports, toggles, wanted, position>>

\* The ACPI interface does the same with its driver data.
LookForData(c) ==
  /\ call[c].via = Acpi /\ ~call[c].seen
  /\ \/ ~acpiData /\ Fails(c)
     \/ acpiData /\ Proceeds(c, [call[c] EXCEPT !.seen = TRUE])
  /\ UNCHANGED <<transports, toggles, wanted, position>>

MissData(c) ==
  /\ call[c].via = Acpi /\ call[c].seen /\ ~acpiData
  /\ Dies(c)
  /\ UNCHANGED <<transports, toggles, wanted, position>>

\* The call is with the firmware, and may set a switch there.
Reaches(c) == call[c].via = Wmi \/ (call[c].via = Acpi /\ call[c].seen /\ acpiData)

Acted(c) ==
  LET s == call[c].switch IN
  IF call[c].at = "get" THEN position
  ELSE [position EXCEPT ![s] = IF toggles /\ s = "webcam" THEN 1 - @ ELSE Bit(call[c].arg)]

Call(c) ==
  /\ Reaches(c)
  /\ Returns(c, position[call[c].switch])
  /\ position' = Acted(c)
  /\ UNCHANGED <<transports, toggles, wanted, clean>>

\* It returns an error, whether it acted or not.
CallFails(c) ==
  /\ Reaches(c)
  /\ Fails(c)
  /\ position' \in {position, Acted(c)}
  /\ UNCHANGED <<transports, toggles, wanted>>

Transport == AcpiData \/ AcpiAdd \/ AcpiRemove \/ AcpiGone \/ WmiAdd \/ WmiRemove

IoStep(c) ==
  Look(c) \/ Load(c) \/ LookForData(c) \/ MissData(c) \/ Call(c) \/ CallFails(c)

-----------------------------------------------------------------------------
\* When nobody is switching a switch, it is where somebody of those who did so
\* last wanted it, even on firmware that toggles: unless a call failed or died,
\* or two of them overlapped there ("Only set status if it isn't already the right
\* value").
SwitchAsAsked ==
  \A s \in clean : Quiet(s) /\ wanted[s] # {} => position[s] \in wanted[s]

\* While calls go to the ACPI interface, it knows its device: no call finds
\* "no driver data" unless it overlaps a removal (clevo_acpi_add and _remove).
DataWhileActive == active = Acpi => acpiData

=============================================================================
