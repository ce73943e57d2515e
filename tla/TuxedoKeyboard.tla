--------------------------- MODULE TuxedoKeyboard ---------------------------
(***************************************************************************)
(* The life cycle of the tuxedo_keyboard module: firmware interface        *)
(* modules (clevo_wmi, clevo_acpi, uniwill_wmi) register and unregister    *)
(* with it, the first one that brings a driver creates the one platform    *)
(* device and the one input device, and a removal takes them down again.   *)
(*                                                                         *)
(* One thread per interface runs that interface's probe and remove (the    *)
(* device core serialises the two for one device) and one thread runs      *)
(* module_init/module_exit.  A step is what happens between two points at  *)
(* which another thread can see or change the shared state; the code       *)
(* inside one of the three mutexes is split only where somebody reads that *)
(* state without the mutex.                                                *)
(***************************************************************************)
CONSTANTS
  Ifaces,        \* the interfaces whose modules are loaded on this machine
  InitMayFail    \* whether platform or input device creation may fail

Wmi     == "clevo_wmi"
Acpi    == "clevo_acpi"
Uniwill == "uniwill_wmi"
None    == "none"

ASSUME IfacesAssumption == Ifaces \subseteq {Wmi, Acpi, Uniwill}
ASSUME InitMayFailAssumption == InitMayFail \in BOOLEAN

Clevo   == {Wmi, Acpi} \cap Ifaces
Threads == Ifaces \cup {"exit"}
Drivers == {"clevo", "uniwill"}

\* The struct tuxedo_keyboard_driver an interface's add and remove pass on.
DriverOf(i) == IF i = Uniwill THEN "uniwill" ELSE "clevo"

\* platform_driver.driver.name: both drivers are called DRIVER_NAME.
PlatformName(d) == "tuxedo_keyboard"

VARIABLES
  loaded,      \* the module is loaded and not being unloaded
  pc,          \* where each thread is
  slots,       \* interfaces stored in clevo_interfaces / uniwill_interfaces
  active,      \* active_clevo_interface
  clevoLock,   \* holder of clevo_keyboard_interface_modification_lock
  uwLock,      \* holder of uniwill_interface_modification_lock
  initLock,    \* holder of tuxedo_keyboard_init_driver_lock
  platDev,     \* tuxedo_platform_device: a Pointer or "err" (an ERR_PTR)
  current,     \* current_driver
  inputDev,    \* tuxedo_input_device: a Pointer
  drvInput,    \* input_device of each tuxedo_keyboard_driver: a Pointer
  busDev,      \* a platform device "tuxedo_keyboard" is registered
  busDrv,      \* the platform driver "tuxedo_keyboard" that is registered
  faults       \* what went wrong so far (no code: it observes the model)

statics == <<slots, active, platDev, current, inputDev, drvInput>>
locks   == <<clevoLock, uwLock, initLock>>
bus     == <<busDev, busDrv>>
vars    == <<loaded, pc, statics, locks, bus, faults>>

\* A pointer that may outlive what it points to.
Pointer == {"null", "live", "stale"}

Adding   == {"check_active", "init_lock", "bundle", "assign", "input",
             "publish", "publish_noinput"}
Removing == {"rm_name", "rm_input", "rm_input_clear", "rm_dev",
             "rm_dev_clear", "rm_drv", "rm_drv_clear", "rm_return"}
Idle     == {"out", "in"}

\* The registered platform device is bound to driver d.
Bound(d) == busDev /\ busDrv = d

\* Every variable keeps to its values: the statics never hold a pointer of a
\* kind the code does not look for, and the mutexes only threads that take them.
TypeOK ==
  /\ loaded \in BOOLEAN
  /\ pc \in [Threads -> Idle \cup Adding \cup Removing \cup {"oops"}]
  /\ slots \subseteq Ifaces
  /\ active \in Clevo \cup {None}
  /\ clevoLock \in Clevo \cup {None}
  /\ uwLock \in Ifaces \cup {None}
  /\ initLock \in Ifaces \cup {None}
  /\ platDev \in Pointer \cup {"err"}
  /\ current \in Drivers \cup {None}
  /\ inputDev \in Pointer
  /\ drvInput \in [Drivers -> Pointer]
  /\ busDev \in BOOLEAN
  /\ busDrv \in Drivers \cup {None}
  /\ faults \subseteq {"null_deref", "use_after_free", "bad_unregister"}

Init ==
  /\ loaded = TRUE
  /\ pc = [t \in Threads |-> "out"]
  /\ slots = {}
  /\ active = None
  /\ clevoLock = None /\ uwLock = None /\ initLock = None
  /\ platDev = "null"
  /\ current = None
  /\ inputDev = "null"
  /\ drvInput = [d \in Drivers |-> "null"]
  /\ busDev = FALSE /\ busDrv = None
  /\ faults = {}

Goto(t, l)      == pc' = [pc EXCEPT ![t] = l]
Step(t, from, to) == pc[t] = from /\ Goto(t, to)

-----------------------------------------------------------------------------
(***************************************************************************)
(* Mutated forms of some of the actions below.  No specification uses      *)
(* them: each is a slip the properties at the end are there to catch.      *)
(***************************************************************************)

\* The ACPI interface does not take priority over a WMI one.
AddClevoNoPriority(i) ==
  /\ loaded
  /\ i \in Clevo
  /\ Step(i, "out", "check_active")
  /\ clevoLock = None
  /\ slots' = slots \cup {i}
  /\ active' = IF active = None THEN i ELSE active
  /\ UNCHANGED <<loaded, platDev, current, inputDev, drvInput, locks, bus, faults>>

\* The last interface to come is the active one.
AddClevoLastWins(i) ==
  /\ loaded
  /\ i \in Clevo
  /\ Step(i, "out", "check_active")
  /\ clevoLock = None
  /\ slots' = slots \cup {i}
  /\ active' = i
  /\ UNCHANGED <<loaded, platDev, current, inputDev, drvInput, locks, bus, faults>>

\* An early return that forgets to unlock.
AlreadyInitialisedKeepsLock(i) ==
  /\ platDev \notin {"null", "err"}
  /\ Step(i, "bundle", "in")
  /\ UNCHANGED <<loaded, statics, locks, bus, faults>>

\* The error pointer is kept in the wrong static.
BundleFailsInCurrent(i) ==
  /\ platDev \in {"null", "err"}
  /\ InitMayFail \/ busDev \/ busDrv # None
  /\ Step(i, "bundle", "in")
  /\ current' = "err"
  /\ initLock' = None
  /\ UNCHANGED <<loaded, slots, active, platDev, inputDev, drvInput, clevoLock, uwLock, bus, faults>>

\* The driver keeps the input device of its previous life.
PublishKeepsInput(i) ==
  /\ Step(i, "publish", "in") \/ Step(i, "publish_noinput", "in")
  /\ drvInput' = IF drvInput[DriverOf(i)] = "null"
                 THEN [drvInput EXCEPT ![DriverOf(i)] = inputDev] ELSE drvInput
  /\ current' = DriverOf(i)
  /\ initLock' = None
  /\ UNCHANGED <<loaded, slots, active, platDev, inputDev, clevoLock, uwLock, bus, faults>>

\* The driver is removed even if the interface is not the active one.
RemoveClevoAlways(i) ==
  /\ loaded
  /\ i \in Clevo
  /\ clevoLock = None
  /\ slots' = slots \ {i}
  /\ Step(i, "in", "rm_name")
  /\ clevoLock' = i
  /\ UNCHANGED <<loaded, active, platDev, current, inputDev, drvInput, uwLock, initLock, bus, faults>>

\* The slot is cleared before the driver is removed.
RemoveUniwillSlotFirst(i) ==
  /\ loaded
  /\ i = Uniwill
  /\ uwLock = None
  /\ Step(i, "in", "rm_name")
  /\ uwLock' = i
  /\ slots' = slots \ {i}
  /\ UNCHANGED <<loaded, active, platDev, current, inputDev, drvInput, clevoLock, initLock, bus, faults>>

\* platform_driver_unregister is left out.
DriverUnregisterSkipped(t) ==
  /\ Step(t, "rm_drv", IF current = None THEN "rm_return" ELSE "rm_drv_clear")
  /\ UNCHANGED <<loaded, statics, locks, bus, faults>>

\* current_driver is not reset.
DriverClearSkipped(t) ==
  /\ Step(t, "rm_drv_clear", "rm_return")
  /\ UNCHANGED <<loaded, statics, locks, bus, faults>>

\* active_clevo_interface is not reset.
ReturnClevoKeepsActive(i) ==
  /\ i \in Clevo
  /\ Step(i, "rm_return", "out")
  /\ clevoLock' = None
  /\ UNCHANGED <<loaded, statics, uwLock, initLock, bus, faults>>

-----------------------------------------------------------------------------
(***************************************************************************)
(* Registering an interface.                                               *)
(***************************************************************************)

\* The critical section of clevo_keyboard_add_interface: the slot is filled
\* and the active interface chosen.
AddClevo(i) ==
  /\ loaded
  /\ i \in Clevo
  /\ Step(i, "out", "check_active")
  /\ clevoLock = None
  /\ slots' = slots \cup {i}
  /\ active' = IF i = Acpi \/ active = None THEN i ELSE active
  /\ UNCHANGED <<loaded, platDev, current, inputDev, drvInput, locks, bus, faults>>

\* active_clevo_interface is read again after the unlock.
CheckActive(i) ==
  /\ Step(i, "check_active", IF active = None THEN "in" ELSE "init_lock")
  /\ UNCHANGED <<loaded, statics, locks, bus, faults>>

\* uniwill_add_interface fills its slot and always goes on to init_driver.
AddUniwill(i) ==
  /\ loaded
  /\ i = Uniwill
  /\ Step(i, "out", "init_lock")
  /\ uwLock = None
  /\ slots' = slots \cup {i}
  /\ UNCHANGED <<loaded, active, platDev, current, inputDev, drvInput, locks, bus, faults>>

(***************************************************************************)
(* tuxedo_keyboard_init_driver, under its own mutex.                       *)
(***************************************************************************)
InitLock(i) ==
  /\ initLock = None
  /\ Step(i, "init_lock", "bundle")
  /\ initLock' = i
  /\ UNCHANGED <<loaded, statics, clevoLock, uwLock, bus, faults>>

\* IS_ERR_OR_NULL(tuxedo_platform_device)
NoPlatDev == platDev \in {"null", "err"}

AlreadyInitialised(i) ==
  /\ ~NoPlatDev
  /\ Step(i, "bundle", "in")
  /\ initLock' = None
  /\ UNCHANGED <<loaded, statics, clevoLock, uwLock, bus, faults>>

\* platform_create_bundle succeeds: device and driver are registered and
\* bound, but tuxedo_platform_device is not assigned yet.
CreateBundle(i) ==
  /\ NoPlatDev
  /\ ~busDev /\ busDrv = None
  /\ Step(i, "bundle", "assign")
  /\ busDev' = TRUE
  /\ busDrv' = DriverOf(i)
  /\ UNCHANGED <<loaded, statics, locks, faults>>

\* platform_create_bundle fails, because the name is taken on the platform
\* bus or for a reason of its own, and its ERR_PTR is kept.
BundleFails(i) ==
  /\ NoPlatDev
  /\ InitMayFail \/ busDev \/ busDrv # None
  /\ Step(i, "bundle", "in")
  /\ platDev' = "err"
  /\ initLock' = None
  /\ UNCHANGED <<loaded, slots, active, current, inputDev, drvInput, clevoLock, uwLock, bus, faults>>

AssignDevice(i) ==
  /\ Step(i, "assign", "input")
  /\ platDev' = "live"
  /\ UNCHANGED <<loaded, slots, active, current, inputDev, drvInput, locks, bus, faults>>

\* tuxedo_input_init: a failed allocation leaves NULL behind, a failed
\* keymap setup or registration leaves a pointer to the freed device.
InputInit(i) ==
  /\ \/ Step(i, "input", "publish") /\ inputDev' = "live"
     \/ InitMayFail /\ Step(i, "input", "publish_noinput") /\ inputDev' \in {"null", "stale"}
  /\ UNCHANGED <<loaded, slots, active, platDev, current, drvInput, locks, bus, faults>>

\* The driver gets its input device (read back from the global) and becomes
\* the current one.
Publish(i) ==
  /\ \/ /\ Step(i, "publish", "in")
        /\ drvInput' = [drvInput EXCEPT ![DriverOf(i)] = inputDev]
     \/ /\ Step(i, "publish_noinput", "in")
        /\ drvInput' = [drvInput EXCEPT ![DriverOf(i)] = "null"]
  /\ current' = DriverOf(i)
  /\ initLock' = None
  /\ UNCHANGED <<loaded, slots, active, platDev, inputDev, clevoLock, uwLock, bus, faults>>

-----------------------------------------------------------------------------
(***************************************************************************)
(* Unregistering an interface.                                             *)
(***************************************************************************)

\* An interface that is not the active one only leaves its slot; removing
\* the active one goes on to remove_driver with the mutex held.
RemoveClevo(i) ==
  /\ loaded
  /\ i \in Clevo
  /\ clevoLock = None
  /\ slots' = slots \ {i}
  /\ \/ active = i /\ Step(i, "in", "rm_name") /\ clevoLock' = i
     \/ active # i /\ Step(i, "in", "out") /\ UNCHANGED clevoLock
  /\ UNCHANGED <<loaded, active, platDev, current, inputDev, drvInput, uwLock, initLock, bus, faults>>

\* uniwill_remove_interface clears its slot only after remove_driver.
RemoveUniwill(i) ==
  /\ loaded
  /\ i = Uniwill
  /\ uwLock = None
  /\ Step(i, "in", "rm_name")
  /\ uwLock' = i
  /\ UNCHANGED <<loaded, statics, clevoLock, initLock, bus, faults>>

(***************************************************************************)
(* tuxedo_keyboard_remove_driver, which does not take the init mutex.  A   *)
(* NULL dereference kills the thread with its mutexes held; a use after    *)
(* free may do that too or go unnoticed.                                   *)
(***************************************************************************)
Survives(t, l) == Goto(t, l) \/ Goto(t, "oops")

CompareNames(i) ==
  /\ pc[i] = "rm_name"
  /\ \/ /\ current = None
        /\ Goto(i, "oops")
        /\ faults' = faults \cup {"null_deref"}
     \/ /\ current # None
        /\ Goto(i, IF PlatformName(DriverOf(i)) # PlatformName(current)
                   THEN "rm_return" ELSE "rm_input")
        /\ UNCHANGED faults
  /\ UNCHANGED <<loaded, statics, locks, bus>>

\* input_unregister_device frees the device: references to it go stale.
InputExit(t) ==
  /\ pc[t] = "rm_input"
  /\ \/ inputDev = "null" /\ Goto(t, "rm_dev") /\ UNCHANGED <<inputDev, drvInput, faults>>
     \/ /\ inputDev = "live"
        /\ Goto(t, "rm_input_clear")
        /\ inputDev' = "stale"
        /\ drvInput' = [d \in Drivers |-> IF drvInput[d] = "live" THEN "stale" ELSE drvInput[d]]
        /\ UNCHANGED faults
     \/ /\ inputDev = "stale"
        /\ Survives(t, "rm_input_clear")
        /\ faults' = faults \cup {"use_after_free"}
        /\ UNCHANGED <<inputDev, drvInput>>
  /\ UNCHANGED <<loaded, slots, active, platDev, current, locks, bus>>

InputClear(t) ==
  /\ Step(t, "rm_input_clear", "rm_dev")
  /\ inputDev' = "null"
  /\ UNCHANGED <<loaded, slots, active, platDev, current, drvInput, locks, bus, faults>>

DeviceUnregister(t) ==
  /\ pc[t] = "rm_dev"
  /\ \/ NoPlatDev /\ Goto(t, "rm_drv") /\ UNCHANGED <<platDev, busDev, faults>>
     \/ /\ platDev = "live"
        /\ Goto(t, "rm_dev_clear")
        /\ platDev' = "stale"
        /\ busDev' = FALSE
        /\ UNCHANGED faults
     \/ /\ platDev = "stale"
        /\ Survives(t, "rm_dev_clear")
        /\ faults' = faults \cup {"use_after_free"}
        /\ UNCHANGED <<platDev, busDev>>
  /\ UNCHANGED <<loaded, slots, active, current, inputDev, drvInput, locks, busDrv>>

DeviceClear(t) ==
  /\ Step(t, "rm_dev_clear", "rm_drv")
  /\ platDev' = "null"
  /\ UNCHANGED <<loaded, slots, active, current, inputDev, drvInput, locks, bus, faults>>

\* Unregistering a platform driver that is not registered is a kernel warning.
DriverUnregister(t) ==
  /\ \/ current = None /\ Step(t, "rm_drv", "rm_return") /\ UNCHANGED <<busDrv, faults>>
     \/ /\ current # None
        /\ Step(t, "rm_drv", "rm_drv_clear")
        /\ busDrv' = IF busDrv = current THEN None ELSE busDrv
        /\ faults' = IF busDrv = current THEN faults ELSE faults \cup {"bad_unregister"}
  /\ UNCHANGED <<loaded, statics, locks, busDev>>

DriverClear(t) ==
  /\ Step(t, "rm_drv_clear", "rm_return")
  /\ current' = None
  /\ UNCHANGED <<loaded, slots, active, platDev, inputDev, drvInput, locks, bus, faults>>

\* Back in the caller: the interface is gone and its mutex released.
ReturnClevo(i) ==
  /\ i \in Clevo
  /\ Step(i, "rm_return", "out")
  /\ active' = None
  /\ clevoLock' = None
  /\ UNCHANGED <<loaded, slots, platDev, current, inputDev, drvInput, uwLock, initLock, bus, faults>>

ReturnUniwill(i) ==
  /\ i = Uniwill
  /\ Step(i, "rm_return", "out")
  /\ slots' = slots \ {i}
  /\ uwLock' = None
  /\ UNCHANGED <<loaded, active, platDev, current, inputDev, drvInput, clevoLock, initLock, bus, faults>>

-----------------------------------------------------------------------------
(***************************************************************************)
(* Loading and unloading the module itself.  The interface modules use its *)
(* symbols, so it can go only when none of their devices is bound.         *)
(***************************************************************************)
ModuleExit ==
  /\ loaded
  /\ \A i \in Ifaces : pc[i] = "out"
  /\ loaded' = FALSE
  /\ Goto("exit", IF platDev # "null" THEN "rm_input" ELSE "out")
  /\ UNCHANGED <<statics, locks, bus, faults>>

ReturnExit ==
  /\ Step("exit", "rm_return", "out")
  /\ UNCHANGED <<loaded, statics, locks, bus, faults>>

\* A fresh copy of the module's data; what is left on the bus stays there.
ModuleInit ==
  /\ ~loaded
  /\ pc["exit"] = "out"
  /\ loaded' = TRUE
  /\ slots' = {}
  /\ active' = None
  /\ clevoLock' = None /\ uwLock' = None /\ initLock' = None
  /\ platDev' = "null"
  /\ current' = None
  /\ inputDev' = "null"
  /\ drvInput' = [d \in Drivers |-> "null"]
  /\ UNCHANGED <<pc, bus, faults>>

-----------------------------------------------------------------------------
RemoveDriver(t) ==
  \/ InputExit(t) \/ InputClear(t)
  \/ DeviceUnregister(t) \/ DeviceClear(t)
  \/ DriverUnregister(t) \/ DriverClear(t)

\* What a thread inside add or remove does next, its lock waits apart.
Advance(i) ==
  \/ CheckActive(i)
  \/ AlreadyInitialised(i) \/ CreateBundle(i) \/ BundleFails(i)
  \/ AssignDevice(i) \/ InputInit(i) \/ Publish(i)
  \/ CompareNames(i) \/ RemoveDriver(i)
  \/ ReturnClevo(i) \/ ReturnUniwill(i)

Begin(i) == AddClevo(i) \/ AddUniwill(i) \/ RemoveClevo(i) \/ RemoveUniwill(i)

AdvanceExit == RemoveDriver("exit") \/ ReturnExit

Next ==
  \/ \E i \in Ifaces : Begin(i) \/ InitLock(i) \/ Advance(i)
  \/ ModuleExit \/ AdvanceExit \/ ModuleInit

(***************************************************************************)
(* A running thread keeps running, and mutex_lock hands the mutex to a     *)
(* waiter before a newcomer can take it for ever.  Nothing makes anybody   *)
(* load or unload a module.                                                *)
(***************************************************************************)
Fairness ==
  /\ \A i \in Ifaces : WF_vars(Advance(i)) /\ SF_vars(InitLock(i))
  /\ WF_vars(AdvanceExit)

Spec == Init /\ [][Next]_vars /\ Fairness

(***************************************************************************)
(* The calm environment: a removal or a module unload starts only when     *)
(* nothing else is inside the module, and nothing starts while it runs     *)
(* (rmmod by hand or by the package scripts, one module after the other).  *)
(* Loading stays concurrent.                                               *)
(***************************************************************************)
Calm ==
  \A t \in Threads : pc[t] \in Removing =>
    \A u \in Threads \ {t} : pc[u] \in Idle

CalmNext == Next /\ Calm'

CalmSpec == Init /\ [][CalmNext]_vars /\ Fairness

-----------------------------------------------------------------------------
(***************************************************************************)
(* Safety under any interleaving, with any initialisation failing.         *)
(***************************************************************************)

\* Whenever no removal holds the Clevo mutex, active_clevo_interface names an
\* interface that is registered, or none: it never goes on naming one whose
\* module has left.  (This is about the pointer.  A call that has read it takes
\* no lock and is another matter, which ClevoIo models.)
ActiveIsRegistered ==
  clevoLock = None => active \in slots \cup {None}

\* "takes priority": while the ACPI interface is registered, it is the one
\* firmware calls go to, in whatever order the modules were loaded.
AcpiPriority ==
  clevoLock = None /\ Acpi \in slots => active = Acpi

\* The module implements the abstract arbiter.  A removal takes effect when
\* it returns: until then the interface that holds the mutex counts as
\* registered.
Arbiter ==
  INSTANCE ClevoArbiter
    WITH registered <- (slots \cap Clevo) \cup ({clevoLock} \ {None})

\* The same, as a property.
ArbiterSpec == Arbiter!Spec

(***************************************************************************)
(* When unloads do not overlap with anything else.                         *)
(***************************************************************************)

\* No teardown dereferences NULL, touches freed memory or unregisters a
\* driver that is not registered.
NoTeardownFault == faults = {}

\* Between calls, the platform device, the current driver and the input
\* device exist together, and exactly as long as there is an active
\* interface to serve.
ServedWhenQuiet ==
  (\A t \in Threads : pc[t] \in Idle) =>
    /\ active # None <=> Bound("clevo")
    /\ active # None <=> current = "clevo"
    /\ active # None <=> inputDev = "live"

\* An unloaded module leaves nothing on the platform bus or in the input
\* layer that would call back into it.
NothingLeftBehind ==
  ~loaded /\ pc["exit"] = "out" =>
    ~busDev /\ busDrv = None /\ inputDev # "live"

\* Outside a removal, the input device that current_driver leads to, where
\* clevo_keyboard_event_callb reports its keys, has not been freed.  (What
\* uniwill_event_callb reads from its own driver is not looked at.)
EventTargetLive ==
  (\A t \in Threads : pc[t] \notin Removing) =>
    (current # None => drvInput[current] # "stale")

\* Every registration and removal returns.
CallsReturn ==
  \A t \in Threads : pc[t] \notin Idle ~> pc[t] \in Idle

\* The platform driver of Uniwill goes away only while its interface is
\* still in its slot: the EC writes of uniwill_keyboard_remove (manual fan
\* mode off, backlight restored) need it.
UniwillTeardownHasEc ==
  [][Bound("uniwill") /\ ~Bound("uniwill")' => Uniwill \in slots]_vars

(***************************************************************************)
(* What two comments say, and the code does not do.                        *)
(***************************************************************************)

\* "Normal case probe failed, no init": an interface whose driver could not
\* be initialised can be removed again without a NULL dereference.
FailedInitIsNormal == "null_deref" \notin faults

\* "Remove driver if last interface is removed": a driver is unbound only
\* by the removal of an interface of its own.
OnlyLastInterfaceRemovesDriver ==
  [][\A d \in Drivers :
       Bound(d) /\ ~Bound(d)' =>
         \E t \in Threads : pc[t] \in Removing /\ (t = "exit" \/ DriverOf(t) = d)]_vars

=============================================================================
