------------------------ MODULE TuxedoKeyboardProofs ------------------------
(***************************************************************************)
(* Proofs about TuxedoKeyboard.  For every set of interfaces, with or      *)
(* without failing initialisation, under any interleaving: the type        *)
(* invariant, that the active Clevo interface is a registered one, that    *)
(* ACPI has priority, that the module implements ClevoArbiter, and that    *)
(* the Uniwill driver is unbound only while its interface is in its slot.  *)
(* For the interfaces of one family, when no initialisation fails and      *)
(* unloads overlap with nothing: a removal takes down all that an add has  *)
(* built and touches nothing that is gone.                                 *)
(***************************************************************************)
EXTENDS TuxedoKeyboard, TLAPS

(***************************************************************************)
(* The inductive invariant.  ActiveIsRegistered and AcpiPriority speak of  *)
(* moments when the Clevo mutex is free; what keeps them true is what      *)
(* holds while a removal has it.                                           *)
(***************************************************************************)

\* A removal of a Clevo interface runs with the mutex, and the mutex is held
\* across steps by such a removal only (or by its dead thread).
HolderInv ==
  /\ \A i \in Clevo : pc[i] \in Removing => clevoLock = i
  /\ clevoLock # None => pc[clevoLock] \in Removing \cup {"oops"}

\* A Clevo interface is in its slot from its add until its removal begins.
SlotInv ==
  \A i \in Clevo : i \in slots <=> pc[i] \in Adding \cup {"in"}

\* Who is active, also while a removal runs.
ActiveInv ==
  /\ clevoLock # None => active = clevoLock
  /\ clevoLock = None => active \in slots \cup {None}
  /\ Acpi \in slots => active = Acpi

\* The module goes only when every interface is out.
UnloadInv ==
  ~loaded => \A i \in Ifaces : pc[i] = "out"

IInv == TypeOK /\ HolderInv /\ SlotInv /\ ActiveInv /\ UnloadInv

\* The step of some thread, as one disjunction over the actions.
LEMMA NextCases ==
  ASSUME Next
  PROVE  \/ \E i \in Ifaces :
              \/ AddClevo(i) \/ AddUniwill(i) \/ RemoveClevo(i) \/ RemoveUniwill(i)
              \/ InitLock(i) \/ CheckActive(i) \/ AlreadyInitialised(i)
              \/ CreateBundle(i) \/ BundleFails(i) \/ AssignDevice(i)
              \/ InputInit(i) \/ Publish(i) \/ CompareNames(i)
              \/ ReturnClevo(i) \/ ReturnUniwill(i)
         \/ \E t \in Threads :
              \/ InputExit(t) \/ InputClear(t)
              \/ DeviceUnregister(t) \/ DeviceClear(t)
              \/ DriverUnregister(t) \/ DriverClear(t)
         \/ ModuleExit \/ ReturnExit \/ ModuleInit
BY DEF Next, Begin, Advance, AdvanceExit, RemoveDriver, Threads

\* Ifaces are threads, and none of them is the thread of module_exit.
LEMMA ThreadFacts ==
  /\ Ifaces \subseteq Threads
  /\ "exit" \in Threads \ Ifaces
  /\ Clevo \subseteq Ifaces
  /\ Acpi # Wmi /\ Acpi # Uniwill /\ Uniwill \notin Clevo
  /\ None \notin Ifaces
  /\ \A i \in Ifaces : DriverOf(i) \in Drivers
BY IfacesAssumption DEF Threads, Clevo, Wmi, Acpi, Uniwill, None, DriverOf, Drivers

\* Each variable stays in its type, whichever step is taken.
LEMMA TypeStep == TypeOK /\ [Next]_vars => TypeOK'
<1> SUFFICES ASSUME TypeOK, [Next]_vars PROVE TypeOK'
  OBVIOUS
<1> USE ThreadFacts DEF TypeOK, Goto, Step, Idle, Adding, Removing, Pointer
<1>1. CASE UNCHANGED vars
  BY <1>1 DEF vars, statics, locks, bus
<1>2. ASSUME NEW i \in Ifaces, AddClevo(i) PROVE TypeOK'
  BY <1>2 DEF AddClevo, statics, locks, bus
<1>3. ASSUME NEW i \in Ifaces, CheckActive(i) PROVE TypeOK'
  BY <1>3 DEF CheckActive, statics, locks, bus
<1>4. ASSUME NEW i \in Ifaces, AddUniwill(i) PROVE TypeOK'
  BY <1>4 DEF AddUniwill, statics, locks, bus
<1>5. ASSUME NEW i \in Ifaces, InitLock(i) PROVE TypeOK'
  BY <1>5 DEF InitLock, statics, locks, bus
<1>6. ASSUME NEW i \in Ifaces, AlreadyInitialised(i) PROVE TypeOK'
  BY <1>6 DEF AlreadyInitialised, statics, locks, bus
<1>7. ASSUME NEW i \in Ifaces, CreateBundle(i) PROVE TypeOK'
  BY <1>7 DEF CreateBundle, statics, locks, bus
<1>8. ASSUME NEW i \in Ifaces, BundleFails(i) PROVE TypeOK'
  BY <1>8 DEF BundleFails, statics, locks, bus
<1>9. ASSUME NEW i \in Ifaces, AssignDevice(i) PROVE TypeOK'
  BY <1>9 DEF AssignDevice, statics, locks, bus
<1>10. ASSUME NEW i \in Ifaces, InputInit(i) PROVE TypeOK'
  BY <1>10 DEF InputInit, statics, locks, bus
<1>11. ASSUME NEW i \in Ifaces, Publish(i) PROVE TypeOK'
  BY <1>11 DEF Publish, statics, locks, bus, Drivers
<1>12. ASSUME NEW i \in Ifaces, RemoveClevo(i) PROVE TypeOK'
  BY <1>12 DEF RemoveClevo, statics, locks, bus
<1>13. ASSUME NEW i \in Ifaces, RemoveUniwill(i) PROVE TypeOK'
  BY <1>13 DEF RemoveUniwill, statics, locks, bus
<1>14. ASSUME NEW i \in Ifaces, CompareNames(i) PROVE TypeOK'
  <2>1. pc' \in [Threads -> Idle \cup Adding \cup Removing \cup {"oops"}]
    BY <1>14 DEF CompareNames
  <2>2. faults' \subseteq {"null_deref", "use_after_free", "bad_unregister"}
    BY <1>14 DEF CompareNames
  <2> QED
    BY <1>14, <2>1, <2>2 DEF CompareNames, statics, locks, bus
<1>15. ASSUME NEW i \in Ifaces, ReturnClevo(i) PROVE TypeOK'
  BY <1>15 DEF ReturnClevo, statics, locks, bus
<1>16. ASSUME NEW i \in Ifaces, ReturnUniwill(i) PROVE TypeOK'
  BY <1>16 DEF ReturnUniwill, statics, locks, bus
<1>17. ASSUME NEW t \in Threads, InputExit(t) PROVE TypeOK'
  <2>1. pc' \in [Threads -> Idle \cup Adding \cup Removing \cup {"oops"}]
    BY <1>17 DEF InputExit, Survives
  <2>2. faults' \subseteq {"null_deref", "use_after_free", "bad_unregister"}
    BY <1>17 DEF InputExit
  <2> QED
    BY <1>17, <2>1, <2>2 DEF InputExit, statics, locks, bus
<1>18. ASSUME NEW t \in Threads, InputClear(t) PROVE TypeOK'
  BY <1>18 DEF InputClear, statics, locks, bus
<1>19. ASSUME NEW t \in Threads, DeviceUnregister(t) PROVE TypeOK'
  <2>1. pc' \in [Threads -> Idle \cup Adding \cup Removing \cup {"oops"}]
    BY <1>19 DEF DeviceUnregister, Survives
  <2>2. faults' \subseteq {"null_deref", "use_after_free", "bad_unregister"}
    BY <1>19 DEF DeviceUnregister
  <2>3. platDev' \in Pointer \cup {"err"}
    BY <1>19 DEF DeviceUnregister
  <2>4. busDev' \in BOOLEAN
    BY <1>19 DEF DeviceUnregister
  <2> QED
    BY <1>19, <2>1, <2>2, <2>3, <2>4 DEF DeviceUnregister, locks
<1>20. ASSUME NEW t \in Threads, DeviceClear(t) PROVE TypeOK'
  BY <1>20 DEF DeviceClear, statics, locks, bus
<1>21. ASSUME NEW t \in Threads, DriverUnregister(t) PROVE TypeOK'
  <2>1. pc' \in [Threads -> Idle \cup Adding \cup Removing \cup {"oops"}]
    BY <1>21 DEF DriverUnregister
  <2>2. faults' \subseteq {"null_deref", "use_after_free", "bad_unregister"}
    <3>1. faults' = faults \/ faults' = faults \cup {"bad_unregister"}
      BY <1>21 DEF DriverUnregister
    <3> QED
      BY <3>1
  <2>3. busDrv' \in Drivers \cup {None}
    BY <1>21 DEF DriverUnregister
  <2> QED
    BY <1>21, <2>1, <2>2, <2>3 DEF DriverUnregister, statics, locks
<1>22. ASSUME NEW t \in Threads, DriverClear(t) PROVE TypeOK'
  BY <1>22 DEF DriverClear, statics, locks, bus
<1>23. CASE ModuleExit
  BY <1>23, ZenonT(30) DEF ModuleExit, statics, locks, bus
<1>24. CASE ReturnExit
  BY <1>24 DEF ReturnExit, statics, locks, bus
<1>25. CASE ModuleInit
  BY <1>25 DEF ModuleInit, statics, locks, bus
<1> QED
  BY NextCases, <1>1, <1>2, <1>3, <1>4, <1>5, <1>6, <1>7, <1>8, <1>9, <1>10, <1>11, <1>12, <1>13, <1>14, <1>15, <1>16, <1>17, <1>18, <1>19, <1>20, <1>21, <1>22, <1>23, <1>24, <1>25 DEF vars

-----------------------------------------------------------------------------
\* A step of thread t inside its add or inside its removal that touches
\* nothing of the choice of the Clevo interface.
Inside(t) ==
  /\ pc' = [pc EXCEPT ![t] = pc'[t]]
  /\ \/ pc[t] \in Adding /\ pc'[t] \in Adding \cup {"in"}
     \/ pc[t] \in Removing /\ pc'[t] \in Removing \cup {"oops"}
  /\ UNCHANGED <<loaded, slots, active, clevoLock>>

\* Every step but the first and the last of an add or a removal is one.
LEMMA InsideSteps ==
  ASSUME TypeOK
  PROVE  /\ \A i \in Ifaces :
              \/ InitLock(i) \/ CheckActive(i) \/ AlreadyInitialised(i)
              \/ CreateBundle(i) \/ BundleFails(i) \/ AssignDevice(i)
              \/ InputInit(i) \/ Publish(i) \/ CompareNames(i)
              => Inside(i)
         /\ \A t \in Threads : RemoveDriver(t) => Inside(t)
<1> USE ThreadFacts DEF TypeOK, Inside, Goto, Step, Adding, Removing, Idle, statics, locks
<1>1. ASSUME NEW i \in Ifaces, InitLock(i) PROVE Inside(i)
  BY <1>1 DEF InitLock
<1>2. ASSUME NEW i \in Ifaces, CheckActive(i) PROVE Inside(i)
  BY <1>2 DEF CheckActive
<1>3. ASSUME NEW i \in Ifaces, AlreadyInitialised(i) PROVE Inside(i)
  BY <1>3 DEF AlreadyInitialised
<1>4. ASSUME NEW i \in Ifaces, CreateBundle(i) PROVE Inside(i)
  BY <1>4 DEF CreateBundle
<1>5. ASSUME NEW i \in Ifaces, BundleFails(i) PROVE Inside(i)
  BY <1>5 DEF BundleFails
<1>6. ASSUME NEW i \in Ifaces, AssignDevice(i) PROVE Inside(i)
  BY <1>6 DEF AssignDevice
<1>7. ASSUME NEW i \in Ifaces, InputInit(i) PROVE Inside(i)
  BY <1>7 DEF InputInit
<1>8. ASSUME NEW i \in Ifaces, Publish(i) PROVE Inside(i)
  BY <1>8 DEF Publish
<1>9. ASSUME NEW i \in Ifaces, CompareNames(i) PROVE Inside(i)
  BY <1>9 DEF CompareNames
<1>10. ASSUME NEW t \in Threads, InputExit(t) PROVE Inside(t)
  BY <1>10 DEF InputExit, Survives
<1>11. ASSUME NEW t \in Threads, InputClear(t) PROVE Inside(t)
  BY <1>11 DEF InputClear
<1>12. ASSUME NEW t \in Threads, DeviceUnregister(t) PROVE Inside(t)
  BY <1>12 DEF DeviceUnregister, Survives
<1>13. ASSUME NEW t \in Threads, DeviceClear(t) PROVE Inside(t)
  BY <1>13 DEF DeviceClear
<1>14. ASSUME NEW t \in Threads, DriverUnregister(t) PROVE Inside(t)
  BY <1>14 DEF DriverUnregister
<1>15. ASSUME NEW t \in Threads, DriverClear(t) PROVE Inside(t)
  BY <1>15 DEF DriverClear
<1> QED
  BY <1>1, <1>2, <1>3, <1>4, <1>5, <1>6, <1>7, <1>8, <1>9, <1>10, <1>11, <1>12, <1>13, <1>14, <1>15 DEF RemoveDriver

\* The rest of the invariant, beside the types.
ChoiceInv == HolderInv /\ SlotInv /\ ActiveInv /\ UnloadInv

\* The choice of the Clevo interface stays consistent, whichever step is
\* taken.
LEMMA ChoiceStep == IInv /\ [Next]_vars => ChoiceInv'
<1> SUFFICES ASSUME IInv, [Next]_vars PROVE ChoiceInv'
  OBVIOUS
<1> USE ThreadFacts DEF IInv, ChoiceInv, HolderInv, SlotInv, ActiveInv, UnloadInv, TypeOK,
        Goto, Step, Idle, Adding, Removing
<1>1. CASE UNCHANGED vars
  BY <1>1 DEF vars, statics, locks
<1>2. ASSUME NEW t \in Threads, Inside(t) PROVE ChoiceInv'
  <2>1. HolderInv'
    BY <1>2 DEF Inside
  <2>2. SlotInv'
    BY <1>2 DEF Inside
  <2>3. ActiveInv'
    BY <1>2 DEF Inside
  <2>4. UnloadInv'
    BY <1>2 DEF Inside
  <2> QED
    BY <2>1, <2>2, <2>3, <2>4
<1>3. ASSUME NEW i \in Ifaces, AddClevo(i) PROVE ChoiceInv'
  <2>1. HolderInv'
    BY <1>3 DEF AddClevo, statics, locks
  <2>2. SlotInv'
    BY <1>3 DEF AddClevo, statics, locks
  <2>3. ActiveInv'
    BY <1>3 DEF AddClevo, statics, locks
  <2>4. UnloadInv'
    BY <1>3 DEF AddClevo, statics, locks
  <2> QED
    BY <2>1, <2>2, <2>3, <2>4
<1>4. ASSUME NEW i \in Ifaces, RemoveClevo(i) PROVE ChoiceInv'
  <2>1. HolderInv'
    BY <1>4 DEF RemoveClevo, statics, locks
  <2>2. SlotInv'
    BY <1>4 DEF RemoveClevo, statics, locks
  <2>3. ActiveInv'
    BY <1>4 DEF RemoveClevo, statics, locks
  <2>4. UnloadInv'
    BY <1>4 DEF RemoveClevo, statics, locks
  <2> QED
    BY <2>1, <2>2, <2>3, <2>4
<1>5. ASSUME NEW i \in Ifaces, ReturnClevo(i) PROVE ChoiceInv'
  <2>1. HolderInv'
    BY <1>5 DEF ReturnClevo, statics, locks
  <2>2. SlotInv'
    BY <1>5 DEF ReturnClevo, statics, locks
  <2>3. ActiveInv'
    BY <1>5 DEF ReturnClevo, statics, locks
  <2>4. UnloadInv'
    BY <1>5 DEF ReturnClevo, statics, locks
  <2> QED
    BY <2>1, <2>2, <2>3, <2>4
<1>6. ASSUME NEW i \in Ifaces, AddUniwill(i) PROVE ChoiceInv'
  <2>1. HolderInv'
    BY <1>6 DEF AddUniwill, statics, locks
  <2>2. SlotInv'
    BY <1>6 DEF AddUniwill, statics, locks
  <2>3. ActiveInv'
    BY <1>6 DEF AddUniwill, statics, locks
  <2>4. UnloadInv'
    BY <1>6 DEF AddUniwill, statics, locks
  <2> QED
    BY <2>1, <2>2, <2>3, <2>4
<1>7. ASSUME NEW i \in Ifaces, RemoveUniwill(i) PROVE ChoiceInv'
  <2>1. HolderInv'
    BY <1>7 DEF RemoveUniwill, statics, locks
  <2>2. SlotInv'
    BY <1>7 DEF RemoveUniwill, statics, locks
  <2>3. ActiveInv'
    BY <1>7 DEF RemoveUniwill, statics, locks
  <2>4. UnloadInv'
    BY <1>7 DEF RemoveUniwill, statics, locks
  <2> QED
    BY <2>1, <2>2, <2>3, <2>4
<1>8. ASSUME NEW i \in Ifaces, ReturnUniwill(i) PROVE ChoiceInv'
  <2>1. HolderInv'
    BY <1>8 DEF ReturnUniwill, statics, locks
  <2>2. SlotInv'
    BY <1>8 DEF ReturnUniwill, statics, locks
  <2>3. ActiveInv'
    BY <1>8 DEF ReturnUniwill, statics, locks
  <2>4. UnloadInv'
    BY <1>8 DEF ReturnUniwill, statics, locks
  <2> QED
    BY <2>1, <2>2, <2>3, <2>4
<1>9. CASE ModuleExit
  BY <1>9 DEF ModuleExit, statics, locks
<1>10. CASE ReturnExit
  BY <1>10 DEF ReturnExit, statics, locks
<1>11. CASE ModuleInit
  BY <1>11 DEF ModuleInit, statics, locks
<1> QED
  BY NextCases, InsideSteps, <1>1, <1>2, <1>3, <1>4, <1>5, <1>6, <1>7, <1>8, <1>9, <1>10, <1>11 DEF RemoveDriver

-----------------------------------------------------------------------------
\* Loading the module establishes the invariant.
LEMMA InitInv == Init => IInv
BY ThreadFacts DEF Init, IInv, TypeOK, HolderInv, SlotInv, ActiveInv, UnloadInv,
   Threads, Idle, Adding, Removing, Pointer

\* The inductive invariant holds in every state of the module.
LEMMA Invariance == Spec => []IInv
<1>1. IInv /\ [Next]_vars => IInv'
  BY TypeStep, ChoiceStep DEF IInv, ChoiceInv
<1> QED
  BY InitInv, <1>1, PTL DEF Spec

\* Every variable stays in its type: no error pointer ends up where a driver
\* is expected, no lock is held by anyone but an interface.
THEOREM TypeCorrect == Spec => []TypeOK
<1>1. IInv => TypeOK
  BY DEF IInv
<1> QED
  BY Invariance, <1>1, PTL

\* With no removal holding the Clevo mutex, active_clevo_interface names a
\* registered interface or none, however probes, removals and failures
\* interleave (clevo_keyboard_add_interface, clevo_keyboard_remove_interface).
THEOREM ActiveInterfaceRegistered == Spec => []ActiveIsRegistered
<1>1. IInv => ActiveIsRegistered
  BY DEF IInv, ActiveInv, ActiveIsRegistered
<1> QED
  BY Invariance, <1>1, PTL

\* "takes priority": with the ACPI interface registered, the active one is
\* the ACPI one, however probes, removals and failures interleave.
THEOREM AcpiTakesPriority == Spec => []AcpiPriority
<1>1. IInv => AcpiPriority
  BY DEF IInv, ActiveInv, AcpiPriority
<1> QED
  BY Invariance, <1>1, PTL

-----------------------------------------------------------------------------
\* A step of the module is a step of the abstract arbiter or leaves it as it
\* is; a removal of the active interface takes effect in ReturnClevo.
LEMMA ArbiterStep == IInv /\ [Next]_vars => [Arbiter!Next]_(Arbiter!vars)
<1> SUFFICES ASSUME IInv, [Next]_vars
             PROVE  Arbiter!Next \/ UNCHANGED <<(slots \cap Clevo) \cup ({clevoLock} \ {None}), active>>
  BY DEF Arbiter!vars
<1> USE ThreadFacts DEF IInv, TypeOK
<1>1. CASE UNCHANGED vars
  BY <1>1 DEF vars, statics, locks
<1>2. ASSUME NEW t \in Threads, Inside(t)
      PROVE  UNCHANGED <<slots, active, clevoLock>>
  BY <1>2 DEF Inside
<1>3. ASSUME NEW i \in Ifaces, AddClevo(i) PROVE Arbiter!Register(i)
  BY <1>3 DEF AddClevo, Arbiter!Register, SlotInv, Step, Adding, locks
<1>4. ASSUME NEW i \in Ifaces, RemoveClevo(i)
      PROVE  Arbiter!Unregister(i)
             \/ UNCHANGED <<(slots \cap Clevo) \cup ({clevoLock} \ {None}), active>>
  <2>1. i \in slots /\ i \in Clevo
    BY <1>4 DEF RemoveClevo, SlotInv, Step
  <2>2. CASE active = i
    BY <1>4, <2>1, <2>2 DEF RemoveClevo, Step, Goto
  <2>3. CASE active # i
    BY <1>4, <2>1, <2>3 DEF RemoveClevo, Arbiter!Unregister
  <2> QED
    BY <2>2, <2>3
<1>5. ASSUME NEW i \in Ifaces, ReturnClevo(i) PROVE Arbiter!Unregister(i)
  <2>1. clevoLock = i /\ i \notin slots /\ active = i
    BY <1>5 DEF ReturnClevo, HolderInv, SlotInv, ActiveInv, Step, Removing, Adding
  <2> QED
    BY <1>5, <2>1 DEF ReturnClevo, Arbiter!Unregister
<1>6. ASSUME NEW i \in Ifaces, AddUniwill(i) \/ RemoveUniwill(i) \/ ReturnUniwill(i)
      PROVE  UNCHANGED <<slots \cap Clevo, clevoLock, active>>
  BY <1>6 DEF AddUniwill, RemoveUniwill, ReturnUniwill, statics, locks
<1>7. CASE ModuleExit \/ ReturnExit
  BY <1>7 DEF ModuleExit, ReturnExit, statics, locks
<1>8. CASE ModuleInit
  <2>1. \A i \in Clevo : i \notin slots
    BY <1>8 DEF ModuleInit, UnloadInv, SlotInv, Adding
  <2>2. clevoLock = None
    BY <1>8 DEF ModuleInit, UnloadInv, HolderInv, Removing
  <2>3. active = None
    BY <2>1, <2>2 DEF ActiveInv
  <2> QED
    BY <1>8, <2>1, <2>2, <2>3 DEF ModuleInit
<1>9. \A i \in Clevo : Arbiter!Register(i) \/ Arbiter!Unregister(i) => Arbiter!Next
  BY DEF Arbiter!Next, Clevo
<1> QED
  BY NextCases, InsideSteps, <1>1, <1>2, <1>3, <1>4, <1>5, <1>6, <1>7, <1>8, <1>9
  DEF RemoveDriver, AddClevo, RemoveClevo, ReturnClevo

\* The module behaves towards the interface modules as the abstract arbiter
\* does, although its removal takes many steps and may die on the way.
THEOREM ImplementsArbiter == Spec => ArbiterSpec
<1>1. Init => Arbiter!Init
  BY DEF Init, Arbiter!Init
<1> QED
  BY Invariance, <1>1, ArbiterStep, PTL DEF Spec, ArbiterSpec, Arbiter!Spec

-----------------------------------------------------------------------------
(***************************************************************************)
(* Under any interleaving, the Uniwill driver goes away only while the     *)
(* Uniwill interface is in its slot.  A race of removals can leave the     *)
(* driver bound for good (Leaked); that it can then never be unbound at    *)
(* all is part of the argument.                                            *)
(***************************************************************************)

\* Where init_driver has registered the bundle and holds its mutex.
InInit == {"assign", "input", "publish", "publish_noinput"}

\* Where the thread of Uniwill may be while the driver it brought is bound.
Serving == InInit \cup {"in", "rm_name", "rm_input", "rm_input_clear", "rm_dev", "rm_drv", "oops"}

\* The statics know of no device and no driver, and nobody is about to tell
\* them: remove_driver finds nothing to unregister.
Leaked == NoPlatDev /\ current = None /\ \A i \in Ifaces : pc[i] \notin InInit

\* Uniwill is in its slot for as long as its thread is not out, and one
\* thread at a time is inside init_driver.
EntryInv ==
  /\ Uniwill \in Ifaces => (Uniwill \in slots <=> pc[Uniwill] # "out")
  /\ \A i \in Ifaces : pc[i] \in InInit \cup {"bundle"} => initLock = i

\* While the Uniwill driver is bound: no Clevo driver is being set up, the
\* device pointer is not stale, and unless it is leaked the Uniwill thread
\* has not finished a removal; current_driver is not Clevo's after the set
\* up, and the device is unregistered before the driver.
BoundInv ==
  Bound("uniwill") =>
    /\ Uniwill \in Ifaces
    /\ \A c \in Clevo : pc[c] \notin InInit
    /\ platDev # "stale"
    /\ pc[Uniwill] \in Serving \/ Leaked
    /\ pc[Uniwill] \notin InInit => current # "clevo"
    /\ pc[Uniwill] = "rm_drv" => platDev # "live"

EcInv == EntryInv /\ BoundInv

\* A step that leaves the slots, the init mutex and the set up alone.
LEMMA EntryKept ==
  ASSUME TypeOK, EntryInv, NEW t \in Threads, NEW l, pc' = [pc EXCEPT ![t] = l],
         slots' = slots, initLock' = initLock,
         t = Uniwill => (l = "out" <=> pc[t] = "out"),
         l \in InInit \cup {"bundle"} => pc[t] \in InInit \cup {"bundle"}
  PROVE  EntryInv'
BY ThreadFacts DEF EntryInv, TypeOK

\* Slots and init mutex stay in step with the threads.
LEMMA EntryStep == IInv /\ EntryInv /\ [Next]_vars => EntryInv'
<1> SUFFICES ASSUME IInv, EntryInv, [Next]_vars PROVE EntryInv'
  OBVIOUS
<1> USE ThreadFacts DEF IInv, EntryInv, TypeOK, Goto, Step, InInit
<1>1. CASE UNCHANGED vars
  BY <1>1 DEF vars, statics, locks
<1>2. ASSUME NEW i \in Ifaces, AddClevo(i) PROVE EntryInv'
  BY <1>2 DEF AddClevo, locks
<1>3. ASSUME NEW i \in Ifaces, CheckActive(i) PROVE EntryInv'
  BY <1>3 DEF CheckActive, statics, locks
<1>4. ASSUME NEW i \in Ifaces, AddUniwill(i) PROVE EntryInv'
  BY <1>4 DEF AddUniwill, locks
<1>5. ASSUME NEW i \in Ifaces, InitLock(i) PROVE EntryInv'
  BY <1>5 DEF InitLock, statics
<1>6. ASSUME NEW i \in Ifaces, AlreadyInitialised(i) PROVE EntryInv'
  BY <1>6 DEF AlreadyInitialised, statics
<1>7. ASSUME NEW i \in Ifaces, CreateBundle(i) PROVE EntryInv'
  BY <1>7 DEF CreateBundle, statics, locks
<1>8. ASSUME NEW i \in Ifaces, BundleFails(i) PROVE EntryInv'
  BY <1>8 DEF BundleFails
<1>9. ASSUME NEW i \in Ifaces, AssignDevice(i) PROVE EntryInv'
  BY <1>9 DEF AssignDevice, locks
<1>10. ASSUME NEW i \in Ifaces, InputInit(i) PROVE EntryInv'
  BY <1>10 DEF InputInit, locks
<1>11. ASSUME NEW i \in Ifaces, Publish(i) PROVE EntryInv'
  BY <1>11 DEF Publish
<1>12. ASSUME NEW i \in Ifaces, RemoveClevo(i) PROVE EntryInv'
  BY <1>12 DEF RemoveClevo
<1>13. ASSUME NEW i \in Ifaces, RemoveUniwill(i) PROVE EntryInv'
  BY <1>13 DEF RemoveUniwill, statics
<1>14. ASSUME NEW i \in Ifaces, CompareNames(i) PROVE EntryInv'
  BY <1>14 DEF CompareNames, statics, locks
<1>15. ASSUME NEW i \in Ifaces, ReturnClevo(i) PROVE EntryInv'
  BY <1>15 DEF ReturnClevo
<1>16. ASSUME NEW i \in Ifaces, ReturnUniwill(i) PROVE EntryInv'
  BY <1>16 DEF ReturnUniwill
<1>17. ASSUME NEW t \in Threads, RemoveDriver(t) PROVE EntryInv'
  <2>1. pc[t] \in Removing /\ initLock' = initLock
    BY <1>17 DEF RemoveDriver, InputExit, InputClear, DeviceUnregister, DeviceClear,
                 DriverUnregister, DriverClear, Removing, locks
  <2>2. Inside(t)
    BY <1>17, InsideSteps
  <2>3. pc' = [pc EXCEPT ![t] = pc'[t]] /\ pc'[t] \in Removing \cup {"oops"} /\ slots' = slots
    BY <2>1, <2>2 DEF Inside, Adding, Removing
  <2>4. (pc'[t] = "out" <=> pc[t] = "out") /\ pc'[t] \notin InInit \cup {"bundle"}
    BY <2>1, <2>3 DEF Removing
  <2> QED
    BY <2>1, <2>3, <2>4, EntryKept
<1>18. CASE ModuleExit
  BY <1>18 DEF ModuleExit, statics, locks
<1>19. CASE ReturnExit
  BY <1>19 DEF ReturnExit, statics, locks
<1>20. CASE ModuleInit
  BY <1>20 DEF ModuleInit, UnloadInv
<1> QED
  BY NextCases, <1>1, <1>2, <1>3, <1>4, <1>5, <1>6, <1>7, <1>8, <1>9, <1>10, <1>11, <1>12, <1>13,
     <1>14, <1>15, <1>16, <1>17, <1>18, <1>19, <1>20 DEF RemoveDriver

\* What is known of the bound driver survives whatever step leaves it bound.
LEMMA BoundStep == IInv /\ EcInv /\ [Next]_vars => BoundInv'
<1> SUFFICES ASSUME IInv, EcInv, [Next]_vars, Bound("uniwill")' PROVE BoundInv'
  BY DEF BoundInv
<1> USE ThreadFacts DEF IInv, EcInv, EntryInv, BoundInv, TypeOK, Goto, Step, InInit, Serving,
        Leaked, NoPlatDev, Bound
<1>1. CASE UNCHANGED vars
  BY <1>1 DEF vars, statics, bus
<1>2. ASSUME NEW i \in Ifaces, AddClevo(i) PROVE BoundInv'
  BY <1>2 DEF AddClevo, bus
<1>3. ASSUME NEW i \in Ifaces, CheckActive(i) PROVE BoundInv'
  BY <1>3 DEF CheckActive, statics, bus
<1>4. ASSUME NEW i \in Ifaces, AddUniwill(i) PROVE BoundInv'
  BY <1>4 DEF AddUniwill, bus
<1>5. ASSUME NEW i \in Ifaces, InitLock(i) PROVE BoundInv'
  BY <1>5 DEF InitLock, statics, bus
<1>6. ASSUME NEW i \in Ifaces, AlreadyInitialised(i) PROVE BoundInv'
  BY <1>6 DEF AlreadyInitialised, statics, bus
<1>7. ASSUME NEW i \in Ifaces, CreateBundle(i) PROVE BoundInv'
  <2>1. i = Uniwill
    BY <1>7 DEF CreateBundle, DriverOf
  <2> QED
    BY <1>7, <2>1 DEF CreateBundle, statics
<1>8. ASSUME NEW i \in Ifaces, BundleFails(i) PROVE BoundInv'
  BY <1>8 DEF BundleFails, bus
<1>9. ASSUME NEW i \in Ifaces, AssignDevice(i) PROVE BoundInv'
  <2>1. i = Uniwill
    BY <1>9, IfacesAssumption DEF AssignDevice, Clevo, bus
  <2> QED
    BY <1>9, <2>1 DEF AssignDevice, bus
<1>10. ASSUME NEW i \in Ifaces, InputInit(i) PROVE BoundInv'
  <2>1. i = Uniwill
    BY <1>10, IfacesAssumption DEF InputInit, Clevo, bus
  <2> QED
    BY <1>10, <2>1 DEF InputInit, bus
<1>11. ASSUME NEW i \in Ifaces, Publish(i) PROVE BoundInv'
  <2>1. i = Uniwill
    BY <1>11, IfacesAssumption DEF Publish, Clevo, bus
  <2> QED
    BY <1>11, <2>1 DEF Publish, DriverOf, bus
<1>12. ASSUME NEW i \in Ifaces, RemoveClevo(i) PROVE BoundInv'
  BY <1>12 DEF RemoveClevo, bus
<1>13. ASSUME NEW i \in Ifaces, RemoveUniwill(i) PROVE BoundInv'
  BY <1>13 DEF RemoveUniwill, statics, bus
<1>14. ASSUME NEW i \in Ifaces, CompareNames(i) PROVE BoundInv'
  <2>1. pc' = [pc EXCEPT ![i] = "oops"] \/ pc' = [pc EXCEPT ![i] = "rm_input"]
    BY <1>14 DEF CompareNames, PlatformName
  <2> QED
    BY <1>14, <2>1 DEF CompareNames, statics, bus
<1>15. ASSUME NEW i \in Ifaces, ReturnClevo(i) PROVE BoundInv'
  BY <1>15 DEF ReturnClevo, bus
<1>16. ASSUME NEW i \in Ifaces, ReturnUniwill(i) PROVE BoundInv'
  BY <1>16 DEF ReturnUniwill, bus
<1>17. ASSUME NEW t \in Threads, InputExit(t) PROVE BoundInv'
  BY <1>17 DEF InputExit, Survives, bus
<1>18. ASSUME NEW t \in Threads, InputClear(t) PROVE BoundInv'
  BY <1>18 DEF InputClear, bus
<1>19. ASSUME NEW t \in Threads, DeviceUnregister(t) PROVE BoundInv'
  <2>1. NoPlatDev /\ platDev' = platDev /\ pc' = [pc EXCEPT ![t] = "rm_drv"]
    BY <1>19 DEF DeviceUnregister
  <2> QED
    BY <1>19, <2>1 DEF DeviceUnregister
<1>20. ASSUME NEW t \in Threads, DeviceClear(t) PROVE BoundInv'
  BY <1>20 DEF DeviceClear, bus
<1>21. ASSUME NEW t \in Threads, DriverUnregister(t) PROVE BoundInv'
  <2>1. Bound("uniwill") /\ pc[t] = "rm_drv" /\ UNCHANGED <<slots, platDev, current>>
    BY <1>21 DEF DriverUnregister, statics, None
  <2>2. CASE current = None
    <3>1. pc' = [pc EXCEPT ![t] = "rm_return"]
      BY <1>21, <2>2 DEF DriverUnregister
    <3>2. t = Uniwill => Leaked
      BY <2>1, <2>2, IfacesAssumption DEF Clevo, Pointer
    <3> QED
      BY <2>1, <3>1, <3>2
  <2>3. CASE current # None
    <3>1. pc' = [pc EXCEPT ![t] = "rm_drv_clear"] /\ busDrv # current
      BY <1>21, <2>3 DEF DriverUnregister, None
    <3>2. current = "clevo"
      BY <2>1, <2>3, <3>1 DEF Drivers
    <3>3. t # Uniwill
      BY <2>1, <3>2
    <3> QED
      BY <2>1, <3>1, <3>3
  <2> QED
    BY <2>2, <2>3
<1>22. ASSUME NEW t \in Threads, DriverClear(t) PROVE BoundInv'
  BY <1>22 DEF DriverClear, bus, None
<1>23. CASE ModuleExit
  BY <1>23 DEF ModuleExit, statics, bus
<1>24. CASE ReturnExit
  BY <1>24 DEF ReturnExit, statics, bus
<1>25. CASE ModuleInit
  BY <1>25 DEF ModuleInit, UnloadInv, bus, None
<1> QED
  BY NextCases, <1>1, <1>2, <1>3, <1>4, <1>5, <1>6, <1>7, <1>8, <1>9, <1>10, <1>11, <1>12, <1>13,
     <1>14, <1>15, <1>16, <1>17, <1>18, <1>19, <1>20, <1>21, <1>22, <1>23, <1>24, <1>25

\* Unbinding the driver takes a device or a driver the statics know of, so
\* it is not leaked and the Uniwill thread is not out.
LEMMA UnbindStep ==
  IInv /\ EcInv /\ [Next]_vars => (Bound("uniwill") /\ ~Bound("uniwill")' => Uniwill \in slots)
<1> SUFFICES ASSUME IInv, EcInv, [Next]_vars, Bound("uniwill"), ~Bound("uniwill")'
             PROVE  Uniwill \in slots
  OBVIOUS
<1>1. ~Leaked => Uniwill \in slots
  BY DEF EcInv, EntryInv, BoundInv, Serving, InInit
<1>2. PICK t \in Threads : DeviceUnregister(t) \/ DriverUnregister(t)
  <2>1. busDev' # busDev \/ busDrv' # busDrv
    BY DEF Bound
  <2>2. \A i \in Ifaces : ~CreateBundle(i)
    BY DEF CreateBundle, Bound
  <2> QED
    BY <2>1, <2>2, NextCases
    DEF vars, statics, bus, AddClevo, AddUniwill, RemoveClevo, RemoveUniwill, InitLock, CheckActive,
        AlreadyInitialised, BundleFails, AssignDevice, InputInit, Publish, CompareNames, ReturnClevo,
        ReturnUniwill, InputExit, InputClear, DeviceClear, DriverClear, ModuleExit, ReturnExit, ModuleInit
<1>3. CASE DeviceUnregister(t)
  BY <1>1, <1>3 DEF DeviceUnregister, Leaked, NoPlatDev, Bound
<1>4. CASE DriverUnregister(t)
  BY <1>1, <1>4 DEF DriverUnregister, Leaked, Bound
<1> QED
  BY <1>2, <1>3, <1>4

\* The Uniwill driver is unbound only while its interface is in its slot, so
\* that what uniwill_keyboard_remove writes reaches the EC.
THEOREM TeardownReachesEc == Spec => UniwillTeardownHasEc
<1>1. Init => EcInv
  BY ThreadFacts DEF Init, EcInv, EntryInv, BoundInv, InInit, Bound
<1>2. IInv /\ EcInv /\ [Next]_vars => EcInv'
  BY EntryStep, BoundStep DEF EcInv
<1>3. IInv /\ EcInv /\ [Next]_vars => [Bound("uniwill") /\ ~Bound("uniwill")' => Uniwill \in slots]_vars
  BY UnbindStep
<1> QED
  BY Invariance, <1>1, <1>2, <1>3, PTL DEF Spec, UniwillTeardownHasEc

-----------------------------------------------------------------------------
(***************************************************************************)
(* The calm environment, on a machine whose interfaces are of one family   *)
(* and whose initialisations succeed.  What the statics and the bus hold   *)
(* is then told by where the one thread that builds or removes is.         *)
(***************************************************************************)
OneFamily == Uniwill \in Ifaces => Ifaces = {Uniwill}

Family == IF Uniwill \in Ifaces THEN "uniwill" ELSE "clevo"

\* There is an interface to serve.
Wanted == IF Uniwill \in Ifaces THEN pc[Uniwill] # "out" ELSE active # None

Building == {"assign", "input", "publish"}

\* What the statics of the driver and the bus hold, v being what may be left
\* in the driver's own pointer to the input device.
Status(p, c, b, d, n, v) ==
  platDev = p /\ current = c /\ busDev = b /\ busDrv = d /\ inputDev = n /\ drvInput[Family] \in v

Up   == Status("live", Family, TRUE, Family, "live", {"live"})
Down == Status("null", None, FALSE, None, "null", {"null", "stale"})

\* What they hold when a thread builds or removes.
Stage(l) ==
  CASE l = "assign"       -> Status("null", None, TRUE, Family, "null", {"null", "stale"})
    [] l = "input"        -> Status("live", None, TRUE, Family, "null", {"null", "stale"})
    [] l = "publish"      -> Status("live", None, TRUE, Family, "live", {"null", "stale"})
    [] l = "rm_name"      -> Up
    [] l = "rm_input"     -> Up
    [] l = "rm_input_clear" -> Status("live", Family, TRUE, Family, "stale", {"stale"})
    [] l = "rm_dev"       -> Status("live", Family, TRUE, Family, "null", {"stale"})
    [] l = "rm_dev_clear" -> Status("stale", Family, FALSE, Family, "null", {"stale"})
    [] l = "rm_drv"       -> Status("null", Family, FALSE, Family, "null", {"stale"})
    [] l = "rm_drv_clear" -> Status("null", Family, FALSE, None, "null", {"stale"})
    [] l = "rm_return"    -> Status("null", None, FALSE, None, "null", {"stale"})

\* No thread dies or misses its input device, one at a time is inside
\* init_driver, and whoever registers an interface is there to be served.
PlacesInv ==
  /\ \A i \in Ifaces : pc[i] \in (Idle \cup Adding \cup Removing) \ {"publish_noinput"}
  /\ pc["exit"] = "out"
  /\ \A i \in Ifaces : pc[i] \in Building \cup {"bundle"} => initLock = i
  /\ \A i \in Ifaces : pc[i] \in Adding => Wanted
  /\ \A i \in Ifaces : pc[i] = "check_active" => i \in Clevo

\* While nobody builds or removes, the driver is up as a whole or down as a
\* whole.
StageInv ==
  /\ \A i \in Ifaces : pc[i] \in Building \cup Removing => Stage(pc[i])
  /\ (\A i \in Ifaces : pc[i] \notin Building \cup Removing) => Up \/ Down

\* It is up only for an interface to serve, and between calls for each.
ServedInv ==
  /\ Up => Wanted
  /\ Wanted /\ (\A i \in Ifaces : pc[i] \in Idle) => Up
  /\ faults = {}

QuietInv == Calm /\ PlacesInv /\ StageInv /\ ServedInv

\* What there is of interfaces and drivers on such a machine.
LEMMA FamilyFacts ==
  ASSUME OneFamily
  PROVE  /\ \A i \in Ifaces : DriverOf(i) = Family
         /\ Family \in Drivers /\ Family # None
         /\ Uniwill \in Ifaces => Clevo = {} /\ \A i \in Ifaces : i = Uniwill
         /\ Uniwill \notin Ifaces => Clevo = Ifaces
BY IfacesAssumption DEF OneFamily, Family, DriverOf, Drivers, None, Clevo, Wmi, Acpi, Uniwill

\* Who builds or removes is alone with it.
LEMMA AloneInside ==
  ASSUME Calm, PlacesInv, NEW i \in Ifaces, pc[i] \in Building \cup Removing \cup {"bundle"},
         NEW j \in Ifaces, j # i
  PROVE  pc[j] \notin Building \cup Removing \cup {"bundle"}
BY ThreadFacts DEF Calm, PlacesInv, Building, Removing, Idle

\* Whoever is inside a call has an interface to serve.
LEMMA InsideWanted ==
  ASSUME OneFamily, IInv, PlacesInv, NEW i \in Ifaces, pc[i] \in Adding \cup Removing
  PROVE  Wanted
<1>1. CASE Uniwill \in Ifaces
  BY <1>1, FamilyFacts DEF Wanted, Adding, Removing
<1>2. CASE Uniwill \notin Ifaces /\ pc[i] \in Removing
  BY <1>2, FamilyFacts, ThreadFacts DEF IInv, HolderInv, ActiveInv, Wanted
<1>3. CASE pc[i] \in Adding
  BY <1>3 DEF PlacesInv
<1> QED
  BY <1>1, <1>2, <1>3

\* A thread that builds or removes goes on to its next place.
LEMMA GoesOn ==
  ASSUME QuietInv, Calm', pc \in [Threads -> Idle \cup Adding \cup Removing \cup {"oops"}],
         NEW i \in Ifaces, pc[i] \in Building \cup Removing \cup {"bundle"},
         NEW l \in Building \cup Removing, pc' = [pc EXCEPT ![i] = l],
         l \in Building => pc[i] \in Building \cup {"bundle"},
         Stage(l)', Wanted', faults' = faults, initLock' = initLock
  PROVE  QuietInv'
<1>1. pc'[i] = l /\ \A t \in Threads \ {i} : pc'[t] = pc[t]
  BY ThreadFacts
<1>2. \A j \in Ifaces : j # i => pc'[j] = pc[j] /\ pc[j] \notin Building \cup Removing \cup {"bundle"}
  BY <1>1, AloneInside, ThreadFacts DEF QuietInv
<1>3. PlacesInv'
  <2>1. \A j \in Ifaces : pc'[j] \in (Idle \cup Adding \cup Removing) \ {"publish_noinput"}
    BY <1>1, <1>2, ThreadFacts DEF QuietInv, PlacesInv, Building, Removing, Adding
  <2>2. pc'["exit"] = "out"
    BY <1>1, ThreadFacts DEF QuietInv, PlacesInv
  <2>3. \A j \in Ifaces : pc'[j] \in Building \cup {"bundle"} => initLock' = j
    <3>1. pc'[i] \in Building => pc[i] \in Building \cup {"bundle"}
      BY <1>1 DEF Building, Removing
    <3> QED
      BY <1>1, <1>2, <3>1 DEF QuietInv, PlacesInv, Building, Removing
  <2>4. \A j \in Ifaces : pc'[j] = "check_active" => j \in Clevo
    BY <1>1, <1>2 DEF QuietInv, PlacesInv, Building, Removing
  <2> QED
    BY <2>1, <2>2, <2>3, <2>4 DEF PlacesInv
<1>4. StageInv'
  <2>1. ASSUME NEW j \in Ifaces, pc'[j] \in Building \cup Removing PROVE Stage(pc[j])'
    <3>1. j = i
      BY <1>2, <2>1
    <3>2. pc'[j] = l
      BY <1>1, <3>1
    <3> QED
      BY <3>2 DEF Stage, Up, Status
  <2> QED
    BY <1>1, <2>1 DEF StageInv
<1>5. ServedInv'
  BY <1>1 DEF QuietInv, ServedInv, Building, Removing, Idle
<1> QED
  BY <1>3, <1>4, <1>5 DEF QuietInv

\* It leaves the module with the driver up or down.
LEMMA Leaves ==
  ASSUME QuietInv, Calm', pc \in [Threads -> Idle \cup Adding \cup Removing \cup {"oops"}],
         NEW i \in Ifaces, pc[i] \in Building \cup Removing \cup {"bundle"},
         NEW l \in Idle, pc' = [pc EXCEPT ![i] = l],
         (Up /\ Wanted)' \/ ((Down /\ ~Wanted)' /\ pc[i] \in Removing), faults' = faults
  PROVE  QuietInv'
<1>1. pc'[i] = l /\ \A t \in Threads \ {i} : pc'[t] = pc[t]
  BY ThreadFacts
<1>2. \A j \in Ifaces : j # i => pc'[j] = pc[j] /\ pc[j] \notin Building \cup Removing \cup {"bundle"}
  BY <1>1, AloneInside, ThreadFacts DEF QuietInv
<1>3. \A j \in Ifaces : pc'[j] \in Adding => Wanted'
  BY <1>1, <1>2, ThreadFacts DEF QuietInv, Calm, Adding, Idle
<1>4. PlacesInv'
  BY <1>1, <1>2, <1>3, ThreadFacts DEF QuietInv, PlacesInv, Building, Removing, Adding, Idle
<1>5. \A j \in Ifaces : pc'[j] \notin Building \cup Removing
  BY <1>1, <1>2 DEF Building, Removing, Idle
<1>6. StageInv'
  BY <1>5 DEF StageInv
<1>7. Up' <=> Wanted'
  BY DEF Up, Down, Status
<1>8. ServedInv'
  BY <1>7 DEF QuietInv, ServedInv
<1> QED
  BY <1>4, <1>6, <1>8 DEF QuietInv

\* A removal moves from one place to the next as its steps say.
LEMMA RemovalSteps ==
  ASSUME OneFamily, IInv, QuietInv, Calm', NEW i \in Ifaces, CompareNames(i) \/ RemoveDriver(i)
  PROVE  QuietInv'
<1>0. /\ pc \in [Threads -> Idle \cup Adding \cup Removing \cup {"oops"}] /\ i \in Threads
      /\ drvInput \in [Drivers -> Pointer] /\ Family \in Drivers /\ Family # None
  BY ThreadFacts, FamilyFacts DEF IInv, TypeOK
<1>1. pc[i] \in Removing /\ Stage(pc[i]) /\ Wanted
  <2>1. pc[i] \in Removing
    BY DEF CompareNames, RemoveDriver, InputExit, InputClear, DeviceUnregister, DeviceClear,
           DriverUnregister, DriverClear, Step, Removing
  <2> QED
    BY <2>1, InsideWanted DEF QuietInv, StageInv
<1>2. ASSUME NEW l \in Removing, pc' = [pc EXCEPT ![i] = l], active' = active PROVE Wanted'
  BY <1>0, <1>1, <1>2, FamilyFacts DEF Wanted, Removing
<1>3. CASE CompareNames(i)
  <2>1. pc[i] = "rm_name" /\ Up
    BY <1>1, <1>3 DEF CompareNames, Stage
  <2>2. /\ pc' = [pc EXCEPT ![i] = "rm_input"] /\ faults' = faults
        /\ UNCHANGED <<platDev, current, inputDev, drvInput, active, busDev, busDrv, initLock>>
    BY <1>0, <1>3, <2>1 DEF CompareNames, Goto, PlatformName, Up, Status, statics, bus, locks
  <2>3. Stage("rm_input")'
    BY <2>1, <2>2 DEF Stage, Up, Status
  <2> QED
    BY <1>0, <1>1, <1>2, <2>2, <2>3, GoesOn DEF Removing, Building
<1>4. CASE InputExit(i)
  <2>1. pc[i] = "rm_input" /\ Up
    BY <1>1, <1>4 DEF InputExit, Stage
  <2>2. /\ pc' = [pc EXCEPT ![i] = "rm_input_clear"] /\ faults' = faults /\ inputDev' = "stale"
        /\ drvInput' = [d \in Drivers |-> IF drvInput[d] = "live" THEN "stale" ELSE drvInput[d]]
        /\ UNCHANGED <<platDev, current, active, busDev, busDrv, initLock>>
    BY <1>4, <2>1 DEF InputExit, Goto, Up, Status, bus, locks
  <2>3. Stage("rm_input_clear")'
    BY <1>0, <2>1, <2>2 DEF Stage, Up, Status
  <2> QED
    BY <1>0, <1>1, <1>2, <2>2, <2>3, GoesOn DEF Removing, Building
<1>5. CASE InputClear(i)
  <2>1. pc[i] = "rm_input_clear" /\ Stage("rm_input_clear")
    BY <1>1, <1>5 DEF InputClear, Step
  <2>2. /\ pc' = [pc EXCEPT ![i] = "rm_dev"] /\ faults' = faults /\ inputDev' = "null"
        /\ UNCHANGED <<platDev, current, drvInput, active, busDev, busDrv, initLock>>
    BY <1>5 DEF InputClear, Step, Goto, bus, locks
  <2>3. Stage("rm_dev")'
    BY <2>1, <2>2 DEF Stage, Status
  <2> QED
    BY <1>0, <1>1, <1>2, <2>2, <2>3, GoesOn DEF Removing, Building
<1>6. CASE DeviceUnregister(i)
  <2>1. pc[i] = "rm_dev" /\ Stage("rm_dev")
    BY <1>1, <1>6 DEF DeviceUnregister
  <2>2. /\ pc' = [pc EXCEPT ![i] = "rm_dev_clear"] /\ faults' = faults
        /\ platDev' = "stale" /\ busDev' = FALSE
        /\ UNCHANGED <<current, inputDev, drvInput, active, busDrv, initLock>>
    BY <1>6, <2>1 DEF DeviceUnregister, NoPlatDev, Stage, Status, Goto, locks
  <2>3. Stage("rm_dev_clear")'
    BY <2>1, <2>2 DEF Stage, Status
  <2> QED
    BY <1>0, <1>1, <1>2, <2>2, <2>3, GoesOn DEF Removing, Building
<1>7. CASE DeviceClear(i)
  <2>1. pc[i] = "rm_dev_clear" /\ Stage("rm_dev_clear")
    BY <1>1, <1>7 DEF DeviceClear, Step
  <2>2. /\ pc' = [pc EXCEPT ![i] = "rm_drv"] /\ faults' = faults /\ platDev' = "null"
        /\ UNCHANGED <<current, inputDev, drvInput, active, busDev, busDrv, initLock>>
    BY <1>7 DEF DeviceClear, Step, Goto, bus, locks
  <2>3. Stage("rm_drv")'
    BY <2>1, <2>2 DEF Stage, Status
  <2> QED
    BY <1>0, <1>1, <1>2, <2>2, <2>3, GoesOn DEF Removing, Building
<1>8. CASE DriverUnregister(i)
  <2>1. pc[i] = "rm_drv" /\ Stage("rm_drv")
    BY <1>1, <1>8 DEF DriverUnregister, Step
  <2>2. current = Family /\ busDrv = Family /\ current # None
    BY <1>0, <2>1 DEF Stage, Status
  <2>3. /\ pc' = [pc EXCEPT ![i] = "rm_drv_clear"] /\ faults' = faults /\ busDrv' = None
        /\ UNCHANGED <<platDev, current, inputDev, drvInput, active, busDev, initLock>>
    BY <1>8, <2>2 DEF DriverUnregister, Step, Goto, statics, locks
  <2>4. Stage("rm_drv_clear")'
    BY <2>1, <2>3 DEF Stage, Status
  <2> QED
    BY <1>0, <1>1, <1>2, <2>3, <2>4, GoesOn DEF Removing, Building
<1>9. CASE DriverClear(i)
  <2>1. pc[i] = "rm_drv_clear" /\ Stage("rm_drv_clear")
    BY <1>1, <1>9 DEF DriverClear, Step
  <2>2. /\ pc' = [pc EXCEPT ![i] = "rm_return"] /\ faults' = faults /\ current' = None
        /\ UNCHANGED <<platDev, inputDev, drvInput, active, busDev, busDrv, initLock>>
    BY <1>9 DEF DriverClear, Step, Goto, bus, locks
  <2>3. Stage("rm_return")'
    BY <2>1, <2>2 DEF Stage, Status
  <2> QED
    BY <1>0, <1>1, <1>2, <2>2, <2>3, GoesOn DEF Removing, Building
<1> QED
  BY <1>3, <1>4, <1>5, <1>6, <1>7, <1>8, <1>9 DEF RemoveDriver

\* Building does, too; it cannot fail, as nobody else has the name.
LEMMA BuildingSteps ==
  ASSUME OneFamily, InitMayFail = FALSE, IInv, QuietInv, Calm', NEW i \in Ifaces,
         CreateBundle(i) \/ BundleFails(i) \/ AlreadyInitialised(i)
         \/ AssignDevice(i) \/ InputInit(i) \/ Publish(i)
  PROVE  QuietInv'
<1>0. /\ pc \in [Threads -> Idle \cup Adding \cup Removing \cup {"oops"}] /\ i \in Threads
      /\ drvInput \in [Drivers -> Pointer] /\ Family \in Drivers /\ Family # None /\ DriverOf(i) = Family
  BY ThreadFacts, FamilyFacts DEF IInv, TypeOK
<1>1. pc[i] \in Building \cup {"bundle"} /\ pc[i] \in Adding /\ Wanted
  <2>1. pc[i] # "publish_noinput"
    BY DEF QuietInv, PlacesInv
  <2>2. pc[i] \in Building \cup {"bundle"} /\ pc[i] \in Adding
    BY <2>1 DEF CreateBundle, BundleFails, AlreadyInitialised, AssignDevice, InputInit, Publish,
           Step, Building, Adding
  <2> QED
    BY <2>2, InsideWanted DEF QuietInv
<1>2. pc[i] \in Building => Stage(pc[i])
  BY DEF QuietInv, StageInv
<1>3. pc[i] = "bundle" => Up \/ Down
  <2>1. ASSUME pc[i] = "bundle", NEW j \in Ifaces PROVE pc[j] \notin Building \cup Removing
    <3>1. CASE j = i
      BY <2>1, <3>1 DEF Building, Removing
    <3>2. CASE j # i
      BY <2>1, <3>2, AloneInside DEF QuietInv
    <3> QED
      BY <3>1, <3>2
  <2> QED
    BY <2>1 DEF QuietInv, StageInv
<1>4. ASSUME NEW l \in Building \cup {"in"}, pc' = [pc EXCEPT ![i] = l], active' = active PROVE Wanted'
  BY <1>0, <1>1, <1>4, FamilyFacts DEF Wanted, Building
<1>5. CASE CreateBundle(i)
  <2>1. pc[i] = "bundle" /\ Down
    BY <1>3, <1>5 DEF CreateBundle, Step, NoPlatDev, Up, Status
  <2>2. /\ pc' = [pc EXCEPT ![i] = "assign"] /\ faults' = faults /\ busDev' = TRUE /\ busDrv' = Family
        /\ UNCHANGED <<platDev, current, inputDev, drvInput, active, initLock>>
    BY <1>0, <1>5 DEF CreateBundle, Step, Goto, statics, locks
  <2>3. Stage("assign")'
    BY <2>1, <2>2 DEF Stage, Down, Status
  <2> QED
    BY <1>0, <1>1, <1>4, <2>2, <2>3, GoesOn DEF Building
<1>6. CASE BundleFails(i)
  <2>1. pc[i] = "bundle" /\ Down
    BY <1>3, <1>6 DEF BundleFails, Step, NoPlatDev, Up, Status
  <2> QED
    BY <1>6, <2>1 DEF BundleFails, Down, Status
<1>7. CASE AlreadyInitialised(i)
  <2>1. pc[i] = "bundle" /\ Up
    BY <1>3, <1>7 DEF AlreadyInitialised, Step, NoPlatDev, Down, Status
  <2>2. /\ pc' = [pc EXCEPT ![i] = "in"] /\ faults' = faults
        /\ UNCHANGED <<platDev, current, inputDev, drvInput, active, busDev, busDrv>>
    BY <1>7 DEF AlreadyInitialised, Step, Goto, statics, bus
  <2>3. Up' /\ Wanted'
    BY <1>4, <2>1, <2>2 DEF Up, Status
  <2> QED
    BY <1>0, <1>1, <2>2, <2>3, Leaves DEF Idle
<1>8. CASE AssignDevice(i)
  <2>1. pc[i] = "assign" /\ Stage("assign")
    BY <1>2, <1>8 DEF AssignDevice, Step, Building
  <2>2. /\ pc' = [pc EXCEPT ![i] = "input"] /\ faults' = faults /\ platDev' = "live"
        /\ UNCHANGED <<current, inputDev, drvInput, active, busDev, busDrv, initLock>>
    BY <1>8 DEF AssignDevice, Step, Goto, bus, locks
  <2>3. Stage("input")'
    BY <2>1, <2>2 DEF Stage, Status
  <2> QED
    BY <1>0, <1>1, <1>4, <2>2, <2>3, GoesOn DEF Building
<1>9. CASE InputInit(i)
  <2>1. pc[i] = "input" /\ Stage("input")
    BY <1>2, <1>9 DEF InputInit, Step, Building
  <2>2. /\ pc' = [pc EXCEPT ![i] = "publish"] /\ faults' = faults /\ inputDev' = "live"
        /\ UNCHANGED <<platDev, current, drvInput, active, busDev, busDrv, initLock>>
    BY <1>9 DEF InputInit, Step, Goto, bus, locks
  <2>3. Stage("publish")'
    BY <2>1, <2>2 DEF Stage, Status
  <2> QED
    BY <1>0, <1>1, <1>4, <2>2, <2>3, GoesOn DEF Building
<1>10. CASE Publish(i)
  <2>1. pc[i] = "publish" /\ Stage("publish")
    BY <1>1, <1>2, <1>10 DEF Publish, Step, Building
  <2>2. /\ pc' = [pc EXCEPT ![i] = "in"] /\ faults' = faults
        /\ drvInput' = [drvInput EXCEPT ![Family] = inputDev] /\ current' = Family
        /\ UNCHANGED <<platDev, inputDev, active, busDev, busDrv>>
    BY <1>0, <1>10, <2>1 DEF Publish, Step, Goto, bus
  <2>3. Up' /\ Wanted'
    BY <1>0, <1>4, <2>1, <2>2 DEF Stage, Up, Status
  <2> QED
    BY <1>0, <1>1, <2>2, <2>3, Leaves DEF Idle
<1> QED
  BY <1>5, <1>6, <1>7, <1>8, <1>9, <1>10

\* A removal that returns leaves the driver down and nothing to serve.
LEMMA ReturnSteps ==
  ASSUME OneFamily, IInv, QuietInv, Calm', NEW i \in Ifaces, ReturnClevo(i) \/ ReturnUniwill(i)
  PROVE  QuietInv'
<1>0. /\ pc \in [Threads -> Idle \cup Adding \cup Removing \cup {"oops"}] /\ i \in Threads
  BY ThreadFacts DEF IInv, TypeOK
<1>1. pc[i] = "rm_return" /\ pc[i] \in Removing
  BY DEF ReturnClevo, ReturnUniwill, Step, Removing
<1>2. Stage("rm_return")
  BY <1>1 DEF QuietInv, StageInv
<1>3. /\ pc' = [pc EXCEPT ![i] = "out"] /\ faults' = faults
      /\ UNCHANGED <<platDev, current, inputDev, drvInput, busDev, busDrv>>
  BY DEF ReturnClevo, ReturnUniwill, Step, Goto, bus
<1>4. Down'
  BY <1>2, <1>3 DEF Stage, Down, Status
<1>5. ~Wanted'
  <2>1. CASE Uniwill \in Ifaces
    BY <1>0, <1>3, <2>1, FamilyFacts DEF Wanted
  <2>2. CASE Uniwill \notin Ifaces
    <3>1. i # Uniwill
      BY <2>2
    <3> QED
      BY <2>2, <3>1 DEF ReturnClevo, ReturnUniwill, Wanted
  <2> QED
    BY <2>1, <2>2
<1> QED
  BY <1>0, <1>1, <1>3, <1>4, <1>5, Leaves DEF Idle

\* A call that begins with a removal finds the driver up.
LEMMA RemovalBegins ==
  ASSUME OneFamily, IInv, QuietInv, Calm', NEW i \in Ifaces, RemoveClevo(i) \/ RemoveUniwill(i)
  PROVE  QuietInv'
<1>0. /\ pc \in [Threads -> Idle \cup Adding \cup Removing \cup {"oops"}] /\ i \in Threads
  BY ThreadFacts DEF IInv, TypeOK
<1>1. /\ pc[i] = "in" /\ faults' = faults
      /\ UNCHANGED <<platDev, current, inputDev, drvInput, active, busDev, busDrv, initLock>>
  BY DEF RemoveClevo, RemoveUniwill, Step, statics, bus
<1>2. CASE pc' = [pc EXCEPT ![i] = "rm_name"] /\ (i \in Clevo => active = i)
  <2>1. \A t \in Threads \ {i} : pc'[t] = pc[t]
    BY <1>0, <1>2
  <2>2. \A j \in Ifaces : pc[j] \in Idle
    BY <1>0, <1>1, <1>2, <2>1, ThreadFacts DEF Calm, Removing, Idle
  <2>3. Wanted
    BY <1>1, <1>2, FamilyFacts, ThreadFacts DEF Wanted
  <2>4. Up
    BY <2>2, <2>3 DEF QuietInv, ServedInv
  <2>5. Wanted' /\ Up'
    BY <1>0, <1>1, <1>2, <2>3, <2>4, FamilyFacts DEF Wanted, Up, Status
  <2>6. PlacesInv'
    <3>1. pc'["exit"] = "out"
      BY <2>1, ThreadFacts DEF QuietInv, PlacesInv
    <3>2. \A j \in Ifaces : pc'[j] \in Idle \cup {"rm_name"}
      BY <1>0, <1>2, <2>1, <2>2, ThreadFacts
    <3> QED
      BY <3>1, <3>2 DEF PlacesInv, Building, Adding, Removing, Idle
  <2>7. StageInv'
    <3>1. ASSUME NEW j \in Ifaces, pc'[j] \in Building \cup Removing PROVE pc'[j] = "rm_name"
      BY <1>0, <1>2, <2>1, <2>2, <3>1, ThreadFacts DEF Building, Removing, Idle
    <3> QED
      BY <2>5, <3>1 DEF StageInv, Stage
  <2>8. ServedInv'
    BY <1>1, <2>5 DEF QuietInv, ServedInv
  <2> QED
    BY <2>6, <2>7, <2>8 DEF QuietInv
<1>3. CASE pc' = [pc EXCEPT ![i] = "out"] /\ i \in Clevo
  <2>1. pc'[i] = "out" /\ \A t \in Threads \ {i} : pc'[t] = pc[t]
    BY <1>0, <1>3
  <2>2. Wanted' = Wanted /\ (Up' <=> Up) /\ (Down' <=> Down)
    BY <1>1, <1>3, FamilyFacts DEF Wanted, Up, Down, Status
  <2>3. PlacesInv'
    BY <1>1, <2>1, <2>2, ThreadFacts DEF QuietInv, PlacesInv, Building, Adding, Removing, Idle
  <2>4. StageInv'
    <3>1. \A j \in Ifaces : pc'[j] \in Building \cup Removing => pc'[j] = pc[j]
      BY <2>1, ThreadFacts DEF Building, Removing
    <3>2. \A j \in Ifaces : pc'[j] \in Building \cup Removing => Stage(pc[j])'
      BY <1>1, <3>1 DEF QuietInv, StageInv, Stage, Up, Status
    <3>3. \A j \in Ifaces : pc[j] \in Building \cup Removing => pc'[j] = pc[j]
      BY <1>1, <2>1, ThreadFacts DEF Building, Removing
    <3> QED
      BY <2>2, <3>2, <3>3 DEF QuietInv, StageInv
  <2>5. ServedInv'
    BY <1>1, <2>1, <2>2, ThreadFacts DEF QuietInv, ServedInv, Idle
  <2> QED
    BY <2>3, <2>4, <2>5 DEF QuietInv
<1> QED
  BY <1>0, <1>2, <1>3, ThreadFacts DEF RemoveClevo, RemoveUniwill, Step, Goto

\* A registration that begins, or waits for its turn, leaves the driver as
\* it is.
LEMMA AddingBegins ==
  ASSUME OneFamily, IInv, QuietInv, Calm', NEW i \in Ifaces,
         AddClevo(i) \/ AddUniwill(i) \/ CheckActive(i) \/ InitLock(i)
  PROVE  QuietInv'
<1>0. /\ pc \in [Threads -> Idle \cup Adding \cup Removing \cup {"oops"}] /\ i \in Threads
  BY ThreadFacts DEF IInv, TypeOK
<1>1. /\ faults' = faults /\ UNCHANGED <<platDev, current, inputDev, drvInput, busDev, busDrv>>
  BY DEF AddClevo, AddUniwill, CheckActive, InitLock, statics, bus
<1>2. pc[i] \in {"out", "check_active", "init_lock"} /\ (pc[i] # "out" => Wanted)
  BY DEF AddClevo, AddUniwill, CheckActive, InitLock, Step, QuietInv, PlacesInv, Adding
<1>3. PICK l \in {"check_active", "init_lock", "bundle"} :
        /\ pc' = [pc EXCEPT ![i] = l]
        /\ l = "bundle" => initLock' = i /\ initLock = None
        /\ l # "bundle" => initLock' = initLock
  <2>1. CASE CheckActive(i)
    <3>1. active # None
      BY <1>2, <2>1, FamilyFacts DEF CheckActive, Step, Wanted, QuietInv, PlacesInv
    <3> QED
      BY <2>1, <3>1 DEF CheckActive, Step, Goto, locks
  <2>2. CASE InitLock(i)
    BY <2>2 DEF InitLock, Step, Goto
  <2>3. CASE AddClevo(i) \/ AddUniwill(i)
    BY <2>3 DEF AddClevo, AddUniwill, Step, Goto, locks
  <2> QED
    BY <2>1, <2>2, <2>3
<1>4. pc'[i] = l /\ \A t \in Threads \ {i} : pc'[t] = pc[t]
  BY <1>0, <1>3
<1>5. Wanted'
  BY <1>0, <1>2, <1>3, FamilyFacts, ThreadFacts DEF AddClevo, AddUniwill, CheckActive, InitLock, Step,
     Wanted, statics, None
<1>6. (Up' <=> Up) /\ (Down' <=> Down)
  BY <1>1 DEF Up, Down, Status
<1>7. PlacesInv'
  <2>1. pc'["exit"] = "out" /\ \A j \in Ifaces : pc'[j] \in (Idle \cup Adding \cup Removing) \ {"publish_noinput"}
    BY <1>3, <1>4, ThreadFacts DEF QuietInv, PlacesInv, Adding
  <2>2. ASSUME NEW j \in Ifaces, pc'[j] \in Building \cup {"bundle"} PROVE initLock' = j
    <3>1. CASE j = i
      BY <1>3, <1>4, <2>2, <3>1 DEF Building
    <3>2. CASE j # i
      <4>1. pc[j] \in Building \cup {"bundle"} /\ initLock = j /\ j # None
        BY <1>4, <2>2, <3>2, ThreadFacts DEF QuietInv, PlacesInv
      <4> QED
        BY <1>3, <4>1
    <3> QED
      BY <3>1, <3>2
  <2>3. \A j \in Ifaces : pc'[j] = "check_active" => j \in Clevo
    <3>1. l = "check_active" => i \in Clevo
      BY <1>0, <1>3 DEF AddClevo, AddUniwill, CheckActive, InitLock, Step, Goto
    <3> QED
      BY <1>4, <3>1, ThreadFacts DEF QuietInv, PlacesInv
  <2> QED
    BY <1>5, <2>1, <2>2, <2>3 DEF PlacesInv
<1>8. StageInv'
  <2>1. \A j \in Ifaces : pc'[j] \in Building \cup Removing => pc'[j] = pc[j]
    BY <1>3, <1>4, ThreadFacts DEF Building, Removing
  <2>2. \A j \in Ifaces : pc'[j] \in Building \cup Removing => Stage(pc[j])'
    BY <1>1, <2>1 DEF QuietInv, StageInv, Stage, Up, Status
  <2>3. \A j \in Ifaces : pc[j] \in Building \cup Removing => pc'[j] = pc[j]
    BY <1>2, <1>4, ThreadFacts DEF Building, Removing
  <2> QED
    BY <1>6, <2>2, <2>3 DEF QuietInv, StageInv
<1>9. ServedInv'
  BY <1>1, <1>3, <1>4, <1>5 DEF QuietInv, ServedInv, Idle
<1> QED
  BY <1>7, <1>8, <1>9 DEF QuietInv

\* The module's own thread never has a driver to remove, and a module that
\* is loaded again finds nothing on the bus.
LEMMA ModuleSteps ==
  ASSUME OneFamily, IInv, QuietInv, Calm', ModuleExit \/ ModuleInit \/ ReturnExit
  PROVE  QuietInv'
<1>0. /\ pc \in [Threads -> Idle \cup Adding \cup Removing \cup {"oops"}] /\ "exit" \in Threads \ Ifaces
      /\ pc["exit"] = "out" /\ Ifaces \subseteq Threads
  BY ThreadFacts DEF IInv, TypeOK, QuietInv, PlacesInv
<1>1. /\ (ModuleExit \/ ModuleInit)
      /\ \A i \in Ifaces : pc[i] = "out"
  BY <1>0 DEF ModuleExit, ModuleInit, ReturnExit, Step, IInv, UnloadInv
<1>2. ~Wanted /\ active = None
  <2>1. \A i \in Clevo : i \notin slots /\ pc[i] \notin Removing
    BY <1>1, ThreadFacts DEF IInv, SlotInv, Adding, Removing
  <2>2. clevoLock = None
    BY <1>1, <2>1, ThreadFacts DEF IInv, TypeOK, HolderInv, Removing
  <2>3. active = None
    BY <2>1, <2>2 DEF IInv, TypeOK, ActiveInv
  <2> QED
    BY <1>1, <2>3 DEF Wanted
<1>3. Down
  BY <1>1, <1>2 DEF QuietInv, ServedInv, StageInv, Building, Removing
<1>4. pc' = pc
  <2>1. CASE ModuleExit
    <3>1. pc' = [pc EXCEPT !["exit"] = "out"]
      BY <1>3, <2>1 DEF ModuleExit, Goto, Down, Status
    <3> QED
      BY <1>0, <3>1
  <2>2. CASE ModuleInit
    BY <2>2 DEF ModuleInit
  <2> QED
    BY <1>1, <2>1, <2>2
<1>5. Down' /\ faults' = faults /\ active' = None
  <2>1. CASE ModuleExit
    BY <1>2, <1>3, <2>1 DEF ModuleExit, Down, Status, statics, bus
  <2>2. CASE ModuleInit
    <3>1. drvInput'[Family] = "null"
      BY <2>2, FamilyFacts DEF ModuleInit
    <3> QED
      BY <1>3, <2>2, <3>1 DEF ModuleInit, Down, Status, bus
  <2> QED
    BY <1>1, <2>1, <2>2
<1>6. ~Wanted'
  BY <1>1, <1>4, <1>5 DEF Wanted
<1>7. PlacesInv'
  BY <1>0, <1>1, <1>4 DEF PlacesInv, Building, Adding, Removing, Idle
<1>8. StageInv'
  BY <1>1, <1>4, <1>5 DEF StageInv, Building, Removing
<1>9. ~Up'
  BY <1>5, FamilyFacts DEF Up, Down, Status
<1> QED
  BY <1>5, <1>6, <1>7, <1>8, <1>9 DEF QuietInv, ServedInv

\* The invariant of the calm environment is kept.
LEMMA QuietStep ==
  ASSUME OneFamily, InitMayFail = FALSE, IInv, QuietInv, [CalmNext]_vars
  PROVE  QuietInv'
<1>1. CASE UNCHANGED vars
  <2>1. UNCHANGED <<pc, active, initLock, faults, platDev, current, busDev, busDrv, inputDev, drvInput>>
    BY <1>1 DEF vars, statics, locks, bus
  <2>2. Calm' /\ PlacesInv' /\ Wanted' = Wanted
    BY <2>1 DEF QuietInv, Calm, PlacesInv, Wanted
  <2>3. Up' = Up /\ Down' = Down /\ \A i \in Ifaces : Stage(pc[i])' = Stage(pc[i])
    BY <2>1 DEF Up, Down, Stage, Status
  <2>4. StageInv'
    BY <2>1, <2>3 DEF QuietInv, StageInv
  <2>5. ServedInv'
    BY <2>1, <2>2, <2>3 DEF QuietInv, ServedInv
  <2> QED
    BY <2>2, <2>4, <2>5 DEF QuietInv
<1>2. CASE CalmNext
  <2>1. Next /\ Calm'
    BY <1>2 DEF CalmNext
  <2>2. ~RemoveDriver("exit")
    BY DEF RemoveDriver, InputExit, InputClear, DeviceUnregister, DeviceClear, DriverUnregister,
       DriverClear, Step, QuietInv, PlacesInv
  <2> QED
    BY <2>1, <2>2, RemovalSteps, BuildingSteps, ReturnSteps, RemovalBegins, AddingBegins, ModuleSteps
       DEF Next, Begin, Advance, AdvanceExit
<1> QED
  BY <1>1, <1>2

\* A module that has just been loaded is calm.
LEMMA QuietInit == ASSUME OneFamily PROVE Init => QuietInv
<1> SUFFICES ASSUME Init PROVE QuietInv
  OBVIOUS
<1>1. (\A t \in Threads : pc[t] = "out") /\ Ifaces \subseteq Threads /\ "exit" \in Threads
  BY ThreadFacts DEF Init
<1>2. Down /\ faults = {} /\ active = None
  <2>1. drvInput[Family] = "null"
    BY FamilyFacts DEF Init
  <2> QED
    BY <2>1 DEF Init, Down, Status
<1>3. ~Up
  BY <1>2, FamilyFacts DEF Down, Up, Status
<1>4. ~Wanted
  BY <1>1, <1>2 DEF Wanted
<1>5. Calm
  BY <1>1 DEF Calm, Removing
<1>6. PlacesInv
  BY <1>1 DEF PlacesInv, Building, Adding, Removing, Idle
<1>7. StageInv
  BY <1>1, <1>2 DEF StageInv, Building, Removing
<1> QED
  BY <1>2, <1>3, <1>4, <1>5, <1>6, <1>7 DEF QuietInv, ServedInv

\* It holds in every state of the calm environment.
LEMMA QuietInvariance ==
  ASSUME OneFamily, InitMayFail = FALSE
  PROVE  CalmSpec => [](IInv /\ QuietInv)
<1>1. Init => IInv /\ QuietInv
  BY InitInv, QuietInit
<1>2. IInv /\ QuietInv /\ [CalmNext]_vars => (IInv /\ QuietInv)'
  <2>1. [CalmNext]_vars => [Next]_vars
    BY DEF CalmNext
  <2> QED
    BY <2>1, TypeStep, ChoiceStep, QuietStep DEF IInv, ChoiceInv
<1> QED
  BY <1>1, <1>2, PTL DEF CalmSpec

\* A removal that runs alone never dereferences NULL, frees twice or
\* unregisters what is not registered, after any sequence of loads and
\* unloads, concurrent loads among them.
THEOREM TeardownIsClean ==
  ASSUME OneFamily, InitMayFail = FALSE
  PROVE  CalmSpec => []NoTeardownFault
<1>1. IInv /\ QuietInv => NoTeardownFault
  BY DEF QuietInv, ServedInv, NoTeardownFault
<1> QED
  BY QuietInvariance, <1>1, PTL

\* On a Clevo machine, device, driver and input device are there between
\* calls exactly as long as there is an active interface.
THEOREM Served ==
  ASSUME OneFamily, InitMayFail = FALSE, Uniwill \notin Ifaces
  PROVE  CalmSpec => []ServedWhenQuiet
<1>1. IInv /\ QuietInv => ServedWhenQuiet
  <2> SUFFICES ASSUME QuietInv, \A t \in Threads : pc[t] \in Idle
               PROVE  (active # None <=> Bound("clevo")) /\ (active # None <=> current = "clevo")
                      /\ (active # None <=> inputDev = "live")
    BY DEF ServedWhenQuiet
  <2>1. (active # None <=> Up) /\ (Up \/ Down)
    BY ThreadFacts DEF QuietInv, ServedInv, StageInv, Wanted, Building, Removing, Idle
  <2> QED
    BY <2>1 DEF Up, Down, Status, Bound, Family, None
<1> QED
  BY QuietInvariance, <1>1, PTL

\* An unloaded module leaves no device, no driver and no input device.
THEOREM LeavesNothing ==
  ASSUME OneFamily, InitMayFail = FALSE
  PROVE  CalmSpec => []NothingLeftBehind
<1>1. IInv /\ QuietInv => NothingLeftBehind
  <2> SUFFICES ASSUME IInv, QuietInv, ~loaded
               PROVE  ~busDev /\ busDrv = None /\ inputDev # "live"
    BY DEF NothingLeftBehind
  <2>1. \A i \in Ifaces : pc[i] = "out"
    BY DEF IInv, UnloadInv
  <2>2. ~Wanted
    <3>1. \A i \in Clevo : i \notin slots /\ pc[i] \notin Removing
      BY <2>1, ThreadFacts DEF IInv, SlotInv, Adding, Removing
    <3>2. clevoLock = None
      BY <2>1, <3>1, ThreadFacts DEF IInv, TypeOK, HolderInv, Removing
    <3> QED
      BY <2>1, <3>1, <3>2 DEF IInv, TypeOK, ActiveInv, Wanted
  <2>3. Down
    BY <2>1, <2>2 DEF QuietInv, ServedInv, StageInv, Building, Removing
  <2> QED
    BY <2>3 DEF Down, Status
<1> QED
  BY QuietInvariance, <1>1, PTL

\* While no removal runs, the input device that current_driver leads to, as
\* clevo_keyboard_event_callb follows it, is not one that has been freed.
THEOREM EventsReachLive ==
  ASSUME OneFamily, InitMayFail = FALSE
  PROVE  CalmSpec => []EventTargetLive
<1>1. IInv /\ QuietInv => EventTargetLive
  <2> SUFFICES ASSUME QuietInv, \A t \in Threads : pc[t] \notin Removing, current # None
               PROVE  drvInput[current] # "stale"
    BY DEF EventTargetLive
  <2>1. \A i \in Ifaces : pc[i] \notin Building
    <3> SUFFICES ASSUME NEW i \in Ifaces, pc[i] \in Building PROVE FALSE
      OBVIOUS
    <3>1. Stage(pc[i])
      BY DEF QuietInv, StageInv
    <3> QED
      BY <3>1 DEF Stage, Status, Building
  <2>2. Up
    BY <2>1, ThreadFacts DEF QuietInv, StageInv, Down, Status
  <2> QED
    BY <2>2 DEF Up, Status
<1> QED
  BY QuietInvariance, <1>1, PTL

=============================================================================
