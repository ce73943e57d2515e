------------------------------ MODULE TuxedoIo ------------------------------
(***************************************************************************)
(* tuxedo_io, the character device behind which the fans and switches are, *)
(* together with what runs next to it: on a Uniwill machine the driver's   *)
(* probe and remove and the lightbar's work items (UniwillFans,            *)
(* UniwillLightbar), on a Clevo machine the transports (ClevoIo).  A       *)
(* command number belongs to one of the two families; on the other kind of *)
(* machine it finds no interface and does nothing.                         *)
(***************************************************************************)
EXTENDS UniwillFans, UniwillLightbar, ClevoIo

CONSTANT MaxOps   \* bound: ioctls, brightness writes and probes together

\* On either machine the processes in an ioctl are the same.
ASSUME CallersAssumption == IoCallers = Callers /\ MaxOps \in Nat

VARIABLES
  machine,   \* "uniwill" or "clevo"
  ioLoaded,  \* tuxedo_io is loaded
  cdev,      \* its character device is added: ioctls reach it
  node,      \* its class and device node exist
  number,    \* who has the device number it was given: "free", "io" or "other"
  ops

chardev == <<ioLoaded, cdev, node, number>>
uniwill == <<ec, fans, lightbar>>
vars    == <<machine, chardev, uniwill, clevo, ops>>

\* Every variable keeps to its values, on either machine: bytes stay bytes
\* although arguments are wider, and LEDs in their range.
TypeOK ==
  /\ EcTypeOK /\ FansTypeOK /\ LightbarTypeOK /\ ClevoTypeOK
  /\ machine \in {"uniwill", "clevo"}
  /\ ioLoaded \in BOOLEAN /\ cdev \in BOOLEAN /\ node \in BOOLEAN
  /\ number \in {"free", "io", "other"}
  /\ ops \in 0..MaxOps

EcInit ==
  /\ wmi = FALSE
  /\ ram = [r \in Registers |-> CASE r = "animation" -> AnimationBits + AnimationOn
                                [] r \in Fans -> CHOOSE s \in EcSpeeds : TRUE
                                [] OTHER -> 0]
  /\ job = [t \in Threads |-> <<>>]
  /\ got = [t \in Threads |-> 0]
  /\ sure = {} /\ missed = {} /\ spoilt = {}

NotLoaded ==
  ioLoaded = FALSE /\ cdev = FALSE /\ node = FALSE /\ number = "free"

Loaded ==
  ioLoaded = TRUE /\ cdev = TRUE /\ node = TRUE /\ number = "io"

Init ==
  /\ machine \in {"uniwill", "clevo"}
  /\ EcInit /\ FansInit /\ LightbarInit /\ ClevoInit
  /\ Loaded \/ NotLoaded
  /\ ops = 0

-----------------------------------------------------------------------------
(***************************************************************************)
(* Loading and unloading tuxedo_io.  It cannot go while its file is open.  *)
(***************************************************************************)
\* Mutated form: the number is given back without looking at the error.
IoInitGivesBack ==
  /\ ~ioLoaded /\ ioLoaded' = TRUE
  /\ cdev' \in BOOLEAN /\ number' = "free"
  /\ node' = TRUE
  /\ UNCHANGED <<machine, uniwill, clevo, ops>>

\* A device that could not be added gives its number back, and the module is
\* loaded all the same.
IoInit ==
  /\ ~ioLoaded /\ ioLoaded' = TRUE
  /\ cdev' \in BOOLEAN /\ number' = IF cdev' THEN "io" ELSE "free"
  /\ node' = TRUE
  /\ UNCHANGED <<machine, uniwill, clevo, ops>>

\* A driver that comes later gets the number.
OtherDriver ==
  /\ ioLoaded /\ number = "free"
  /\ number' = "other"
  /\ UNCHANGED <<machine, ioLoaded, cdev, node, uniwill, clevo, ops>>

NobodyInside == \A c \in Callers : Idle(c) /\ call[c].at = "idle"

\* Whoever has the number by now, it is released.
IoExit ==
  /\ ioLoaded /\ ioLoaded' = FALSE
  /\ NobodyInside
  /\ node' = FALSE /\ cdev' = FALSE /\ number' = "free"
  /\ UNCHANGED <<machine, uniwill, clevo, ops>>

-----------------------------------------------------------------------------
CountOp == ops < MaxOps /\ ops' = ops + 1

Ioctl(c) ==
  /\ cdev
  /\ SetFan(c, "fan0") \/ SetFan(c, "fan1") \/ FanAuto(c) \/ SetMode(c)
  /\ UNCHANGED lightbar

UniwillOp ==
  /\ \/ \E c \in Callers : Ioctl(c)
     \/ (\E l \in Leds : SetLed(l)) /\ UNCHANGED fans
     \/ Bind /\ UNCHANGED fans
  /\ CountOp

UniwillStep ==
  /\ \/ (\E t \in Threads : Access(t)) /\ UNCHANGED lightbar
     \/ (\E c \in Callers : Choose(c) \/ Sleep(c)) /\ UNCHANGED lightbar
     \/ ((\E f \in Fans : RampUp(f)) \/ RampEnds) /\ UNCHANGED lightbar
     \/ ((\E l \in Leds : LedWork(l))
         \/ RegisterLed \/ RegisterFails \/ Probed
         \/ Unbind \/ UnregisterLed \/ FlushLed \/ Removed) /\ UNCHANGED fans
  /\ UNCHANGED ops

ClevoOp ==
  /\ cdev
  /\ \E c \in Callers, s \in Switches : Begin(c, s)
  /\ CountOp

ClevoStep ==
  /\ Transport \/ \E c \in Callers : IoStep(c)
  /\ UNCHANGED ops

Next ==
  \/ IoInit \/ IoExit \/ OtherDriver
  \/ machine = "uniwill" /\ (UniwillOp \/ UniwillStep) /\ UNCHANGED <<machine, chardev, clevo>>
  \/ machine = "clevo" /\ (ClevoOp \/ ClevoStep) /\ UNCHANGED <<machine, chardev, uniwill>>

Spec == Init /\ [][Next]_vars

-----------------------------------------------------------------------------
\* The device answers under its number only while the number is its own, and
\* nothing is left of the device, its node or its number once the module is
\* gone, with nobody inside an ioctl (tuxedo_io_init, tuxedo_io_exit).
IoGone ==
  /\ cdev => ioLoaded /\ node /\ number = "io"
  /\ ~ioLoaded => ~node /\ number = "free" /\ NobodyInside

=============================================================================
