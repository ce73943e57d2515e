# Verification of the tuxedo-keyboard kernel modules

These TLA+ modules model the Linux kernel modules in `src/src`: `tuxedo_keyboard`,
which drives the keyboard backlight of Clevo and Uniwill laptops, the firmware
transports that plug into it (`clevo_wmi`, `clevo_acpi`, `uniwill_wmi`), `tuxedo_io`,
the device through which programs reach fans and switches, and the LED driver of the
Eluktronics Prometheus XVI (`eluk-pxvi-led-wmi`). TLC checks them on
small instances; TLAPS proves for every instance each safety and action property that a
passing run checks, and the two refinements.

All source paths below are relative to `src/src`. "The EC" is the laptop's embedded
controller.

## Inventory

| Component | State it keeps | Operations | Talks to |
|---|---|---|---|
| **Life cycle** (`tuxedo_keyboard.c`, `add_/remove_interface` of both families) | interface slots, `active_clevo_interface`, platform device, `current_driver`, input device, three mutexes | module init and exit; add and remove of each interface; init and removal of the driver | called by the transports' probe and remove; calls the platform bus and the input core |
| **clevo_keyboard** (`clevo_keyboard.h`) | `kbd_led_state`: colors of four regions, pattern, brightness, enabled | sysfs writes, hot keys, probe, suspend, resume | firmware methods through the active Clevo interface |
| **uniwill_keyboard** (`uniwill_keyboard.h`) | `kbd_led_state_uw`, the boot check (timer, work item, counter, last three colors), enable state on start | sysfs writes, level events, the check, probe, suspend, resume, remove; lightbar LEDs; fan registers; key combination | EC RAM through `uniwill_wmi` |
| **uniwill_wmi** (`uniwill_wmi.c`) | mode (direct or WMI), mutex; the EC's mailbox registers | read and write a byte of EC RAM, switch mode | the EC, the WMI firmware |
| **eluk-pxvi-led-wmi** | module parameters per zone, committed flags | parameter writes, commits, pretended commits, presets, state reports | one WMI write per zone |
| **tuxedo_io** (`tuxedo_io/`) | its device number, character device, class and node | module init and exit; ioctls: fans, webcam, flight mode, power profiles | both families' interfaces |
| **clevo_wmi, clevo_acpi** | `active_driver_data` of `clevo_acpi` | probe, remove, method call, notification | ACPI, WMI |
| **eluk-pxvi-shared-wmi** | none | one firmware call | WMI |

How they interact. The transports are modules of their own. Each registers from its
probe; the first one creates the platform device, the platform driver and the input
device, and a removal takes them down. From then on four kinds of actor run at the
same time with hardly any lock between them: processes in sysfs, ioctl or a
module's parameters; the firmware's events (notifier context); the boot check's
timer and work item; and the driver core (probe, suspend, resume, remove, rmmod).
They share the statics above and the firmware's registers.

What is hard here:

- *Interleaving*: the active interface is read outside its mutex; `init_driver` and
  `remove_driver` exclude neither each other nor the other family; a state cache and
  the firmware are updated in two steps; register bits change by read and write back.
- *Failure*: an initialisation fails half way; any firmware or EC call fails, and
  most callers look at neither status nor whether the byte means anything.
- *Ordering*: modules load in any order; hardware must be restored before the
  interface goes; colors before light; `del_timer` does not wait for the work.
- *Timeouts*: the EC answers late or never, at the very last poll, or after the
  driver gave up.
- *Sleep*: the keyboard may forget all, the driver must bring it back.
- *Racing the hardware*: fans that ramp up overwrite the speeds just set for them, and
  some firmware toggles a switch where it is told to set it.

The properties that make each component correct are listed with its module below;
`PROJECT.json` lists each hazard with its line and the properties about it.

## Modules

| Module | Models |
|---|---|
| `ClevoArbiter` | abstract: which of the registered Clevo interfaces firmware calls go to |
| `TuxedoKeyboard` | the life cycle; implements `ClevoArbiter` |
| `ClevoKeyboard` | the Clevo backlight state and its firmware |
| `EcRam` | abstract: a RAM whose reads and writes are atomic and may fail |
| `UniwillEc` | `uniwill_wmi`; implements `EcRam` |
| `UniwillKeyboard` | the Uniwill backlight, over accesses of the kind `EcRam` promises |
| `ElukLed` | the LED zones |
| `EcTasks` | threads that work on the EC RAM: the accesses, of the kind `EcRam` promises |
| `UniwillFans` | the fan and mode ioctls on a Uniwill machine, and the fans; over `EcTasks` |
| `UniwillLightbar` | the lightbar with its part of probe and remove; over `EcTasks` |
| `ClevoIo` | the switch ioctls on a Clevo machine and the transports; over `ClevoArbiter` |
| `TuxedoIo` | composes the three with the character device |
| `MC...` | instances for TLC |
| `TuxedoKeyboardProofs`, `ClevoKeyboardProofs`, `UniwillEcProofs`, `UniwillKeyboardProofs`, `ElukLedProofs`, `TuxedoIoProofs`, `UniwillIoProofs` | theorems and proofs; the last is about `UniwillFans` and `UniwillLightbar` within `TuxedoIo` |
| `TaskLists` | lemmas about lists of tasks that the proofs share |

### TuxedoKeyboard

One thread per interface runs its probe and remove, one runs `module_init` and
`module_exit`. `pc` says where a thread is; a step runs from one point at which
somebody else can see or change shared state to the next. Pointers are `null`,
`live` or `stale` (freed, still stored). `faults` records what went wrong (NULL
dereference, use of a freed input device, double unregistration); it only observes.
`add_interface` is `AddClevo` or `AddUniwill` up to the unlock, then `InitLock`,
`CheckActive`, and either `AlreadyInitialised` or the creation of the devices
(`CreateBundle` .. `Publish`, with `BundleFails`); `remove_interface` is
`RemoveClevo` or `RemoveUniwill`, `CompareNames`, the single unregistrations and
clearings of `remove_driver`, and `Return...`.

Properties: with no removal under way, the active interface is a registered one or none
(`ActiveIsRegistered`; this is about the pointer, calls that have read it are in
`ClevoIo`), ACPI wins (`AcpiPriority`), both as an implementation of the abstract arbiter
(`ArbiterSpec`); Uniwill's teardown still reaches its EC (`UniwillTeardownHasEc`);
and, with unloads that do not overlap (`CalmSpec`), no teardown faults (`NoTeardownFault`), device,
driver and input device exist exactly while there is an active interface
(`ServedWhenQuiet`), nothing survives the module (`NothingLeftBehind`), the input device
that `current_driver` leads to is a live one outside removals (`EventTargetLive`; Clevo's
events go there, while `uniwill_event_callb` reads its own driver's input device, which
this does not cover), every call returns (`CallsReturn`).

Removing ACPI while WMI is registered leaves no interface active and no driver bound, so
"active" is not the same as "registered" there.

### ClevoKeyboard

`led` is `kbd_led_state` (the regions, brightness, pattern, enabled, whether there is
an extra region, and the palette index), `fw` what the keyboard was last told. An
operation is a list of tasks in `job`: `Keep` is a firmware call followed by the store
if it succeeded, `Show` a call without a store, `Put` a store without a call. Each
task is split at the points where another thread can come between (`Load`, `Call` or
`CallFails`, `Store`). Data is abstracted to colors, pattern numbers and one byte of
brightness; the cut to eight bits in sysfs writes is kept (`Clamp8`).

`SerialSpec` runs one operation at a time; `Spec` lets them
overlap as the code does. A call that fails may have acted all the same: the transports
also return an error when a method gave no result or one that is not a number
(`clevo_wmi.c:45-59`, `clevo_acpi.c:68-79`). The cache then keeps the old value and
`sure`, which observes which settings the keyboard is known to have, loses this one.
A transport that is removed while a call runs is `ClevoIo`'s matter.
Checked serially: a failed call does not change the cache, and the cache holds what the
keyboard was told last for every setting in `sure` (`CacheTracksFirmware`); after probe and resume the keyboard shows it
(`RestoredWhenQuiet`) if no call failed, and the light comes on last (`LightsOnWhenRestored`);
suspending does not overwrite what to come back to (`SleepKeepsSettings`).

### UniwillEc

Two or more callers, the mutex, the mode switch, and the mailbox register by register
in direct mode: address bytes, data, request flag, polls, clearing. `EcServes` is the
EC, at any moment between two register accesses or never. `seen` and `acted` observe
when a call took effect. Properties: while a request is up the registers hold one
owner's complete request (`RequestIsOwners`), a call that timed out leaves none behind
(`QuietWhenUnlocked`), every call is an atomic access or fails (`RamSpec`), and every
call returns (`CallsReturn`).

Assumed of the hardware: accesses to the mailbox registers themselves succeed, the EC
reads address and data when it serves a raised flag, and a WMI method that succeeds
returns the byte.

### UniwillKeyboard

Registers for the color channels and the one with the enable bit; a thread's `job` is
its list of tasks, each one EC access or code without any. Every access may fail: a
failed read hands out a byte that the code goes on to use, a failed write may have
happened or not. Threads: sysfs writers, the firmware's events, the work item and the
driver core. `TimerFires`, `WorkStarts`, `Check` and `Stop` are the boot check;
`InitSet` and `WriteEnable` the sequences shared by the check, probe and resume;
`Animate` and `LoseColor` are the keyboard's firmware. `streak`, `readings`,
`detected`, `failed` and `shows` observe.

Properties: the backlight is set up only after three equal readings of this life
(`SetupAfterAnimation`); the check gives up (`ChecksEnd`), both when the driver comes for
the first time, as its counter and colors are not set anew for a second; the keyboard shows the state
unless an access failed, the animation went on or two threads sent theirs at once, and
always gets a color sent after a reset or a sleep (`StateShown`); it is lit while served (`LitWhenReady`), dark asleep
(`DarkAsleep`) and as it was found once the driver is gone (`RestoresEnableState`);
channels stay in range (`TypeOK`). `CalmSpec` lets suspend and removal wait until the
boot check is over.

Events are modelled from the start of the probe to the end of the removal. The short
time between the interface's registration and the probe, in which the code takes every
board for one with an RGB keyboard, is left out.

### ElukLed

Every operation is a read or write of a module parameter, which the kernel runs one
at a time under the module's parameter lock, so each is one step: parameters set,
zones verified (`Send`), flags set, words written zone by zone until one fails, which may
have reached the firmware all the same (`SetValue`). Properties: the
firmware only gets words it knows (`FirmwareGetsCheckedWords`), a success is one
(`SuccessMeansWritten`), no preset is refused (`PresetNeverRefused`), offline is dark
(`OfflineIsDark`). Presets are part of the driver because
`eluk-pxvi-led-wmi.h:81` defines `ELUK_ENABLE_PRESETS`.

### EcTasks

A thread's `job` is its list of tasks: reads of a register, writes of a byte, and `Set`
and `Clear`, which write back the byte read last with one bit changed. `ReadEc` and
`WriteEc` are `uniwill_read_ec_ram` and `uniwill_write_ec_ram` as their callers see
them: atomic, and failing whenever they like, with a byte that means nothing, or with a
write that happened all the same. `sure`, `missed` and `spoilt` observe which bytes and
registers such failures have reached.

### UniwillFans

`SetFan` (`uw_set_fan`), `FanAuto` and `SetMode` put their accesses into the caller's
job; `Choose` is the test of the full fan bit in `uw_set_fan`, `Switch` the rounds of
writes with which it holds its speeds against the ramp-up. The EC is `RampUp`, which may
overwrite either fan as long as fans ramp up, and `RampEnds`. All these run in callers
that no lock keeps apart. Properties: the profile bits of the mode register survive
every fan call (`ProfileKept`); no fan is left at the EC's own speed when a fan call has
switched full fan mode on (`NoFanLeftBehind`). The first excuses a byte that a failed
read handed out, and a profile set between a fan call's read and its write, which is
undone: no lock keeps the two ioctls apart. The second says nothing of full fan mode that
`W_UW_MODE` has switched on.

### UniwillLightbar

`SetLed` is a write to an LED's `brightness`, which the kernel's LED core cuts to the
range, stores (`asked`) and hands to the LED's work item, `LedWork`
(`lightbar_set_blocking`). `Bind` starts the probe, `RegisterLed`, `RegisterFails` and
`TakeDown` are `uw_lightbar_init` with its roll-back and `uw_lightbar_remove`;
unregistering turns an LED off and flushes its work item. `animated` observes what the
calls since the lightbar was last at rest want of the animation: the animation's LED wants
what it was set to, a color wants it off. Properties, at rest: the colors that are shown
are those asked for, whatever the work items of the other LEDs did; the animation is as one
of these calls wanted it, so off after a color alone, and off whenever its own LED is; and
its register is otherwise unchanged (`LightbarShows`). Before the first call nothing is
claimed of the animation but that the drivers leave it on. All LEDs
are there or none, and no work item outlives its LED (`LightbarAllOrNone`).

### ClevoIo

`call` is where each caller is in an ioctl: about to read (`get`) or to set (`set`), and
through which interface. `Look`, `Load`, `Call` and `CallFails` are
`clevo_evaluate_method`, which without a lock reads the active interface twice: to see
whether it is NULL, and to call it. If a removal comes in between, the caller dereferences
NULL (`Dies`). `clevo_acpi` does the same with its driver data (`LookForData`,
`MissData`). A call that fails may have acted. The transports'
probe and remove stand next to it with `active_driver_data` (`AcpiData` .. `AcpiGone`,
`WmiAdd`, `WmiRemove`); `TuxedoKeyboard`'s life cycle behind them is replaced by what it
is proved to implement, `ClevoArbiter`. Properties: a switch ends where one of its last
callers wanted it, also on firmware that toggles, unless one of their calls failed or died
(`SwitchAsAsked`); while ACPI is active, its driver data are there (`DataWhileActive`). On
firmware that toggles, calls that overlap do undo each other, so the first property excuses
them there. What it sees is the reading and setting of one caller while transports change.
No property says that no caller dies, since one can.

`WmiAdd` has no test of the firmware's answer to the test call: `clevo_wmi.c:100` compares
an unsigned status with `< 0`, which is never true, and then looks at a value that was
not set if the call failed.

### TuxedoIo

`IoInit`, `IoExit` and the guard on every ioctl are the character device's life.
`IoGone`: ioctls are served only while the device has its number, and nothing of the
device is left after the module. A module whose device could not be added stays
loaded, and releases at its exit a number that `OtherDriver` may own by then; the model
shows that step, and no property denies it. That the results of `class_create` and
`device_create` are not looked at is not modelled.

## Runs

| Run | Instance | Shows |
|---|---|---|
| `lifecycle_any_order` | three interfaces, failing inits, no restriction | the choice of interface, the arbiter, Uniwill's order of teardown hold under every interleaving |
| `lifecycle_calm_clevo` | both Clevo interfaces, unloads one at a time | devices are created and taken down exactly once over any sequence of loads and unloads |
| `clevo_serial` | two regions, two patterns, palette of two, one writer | the cache and the keyboard agree and are restored, any call failing |
| `uniwill_ec` | two callers, two addresses, two bytes, two polls | atomic accesses, nothing left behind, termination |
| `uniwill_backlight` | one writer, two channels, three checks, one life | see the list above |
| `eluk_led` | three operations | see the list above |
| `tuxedo_io` | two callers, both kinds of machine, three operations | fans, profile, lightbar, switches and the device survive what the others do |
| `failed_init` (violated) | one interface | the removal after a failed init dereferences NULL |
| `other_family` (violated) | one interface of each family | the removal of one family takes down the other's driver |
| `clevo_race` (violated) | as `clevo_serial`, overlapping | two operations at once leave a wrong cache |
| `uniwill_ec_last_poll` (violated) | two callers, two polls | an access seen ready at the last poll is reported as failed |
| `uniwill_remove_race` (violated) | as `uniwill_backlight`, removal at any time | a keyboard that was dark stays lit |

The violated runs each check one sentence of the code's own comments; `PROJECT.json`
quotes them under `findings`.

Bounds, and why they are enough.

- *Life cycle*: the state space is finite as it is, no bound is needed. All
  interfaces that exist take part.
- *ClevoKeyboard*: two regions distinguish the main one from the extra one, which is
  conditional. In `clevo_serial` a step is the whole brightness range (255), in
  `clevo_race` most of it (200), which takes two key presses from end to end and has more
  states; 767 exceeds a byte and every range and is 255 once it is cut.
- *UniwillEc*: two addresses that differ in both bytes, so that any mixture of two
  requests is a third address; with two polls an answer can come before, at and after
  the last one. `MCSpec` starts with a cleared RAM.
- *UniwillKeyboard*: `CheckCount = 2` gives three readings, the fewest that can detect
  the end, and one that gives up. Two channels can be torn and mixed as well as three.
  All operations repeat without bound except the probe (`MaxLives = 1`).
- *ElukLed*: three operations set a parameter, overwrite it by a preset or fail to,
  and commit it. The proofs remove this bound.
- *TuxedoIo*: two callers, interchangeable (`CallerSymmetry`), and `MaxOps = 3` ioctls,
  brightness writes and probes: two that overlap, one before or after. Two rounds of
  writes instead of ten, one while the fans ramp up, one after. Speed 300 and level 99
  are wider than a byte and out of range; mode 96 switches full fan mode on, 16 does
  not; a failed read hands out 0 or 255, with or without the bits that matter;
  `AnimationBits = 5` are bits that must stay. To keep the run short, `MCSpec` leaves
  tuxedo_io unloaded on the Uniwill machine with a lightbar and loaded on the one
  without: ioctls and lightbar have no register in common, and loading and unloading
  take place on the Clevo machine. The proofs use `Spec`, which does not do that.

`CHECK_DEADLOCK FALSE` stands where the system may stop: after a NULL dereference or
with the module out of memory for good (the life cycle with failures), with the
driver gone (`UniwillKeyboard`) or all operations used up (`ElukLed`, `TuxedoIo`).

Assumptions about the environment.

- `lifecycle_calm_clevo`, `failed_init`, `other_family`: a removal or module unload
  starts when nothing else is inside the module and nothing starts while it runs,
  that is rmmod by hand or by a package script. Loads stay concurrent.
  `lifecycle_any_order` drops this.
- `uniwill_backlight`: suspend and removal start when the boot check is over, some 20
  seconds after boot. `uniwill_remove_race` drops this. Where the two overlap,
  `RestoresEnableState` and `DarkAsleep` fail, while TLC finds that `LitWhenReady` and
  `StateShown` still hold (4,790,086 states).
- `clevo_serial`: one operation at a time. `clevo_race` drops this.
- `tuxedo_io`: the ten pauses of a fan call outlast the ramp-up that this call started,
  which is what they are there for. The LED core stores brightness within the LED's
  range, runs one work item per LED, and turns an LED off and waits for its work when
  it is unregistered. A method call that has got hold of its interface goes on to the end
  even if the transport is removed meanwhile: what a processor does in code that has been
  unloaded is not modelled. The firmware that sets switches does so at once.

Fairness: in `TuxedoKeyboard`, a thread in the kernel keeps going (weak), and a mutex
that becomes free again and again is eventually got (strong; the kernel hands a mutex
to its first waiter). Nobody is forced to load or unload. In `UniwillEc` likewise for
the callers and their mutex; nothing at all is assumed of the EC, which is why
`CallsReturn` says something: it is the poll counter that makes it true.

## Proofs

TLAPS checks all of this with no obligation left.

`TuxedoKeyboardProofs`, for every set of interfaces and whether or not
initialisations fail (`IfacesAssumption`, `InitMayFailAssumption`): `TypeCorrect`,
`ActiveInterfaceRegistered`, `AcpiTakesPriority`, `ImplementsArbiter`,
`TeardownReachesEc`. None of the properties is inductive: while a removal runs, its
interface has left its slot and is still active, and the proof must know that this is
the only exception. `IInv` adds to the types that the thread which removes holds the
Clevo mutex and the other way round (`HolderInv`), that an interface is in its slot
exactly from its add to its removal (`SlotInv`), who is active meanwhile (`ActiveInv`),
and that the module goes only when all interfaces are out (`UnloadInv`). Most actions do
not touch any of this: a lemma (`InsideSteps`) says so once, and the induction step then
has one case for these and one for each of the others. For the refinement, `ArbiterStep`
shows that each step is an abstract step or a stutter; a removal takes effect in
`ReturnClevo`. `TeardownReachesEc` needs to know how the Uniwill driver can be unbound at
all, although removals overlap and the statics are read without a lock (`EcInv`): either
the Uniwill thread has not finished a removal, or removals that overlapped have cleared
the pointers under each other's hands, and then nobody unbinds the driver any more
(`Leaked`).

Four more theorems there are about `CalmSpec`: `TeardownIsClean`, `LeavesNothing`,
`EventsReachLive` for interfaces of one family (`OneFamily`, either of them) whose
initialisations succeed, `Served` for Clevo ones, as its property is worded for them.
Without these hypotheses the properties are false, as the runs `other_family` and
`failed_init` show. `QuietInv` says what the statics and the bus hold at each place of the
one thread that builds or removes (`StageInv`), that otherwise the driver is up as a whole
or down as a whole, and up exactly for an interface to serve (`ServedInv`).

`ClevoKeyboardProofs`, for any writers, numbers, palette, parameters and regions
(`ConstantsAssumption`), any call failing: `TypeCorrect` under `Spec`, the index into the
palette and the pattern number among the types; `CacheCorrect`, `Restored`,
`LightsOnLast`, `SleepKeeps` under `SerialSpec`, without which they are false
(`clevo_race`). What has to be found is what waits on a thread's list: a value at hand
waits behind nothing but the colors of a hot key and the light comes last (`JobsInv`); the
probe's list is a rest of the one it began with (`BootInv`); the next task keeps what the
driver core caches (`HeadInv`). Then each setting the firmware knows is the cached one or
about to be cached (`CacheInv`), and each that it may have lost is on its way
(`RestoredInv`).

`ElukLedProofs`, for all sets of inputs and any number of operations
(`InputAssumption`): `TypeCorrect`, `OnlyCheckedWords`, `SuccessIsTrue`,
`PresetsAccepted`, `OfflineTurnsOff`. The check looks at the low byte of effect and
level while the word is put together from the whole 32-bit value with shifts and ors.
The lemmas about nibbles show that a value that passes the check spoils nothing;
`SendFacts` describes a write of some zones in some order that fails somewhere, and the
induction has one case per operation.

`UniwillEcProofs`, for any callers, addresses, bytes and number of polls
(`AddrsAssumption`, `BytesAssumption`, `WaitAssumption`, `NoneAssumption`):
`TypeCorrect`, `RequestBelongsToOwner`, `MailboxQuiet`, `ImplementsEcRam`. The invariant
follows the holder of the mutex through its code: who is inside has it (`MutexInv`),
who has a request and may have acted (`CallInv`), which part of the request is in the
mailbox at each place (`MailboxInv`), and that what the holder has polled is what the
EC has done (`AnswerInv`). Even the types need it: the EC indexes its RAM by two
registers, and that they hold an address while a request stands is no matter of types
(`ServedRequest`). In the refinement a call acts when the EC serves it, or inside the
WMI method, and returns when the mutex is released; all else is a stutter.

`TuxedoIoProofs`, for any callers, arguments, brightness levels, garbage, rounds and
number of operations (`ThreadsAssumption`, `FansAssumption`, `LightbarAssumption`,
`ArgsAssumption`, `CallersAssumption`): `TypeCorrect`, `ProfileSurvives`,
`SwitchesObey`, `ActiveHasData`, `DeviceGone`. The invariant `IInv` adds what each of
them needs. Bytes stay bytes only if every task that changes a bit changes the one of
its own register, in the jobs still to be done, too (`SoundTasks`, `JobInv`). The
profile survives because every thread that could write the mode register back has read
the profile's bits in it (`ProfileInv`). On firmware that toggles, a switch is set right
because there is one caller about it, whose look at the position still holds
(`SwitchInv`). The data are there since the steps of a removal come in the right order
(`AcpiInv`), and nobody is inside a module that is gone, as a call begins only through
the device (`NobodyEntersUniwill`, `NobodyEntersClevo`). The induction has one case for
each machine and one for the device; the lemmas below it one per action.

`UniwillKeyboardProofs`, for any channels, colors, animations, parameters, number of
checks, writers and lives, any access failing (`ConstantsAssumption`): `TypeCorrect`,
`ChecksAreBounded`, `SetsUpAfterAnimation`, `StateIsShown` under `Spec`, so also where a
removal or a sleep overlaps the boot check; `LitOnceReady`, `DarkWhileAsleep`,
`EnableStateRestored` under `CalmSpec`. Again the lists carry the argument: a thread sends
the channels of a color first, and paints after it has reset (`ListsInv`). `CountInv`
counts the readings that were against the checks to come, `StreakInv` relates the three
remembered colors to the readings since they last differed. `ShownInv` says that what the
keyboard lost will be painted, and that a state it shows comes from one thread that sends
what is missing of it. In `CalmInv` the backlight has its goal (lit, dark, as found), or
the one thread that may change it has it on its list (`LightInv`).

`UniwillIoProofs`, about `TuxedoIo` under the assumptions of `TuxedoIoProofs` and on top
of its invariant: `LightbarWhole`, `LightbarShown`, `FansAsAsked`. Probe and remove are at
some place of one of a few sequences, and the place tells which LEDs are registered
(`CoreInv`); one that is not has no work left but what is being waited for (`GoneInv`).
`JobsInv` is what each thread's list may look like. An LED's color is on its way or there,
its animation bit too, and whoever has read the animation's register without a failure
holds the bits that must stay (`ShowInv`). Every work item that has the animation's bit
still to write, waiting or begun, writes it as one of the calls since the last rest wants
it, and at rest so does what was written last (`WishInv`). While the fans ramp up, the caller that
switched full fan mode on has yet to write both of them (`RampInv`).

Only model-checked: liveness under fairness, that is `CallsReturn` in `TuxedoKeyboard` and
in `UniwillEc`, which TLAPS cannot treat. No liveness is claimed of `TuxedoIo`: every
ioctl is a finite list of calls. That `LitWhenReady` also holds where a removal overlaps
the boot check is known from TLC's instance alone.

## Not modelled

- Of the Uniwill driver: the fan curve, manual mode and second temperature set once at
  probe, in registers nothing else here uses; the keys passed on to the input device
  and the key combination of event 0xb0.
- Of `tuxedo_io`: the commands that only read, the hardware checks among them, and the
  raw EC access of debug builds. Fans keep the speeds last set for them when the
  drivers go; nothing in the code restores them.
- `eluk-pxvi-shared-wmi`: one stateless call, which succeeds or fails in `ElukLed`.
- `rgb_last_known_state` of `eluk-pxvi-led-wmi` says "valid" as soon as a state is
  committed, before anything is written (`eluk-pxvi-led-wmi.c:586`): the model has it in
  `committed`, no run is about it.
- Logging, the output of sysfs `show` functions, packaging and build files.
- Reading sysfs files changes nothing and is left out.
- That a module's memory is gone while its work item or key report still runs: the
  models say which state such code leaves, not what a processor does with freed code.

## Plan

In the order of what matters most:

1. The event dispatch and the key combination (85, 29, 125) next to a removal, with
   `uniwill_event_callb` reading its driver's input device directly, which is stale from
   a removal to the next initialisation.
2. Second lives: the counter and the colors of the boot check survive a removal
   (`MaxLives = 2`), so that a check with a negative count never gives up.
3. `LitWhenReady` without `CalmSpec`, and `ServedWhenQuiet` worded for either family.
