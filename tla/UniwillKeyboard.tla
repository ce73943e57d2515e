--------------------------- MODULE UniwillKeyboard ---------------------------
(***************************************************************************)
(* uniwill_keyboard: the backlight of a Uniwill keyboard, over EC RAM whose*)
(* single reads and writes are atomic but may fail (EcRam).  On machines   *)
(* with one RGB color the firmware plays an animation at boot: a timer and *)
(* its work item watch the color until it stands still, and only then is   *)
(* the backlight set up and lit.  Next to that work item, which nothing    *)
(* freezes or waits for, run sysfs writers, the firmware's events and the  *)
(* driver core (probe, suspend, resume, remove).  None of them holds a     *)
(* lock over more than one EC access.  A thread's remaining work is a list *)
(* of tasks, each of them one access or one piece of code without any.     *)
(***************************************************************************)
EXTENDS Integers, Sequences

CONSTANTS
  Writers,      \* the processes that write to sysfs
  Channels,     \* the channels of a color; the keyboard's are red, green and blue
  Colors,       \* color_list: the codes a name given to sysfs stands for
  Brightness,   \* the numbers written to sysfs
  Levels,       \* the brightness of the level events; the code's are 0, 32, 80, 128, 200
  ParamColors, ParamBrightness,  \* the module parameters, colors looked up
  BootBytes,    \* what the backlight register may hold when the driver comes
  Frames,       \* the colors of the boot animation
  CheckCount,   \* uw_kbd_bl_check_count; the code's is 40
  Garbage,      \* what a failed read hands out
  MaxLives      \* bound: how often the driver is probed

BrightnessMax == 200         \* 0xc8, also the largest value of a channel
BrightnessDefault == 60
White == 16777215
ResetByte == 16              \* 0x10, written to reset the backlight
Byte   == 0..255
UShort == 0..65535
Rgb    == 0..White

Work    == "work"    \* uw_kbd_bl_init_ready_check_work
Event   == "event"   \* uniwill_event_callb
Core    == "core"    \* probe, suspend, resume, remove
Threads == Writers \cup {Work, Event, Core}

ASSUME ConstantsAssumption ==
  /\ Work \notin Writers /\ Event \notin Writers /\ Core \notin Writers
  /\ Channels \subseteq {"red", "green", "blue"}
  /\ Colors \subseteq Nat /\ Frames \subseteq Rgb
  /\ Brightness \subseteq Nat /\ Levels \subseteq 0..BrightnessMax
  /\ ParamColors \subseteq Nat /\ ParamBrightness \subseteq UShort
  /\ BootBytes \subseteq Byte /\ Garbage \subseteq Byte
  /\ CheckCount \in Nat /\ MaxLives \in Nat

\* The registers of the channels (0x1803, 0x1805, 0x1808) and the one whose
\* bit 1 turns the backlight off (0x078c).
Registers == Channels \cup {"bl"}

VARIABLES
  rgb,      \* uniwill_kbd_bl_type_rgb_single_color
  ram,      \* the registers
  state,    \* kbd_led_state_uw
  onStart,  \* uniwill_kbd_bl_enable_state_on_start
  prev,     \* uw_prev_colors
  index,    \* uw_prev_colors_index, from 1
  checks,   \* uw_kbd_bl_check_count
  timer,    \* the timer is armed
  queued,   \* the work item waits to run
  phase,    \* out, probing, bound, suspending, asleep, resuming or removing
  job,      \* for each thread, the tasks left of its current operation
  got,      \* for each thread, the bytes it has read
  lives,    \* how often the driver was probed (bound)
  streak,   \* observer: how many equal readings, at most 3, the checks of this
            \* life have taken last
  readings, \* observer: how many checks of this life have read the color
  detected, \* observer: this life has set up the backlight
  failed,   \* observer: an access to the backlight register failed in this life
  shows     \* observer: the keyboard shows the "state", written by one thread
            \* undisturbed; "other", after a failure, a mix-up or the animation;
            \* or a reset or a sleep has "lost" what it showed

check == <<prev, index, checks, timer, queued>>
seen  == <<streak, readings, detected, failed, shows>>
vars  == <<rgb, ram, state, onStart, check, phase, job, got, lives, seen>>

-----------------------------------------------------------------------------
(***************************************************************************)
(* Data: a register's bit, a color's channels and what is sent for them.   *)
(***************************************************************************)
Enabled(byte) == IF (byte \div 2) % 2 = 1 THEN 0 ELSE 1

\* Mutated form: the bit is not inverted.
WithEnabledPlain(byte, e) == byte - 2 * ((byte \div 2) % 2) + 2 * e

WithEnabled(byte, e) == byte - 2 * ((byte \div 2) % 2) + 2 * (1 - e)

Weight(c) == CASE c = "red" -> 65536 [] c = "green" -> 256 [] c = "blue" -> 1

Channel(color, c) == (color \div Weight(c)) % 256

\* Mutated form: the channel is not scaled down to its range.
ScaledNotToRange(c) ==
  (Channel(state.color, c) * ((state.brightness * 100) \div BrightnessMax)) \div 100

\* uniwill_write_kbd_bl_state: the channel in its range, dimmed.
Scaled(c) ==
  (((Channel(state.color, c) * 200) \div 255)
     * ((state.brightness * 100) \div BrightnessMax)) \div 100

Part(bytes, c) == IF c \in Channels THEN bytes[c] * Weight(c) ELSE 0

Code(bytes) == Part(bytes, "red") + Part(bytes, "green") + Part(bytes, "blue")

-----------------------------------------------------------------------------
(***************************************************************************)
(* Tasks.                                                                  *)
(***************************************************************************)
Read(r)      == [do |-> "read", reg |-> r]
Write(r, v)  == [do |-> "write", reg |-> r, value |-> v]
Enable(e)    == [do |-> "enable", reg |-> "bl", value |-> e]  \* the byte read, with its bit
Do(what)     == [do |-> what, reg |-> "none"]

\* A task for each channel, in the order red, green, blue.
InOrder(task) ==
  LET One(c) == IF c \in Channels THEN <<task[c]>> ELSE <<>> IN
  One("red") \o One("green") \o One("blue")

WriteEnable(e) == <<Read("bl"), Enable(e)>>

\* Mutated form: the colors are not sent again.
InitSetNoPaint == <<Write("bl", ResetByte)>> \o WriteEnable(1)

\* uw_kbd_bl_init_set and the resume, on a machine with one RGB color.
InitSet == <<Write("bl", ResetByte), Do("paint")>> \o WriteEnable(1)

Task(t, kind) == job[t] # <<>> /\ Head(job[t]).do = kind

NoBytes == [r \in Registers |-> 0]

\* The next task is done and these come in its place; when an operation ends,
\* the bytes it has read are gone.
Becomes(t, tasks) ==
  LET rest == tasks \o Tail(job[t]) IN
  /\ job' = [job EXCEPT ![t] = rest]
  /\ got' = IF rest = <<>> THEN [got EXCEPT ![t] = NoBytes] ELSE got

Idle(t) == job[t] = <<>>

Starts(t, tasks) == Idle(t) /\ job' = [job EXCEPT ![t] = tasks] /\ UNCHANGED got

\* The thread has the color still to write, or has begun to.
Paints(t) ==
  \E k \in DOMAIN job[t] :
    job[t][k].do = "paint" \/ (job[t][k].do = "write" /\ job[t][k].reg \in Channels)

PaintsNow(t) == job[t] # <<>> /\ Head(job[t]).do = "write" /\ Head(job[t]).reg \in Channels

Init ==
  /\ rgb \in BOOLEAN
  /\ \E b \in BootBytes, f \in Frames :
       ram = [r \in Registers |-> IF r = "bl" THEN b ELSE Channel(f, r)]
  /\ state = [brightness |-> BrightnessDefault, color |-> White]
  /\ onStart = 0
  /\ prev = <<16777216, 33554432, 50331648>> /\ index = 1
  /\ checks = CheckCount /\ timer = FALSE /\ queued = FALSE
  /\ phase = "out"
  /\ job = [t \in Threads |-> <<>>]
  /\ got = [t \in Threads |-> NoBytes]
  /\ lives = 0
  /\ streak = 0 /\ readings = 0 /\ detected = FALSE /\ failed = FALSE /\ shows = "other"

-----------------------------------------------------------------------------
(***************************************************************************)
(* The steps of a thread's tasks.  Without an interface, which goes right  *)
(* after the driver, every access fails.                                   *)
(***************************************************************************)
Fixed == <<rgb, onStart, phase, lives>>

\* An access to register r fails, as it must without an interface.
Fault(r) == failed' = (failed \/ r = "bl")

Works == phase # "out" /\ UNCHANGED failed

\* uniwill_read_ec_ram.  A failure is not noticed: the byte that comes with
\* it is used like any other.
ReadEc(t) ==
  /\ Task(t, "read")
  /\ LET r == Head(job[t]).reg IN
     \/ Works /\ got' = [got EXCEPT ![t][r] = ram[r]]
     \/ Fault(r) /\ \E b \in Garbage : got' = [got EXCEPT ![t][r] = b]
  /\ job' = [job EXCEPT ![t] = Tail(@)]
  /\ UNCHANGED <<Fixed, ram, state, check, streak, readings, detected, shows>>

\* uniwill_write_ec_ram: done, or failed, and then it may still be done.
Put(r, v) ==
  LET done == [ram EXCEPT ![r] = v] IN
  \/ Works /\ ram' = done
  \/ Fault(r) /\ ram' \in (IF phase = "out" THEN {ram} ELSE {ram, done})

\* What the keyboard shows once the register holds its new value.
ShowsAfter(t, r, v) ==
  IF r = "bl" THEN "lost"
  ELSE IF shows = "state" /\ (ram'[r] # v \/ \E u \in Threads \ {t} : PaintsNow(u))
    THEN "other"
    ELSE shows

WriteEc(t) ==
  /\ Task(t, "write")
  /\ LET r == Head(job[t]).reg  v == Head(job[t]).value IN
     /\ Put(r, v)
     /\ shows' = ShowsAfter(t, r, v)
  /\ Becomes(t, <<>>)
  /\ UNCHANGED <<Fixed, state, check, streak, readings, detected>>

\* The second half of uniwill_write_kbd_bl_enable.
EnableEc(t) ==
  /\ Task(t, "enable")
  /\ Put("bl", WithEnabled(got[t]["bl"], Head(job[t]).value))
  /\ Becomes(t, <<>>)
  /\ UNCHANGED <<Fixed, state, check, streak, readings, detected, shows>>

\* uniwill_write_kbd_bl_state: the color is computed from the state first.
Paint(t) ==
  /\ Task(t, "paint")
  /\ Becomes(t, InOrder([c \in Channels |-> Write(c, Scaled(c))]))
  /\ shows' = IF \E u \in Threads \ {t} : PaintsNow(u) THEN "other" ELSE "state"
  /\ UNCHANGED <<Fixed, ram, state, check, streak, readings, detected, failed>>

-----------------------------------------------------------------------------
(***************************************************************************)
(* The timer and its work item, whose function never runs twice at a time. *)
(***************************************************************************)
TimerFires ==
  /\ timer
  /\ timer' = FALSE /\ queued' = TRUE
  /\ UNCHANGED <<Fixed, ram, state, prev, index, checks, job, got, seen>>

WorkStarts ==
  /\ queued /\ queued' = FALSE
  /\ Starts(Work, InOrder([c \in Channels |-> Read(c)]) \o <<Do("check")>>)
  /\ UNCHANGED <<Fixed, ram, state, prev, index, checks, timer, seen>>

\* Mutated form: the first of the three is not compared.
SameTwo(p) == p[2] = p[3]

Same(p) == \A k \in 1..2 : p[k] = p[k + 1]

\* Mutated form: the checks are not counted.
CountDownNot == UNCHANGED checks

CountDown == checks' = checks - 1

\* The place of the latest reading; the next goes to index.
Before(i) == IF i = 1 THEN 3 ELSE i - 1

\* The color read is remembered.  Three equal ones end the animation and the
\* backlight is set up; otherwise the timer is armed again until the checks
\* are used up.
Check ==
  /\ Task(Work, "check")
  /\ LET code == Code(got[Work])
         p    == [prev EXCEPT ![index] = code] IN
     /\ prev' = p /\ index' = (index % 3) + 1
     /\ streak' = IF streak = 0 \/ code # prev[Before(index)] THEN 1
                  ELSE IF streak < 3 THEN streak + 1 ELSE 3
     /\ readings' = readings + 1
     /\ \/ /\ Same(p)
           /\ detected' = TRUE
           /\ Becomes(Work, InitSet \o <<Do("stop")>>)
           /\ UNCHANGED <<timer, checks>>
        \/ /\ ~Same(p)
           /\ timer' = (checks # 0)
           /\ CountDown
           /\ Becomes(Work, <<>>)
           /\ UNCHANGED detected
  /\ UNCHANGED <<Fixed, ram, state, queued, failed, shows>>

\* del_timer after the setup, and the check counts.
Stop ==
  /\ Task(Work, "stop")
  /\ timer' = FALSE
  /\ CountDown
  /\ Becomes(Work, <<>>)
  /\ UNCHANGED <<Fixed, ram, state, prev, index, queued, seen>>

Colored(f) == [r \in Registers |-> IF r = "bl" THEN ram[r] ELSE Channel(f, r)]

\* The firmware shows another frame of the animation, which may go on for
\* ever or be over at any time.
Animate ==
  /\ rgb /\ phase # "asleep"
  /\ \E f \in Frames : ram' = Colored(f)
  /\ ram' # ram
  /\ shows' = IF shows = "state" THEN "other" ELSE shows
  /\ UNCHANGED <<Fixed, state, check, job, got, streak, readings, detected, failed>>

-----------------------------------------------------------------------------
(***************************************************************************)
(* sysfs and the firmware's events, on a machine with one RGB color.  The  *)
(* state is stored first and painted then.  A number or a name that is     *)
(* refused changes nothing.                                                *)
(***************************************************************************)
WriteBrightness(w) ==
  /\ rgb /\ phase = "bound"
  /\ \E b \in Brightness : b <= BrightnessMax /\ state' = [state EXCEPT !.brightness = b]
  /\ Starts(w, <<Do("paint")>>)
  /\ UNCHANGED <<Fixed, ram, check, seen>>

WriteColor(w) ==
  /\ rgb /\ phase = "bound"
  /\ \E c \in Colors : c <= White /\ state' = [state EXCEPT !.color = c]
  /\ Starts(w, <<Do("paint")>>)
  /\ UNCHANGED <<Fixed, ram, check, seen>>

EventsCome == rgb /\ phase \notin {"out", "asleep"}

\* The keys for the five brightness levels.
Level ==
  /\ EventsCome
  /\ \E b \in Levels : state' = [state EXCEPT !.brightness = b]
  /\ Starts(Event, <<Do("paint")>>)
  /\ UNCHANGED <<Fixed, ram, check, seen>>

\* The color is sent again when the power adapter comes or goes.
AdapterChange ==
  /\ EventsCome
  /\ Starts(Event, <<Do("paint")>>)
  /\ UNCHANGED <<Fixed, ram, state, check, seen>>

-----------------------------------------------------------------------------
(***************************************************************************)
(* The driver core.  User processes are frozen from suspend to resume, and *)
(* removing the sysfs files waits for those inside them.                   *)
(***************************************************************************)
NoWriterInside == \A w \in Writers : Idle(w)

Enter(from, to, tasks) ==
  /\ phase = from /\ phase' = to
  /\ Starts(Core, tasks)
  /\ UNCHANGED <<rgb, ram, state, check>>

Probe ==
  /\ lives < MaxLives /\ lives' = lives + 1
  /\ Enter("out", "probing", <<Read("bl"), Do("init")>>)
  /\ streak' = 0 /\ readings' = 0 /\ detected' = FALSE /\ failed' = FALSE
  /\ UNCHANGED <<onStart, shows>>

\* uw_kbd_bl_init after its first read.  What the checks of an earlier life
\* have counted and remembered is still there.
InitBacklight ==
  /\ Task(Core, "init")
  /\ onStart' = Enabled(got[Core]["bl"])
  /\ \/ /\ rgb
        /\ \E c \in ParamColors, b \in ParamBrightness :
             state' = [brightness |-> IF b > BrightnessMax THEN BrightnessDefault ELSE b,
                       color |-> IF c > White THEN White ELSE c]
        /\ timer' = TRUE
        /\ shows' = IF shows = "state" THEN "other" ELSE shows
        /\ Becomes(Core, <<>>)
     \/ /\ ~rgb
        /\ Becomes(Core, WriteEnable(1))
        /\ UNCHANGED <<state, timer, shows>>
  /\ UNCHANGED <<rgb, phase, lives, ram, prev, index, checks, queued,
                 streak, readings, detected, failed>>

Suspend ==
  /\ NoWriterInside
  /\ Enter("bound", "suspending", WriteEnable(0))
  /\ UNCHANGED <<onStart, lives, seen>>

\* Asleep, the keyboard may lose its color.
LoseColor ==
  /\ rgb /\ phase = "asleep" /\ shows # "lost"
  /\ \E f \in Frames : ram' = Colored(f)
  /\ shows' = "lost"
  /\ UNCHANGED <<Fixed, state, check, job, got, streak, readings, detected, failed>>

\* Mutated form: only the color comes back.
ResumeOnlyColor ==
  /\ Enter("asleep", "resuming", IF rgb THEN InitSet ELSE <<>>)
  /\ UNCHANGED <<onStart, lives, seen>>

Resume ==
  /\ Enter("asleep", "resuming", IF rgb THEN InitSet ELSE WriteEnable(1))
  /\ UNCHANGED <<onStart, lives, seen>>

\* Mutated form: the timer is stopped and the backlight left as it is.
RemoveNoRestore ==
  /\ NoWriterInside
  /\ Enter("bound", "removing", <<Do("deltimer")>>)
  /\ UNCHANGED <<onStart, lives, seen>>

Remove ==
  /\ NoWriterInside
  /\ Enter("bound", "removing", WriteEnable(onStart) \o <<Do("deltimer")>>)
  /\ UNCHANGED <<onStart, lives, seen>>

\* del_timer does not wait for the work item.
DelTimer ==
  /\ Task(Core, "deltimer")
  /\ timer' = FALSE
  /\ Becomes(Core, <<>>)
  /\ UNCHANGED <<Fixed, ram, state, prev, index, checks, queued, seen>>

CoreDone ==
  /\ Idle(Core)
  /\ phase' = CASE phase \in {"probing", "resuming"} -> "bound"
                [] phase = "suspending" -> "asleep"
                [] phase = "removing" -> "out"
                [] OTHER -> phase
  /\ phase' # phase
  /\ UNCHANGED <<rgb, onStart, lives, ram, state, check, job, got, seen>>

-----------------------------------------------------------------------------
TaskStep(t) == ReadEc(t) \/ WriteEc(t) \/ EnableEc(t) \/ Paint(t)

WorkStep == TaskStep(Work) \/ TimerFires \/ WorkStarts \/ Check \/ Stop

Others ==
  \/ \E t \in Threads \ {Work} : TaskStep(t)
  \/ Animate
  \/ \E w \in Writers : WriteBrightness(w) \/ WriteColor(w)
  \/ Level \/ AdapterChange
  \/ Probe \/ InitBacklight \/ LoseColor \/ Resume \/ DelTimer \/ CoreDone

\* The work item is over and the timer will not start it again.
CheckOver == ~timer /\ ~queued /\ Idle(Work)

Next     == WorkStep \/ Others \/ Suspend \/ Remove
CalmNext == WorkStep \/ Others \/ (CheckOver /\ Suspend) \/ (CheckOver /\ Remove)

Spec     == Init /\ [][Next]_vars

\* The driver core suspends and removes only when the boot check is over.
CalmSpec == Init /\ [][CalmNext]_vars

-----------------------------------------------------------------------------
(***************************************************************************)
(* Properties.                                                             *)
(***************************************************************************)
\* The state keeps its ranges, and no channel is sent more than 0xc8, "valid
\* range" in the code, whatever sysfs, parameters and events ask for.
TypeOK ==
  /\ state.brightness \in 0..BrightnessMax /\ state.color \in Rgb
  /\ ram \in [Registers -> Byte] /\ onStart \in {0, 1}
  /\ index \in 1..3 /\ checks <= CheckCount
  /\ \A t \in Threads, k \in 1..5 :
       k \in DOMAIN job[t] /\ job[t][k].do = "write" /\ job[t][k].reg \in Channels
         => job[t][k].value \in 0..BrightnessMax
  /\ phase \in {"out", "probing", "bound", "suspending", "asleep", "resuming", "removing"}

\* The boot check gives up: when the driver has come for the first time, the
\* color is read at most once more than there are checks, however long the
\* animation goes on.
ChecksEnd == lives <= 1 => readings <= CheckCount + 1

\* The backlight is set up only after three equal readings in a row, all of
\* them taken since the driver came, if it has not been there before.
SetupAfterAnimation ==
  [][lives <= 1 /\ ~detected /\ detected' => streak' = 3]_vars

\* With no thread about to send the color, the keyboard shows the color and
\* brightness of the state, or else a failure, the animation or two threads
\* at once came between.  In particular, every reset and every sleep is
\* followed by the color.
StateShown ==
  phase = "bound" /\ (\A t \in Threads : ~Paints(t)) =>
    /\ shows # "lost"
    /\ shows = "state" => \A c \in Channels : ram[c] = Scaled(c)

\* The keyboard is lit while the driver serves it, from the setup on if its
\* animation is waited for, and after each resume.
LitWhenReady ==
  phase = "bound" /\ ~failed /\ CheckOver /\ (rgb => detected) => Enabled(ram["bl"]) = 1

\* The keyboard is dark asleep, whatever else wrote to it meanwhile.
DarkAsleep == phase = "asleep" /\ ~failed => Enabled(ram["bl"]) = 0

\* "Restore previous backlight enable state": once the driver is gone, the
\* keyboard is lit if it was when the driver came.
RestoresEnableState ==
  phase = "out" /\ lives > 0 /\ ~failed => Enabled(ram["bl"]) = onStart

=============================================================================
