---------------------------- MODULE ClevoKeyboard ----------------------------
(***************************************************************************)
(* clevo_keyboard: the backlight of a Clevo keyboard.  The driver cannot   *)
(* read the settings back, so kbd_led_state caches what it last sent; every*)
(* setting is one firmware call, after which the cache is updated.  Three  *)
(* kinds of thread do this with no lock between them: sysfs writers, the   *)
(* notifier that handles the hot keys, and the driver core, which probes,  *)
(* suspends and resumes the device.  A thread's remaining work is a list   *)
(* of tasks, each a read of the cache, a firmware call or a store.         *)
(***************************************************************************)
EXTENDS Integers, Sequences

CONSTANTS
  Writers,         \* the processes that write to sysfs
  Regions,         \* the regions of the keyboard
  Numbers, Codes,  \* what they write: numbers, and colors of a region
  Palette,         \* color_list: the colors the hot key cycles through
  BrightnessStep,  \* how far a hot key moves the brightness; the code's is 25
  PatternCount,    \* ARRAY_SIZE(blinking_patterns); the code's is 8
  Params           \* the module parameters the driver may be loaded with

RegionOrder == <<"left", "center", "right", "extra">>
BrightnessMax == 255
White == 16777215
UShortMax == 65535   \* the range of the parameter for the brightness

Event   == "event"   \* the notifier: clevo_keyboard_event_callb
Core    == "core"    \* the driver core: probe, suspend, resume
Threads == Writers \cup {Event, Core}

ASSUME ConstantsAssumption ==
  /\ Event \notin Writers /\ Core \notin Writers
  /\ Regions \subseteq {"left", "center", "right", "extra"} /\ "extra" \in Regions
  /\ Numbers \subseteq Nat /\ Codes \subseteq Nat
  /\ Palette \in Seq(Nat) /\ Len(Palette) > 0
  /\ BrightnessStep \in 1..BrightnessMax /\ PatternCount \in 1..256
  /\ Params \subseteq [color : [Regions -> Nat], pattern : 0..PatternCount - 1,
                       brightness : 0..UShortMax, enabled : {0, 1}]

\* What the firmware keeps, and what kbd_led_state keeps besides.
Settings == Regions \cup {"pattern", "brightness", "enabled"}
Fields   == Settings \cup {"has_extra", "whole"}

VARIABLES
  led,     \* kbd_led_state
  fw,      \* what the keyboard is set to
  job,     \* for each thread, the tasks left of its current operation
  phase,   \* probing, up, suspending, asleep or resuming
  sure,    \* observer: settings sent since the keyboard was last reset, and not
           \*   sent otherwise since then by a call that left the cache alone
  failed   \* observer: a call failed since the probe or the resume began

vars == <<led, fw, job, phase, sure, failed>>

-----------------------------------------------------------------------------
(***************************************************************************)
(* Tasks.  Keep is a firmware call that updates the cache if it succeeds,  *)
(* Show one that does not, Put a store.  A task whose value is Cached      *)
(* reads it from the cache when its turn comes.                            *)
(***************************************************************************)
Cached == -1

Keep(f, v) == [do |-> "keep", field |-> f, value |-> v]
Show(f, v) == [do |-> "show", field |-> f, value |-> v]
Put(f, v)  == [do |-> "put",  field |-> f, value |-> v]

\* Mutated form: the upper bound is lost.
Clamp8NoMax(v, max) == v % 256

\* clamp_t(u8, v, 0, max): the number is cut to eight bits before it is compared.
Clamp8(v, max) == IF v % 256 > max THEN max ELSE v % 256

\* set_color sends the lower 24 bits of a color; the cache keeps all of them.
Shown(f, v) == IF f \in Regions THEN v % 16777216 ELSE v

\* Mutated form: the colors are not sent again.
SetPatternOnly(p) == <<Keep("pattern", p)>>

\* The custom pattern is the regions' own colors, so they are sent with it.
SetPattern(p) ==
  <<Keep("pattern", p)>> \o
    (IF p = 0 THEN [i \in DOMAIN RegionOrder |-> Show(RegionOrder[i], Cached)] ELSE <<>>)

\* Mutated form: the light comes on first.
WriteStateLightFirst ==
  <<Keep("enabled", Cached), Keep("pattern", Cached), Keep("brightness", Cached)>>

WriteState ==
  <<Keep("pattern", Cached), Keep("brightness", Cached), Keep("enabled", Cached)>>

Init ==
  /\ led = [f \in Fields |->
              CASE f \in Regions      -> White
                [] f = "brightness"   -> BrightnessMax
                [] f = "enabled"      -> 1
                [] f = "whole"        -> Len(Palette) - 1
                [] OTHER              -> 0]
  /\ fw = [f \in Settings |-> led[f]]
  /\ phase = "probing" /\ sure = {} /\ failed = FALSE
  /\ \E p \in Params :
       job = [t \in Threads |->
                IF t = Core
                THEN <<[do |-> "probe", params |-> p], [do |-> "init", params |-> p]>>
                       \o WriteState
                ELSE <<>>]

-----------------------------------------------------------------------------
(***************************************************************************)
(* The steps of a thread's tasks.                                          *)
(***************************************************************************)
Task(t, kind) == job[t] # <<>> /\ Head(job[t]).do \in kind

Becomes(t, tasks) == job' = [job EXCEPT ![t] = tasks \o Tail(@)]

\* A task reads the cache: the extra region only where there is one.
Load(t) ==
  /\ Task(t, {"keep", "show"}) /\ Head(job[t]).value = Cached
  /\ LET f == Head(job[t]).field IN
     Becomes(t, CASE f \notin Settings                      -> <<>>
                  [] f = "extra" /\ led["has_extra"] # 1    -> <<>>
                  [] f = "pattern"                          -> SetPattern(led[f])
                  [] OTHER -> <<[Head(job[t]) EXCEPT !.value = led[f]]>>)
  /\ UNCHANGED <<led, fw, phase, sure, failed>>

\* The firmware takes a command.
Takes(c, kept) ==
  /\ fw' = [fw EXCEPT ![c.field] = Shown(c.field, c.value)]
  /\ sure' = IF kept \/ c.value = led[c.field] THEN sure \cup {c.field} ELSE sure \ {c.field}

\* clevo_evaluate_method takes the command; the store is a later step.
Call(t) ==
  /\ Task(t, {"keep", "show"}) /\ Head(job[t]).value # Cached
  /\ LET c == Head(job[t]) IN
     /\ Takes(c, c.do = "keep")
     /\ Becomes(t, IF c.do = "keep" THEN <<Put(c.field, c.value)>> ELSE <<>>)
  /\ UNCHANGED <<led, phase, failed>>

\* Mutated form: the cache is updated whatever the call returned.
CallFailsKept(t) ==
  /\ Task(t, {"keep", "show"}) /\ Head(job[t]).value # Cached
  /\ LET c == Head(job[t]) IN
     /\ Takes(c, FALSE) \/ UNCHANGED <<fw, sure>>
     /\ Becomes(t, IF c.do = "keep" THEN <<Put(c.field, c.value)>> ELSE <<>>)
  /\ failed' = TRUE
  /\ UNCHANGED <<led, phase>>

\* ... or returns an error, and the driver goes on to the next task.  The method
\* may have acted all the same: no result, or one that is not a number, is an
\* error as well.
CallFails(t) ==
  /\ Task(t, {"keep", "show"}) /\ Head(job[t]).value # Cached
  /\ Takes(Head(job[t]), FALSE) \/ UNCHANGED <<fw, sure>>
  /\ Becomes(t, <<>>)
  /\ failed' = TRUE
  /\ UNCHANGED <<led, phase>>

\* The cache is updated.
Store(t) ==
  /\ Task(t, {"put"})
  /\ led' = [led EXCEPT ![Head(job[t]).field] = Head(job[t]).value]
  /\ Becomes(t, <<>>)
  /\ UNCHANGED <<fw, phase, sure, failed>>

\* Probing tries to color the extra region to find out whether there is one; it
\* takes an error for a no, even if the region was colored.
ProbeExtra ==
  /\ Task(Core, {"probe"})
  /\ \/ /\ fw' = [fw EXCEPT !["extra"] = White]
        /\ led' = [led EXCEPT !["has_extra"] = 1]
        /\ Becomes(Core, <<Show("extra", Head(job[Core]).params.color["extra"])>>)
     \/ /\ led' = [led EXCEPT !["has_extra"] = 0]
        /\ Becomes(Core, <<>>)
        /\ fw' \in {fw, [fw EXCEPT !["extra"] = White]}
  /\ UNCHANGED <<phase, sure, failed>>

\* clevo_keyboard_init: the cache is filled from the parameters.
InitState ==
  /\ Task(Core, {"init"})
  /\ LET p == Head(job[Core]).params IN
     led' = [f \in Fields |->
               CASE f \in Regions    -> p.color[f]
                 [] f = "pattern"    -> p.pattern
                 [] f = "brightness" -> IF p.brightness > BrightnessMax
                                        THEN BrightnessMax ELSE p.brightness
                 [] f = "enabled"    -> p.enabled
                 [] OTHER            -> led[f]]
  /\ Becomes(Core, <<>>)
  /\ sure' = {} /\ failed' = FALSE
  /\ UNCHANGED <<fw, phase>>

-----------------------------------------------------------------------------
(***************************************************************************)
(* sysfs writes.  The files exist from early in the probe; processes are   *)
(* frozen while the machine sleeps.                                        *)
(***************************************************************************)
Start(t, tasks) ==
  /\ job[t] = <<>>
  /\ job' = [job EXCEPT ![t] = tasks]
  /\ UNCHANGED <<led, fw, phase, sure, failed>>

Awake == phase \in {"probing", "up"}

WriteBrightness(w) == Awake /\ \E n \in Numbers :
  Start(w, <<Keep("brightness", Clamp8(n, BrightnessMax))>>)

WriteEnabled(w) == Awake /\ \E n \in Numbers :
  Start(w, <<Keep("enabled", Clamp8(n, 1))>>)

WriteMode(w) == Awake /\ \E n \in Numbers :
  Start(w, SetPattern(Clamp8(n, PatternCount - 1)))

\* The extra region has a file only when the probe found one.
WriteColor(w) == Awake /\ \E r \in Regions, c \in Codes :
  /\ r = "extra" => led["has_extra"] = 1
  /\ Start(w, <<Keep(r, c)>>)

-----------------------------------------------------------------------------
(***************************************************************************)
(* Hot keys.  The new value is computed from the cache when the event      *)
(* arrives; they work until the machine sleeps and as soon as it wakes.    *)
(***************************************************************************)
Dim ==
  LET b == led["brightness"] IN
  Start(Event, <<Keep("brightness", IF b - BrightnessStep < 0 THEN 0
                                    ELSE b - BrightnessStep)>>)

Brighten ==
  LET b == led["brightness"] IN
  Start(Event, <<Keep("brightness", IF b + BrightnessStep > BrightnessMax THEN BrightnessMax
                                    ELSE b + BrightnessStep)>>)

Toggle == Start(Event, <<Keep("enabled", IF led["enabled"] = 0 THEN 1 ELSE 0)>>)

\* The next color for all four regions, which the driver sends to the extra
\* region even where there is none.
NextColor ==
  LET next == IF led["whole"] + 1 >= Len(Palette) THEN 0 ELSE led["whole"] + 1
      paint(r) == IF r \in Regions THEN <<Keep(r, Palette[next + 1])>> ELSE <<>>
  IN  Start(Event, paint("left") \o paint("center") \o paint("right") \o paint("extra")
                     \o <<Put("whole", next)>>)

-----------------------------------------------------------------------------
(***************************************************************************)
(* Power management, by the driver core.                                   *)
(***************************************************************************)
CoreIdle == job[Core] = <<>>

ProbeDone ==
  /\ phase = "probing" /\ CoreIdle /\ phase' = "up"
  /\ UNCHANGED <<led, fw, job, sure, failed>>

\* Mutated form: it is turned off like any other setting.
DarkenKept == <<Keep("enabled", 0)>>

\* The light goes off and the cache still says what to come back to.
Darken == <<Show("enabled", 0)>>

Suspend ==
  /\ phase = "up" /\ CoreIdle /\ \A w \in Writers : job[w] = <<>>
  /\ phase' = "suspending" /\ job' = [job EXCEPT ![Core] = Darken]
  /\ UNCHANGED <<led, fw, sure, failed>>

\* The machine sleeps once all calls are over; the keyboard may lose all but
\* whether it is lit.
Sleep ==
  /\ phase = "suspending" /\ \A t \in Threads : job[t] = <<>>
  /\ phase' = "asleep"
  /\ \/ /\ fw' = [f \in Settings |->
                    CASE f \in Regions    -> White
                      [] f = "brightness" -> BrightnessMax
                      [] f = "pattern"    -> 0
                      [] OTHER            -> fw[f]]
        /\ sure' = {}
     \/ UNCHANGED <<fw, sure>>
  /\ UNCHANGED <<led, job, failed>>

Resume ==
  /\ phase = "asleep" /\ CoreIdle
  /\ phase' = "resuming" /\ job' = [job EXCEPT ![Core] = WriteState]
  /\ failed' = FALSE
  /\ UNCHANGED <<led, fw, sure>>

ResumeDone ==
  /\ phase = "resuming" /\ CoreIdle /\ phase' = "up"
  /\ UNCHANGED <<led, fw, job, sure, failed>>

-----------------------------------------------------------------------------
Next ==
  \/ \E t \in Threads : Load(t) \/ Call(t) \/ CallFails(t) \/ Store(t)
  \/ ProbeExtra \/ InitState \/ ProbeDone
  \/ \E w \in Writers : WriteBrightness(w) \/ WriteEnabled(w) \/ WriteMode(w) \/ WriteColor(w)
  \/ Dim \/ Brighten \/ Toggle \/ NextColor
  \/ Suspend \/ Sleep \/ Resume \/ ResumeDone

Spec == Init /\ [][Next]_vars

\* One operation at a time: the second begins when the first has ended.
Serial == \A t, u \in Threads : job[t] # <<>> /\ job[u] # <<>> => t = u

SerialSpec == Init /\ [][Next /\ Serial']_vars

-----------------------------------------------------------------------------
(***************************************************************************)
(* Properties.                                                             *)
(***************************************************************************)
Byte == 0..255

\* Every field of kbd_led_state stays in the range the driver indexes and
\* compares it in, whatever is written to sysfs.
TypeOK ==
  /\ led \in [Fields -> Nat] /\ fw \in [Settings -> Nat]
  /\ led["enabled"] \in {0, 1} /\ led["has_extra"] \in {0, 1}
  /\ led["brightness"] \in Byte
  /\ led["pattern"] \in 0..PatternCount - 1
  /\ led["whole"] \in 0..Len(Palette) - 1
  /\ phase \in {"probing", "up", "suspending", "asleep", "resuming"}
  /\ sure \subseteq Settings /\ failed \in BOOLEAN

Quiet == \A t \in Threads : job[t] = <<>>

Agrees(f) == fw[f] = Shown(f, led[f])

\* When no operation is under way, kbd_led_state holds what the keyboard was
\* last told, for every setting the driver has told it ("after succesfully
\* setting color, update our state struct").  A setting that a call changed
\* before it returned an error is out, until a call for it succeeds again.
CacheTracksFirmware == Quiet => \A f \in sure : Agrees(f)

\* The settings one sees: the colors matter in the custom pattern only.
Visible ==
  {"pattern", "brightness", "enabled"} \cup
    (IF led["pattern"] = 0 THEN {r \in Regions : r = "extra" => led["has_extra"] = 1} ELSE {})

\* After a probe or a resume in which no call failed, and through all that is
\* done later without one failing, the keyboard shows the cached settings,
\* whatever it lost asleep and whichever pattern it is switched to.
RestoredWhenQuiet ==
  Quiet /\ phase = "up" /\ ~failed => \A f \in Visible : Agrees(f)

\* "turning the keyboard off prevents default colours showing on resume": the
\* resume turns the light on only once every visible setting is back.
LightsOnWhenRestored ==
  [][phase = "resuming" /\ fw["enabled"] = 0 /\ fw'["enabled"] = 1 /\ ~failed
       => \A f \in Visible \ {"enabled"} : Agrees(f)]_vars

\* Suspending and resuming never change the settings kept for the user.
SleepKeepsSettings ==
  [][phase # "probing" /\ job'[Core] # job[Core] => led' = led]_vars

=============================================================================
