-------------------------- MODULE UniwillLightbar --------------------------
(***************************************************************************)
(* The lightbar of a Uniwill machine, three LEDs for its colors and one    *)
(* for its animation, and the part of the driver's probe and remove that   *)
(* is about it and the fans.  A brightness written to sysfs is stored by   *)
(* the kernel's LED core, which cuts it to the LED's range and runs the    *)
(* driver's function from a work item, one for each LED.  What it reads    *)
(* back from an LED changes nothing here.                                  *)
(***************************************************************************)
EXTENDS EcTasks

CONSTANTS
  Levels,         \* what is written to an LED's brightness
  AnimationBits   \* the other bits of the animation's register

ASSUME LightbarAssumption ==
  /\ Levels \subseteq Nat
  /\ AnimationBits \in 0..127

MaxBrightness(l) == IF l = "animation" THEN 1 ELSE 36   \* 0x24
AnimationOn == 128
Unasked     == 255
ColorLeds   == Leds \ {"animation"}

\* lightbar_led_classdevs, in its order.
LedOrder == <<"red", "green", "blue", "animation">>

VARIABLES
  hasLightbar,  \* the DMI strings name a machine that has one
  phase,    \* out, probing, bound or removing
  leds,     \* the LEDs that are registered
  loaded,   \* uw_lightbar_loaded
  asked,    \* the brightness the LED core has for each of them
  queued,   \* LEDs whose work item waits to run
  animated  \* observer: whether the animation is to be on, in the eyes of each
            \*   call since the lightbar was last at rest

lightbar == <<hasLightbar, phase, leds, loaded, asked, queued, animated>>

LightbarTypeOK ==
  /\ hasLightbar \in BOOLEAN
  /\ phase \in {"out", "probing", "bound", "removing"}
  /\ leds \subseteq Leds
  /\ loaded \in BOOLEAN
  /\ asked \in [Leds -> 0..36 \cup {Unasked}]
  /\ asked["animation"] \in {0, 1, Unasked}
  /\ queued \subseteq Leds /\ animated \subseteq BOOLEAN

LightbarInit ==
  /\ hasLightbar \in BOOLEAN
  /\ phase = "out"
  /\ leds = {} /\ loaded = FALSE
  /\ asked = [l \in Leds |-> Unasked]
  /\ queued = {} /\ animated = {TRUE}

-----------------------------------------------------------------------------
\* 0xff is out of range, so that a color is left alone.
Untouched == 255

WriteColor(c, b) == IF b <= MaxBrightness(c) THEN <<Write(c, b)>> ELSE <<>>

WriteRgb(rgb) ==
  WriteColor("red", rgb["red"]) \o WriteColor("green", rgb["green"])
    \o WriteColor("blue", rgb["blue"])

WriteAnimation(on) ==
  <<Read("animation"),
    IF on THEN Set("animation", AnimationOn) ELSE Clear("animation", AnimationOn)>>

\* Mutated form: a color leaves the animation alone.
SetBlockingKeepsAnimation(l, b) ==
  IF l = "animation" THEN WriteAnimation(b = 1)
  ELSE WriteRgb([c \in ColorLeds |-> IF c = l THEN b ELSE Untouched])

\* lightbar_set_blocking.  A color turns the animation off.
SetBlocking(l, b) ==
  IF l = "animation" THEN WriteAnimation(b = 1)
  ELSE WriteRgb([c \in ColorLeds |-> IF c = l THEN b ELSE Untouched])
         \o WriteAnimation(FALSE)

AtRest == (\A l \in Leds : Idle(l)) /\ queued = {}

\* The LED core takes a brightness down and queues the work.
Asks(l, b) ==
  /\ asked' = [asked EXCEPT ![l] = b]
  /\ queued' = queued \cup {l}
  /\ animated' = {l = "animation" /\ b = 1} \cup (IF AtRest THEN {} ELSE animated)

SetLed(l) ==
  /\ l \in leds
  /\ \E b \in Levels : Asks(l, IF b <= MaxBrightness(l) THEN b ELSE MaxBrightness(l))
  /\ UNCHANGED <<ec, hasLightbar, phase, leds, loaded>>

LedWork(l) ==
  /\ l \in queued
  /\ queued' = queued \ {l}
  /\ Starts(l, SetBlocking(l, asked[l]))
  /\ UNCHANGED <<hasLightbar, phase, leds, loaded, asked, animated>>

-----------------------------------------------------------------------------
(***************************************************************************)
(* Probe and remove.  Those of the keyboard's backlight are in             *)
(* UniwillKeyboard.                                                        *)
(***************************************************************************)
\* Mode 0, "balanced".  The registers of the fan curve, of manual mode and of
\* the second temperature, which nobody else here uses, are left out.
FanSetup == <<Write("mode", 0)>>

RegisterAll == [i \in 1..4 |-> Task("register", LedOrder[i], i)]

\* The interface is stored and the driver probed.
Bind ==
  /\ phase = "out" /\ phase' = "probing"
  /\ Idle(Core) /\ wmi' = TRUE
  /\ job' = [job EXCEPT ![Core] =
               FanSetup \o (IF hasLightbar THEN RegisterAll ELSE <<>>) \o <<Do("probed")>>]
  /\ UNCHANGED <<ram, got, sure, missed, spoilt, hasLightbar, leds, loaded, asked, queued,
                 animated>>

\* led_classdev_register, when it succeeds.
RegisterLed ==
  /\ Has1(Core, {"register"})
  /\ leds' = leds \cup {Next1(Core).reg}
  /\ Passes(Core, <<>>)
  /\ UNCHANGED <<hasLightbar, phase, loaded, asked, queued, animated>>

\* Unregistering turns an LED off and waits for its work item; the first n LEDs.
TakeDown(n) ==
  [k \in 1..(2 * n) |->
     Task(IF k % 2 = 1 THEN "unregister" ELSE "flush", LedOrder[(k + 1) \div 2], 0)]

\* Mutated form: the LEDs that were registered stay.
RegisterFailsKeepsOthers ==
  /\ Has1(Core, {"register"})
  /\ job' = [job EXCEPT ![Core] = <<Do("probed_without")>>]
  /\ UNCHANGED <<wmi, ram, got, sure, missed, spoilt, lightbar>>

\* One LED cannot be registered: those before it are unregistered again.
RegisterFails ==
  /\ Has1(Core, {"register"})
  /\ job' = [job EXCEPT ![Core] = TakeDown(Next1(Core).value - 1) \o <<Do("probed_without")>>]
  /\ UNCHANGED <<wmi, ram, got, sure, missed, spoilt, lightbar>>

Probed ==
  /\ Has1(Core, {"probed", "probed_without"})
  /\ loaded' = (hasLightbar /\ Next1(Core).do = "probed")
  /\ phase' = "bound"
  /\ Passes(Core, <<>>)
  /\ UNCHANGED <<hasLightbar, leds, asked, queued, animated>>

UnregisterLed ==
  /\ Has1(Core, {"unregister"})
  /\ LET l == Next1(Core).reg IN
     /\ leds' = leds \ {l}
     /\ Asks(l, 0)
  /\ Passes(Core, <<>>)
  /\ UNCHANGED <<hasLightbar, phase, loaded>>

FlushLed ==
  /\ Has1(Core, {"flush"})
  /\ Next1(Core).reg \notin queued /\ Idle(Next1(Core).reg)
  /\ Passes(Core, <<>>)
  /\ UNCHANGED lightbar

Unbind ==
  /\ phase = "bound" /\ phase' = "removing"
  /\ Starts(Core, (IF loaded THEN TakeDown(4) ELSE <<>>)
                    \o <<Do("removed")>>)
  /\ UNCHANGED <<hasLightbar, leds, loaded, asked, queued, animated>>

\* The interface leaves its slot.
Removed ==
  /\ Has1(Core, {"removed"})
  /\ phase' = "out" /\ wmi' = FALSE
  /\ Becomes(Core, <<>>)
  /\ UNCHANGED <<ram, got, sure, missed, spoilt, hasLightbar, leds, loaded, asked, queued,
                 animated>>

-----------------------------------------------------------------------------
\* When no work is left, each color shows what was asked of it last, whatever
\* the work items of the other LEDs did.  The animation is as one of the calls
\* wanted it that were made since the lightbar was last at rest: on only if one
\* of them asked for it, off if they were about colors ("Also make sure the
\* animation is off"); and off whenever its own LED is.  The rest of its
\* register is as it was.  Only an access that failed excuses the register it
\* was about (lightbar_set_blocking).
LightbarShows ==
  AtRest =>
    /\ \A c \in ColorLeds : asked[c] = Unasked \/ c \in missed \/ ram[c] = asked[c]
    /\ "animation" \notin missed =>
         /\ Has(ram["animation"], AnimationOn) \in animated
         /\ asked["animation"] = 0 => ~Has(ram["animation"], AnimationOn)
    /\ "animation" \notin spoilt =>
         Without(ram["animation"], AnimationOn) = AnimationBits

\* After a probe, all of the lightbar is there or nothing, as uw_lightbar_loaded
\* says, and after a removal nothing; no work item of an LED that has gone is
\* left to run (uw_lightbar_init with its roll-back, uw_lightbar_remove).
LightbarAllOrNone ==
  Idle(Core) =>
    /\ leds = IF phase = "bound" /\ loaded THEN Leds ELSE {}
    /\ \A l \in Leds \ leds : Idle(l) /\ l \notin queued

=============================================================================
