---------------------------- MODULE UniwillFans ----------------------------
(***************************************************************************)
(* The fans of a Uniwill machine, as tuxedo_io's ioctls set them.  While   *)
(* bit 0x40 of the mode register ("full fan mode") is off, the EC drives   *)
(* the fans itself; once it is on, they ramp up to full speed, and the     *)
(* driver has to get its own speeds in before that is over.  The ioctls    *)
(* change the mode register in two accesses, without a lock.               *)
(***************************************************************************)
EXTENDS EcTasks

CONSTANTS
  Speeds,    \* arguments of the ioctls: what a caller passed, or, if it could
             \* not be copied, what was in the variable
  Modes,     \* arguments of W_UW_MODE
  Rounds,    \* how often both fans are written; the code's are 10
  EcSpeeds   \* what the EC sets fans to of its own

FullMode == 64

ASSUME FansAssumption ==
  /\ Speeds \subseteq Nat /\ Modes \subseteq Nat
  /\ Rounds \in Nat \ {0}
  /\ EcSpeeds \subseteq 0..255 /\ EcSpeeds # {}

VARIABLES
  ramp,      \* the thread that switched full fan mode on, while they ramp up
  by,        \* observer: full fan mode was last switched on by a "fan" call or "other"
  profile,   \* observer: the mode register's other bits as last written whole
  current,   \* observer: threads that have read the mode since then
  kept       \* observer: nobody else has written it back since then

NoThread == "none"
fans == <<ramp, by, profile, current, kept>>

Full(byte) == Has(byte, FullMode)

\* Mutated form: the argument is not cut.
CutNot(arg) == arg

\* u8 fan_speed, argument & 0xff
Cut(arg) == arg % 256

FansTypeOK ==
  /\ ramp \in Threads \cup {NoThread}
  /\ by \in {"fan", "other"}
  /\ profile \in 0..255
  /\ current \subseteq Threads
  /\ kept \in BOOLEAN

FansInit ==
  /\ ramp = NoThread /\ by = "other"
  /\ profile = Without(ram["mode"], FullMode)
  /\ current = {} /\ kept = TRUE

-----------------------------------------------------------------------------
(***************************************************************************)
(* The ioctls.                                                             *)
(***************************************************************************)
\* W_UW_FANSPEED and W_UW_FANSPEED2.
SetFan(c, f) ==
  /\ \E s \in Speeds : Starts(c, <<Read("mode"), Task("choose", f, Cut(s))>>)
  /\ UNCHANGED fans

\* W_UW_FANAUTO.
FanAuto(c) ==
  /\ Starts(c, <<Read("mode"), Clear("mode", FullMode)>>)
  /\ UNCHANGED fans

\* W_UW_MODE.
SetMode(c) ==
  /\ \E m \in Modes : Starts(c, <<Write("mode", Cut(m))>>)
  /\ UNCHANGED fans

Both(s) == <<Write("fan0", s), Write("fan1", s)>>

\* Mutated form: only the chosen fan gets its speed.
SwitchOneFan(f, s) == <<Set("mode", FullMode), Write(f, s), Do("sleep"), Write(f, s)>>

\* Full fan mode on, then both fans written again and again, with a pause
\* each time; what matters of the pauses is the one before the last round.
Switch(f, s) ==
  <<Set("mode", FullMode)>>
    \o [k \in 1..(2 * (Rounds - 1)) |-> Both(s)[((k + 1) % 2) + 1]]
    \o <<Do("sleep")>> \o Both(s)

\* uw_set_fan, after its read.
Choose(c) ==
  /\ Has1(c, {"choose"})
  /\ LET f == Next1(c).reg  s == Next1(c).value IN
     Passes(c, IF Full(got[c]) THEN <<Write(f, s)>> ELSE Switch(f, s))
  /\ UNCHANGED fans

\* The pauses together outlast the ramp-up this thread has started.
Sleep(c) ==
  /\ Has1(c, {"sleep"})
  /\ ramp # c
  /\ Passes(c, <<>>)
  /\ UNCHANGED fans

-----------------------------------------------------------------------------
(***************************************************************************)
(* The EC, and what an access to the mode register means for it.           *)
(***************************************************************************)
\* (What it does with them while full fan mode is off concerns nobody here.)
RampUp(f) ==
  /\ ramp # NoThread
  /\ \E s \in EcSpeeds : ram' = [ram EXCEPT ![f] = s]
  /\ UNCHANGED <<wmi, job, got, sure, missed, spoilt, fans>>

RampEnds ==
  /\ ramp # NoThread
  /\ ramp' = NoThread
  /\ UNCHANGED <<ec, by, profile, current, kept>>

\* With every access of thread t.
ModeFollows(t) ==
  LET k == Next1(t)  onMode == k.reg = "mode"
      whole == onMode /\ k.do = "write" /\ Happens(t)
      back  == onMode /\ k.do \in {"set", "clear"} /\ Happens(t)
      on    == ~Full(ram["mode"]) /\ Full(ram'["mode"])
  IN
  /\ ramp' = IF on THEN t ELSE IF Full(ram'["mode"]) THEN ramp ELSE NoThread
  /\ by' = IF on THEN (IF k.do = "set" THEN "fan" ELSE "other")
           ELSE IF Full(ram'["mode"]) THEN by ELSE "other"
  /\ profile' = IF whole THEN Without(k.value, FullMode) ELSE profile
  /\ kept' = (whole \/ (kept /\ (back => t \in current)))
  /\ current' = IF whole THEN {}
                ELSE IF onMode /\ k.do = "read" THEN current \cup {t}
                ELSE IF onMode \/ k.do = "read" THEN current \ {t} ELSE current

Access(t) == (ReadEc(t) \/ WriteEc(t)) /\ ModeFollows(t)

-----------------------------------------------------------------------------
\* The profile bits of the mode register survive every fan call: unless a
\* failed read was written back, or one taken before the profile was written
\* whole, they are what was last written (uw_set_fan, uw_set_fan_auto).
ProfileKept ==
  kept /\ "mode" \notin spoilt => Without(ram["mode"], FullMode) = profile

\* f has still to be written by somebody.
Pending(f) ==
  \E t \in Threads : \E k \in DOMAIN job[t] :
    job[t][k].reg = f /\ job[t][k].do = "write"

\* When a fan call has switched full fan mode on, neither fan is left at what
\* the EC ramps it up to or had set before: both hold a caller's speed, the
\* one not asked for too, unless its write failed ("prevent ramp-up").  Nothing
\* is said of full fan mode that W_UW_MODE has switched on.
NoFanLeftBehind ==
  Full(ram["mode"]) /\ by = "fan" =>
    \A f \in Fans : f \in missed \/ Pending(f) \/ ram[f] \in {Cut(s) : s \in Speeds}

=============================================================================
