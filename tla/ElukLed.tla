------------------------------- MODULE ElukLed -------------------------------
(***************************************************************************)
(* eluk-pxvi-led-wmi: the LED zones of the Eluktronics Prometheus XVI.     *)
(* Every operation is a read or a write of a module parameter, which the   *)
(* kernel runs one at a time under the module's parameter lock, so each is *)
(* one step: the parameters it sets, the verification of the zones it is   *)
(* about to send, the "committed" flags, and the WMI writes, which go out  *)
(* zone by zone and stop at the first one that fails.                      *)
(***************************************************************************)
EXTENDS Integers, Sequences

CONSTANTS
  Effects, Levels, Colors,  \* the values a user writes to the parameters
  MaxOps                    \* bound: how many operations the user performs

\* Parameters are unsigned 32-bit; these stay below the sign bit.
ASSUME InputAssumption ==
  /\ Effects \subseteq Nat /\ Levels \subseteq Nat /\ Colors \subseteq Nat
  /\ MaxOps \in Nat

Solid == 1  Breathe == 3  Rainbow == 6  Ambient == 7
Off == 0    Half == 1     Full == 2
AmbientColor == 1052688      \* 0x101010
ColorMax     == 16777215     \* 0xFFFFFF

KbdZones == {"right", "cntr", "left"}
Zones    == KbdZones \cup {"trunk", "logo"}

\* The zones of each commit, in the order in which they are written.
KbdOrder == <<"right", "cntr", "left">>
AllOrder == <<"logo", "trunk", "right", "cntr", "left">>

\* Which committed flag covers a zone.
Group(z) == IF z \in KbdZones THEN "kbd" ELSE z
Groups   == {"kbd", "trunk", "logo"}

VARIABLES
  param,      \* rgb_<zone>_effect, rgb_<zone>_level, rgb_<zone>_color
  committed,  \* eluk_<group>_committed
  hw,         \* the word the firmware last took for each zone
  call,       \* the last commit or preset: its zones and what it returned
  ops         \* how many operations so far (bound)

vars == <<param, committed, hw, call, ops>>

-----------------------------------------------------------------------------
(***************************************************************************)
(* The 32-bit word of a zone, BITW_A3: effect << 28 | level << 24 | color, *)
(* taken apart into its two upper nibbles and its lower 24 bits.  An OR of *)
(* too wide a value runs into the nibbles above.                           *)
(***************************************************************************)
Nibble(v, weight) == (v \div weight) % 16

OrNibble(a, b) ==
  LET bit(w) == IF (a \div w) % 2 = 1 \/ (b \div w) % 2 = 1 THEN w ELSE 0
  IN  bit(1) + bit(2) + bit(4) + bit(8)

\* Mutated form: the shift does not drop what is above the effect nibble.
A3Wide(p) ==
  [effect |-> p.effect,
   level  |-> OrNibble(Nibble(p.level, 1), Nibble(p.color, 16777216)),
   color  |-> p.color % (ColorMax + 1)]

A3(p) ==
  [effect |-> OrNibble(OrNibble(Nibble(p.effect, 1), Nibble(p.level, 16)),
                       Nibble(p.color, 268435456)),
   level  |-> OrNibble(Nibble(p.level, 1), Nibble(p.color, 16777216)),
   color  |-> p.color % (ColorMax + 1)]

\* No word A3 builds: what the firmware shows before the first write.
Factory == [effect |-> -1, level |-> -1, color |-> -1]

\* eluk_led_wmi_verify takes effect and level as u8.  All callers allow the
\* ambient effect.
Verified(p) ==
  /\ p.effect % 256 \in {Solid, Breathe, Rainbow, Ambient}
  /\ p.level % 256 \in {Off, Half, Full}
  /\ p.color <= ColorMax

ZonesOf(order) == {order[k] : k \in 1..Len(order)}

-----------------------------------------------------------------------------
Setting(e, l, c) == [effect |-> e, level |-> l, color |-> c]

DefaultColor ==
  [z \in Zones |-> CASE z = "left" -> 16711680 [] z = "cntr" -> 65280
                     [] z = "right" -> 255 [] OTHER -> 65535]

Init ==
  /\ param = [z \in Zones |-> Setting(Solid, IF z = "logo" THEN Off ELSE Half, DefaultColor[z])]
  /\ committed = [g \in Groups |-> FALSE]
  /\ hw = [z \in Zones |-> Factory]
  /\ call = [op |-> "none", zones |-> {}, reply |-> "none"]
  /\ ops = 0

Count == ops < MaxOps /\ ops' = ops + 1

\* A write to one of the parameters: it is stored as it is.
WriteParam(z) ==
  /\ Count
  /\ \/ \E v \in Effects : param' = [param EXCEPT ![z].effect = v]
     \/ \E v \in Levels : param' = [param EXCEPT ![z].level = v]
     \/ \E v \in Colors : param' = [param EXCEPT ![z].color = v]
  /\ call' = [op |-> "write", zones |-> {}, reply |-> "none"]
  /\ UNCHANGED <<committed, hw>>

(***************************************************************************)
(* Write the words of order, one after the other, until a write fails: n   *)
(* of them succeed.  The one that fails may have reached the firmware.     *)
(***************************************************************************)
SetValue(order, p, n) ==
  \E last \in {n, n + 1} :
    /\ last <= Len(order)
    /\ hw' = [z \in Zones |-> IF \E k \in 1..last : order[k] = z THEN A3(p[z]) ELSE hw[z]]

\* Mutated form: only the first zone of a commit is verified.
SendFirstChecked(op, order, p) ==
  IF ~Verified(p[order[1]])
  THEN /\ call' = [op |-> op, zones |-> ZonesOf(order), reply |-> "refused"]
       /\ UNCHANGED <<committed, hw>>
  ELSE \E n \in 0..Len(order) :
       /\ SetValue(order, p, n)
       /\ committed' = [g \in Groups |-> committed[g] \/ \E z \in ZonesOf(order) : Group(z) = g]
       /\ call' = [op |-> op, zones |-> ZonesOf(order),
                   reply |-> IF n = Len(order) THEN "success" ELSE "failure"]

\* Mutated form: a failed write does not count unless it is the last one.
SendLastStatus(op, order, p) ==
  IF \E z \in ZonesOf(order) : ~Verified(p[z])
  THEN /\ call' = [op |-> op, zones |-> ZonesOf(order), reply |-> "refused"]
       /\ UNCHANGED <<committed, hw>>
  ELSE \E n \in 0..Len(order) :
       /\ SetValue(order, p, n)
       /\ committed' = [g \in Groups |-> committed[g] \/ \E z \in ZonesOf(order) : Group(z) = g]
       /\ call' = [op |-> op, zones |-> ZonesOf(order),
                   reply |-> IF n >= Len(order) - 1 THEN "success" ELSE "failure"]

(***************************************************************************)
(* Verify the zones of order with the parameters p, then send them.  The   *)
(* flags are set before the first write, and stay set if it fails.  n is   *)
(* how many writes succeed.  (The presets pass no buffer: what is a text   *)
(* for the commits is for them the returned status.)                       *)
(***************************************************************************)
Send(op, order, p) ==
  IF \E z \in ZonesOf(order) : ~Verified(p[z])
  THEN /\ call' = [op |-> op, zones |-> ZonesOf(order), reply |-> "refused"]
       /\ UNCHANGED <<committed, hw>>
  ELSE \E n \in 0..Len(order) :
       /\ SetValue(order, p, n)
       /\ committed' = [g \in Groups |-> committed[g] \/ \E z \in ZonesOf(order) : Group(z) = g]
       /\ call' = [op |-> op, zones |-> ZonesOf(order),
                   reply |-> IF n = Len(order) THEN "success" ELSE "failure"]

CommitKbd   == Count /\ Send("commit", KbdOrder, param) /\ UNCHANGED param
CommitTrunk == Count /\ Send("commit", <<"trunk">>, param) /\ UNCHANGED param
CommitLogo  == Count /\ Send("commit", <<"logo">>, param) /\ UNCHANGED param

\* A pretended commit: the same checks and the same flags, but no write.
Pretend(zs) ==
  /\ Count
  /\ IF \E z \in zs : ~Verified(param[z])
     THEN /\ call' = [op |-> "pretend", zones |-> zs, reply |-> "refused"]
          /\ UNCHANGED committed
     ELSE /\ call' = [op |-> "pretend", zones |-> zs, reply |-> "empty"]
          /\ committed' = [g \in Groups |-> committed[g] \/ \E z \in zs : Group(z) = g]
  /\ UNCHANGED <<param, hw>>

\* Mutated form: the logo keeps what the user gave it.
EffectAndLevelNotLogo(e, l) ==
  [z \in Zones |-> IF z = "logo" THEN param[z] ELSE Setting(e, l, DefaultColor[z])]

\* Mutated form: the trunk keeps its level.
EffectAndLevelNotTrunk(e, l) ==
  [z \in Zones |-> IF z = "logo" THEN Setting(Solid, Off, DefaultColor[z])
                   ELSE Setting(e, IF z = "trunk" THEN param[z].level ELSE l, DefaultColor[z])]

\* eluk_led_set_effect_and_level: keyboard and trunk alike, the logo dark.
EffectAndLevel(e, l) ==
  [z \in Zones |-> IF z = "logo" THEN Setting(Solid, Off, DefaultColor[z])
                                 ELSE Setting(e, l, DefaultColor[z])]

\* eluk_led_wmi_set_ambi_colors: the keyboard only.
AmbiColors(l) ==
  [z \in Zones |-> IF z \in KbdZones THEN Setting(Ambient, l, AmbientColor) ELSE param[z]]

\* Offline, solid and breathing presets: all zones.
PresetAll(e, l) ==
  /\ Count
  /\ param' = EffectAndLevel(e, l)
  /\ Send(IF l = Off THEN "offline" ELSE "preset", AllOrder, param')

PresetAmbient(l) ==
  /\ Count
  /\ param' = AmbiColors(l)
  /\ Send("preset", KbdOrder, param')

Next ==
  \/ \E z \in Zones : WriteParam(z)
  \/ CommitKbd \/ CommitTrunk \/ CommitLogo
  \/ Pretend(KbdZones) \/ Pretend({"trunk"}) \/ Pretend({"logo"})
  \/ PresetAll(Solid, Off)
  \/ PresetAll(Solid, Half) \/ PresetAll(Solid, Full)
  \/ PresetAll(Breathe, Half) \/ PresetAll(Breathe, Full)
  \/ PresetAmbient(Half) \/ PresetAmbient(Full)

Spec == Init /\ [][Next]_vars

-----------------------------------------------------------------------------
Param == [effect : Nat, level : Nat, color : Nat]
Word  == [effect : 0..15, level : 0..15, color : 0..ColorMax]

\* A word has an effect and a level of one nibble each, whatever 32-bit values
\* the parameters hold.
TypeOK ==
  /\ param \in [Zones -> Param]
  /\ committed \in [Groups -> BOOLEAN]
  /\ hw \in [Zones -> Word \cup {Factory}]
  /\ call \in [op : {"none", "write", "commit", "pretend", "preset", "offline"},
               zones : SUBSET Zones,
               reply : {"none", "refused", "empty", "success", "failure"}]
  /\ ops \in 0..MaxOps

\* Whatever the user writes, in whatever order, the firmware only ever gets
\* an effect, a level and a color it knows: values that pass the check only
\* because it looks at their low byte do not spoil the word either.
FirmwareGetsCheckedWords ==
  \A z \in Zones : hw[z] # Factory =>
    /\ hw[z].effect \in {Solid, Breathe, Rainbow, Ambient}
    /\ hw[z].level \in {Off, Half, Full}
    /\ hw[z].color \in 0..ColorMax

\* "success" means that every zone of the call now shows its parameters.
SuccessMeansWritten ==
  call.reply = "success" => \A z \in call.zones : hw[z] = A3(param[z])

\* A preset sets what it sends to allowed values: it is never refused,
\* whatever was in the parameters before.
PresetNeverRefused ==
  call.op \in {"preset", "offline"} => call.reply # "refused"

\* After the offline preset has succeeded, no zone is lit.
OfflineIsDark ==
  call.op = "offline" /\ call.reply = "success" => \A z \in Zones : hw[z].level = Off

=============================================================================
