---------------------------- MODULE ElukLedProofs ----------------------------
(***************************************************************************)
(* Proofs about ElukLed for all parameter values a user may write and any  *)
(* number of operations: the firmware only gets words it knows, "success"  *)
(* is never a lie, a preset is never refused, and offline is dark.         *)
(***************************************************************************)
EXTENDS ElukLed, TLAPS

\* The OR of two nibbles is a nibble, and OR with zero changes nothing.
LEMMA OrNibbleZero ==
  ASSUME NEW a \in 0..15
  PROVE  OrNibble(a, 0) = a
<1>1. /\ (0 \div 1) % 2 = 0 /\ (0 \div 2) % 2 = 0
      /\ (0 \div 4) % 2 = 0 /\ (0 \div 8) % 2 = 0
  OBVIOUS
<1>2. a \in {0, 1, 2, 3, 4, 5, 6, 7, 8, 9, 10, 11, 12, 13, 14, 15}
  OBVIOUS
<1> QED
  BY <1>1, <1>2 DEF OrNibble

\* The nibbles of a value whose low byte is small.
LEMMA NibblesOfSmallByte ==
  ASSUME NEW v \in Nat, v % 256 \in {0, 1, 2, 3, 6, 7}
  PROVE  (v \div 1) % 16 = v % 256 /\ (v \div 16) % 16 = 0
<1>1. (v \div 1) % 16 = v % 256
  BY SMT
<1>2. (v \div 16) % 16 = 0
  BY SMT
<1> QED
  BY <1>1, <1>2

\* A parameter set that passes the check makes a word without spill-over
\* between its fields, with the values the check looked at.
LEMMA A3OfVerified ==
  ASSUME NEW p \in Param, Verified(p)
  PROVE  /\ A3(p) \in Word
         /\ A3(p).effect \in {Solid, Breathe, Rainbow, Ambient}
         /\ A3(p).level \in {Off, Half, Full}
         /\ A3(p).level = p.level % 256
         /\ A3(p).color \in 0..ColorMax
<1>1. /\ p.effect \in Nat /\ p.level \in Nat /\ p.color \in Nat
      /\ p.effect % 256 \in {1, 3, 6, 7} /\ p.level % 256 \in {0, 1, 2}
  BY DEF Param, Verified, Solid, Breathe, Rainbow, Ambient, Off, Half, Full
<1>2. /\ Nibble(p.effect, 1) = p.effect % 256
      /\ Nibble(p.level, 1) = p.level % 256 /\ Nibble(p.level, 16) = 0
  <2>1. (p.effect \div 1) % 16 = p.effect % 256
    BY <1>1, NibblesOfSmallByte
  <2>2. (p.level \div 1) % 16 = p.level % 256 /\ (p.level \div 16) % 16 = 0
    BY <1>1, NibblesOfSmallByte
  <2> QED
    BY <2>1, <2>2 DEF Nibble
<1>3. Nibble(p.color, 268435456) = 0 /\ Nibble(p.color, 16777216) = 0
  BY SMT DEF Param, Verified, ColorMax, Nibble
<1>4. p.effect % 256 \in 0..15 /\ p.level % 256 \in 0..15
  BY <1>1
<1>5. A3(p).effect = p.effect % 256 /\ A3(p).level = p.level % 256
  BY <1>2, <1>3, <1>4, OrNibbleZero, SMT DEF A3
<1>6. A3(p).color \in 0..ColorMax
  <2>1. ColorMax \in Nat
    BY SMT DEF ColorMax
  <2> QED
    BY <1>1, <2>1, SMT DEF A3
<1>7. A3(p) = [effect |-> A3(p).effect, level |-> A3(p).level, color |-> A3(p).color]
  BY SMT DEF A3
<1> QED
  BY <1>4, <1>5, <1>6, <1>7 DEF Word, Verified

-----------------------------------------------------------------------------
\* The values the code itself gives to the parameters.
LEMMA SettingFacts ==
  /\ \A z \in Zones : DefaultColor[z] \in Nat /\ DefaultColor[z] <= ColorMax
  /\ AmbientColor \in Nat /\ AmbientColor <= ColorMax
  /\ {Off, Half, Full, Solid, Breathe, Ambient} \subseteq Nat
<1>1. 16711680 <= ColorMax /\ 65280 <= ColorMax /\ 255 <= ColorMax /\ 65535 <= ColorMax
  BY SMT DEF ColorMax
<1>2. {16711680, 65280, 255, 65535} \subseteq Nat
  BY SMT
<1>3. \A z \in Zones : DefaultColor[z] \in {16711680, 65280, 255, 65535}
  BY SMT DEF DefaultColor
<1>4. AmbientColor \in Nat /\ AmbientColor <= ColorMax
  BY SMT DEF AmbientColor, ColorMax
<1> QED
  BY <1>1, <1>2, <1>3, <1>4, SMT DEF Off, Half, Full, Solid, Breathe, Ambient

\* What a preset puts into the parameters of the zones it sends passes the
\* check.
LEMMA PresetsVerified ==
  ASSUME NEW e \in {Solid, Breathe, Ambient}, NEW l \in {Off, Half, Full},
         NEW c \in Nat, c <= ColorMax
  PROVE  Verified(Setting(e, l, c)) /\ Setting(e, l, c) \in Param /\ l % 256 = l
<1>1. /\ Solid % 256 = Solid /\ Breathe % 256 = Breathe /\ Ambient % 256 = Ambient
      /\ Off % 256 = Off /\ Half % 256 = Half /\ Full % 256 = Full
  BY SMT DEF Off, Half, Full, Solid, Breathe, Ambient
<1> QED
  BY <1>1, SettingFacts, SMT DEF Verified, Setting, Param

\* The zones named by the four orders in which zones are written.
LEMMA OrderFacts ==
  /\ ZonesOf(KbdOrder) = KbdZones /\ ZonesOf(AllOrder) = Zones
  /\ ZonesOf(<<"trunk">>) = {"trunk"} /\ ZonesOf(<<"logo">>) = {"logo"}
  /\ {KbdOrder, AllOrder, <<"trunk">>, <<"logo">>} \subseteq Seq(Zones)
  /\ {"trunk"} \subseteq Zones /\ {"logo"} \subseteq Zones /\ KbdZones \subseteq Zones
BY DEF ZonesOf, KbdOrder, AllOrder, KbdZones, Zones

\* The inductive invariant: besides the types, what was said about each word
\* the firmware holds and about the last call.
IInv ==
  /\ TypeOK
  /\ FirmwareGetsCheckedWords
  /\ SuccessMeansWritten
  /\ PresetNeverRefused
  /\ OfflineIsDark

\* What Send does to the words, the flags and the last call, whichever order
\* and parameters it is given.
LEMMA SendFacts ==
  ASSUME IInv,
         NEW op \in {"commit", "preset", "offline"}, NEW order \in Seq(Zones),
         NEW p \in [Zones -> Param], Send(op, order, p)
  PROVE  /\ committed' \in [Groups -> BOOLEAN]
         /\ hw' \in [Zones -> Word \cup {Factory}]
         /\ FirmwareGetsCheckedWords'
         /\ call'.op = op /\ call'.zones = ZonesOf(order)
         /\ call' \in [op : {"commit", "preset", "offline"}, zones : SUBSET Zones,
                       reply : {"refused", "success", "failure"}]
         /\ call'.reply = "success" => \A z \in ZonesOf(order) : hw'[z] = A3(p[z])
         /\ call'.reply = "refused" => \E z \in ZonesOf(order) : ~Verified(p[z])
<1>1. ZonesOf(order) \subseteq Zones
  BY DEF ZonesOf
<1>2. CASE \E z \in ZonesOf(order) : ~Verified(p[z])
  BY <1>1, <1>2 DEF IInv, TypeOK, FirmwareGetsCheckedWords, Send
<1>3. CASE ~\E z \in ZonesOf(order) : ~Verified(p[z])
  <2>0. PICK n \in 0..Len(order) :
          /\ SetValue(order, p, n)
          /\ committed' = [g \in Groups |-> committed[g] \/ \E z \in ZonesOf(order) : Group(z) = g]
          /\ call' = [op |-> op, zones |-> ZonesOf(order),
                      reply |-> IF n = Len(order) THEN "success" ELSE "failure"]
    BY <1>3 DEF Send
  <2>1. PICK last \in {n, n + 1} :
          /\ last <= Len(order)
          /\ hw' = [z \in Zones |-> IF \E k \in 1..last : order[k] = z THEN A3(p[z]) ELSE hw[z]]
    BY <2>0 DEF SetValue
  <2>2. \A z \in Zones : (\E k \in 1..last : order[k] = z) => z \in ZonesOf(order)
    <3> SUFFICES ASSUME NEW z \in Zones, NEW k \in 1..last, order[k] = z PROVE z \in ZonesOf(order)
      OBVIOUS
    <3>1. k \in 1..Len(order)
      BY <2>1
    <3> QED
      BY <3>1 DEF ZonesOf
  <2>3. \A z \in ZonesOf(order) : p[z] \in Param /\ Verified(p[z])
    BY <1>1, <1>3
  <2>4. hw' \in [Zones -> Word \cup {Factory}]
    BY <2>1, <2>2, <2>3, A3OfVerified DEF IInv, TypeOK
  <2>5. FirmwareGetsCheckedWords'
    BY <2>1, <2>2, <2>3, A3OfVerified DEF IInv, FirmwareGetsCheckedWords
  <2>6. call'.reply = "success" => \A z \in ZonesOf(order) : hw'[z] = A3(p[z])
    <3> SUFFICES ASSUME n = Len(order), NEW k \in 1..Len(order) PROVE hw'[order[k]] = A3(p[order[k]])
      BY <2>0 DEF ZonesOf
    <3>1. last = Len(order) /\ order[k] \in Zones
      BY <2>1
    <3> QED
      BY <2>1, <3>1
  <2>7. committed' \in [Groups -> BOOLEAN]
    BY <2>0 DEF IInv, TypeOK
  <2> QED
    BY <1>1, <2>0, <2>4, <2>5, <2>6, <2>7
<1> QED
  BY <1>2, <1>3

-----------------------------------------------------------------------------
\* Before the first operation no zone has been written.
LEMMA InitInv == Init => IInv
<1> SUFFICES ASSUME Init PROVE IInv
  OBVIOUS
<1>1. param \in [Zones -> Param]
  BY SettingFacts, SMT DEF Init, Setting, Param
<1>2. /\ committed \in [Groups -> BOOLEAN]
      /\ hw \in [Zones -> Word \cup {Factory}]
      /\ call = [op |-> "none", zones |-> {}, reply |-> "none"]
  BY DEF Init
<1>3. ops \in 0..MaxOps
  BY InputAssumption DEF Init
<1>4. FirmwareGetsCheckedWords
  BY DEF Init, FirmwareGetsCheckedWords
<1> QED
  BY <1>1, <1>2, <1>3, <1>4
     DEF IInv, TypeOK, SuccessMeansWritten, PresetNeverRefused, OfflineIsDark

\* A step that sends p and leaves p in the parameters keeps the invariant,
\* provided that a preset sends what the check accepts and that offline
\* sends the level "off" to all zones.
LEMMA SendStep ==
  ASSUME IInv, Count,
         NEW op \in {"commit", "preset", "offline"}, NEW order \in Seq(Zones),
         param' \in [Zones -> Param], Send(op, order, param'),
         op # "commit" => \A z \in ZonesOf(order) : Verified(param'[z]),
         op = "offline" => \A z \in Zones : z \in ZonesOf(order) /\ param'[z].level = Off
  PROVE  IInv'
<1>1. /\ committed' \in [Groups -> BOOLEAN]
      /\ hw' \in [Zones -> Word \cup {Factory}]
      /\ FirmwareGetsCheckedWords'
      /\ call'.op = op /\ call'.zones = ZonesOf(order)
      /\ call' \in [op : {"commit", "preset", "offline"}, zones : SUBSET Zones,
                    reply : {"refused", "success", "failure"}]
      /\ call'.reply = "success" => \A z \in ZonesOf(order) : hw'[z] = A3(param'[z])
      /\ call'.reply = "refused" => \E z \in ZonesOf(order) : ~Verified(param'[z])
  <2> DEFINE q == param'
  <2>1. q \in [Zones -> Param] /\ Send(op, order, q)
    OBVIOUS
  <2> HIDE DEF q
  <2>2. /\ committed' \in [Groups -> BOOLEAN]
        /\ hw' \in [Zones -> Word \cup {Factory}]
        /\ FirmwareGetsCheckedWords'
        /\ call'.op = op /\ call'.zones = ZonesOf(order)
        /\ call' \in [op : {"commit", "preset", "offline"}, zones : SUBSET Zones,
                      reply : {"refused", "success", "failure"}]
        /\ call'.reply = "success" => \A z \in ZonesOf(order) : hw'[z] = A3(q[z])
        /\ call'.reply = "refused" => \E z \in ZonesOf(order) : ~Verified(q[z])
    BY <2>1, SendFacts
  <2> QED
    BY <2>2 DEF q
<1>2. TypeOK'
  BY <1>1, InputAssumption DEF IInv, TypeOK, Count
<1>3. SuccessMeansWritten'
  BY <1>1 DEF SuccessMeansWritten
<1>4. PresetNeverRefused'
  BY <1>1 DEF PresetNeverRefused
<1>5. OfflineIsDark'
  <2> SUFFICES ASSUME op = "offline", call'.reply = "success", NEW z \in Zones
               PROVE  hw'[z].level = Off
    BY <1>1 DEF OfflineIsDark
  <2>1. hw'[z] = A3(param'[z]) /\ param'[z].level = Off /\ Verified(param'[z])
    BY <1>1
  <2>2. A3(param'[z]).level = param'[z].level % 256
    BY <2>1, A3OfVerified
  <2>3. Off % 256 = Off
    BY SMT DEF Off
  <2> QED
    BY <2>1, <2>2, <2>3
<1> QED
  BY <1>1, <1>2, <1>3, <1>4, <1>5 DEF IInv

\* A write to a parameter ends what was said about the last call.
LEMMA WriteParamStep ==
  ASSUME IInv, NEW z \in Zones, WriteParam(z)
  PROVE  IInv'
<1>1. param' \in [Zones -> Param]
  BY InputAssumption DEF IInv, TypeOK, WriteParam, Param
<1>2. TypeOK'
  BY <1>1, InputAssumption DEF IInv, TypeOK, WriteParam, Count
<1> QED
  BY <1>2 DEF IInv, WriteParam, FirmwareGetsCheckedWords, SuccessMeansWritten,
              PresetNeverRefused, OfflineIsDark

\* Neither does a pretended commit write anything.
LEMMA PretendStep ==
  ASSUME IInv, NEW zs \in SUBSET Zones, Pretend(zs)
  PROVE  IInv'
<1>1. /\ UNCHANGED <<param, hw>> /\ committed' \in [Groups -> BOOLEAN]
      /\ call' \in [op : {"pretend"}, zones : SUBSET Zones, reply : {"refused", "empty"}]
  <2>1. CASE \E z \in zs : ~Verified(param[z])
    BY <2>1 DEF IInv, TypeOK, Pretend
  <2>2. CASE ~\E z \in zs : ~Verified(param[z])
    <3>1. /\ committed' = [g \in Groups |-> committed[g] \/ \E z \in zs : Group(z) = g]
          /\ call' = [op |-> "pretend", zones |-> zs, reply |-> "empty"]
          /\ UNCHANGED <<param, hw>>
      BY <2>2 DEF Pretend
    <3>2. committed' \in [Groups -> BOOLEAN]
      BY <3>1, Zenon
    <3> QED
      BY <3>1, <3>2
  <2> QED
    BY <2>1, <2>2
<1>2. TypeOK'
  BY <1>1, InputAssumption DEF IInv, TypeOK, Pretend, Count
<1> QED
  BY <1>1, <1>2 DEF IInv, FirmwareGetsCheckedWords, SuccessMeansWritten,
                    PresetNeverRefused, OfflineIsDark

\* A commit sends the parameters as they are.
LEMMA CommitStep ==
  ASSUME IInv, NEW order \in Seq(Zones),
         Count, Send("commit", order, param), UNCHANGED param
  PROVE  IInv'
<1>1. param' \in [Zones -> Param] /\ Send("commit", order, param')
  BY DEF IInv, TypeOK, Send, SetValue
<1> QED
  BY <1>1, SendStep

\* A preset for all zones: what it sends passes the check, and the offline
\* preset turns every zone off.
LEMMA PresetAllStep ==
  ASSUME IInv, NEW e \in {Solid, Breathe}, NEW l \in {Off, Half, Full}, PresetAll(e, l)
  PROVE  IInv'
<1>1. \A z \in Zones : /\ param'[z] \in Param /\ Verified(param'[z])
                       /\ l = Off => param'[z].level = Off
  <2> SUFFICES ASSUME NEW z \in Zones
               PROVE  /\ param'[z] \in Param /\ Verified(param'[z])
                      /\ l = Off => param'[z].level = Off
    OBVIOUS
  <2>1. param'[z] \in {Setting(Solid, Off, DefaultColor[z]), Setting(e, l, DefaultColor[z])}
    BY DEF PresetAll, EffectAndLevel
  <2>2. DefaultColor[z] \in Nat /\ DefaultColor[z] <= ColorMax
    BY SettingFacts
  <2>3. \A x \in {Setting(Solid, Off, DefaultColor[z]), Setting(e, l, DefaultColor[z])} :
           x \in Param /\ Verified(x)
    BY <2>2, PresetsVerified
  <2> QED
    BY <2>1, <2>3 DEF Setting
<1>2. param' \in [Zones -> Param]
  <2>1. \A z \in Zones : /\ Setting(Solid, Off, DefaultColor[z]) \in Param
                         /\ Setting(e, l, DefaultColor[z]) \in Param
    BY SettingFacts, PresetsVerified
  <2>2. EffectAndLevel(e, l) \in [Zones -> Param]
    BY <2>1 DEF EffectAndLevel
  <2> QED
    BY <2>2 DEF PresetAll
<1>3. PICK op \in {"offline", "preset"} :
         Send(op, AllOrder, param') /\ (op = "offline" => l = Off)
  BY DEF PresetAll
<1>4. AllOrder \in Seq(Zones) /\ ZonesOf(AllOrder) = Zones /\ Count
  BY OrderFacts DEF PresetAll
<1>5. op \in {"commit", "preset", "offline"} /\ op # "commit"
  OBVIOUS
<1>6. /\ \A z \in ZonesOf(AllOrder) : Verified(param'[z])
      /\ op = "offline" => \A z \in Zones : z \in ZonesOf(AllOrder) /\ param'[z].level = Off
  <2>1. \A z \in ZonesOf(AllOrder) : Verified(param'[z])
    BY <1>1, <1>4
  <2>2. ASSUME op = "offline", NEW z \in Zones
        PROVE  z \in ZonesOf(AllOrder) /\ param'[z].level = Off
    <3>1. l = Off
      BY <1>3, <2>2
    <3> QED
      BY <1>1, <1>4, <3>1
  <2> QED
    BY <2>1, <2>2
<1> QED
  BY <1>2, <1>3, <1>4, <1>5, <1>6, SendStep

\* The ambient preset: what it sends to the keyboard passes the check.
LEMMA PresetAmbientStep ==
  ASSUME IInv, NEW l \in {Off, Half, Full}, PresetAmbient(l)
  PROVE  IInv'
<1>1. \A z \in KbdZones : param'[z] = Setting(Ambient, l, AmbientColor)
  BY OrderFacts DEF PresetAmbient, AmbiColors
<1>2. /\ Setting(Ambient, l, AmbientColor) \in Param
      /\ Verified(Setting(Ambient, l, AmbientColor))
  BY SettingFacts, PresetsVerified
<1>3. param' \in [Zones -> Param]
  BY <1>2 DEF PresetAmbient, AmbiColors, IInv, TypeOK
<1> QED
  BY <1>1, <1>2, <1>3, OrderFacts, SendStep DEF PresetAmbient

\* Every step keeps the invariant.
LEMMA Invariance == IInv /\ [Next]_vars => IInv'
<1> SUFFICES ASSUME IInv, [Next]_vars PROVE IInv'
  OBVIOUS
<1>1. ASSUME NEW z \in Zones, WriteParam(z) PROVE IInv'
  BY <1>1, WriteParamStep
<1>2. CASE CommitKbd
  BY <1>2, CommitStep, OrderFacts DEF CommitKbd
<1>3. CASE CommitTrunk
  BY <1>3, CommitStep, OrderFacts DEF CommitTrunk
<1>4. CASE CommitLogo
  BY <1>4, CommitStep, OrderFacts DEF CommitLogo
<1>5. CASE Pretend(KbdZones) \/ Pretend({"trunk"}) \/ Pretend({"logo"})
  BY <1>5, PretendStep, OrderFacts
<1>6. CASE \/ PresetAll(Solid, Off)
           \/ PresetAll(Solid, Half) \/ PresetAll(Solid, Full)
           \/ PresetAll(Breathe, Half) \/ PresetAll(Breathe, Full)
  BY <1>6, PresetAllStep
<1>7. CASE PresetAmbient(Half) \/ PresetAmbient(Full)
  BY <1>7, PresetAmbientStep
<1>8. CASE UNCHANGED vars
  BY <1>8 DEF vars, IInv, TypeOK, FirmwareGetsCheckedWords, SuccessMeansWritten,
              PresetNeverRefused, OfflineIsDark
<1> QED
  BY <1>1, <1>2, <1>3, <1>4, <1>5, <1>6, <1>7, <1>8 DEF Next

\* Parameters, flags, firmware words and replies keep their types.
THEOREM TypeCorrect == Spec => []TypeOK
<1>1. IInv => TypeOK
  BY DEF IInv
<1> QED
  BY <1>1, InitInv, Invariance, PTL DEF Spec

\* The firmware only ever gets effects, levels and colors it knows.
THEOREM OnlyCheckedWords == Spec => []FirmwareGetsCheckedWords
<1>1. IInv => FirmwareGetsCheckedWords
  BY DEF IInv
<1> QED
  BY <1>1, InitInv, Invariance, PTL DEF Spec

\* A commit or preset that reports success has written every zone it names.
THEOREM SuccessIsTrue == Spec => []SuccessMeansWritten
<1>1. IInv => SuccessMeansWritten
  BY DEF IInv
<1> QED
  BY <1>1, InitInv, Invariance, PTL DEF Spec

\* No preset is refused because of what is left in the parameters.
THEOREM PresetsAccepted == Spec => []PresetNeverRefused
<1>1. IInv => PresetNeverRefused
  BY DEF IInv
<1> QED
  BY <1>1, InitInv, Invariance, PTL DEF Spec

\* After a successful offline preset all zones are dark.
THEOREM OfflineTurnsOff == Spec => []OfflineIsDark
<1>1. IInv => OfflineIsDark
  BY DEF IInv
<1> QED
  BY <1>1, InitInv, Invariance, PTL DEF Spec

=============================================================================
