--------------------------- MODULE TuxedoIoProofs ---------------------------
(***************************************************************************)
(* Proofs about TuxedoIo, for any callers, arguments, brightness levels,   *)
(* number of rounds and number of operations.                              *)
(***************************************************************************)
EXTENDS TuxedoIo, SequenceTheorems, TLAPS

-----------------------------------------------------------------------------
(***************************************************************************)
(* Bytes and tasks.                                                        *)
(***************************************************************************)
BitOf(r) == IF r = "animation" THEN AnimationOn ELSE FullMode

\* A task that changes a bit changes the one of its register; the LEDs'
\* tasks name an LED, and its place in the order.
SoundTasks ==
  {k \in Tasks :
     /\ k.do \in {"set", "clear"} => k.value = BitOf(k.reg)
     /\ k.do = "register" => k.value \in 1..4
     /\ k.do \in {"register", "unregister", "flush"} => k.reg \in Leds}

JobInv == job \in [Threads -> Seq(SoundTasks)]

UniwillInv == EcTypeOK /\ FansTypeOK /\ LightbarTypeOK /\ JobInv

LEMMA CutIsByte ==
  ASSUME NEW n \in Nat PROVE Cut(n) \in 0..255
BY DEF Cut

LEMMA RegisterFacts ==
  /\ Fans \subseteq Registers /\ Leds \subseteq Registers /\ "mode" \in Registers
  /\ Leds \subseteq Threads /\ Callers \subseteq Threads /\ Core \in Threads
  /\ "mode" \notin Fans /\ "mode" \notin Leds /\ Fans \cap Leds = {}
  /\ \A i \in 1..4 : LedOrder[i] \in Leds
BY DEF Fans, Registers, Leds, Threads, LedOrder

\* What builds a sound task.
LEMMA TaskFacts ==
  /\ \A r \in Registers, v \in 0..255 :
       /\ Read(r) \in SoundTasks /\ Write(r, v) \in SoundTasks
       /\ Task("choose", r, v) \in SoundTasks
  /\ \A r \in Registers : Set(r, BitOf(r)) \in SoundTasks /\ Clear(r, BitOf(r)) \in SoundTasks
  /\ \A l \in Leds :
       /\ \A n \in 1..4 : Task("register", l, n) \in SoundTasks
       /\ Task("unregister", l, 0) \in SoundTasks /\ Task("flush", l, 0) \in SoundTasks
  /\ \A what \in {"sleep", "probed", "probed_without", "removed"} : Do(what) \in SoundTasks
<1>1. ASSUME NEW what \in Kinds, NEW r \in Registers, NEW v \in 0..255,
             what \in {"set", "clear"} => v = BitOf(r),
             what = "register" => v \in 1..4,
             what \in {"register", "unregister", "flush"} => r \in Leds
      PROVE  Task(what, r, v) \in SoundTasks
  BY <1>1 DEF Task, Tasks, SoundTasks
<1>2. \A r : BitOf(r) \in 0..255
  BY DEF BitOf, AnimationOn, FullMode
<1>3. {"read", "choose", "sleep", "register", "unregister", "flush", "probed",
       "probed_without", "removed", "write", "set", "clear"} \subseteq Kinds
  BY DEF Kinds, Writing
<1>4. ASSUME NEW r \in Registers, NEW v \in 0..255
      PROVE  Read(r) \in SoundTasks /\ Write(r, v) \in SoundTasks
             /\ Task("choose", r, v) \in SoundTasks
  <2>1. Task("read", r, 0) \in SoundTasks
    BY <1>3 DEF Task, Tasks, SoundTasks
  <2>2. Task("write", r, v) \in SoundTasks
    BY <1>1, <1>3
  <2>3. Task("choose", r, v) \in SoundTasks
    BY <1>1, <1>3
  <2> QED
    BY <2>1, <2>2, <2>3 DEF Read, Write
<1>5. ASSUME NEW r \in Registers
      PROVE  Set(r, BitOf(r)) \in SoundTasks /\ Clear(r, BitOf(r)) \in SoundTasks
  BY <1>1, <1>2, <1>3 DEF Set, Clear
<1>6. ASSUME NEW l \in Leds
      PROVE  /\ \A n \in 1..4 : Task("register", l, n) \in SoundTasks
             /\ Task("unregister", l, 0) \in SoundTasks /\ Task("flush", l, 0) \in SoundTasks
  <2>1. l \in Registers
    BY RegisterFacts
  <2>2. ASSUME NEW n \in 1..4 PROVE Task("register", l, n) \in SoundTasks
    <3>1. "register" \in Kinds /\ n \in 0..255 /\ "register" \notin {"set", "clear"}
      BY <1>3
    <3> QED
      BY <2>1, <3>1, <1>1
  <2>3. Task("unregister", l, 0) \in SoundTasks
    BY <2>1, <1>1, <1>3
  <2>4. Task("flush", l, 0) \in SoundTasks
    BY <2>1, <1>1, <1>3
  <2> QED
    BY <2>2, <2>3, <2>4
<1>7. ASSUME NEW what \in {"sleep", "probed", "probed_without", "removed"}
      PROVE  Do(what) \in SoundTasks
  <2>1. what \in Kinds /\ "mode" \in Registers
    BY <1>3, RegisterFacts
  <2>2. Task(what, "mode", 0) \in SoundTasks
    BY <2>1 DEF Task, Tasks, SoundTasks
  <2> QED
    BY <2>2 DEF Do
<1> QED
  BY <1>4, <1>5, <1>6, <1>7

(***************************************************************************)
(* The lists of tasks.                                                     *)
(***************************************************************************)
LEMMA EmptyList == <<>> \in Seq(SoundTasks)
OBVIOUS

LEMMA FanLists ==
  ASSUME NEW f \in Fans, NEW s \in 0..255
  PROVE  /\ <<Read("mode"), Task("choose", f, s)>> \in Seq(SoundTasks)
         /\ <<Read("mode"), Clear("mode", FullMode)>> \in Seq(SoundTasks)
         /\ <<Write("mode", s)>> \in Seq(SoundTasks)
         /\ <<Write(f, s)>> \in Seq(SoundTasks)
         /\ Switch(f, s) \in Seq(SoundTasks)
<1>1. FullMode = BitOf("mode")
  BY DEF BitOf
<1>2. /\ Read("mode") \in SoundTasks /\ Task("choose", f, s) \in SoundTasks
      /\ Clear("mode", FullMode) \in SoundTasks /\ Set("mode", FullMode) \in SoundTasks
      /\ Write("mode", s) \in SoundTasks /\ Write(f, s) \in SoundTasks
      /\ Write("fan0", s) \in SoundTasks /\ Write("fan1", s) \in SoundTasks
      /\ Do("sleep") \in SoundTasks
  BY <1>1, TaskFacts, RegisterFacts DEF Fans
<1>3. Both(s) \in Seq(SoundTasks) /\ Both(s)[1] \in SoundTasks /\ Both(s)[2] \in SoundTasks
  BY <1>2 DEF Both
<1> DEFINE n == 2 * (Rounds - 1)
           rounds == [k \in 1..n |-> Both(s)[((k + 1) % 2) + 1]]
<1>4. rounds \in Seq(SoundTasks)
  <2>1. n \in Nat
    BY FansAssumption
  <2>2. ASSUME NEW k \in 1..n PROVE Both(s)[((k + 1) % 2) + 1] \in SoundTasks
    <3>1. ((k + 1) % 2) + 1 \in {1, 2}
      BY <2>1
    <3> QED
      BY <3>1, <1>3
  <2>3. rounds \in [1..n -> SoundTasks]
    BY <2>2
  <2> QED
    BY <2>1, <2>3
<1>5. Switch(f, s) \in Seq(SoundTasks)
  <2>1. <<Set("mode", FullMode)>> \in Seq(SoundTasks) /\ <<Do("sleep")>> \in Seq(SoundTasks)
    BY <1>2
  <2>2. <<Set("mode", FullMode)>> \o rounds \o <<Do("sleep")>> \o Both(s) \in Seq(SoundTasks)
    BY <2>1, <1>3, <1>4, ConcatProperties
  <2> QED
    BY <2>2 DEF Switch
<1> QED
  BY <1>2, <1>5

LEMMA LedLists ==
  /\ \A l \in Leds, b \in 0..255 : SetBlocking(l, b) \in Seq(SoundTasks)
  /\ \A n \in 0..4 : TakeDown(n) \in Seq(SoundTasks)
  /\ RegisterAll \in Seq(SoundTasks)
  /\ FanSetup \in Seq(SoundTasks)
  /\ \A what \in {"probed", "probed_without", "removed"} : <<Do(what)>> \in Seq(SoundTasks)
<1>1. \A on \in BOOLEAN : WriteAnimation(on) \in Seq(SoundTasks)
  <2>1. AnimationOn = BitOf("animation") /\ "animation" \in Registers
    BY RegisterFacts DEF BitOf, Leds
  <2>2. /\ Read("animation") \in SoundTasks /\ Set("animation", AnimationOn) \in SoundTasks
        /\ Clear("animation", AnimationOn) \in SoundTasks
    BY <2>1, TaskFacts
  <2> QED
    BY <2>2 DEF WriteAnimation
<1>2. \A c \in ColorLeds, b \in 0..255 : WriteColor(c, b) \in Seq(SoundTasks)
  <2>1. ASSUME NEW c \in ColorLeds, NEW b \in 0..255 PROVE Write(c, b) \in SoundTasks
    BY TaskFacts, RegisterFacts DEF ColorLeds
  <2>2. ASSUME NEW c \in ColorLeds, NEW b \in 0..255
        PROVE  WriteColor(c, b) = <<Write(c, b)>> \/ WriteColor(c, b) = <<>>
    BY DEF WriteColor
  <2> SUFFICES ASSUME NEW c \in ColorLeds, NEW b \in 0..255
               PROVE  WriteColor(c, b) \in Seq(SoundTasks)
    OBVIOUS
  <2>3. <<Write(c, b)>> \in Seq(SoundTasks)
    BY <2>1
  <2> QED
    BY <2>2, <2>3, EmptyList
<1>3. ASSUME NEW rgb \in [ColorLeds -> 0..255] PROVE WriteRgb(rgb) \in Seq(SoundTasks)
  <2>1. "red" \in ColorLeds /\ "green" \in ColorLeds /\ "blue" \in ColorLeds
    BY DEF ColorLeds, Leds
  <2>2. /\ WriteColor("red", rgb["red"]) \in Seq(SoundTasks)
        /\ WriteColor("green", rgb["green"]) \in Seq(SoundTasks)
        /\ WriteColor("blue", rgb["blue"]) \in Seq(SoundTasks)
    <3>1. rgb["red"] \in 0..255 /\ rgb["green"] \in 0..255 /\ rgb["blue"] \in 0..255
      BY <2>1
    <3> QED
      BY <2>1, <3>1, <1>2
  <2> QED
    BY <2>2, ConcatProperties DEF WriteRgb
<1>4. ASSUME NEW l \in Leds, NEW b \in 0..255 PROVE SetBlocking(l, b) \in Seq(SoundTasks)
  <2>1. [c \in ColorLeds |-> IF c = l THEN b ELSE Untouched] \in [ColorLeds -> 0..255]
    BY DEF Untouched
  <2>2. WriteRgb([c \in ColorLeds |-> IF c = l THEN b ELSE Untouched]) \in Seq(SoundTasks)
    BY <2>1, <1>3
  <2>3. WriteAnimation(FALSE) \in Seq(SoundTasks) /\ WriteAnimation(b = 1) \in Seq(SoundTasks)
    BY <1>1
  <2> QED
    BY <2>2, <2>3, ConcatProperties DEF SetBlocking
<1>5. ASSUME NEW n \in 0..4 PROVE TakeDown(n) \in Seq(SoundTasks)
  <2>1. ASSUME NEW k \in 1..(2 * n)
        PROVE  Task(IF k % 2 = 1 THEN "unregister" ELSE "flush", LedOrder[(k + 1) \div 2], 0)
                 \in SoundTasks
    <3>1. (k + 1) \div 2 \in 1..4
      OBVIOUS
    <3>2. LedOrder[(k + 1) \div 2] \in Leds
      BY <3>1, RegisterFacts
    <3> QED
      BY <3>2, TaskFacts
  <2>2. TakeDown(n) \in [1..(2 * n) -> SoundTasks]
    BY <2>1 DEF TakeDown
  <2>3. 2 * n \in Nat
    OBVIOUS
  <2> QED
    BY <2>2, <2>3
<1>6. RegisterAll \in Seq(SoundTasks)
  <2>1. \A i \in 1..4 : Task("register", LedOrder[i], i) \in SoundTasks
    BY TaskFacts, RegisterFacts
  <2>2. RegisterAll \in [1..4 -> SoundTasks]
    BY <2>1 DEF RegisterAll
  <2>3. ASSUME NEW n \in Nat, NEW list \in [1..n -> SoundTasks]
        PROVE  list \in Seq(SoundTasks)
    OBVIOUS
  <2>4. 4 \in Nat
    OBVIOUS
  <2> QED
    BY ONLY <2>2, <2>3, <2>4
<1>7. FanSetup \in Seq(SoundTasks)
  BY TaskFacts, RegisterFacts DEF FanSetup
<1>8. \A what \in {"probed", "probed_without", "removed"} : <<Do(what)>> \in Seq(SoundTasks)
  BY TaskFacts
<1> QED
  BY <1>4, <1>5, <1>6, <1>7, <1>8

-----------------------------------------------------------------------------
(***************************************************************************)
(* The types on the Uniwill machine.                                       *)
(***************************************************************************)
LEMMA NextTask ==
  ASSUME JobInv, NEW t \in Threads, ~Idle(t)
  PROVE  Next1(t) \in SoundTasks /\ Tail(job[t]) \in Seq(SoundTasks)
BY HeadTailProperties DEF JobInv, Idle, Next1

LEMMA BecomesKeepsJobs ==
  ASSUME JobInv, NEW t \in Threads, ~Idle(t), NEW list \in Seq(SoundTasks), Becomes(t, list)
  PROVE  JobInv'
<1>1. list \o Tail(job[t]) \in Seq(SoundTasks)
  BY NextTask, ConcatProperties
<1> QED
  BY <1>1 DEF JobInv, Becomes

LEMMA StartsKeepsJobs ==
  ASSUME JobInv, NEW t \in Threads, NEW list \in Seq(SoundTasks), Starts(t, list)
  PROVE  JobInv'
BY DEF JobInv, Starts

\* Of what a task says about itself, each kind of step needs a part.
LEMMA NextTaskFacts ==
  ASSUME JobInv, NEW t \in Threads, ~Idle(t)
  PROVE  /\ Next1(t).reg \in Registers /\ Next1(t).value \in 0..255
         /\ Next1(t).do \in {"set", "clear"} =>
              /\ Next1(t).value \in {64, 128}
              /\ Next1(t).reg = "mode" => Next1(t).value = FullMode
         /\ Next1(t).do = "register" => Next1(t).value \in 1..4
         /\ Next1(t).do \in {"register", "unregister", "flush"} => Next1(t).reg \in Leds
<1>1. Next1(t) \in SoundTasks
  BY NextTask
<1>2. Next1(t) \in Tasks
  BY <1>1 DEF SoundTasks
<1>3. Next1(t).reg \in Registers /\ Next1(t).value \in 0..255
  BY <1>2 DEF Tasks
<1>4. Next1(t).do \in {"set", "clear"} => Next1(t).value = BitOf(Next1(t).reg)
  BY <1>1 DEF SoundTasks
<1>5. /\ Next1(t).do = "register" => Next1(t).value \in 1..4
      /\ Next1(t).do \in {"register", "unregister", "flush"} => Next1(t).reg \in Leds
  BY <1>1 DEF SoundTasks
<1>6. \A r : BitOf(r) \in {64, 128} /\ (r = "mode" => BitOf(r) = FullMode)
  BY DEF BitOf, AnimationOn, FullMode
<1> QED
  BY <1>3, <1>4, <1>5, <1>6

\* The types only depend on these.
LEMMA UniwillUnchanged ==
  ASSUME UniwillInv, UNCHANGED uniwill
  PROVE  UniwillInv'
<1>1. EcTypeOK' /\ JobInv'
  BY DEF UniwillInv, uniwill, ec, EcTypeOK, JobInv
<1>2. FansTypeOK'
  BY DEF UniwillInv, uniwill, fans, FansTypeOK
<1>3. LightbarTypeOK'
  BY DEF UniwillInv, uniwill, lightbar, LightbarTypeOK
<1> QED
  BY <1>1, <1>2, <1>3 DEF UniwillInv

\* What a step that leaves the EC's registers alone has to show.
LEMMA JobsStep ==
  ASSUME UniwillInv, JobInv', UNCHANGED <<ram, got, sure, missed, spoilt>>, wmi' \in BOOLEAN
  PROVE  EcTypeOK'
<1>1. SoundTasks \subseteq Tasks
  BY DEF SoundTasks
<1>2. job' \in [Threads -> Seq(Tasks)]
  BY <1>1 DEF JobInv
<1>3. /\ ram' \in [Registers -> 0..255] /\ got' \in [Threads -> 0..255]
      /\ sure' \subseteq Threads /\ missed' \subseteq Registers /\ spoilt' \subseteq Registers
  BY DEF UniwillInv, EcTypeOK
<1> QED
  BY <1>2, <1>3 DEF EcTypeOK

LEMMA AccessTypes ==
  ASSUME UniwillInv, NEW t \in Threads, Access(t), UNCHANGED lightbar
  PROVE  UniwillInv'
<1>1. /\ ~Idle(t) /\ Becomes(t, <<>>)
      /\ ReadEc(t) \/ WriteEc(t)
      /\ ModeFollows(t)
  BY DEF Access, ReadEc, WriteEc, Has1
<1>2. JobInv' /\ job' \in [Threads -> Seq(Tasks)]
  <2>1. JobInv'
    BY <1>1, BecomesKeepsJobs, EmptyList DEF UniwillInv
  <2>2. SoundTasks \subseteq Tasks
    BY DEF SoundTasks
  <2> QED
    BY <2>1, <2>2 DEF JobInv
<1>3. /\ Next1(t).reg \in Registers /\ Next1(t).value \in 0..255
      /\ Next1(t).do \in {"set", "clear"} => Next1(t).value \in {64, 128}
  BY <1>1, NextTaskFacts DEF UniwillInv
<1>4. EcTypeOK'
  <2>1. CASE ReadEc(t)
    <3>1. got \in [Threads -> 0..255] /\ ram \in [Registers -> 0..255] /\ sure \subseteq Threads
      BY DEF UniwillInv, EcTypeOK
    <3>2. ram[Next1(t).reg] \in 0..255 /\ Garbage \subseteq 0..255
      BY <1>3, <3>1, ThreadsAssumption
    <3>3. /\ \E b \in 0..255 : got' = [got EXCEPT ![t] = b]
          /\ sure' = sure \cup {t} \/ sure' = sure \ {t}
      BY <2>1, <3>2 DEF ReadEc
    <3>4. got' \in [Threads -> 0..255] /\ sure' \subseteq Threads
      BY ONLY <3>1, <3>3, t \in Threads
    <3> QED
      BY <1>2, <2>1, <3>4 DEF ReadEc, UniwillInv, EcTypeOK
  <2>2. CASE WriteEc(t)
    <3>1. Byte(t) \in 0..255
      <4>1. got[t] \in 0..255
        BY DEF UniwillInv, EcTypeOK
      <4>2. Next1(t).do \in {"write", "set", "clear"}
        BY <2>2 DEF WriteEc, Has1, Writing
      <4>3. CASE Next1(t).do = "write"
        BY <1>3, <4>3 DEF Byte
      <4>4. CASE Next1(t).do = "set"
        <5>1. Next1(t).value \in {64, 128} /\ Byte(t) = With(got[t], Next1(t).value)
          BY <1>3, <4>4 DEF Byte
        <5>2. CASE Next1(t).value = 64
          BY <4>1, <5>1, <5>2 DEF Without, With, Has
        <5>3. CASE Next1(t).value = 128
          BY <4>1, <5>1, <5>3 DEF Without, With, Has
        <5> QED
          BY <5>1, <5>2, <5>3
      <4>5. CASE Next1(t).do = "clear"
        <5>1. Next1(t).value \in {64, 128} /\ Byte(t) = Without(got[t], Next1(t).value)
          BY <1>3, <4>5 DEF Byte
        <5>2. Without(got[t], Next1(t).value) \in 0..255
          BY <4>1, <5>1 DEF Without, With, Has
        <5> QED
          BY <5>1, <5>2
      <4> QED
        BY <4>2, <4>3, <4>4, <4>5
    <3>2. ram' \in [Registers -> 0..255]
      <4>1. ram \in [Registers -> 0..255]
        BY DEF UniwillInv, EcTypeOK
      <4>2. ram' = ram \/ ram' = [ram EXCEPT ![Next1(t).reg] = Byte(t)]
        BY <2>2 DEF WriteEc
      <4> QED
        BY <3>1, <4>1, <4>2
    <3>3. missed' \subseteq Registers /\ spoilt' \subseteq Registers
      BY <1>3, <2>2 DEF WriteEc, UniwillInv, EcTypeOK
    <3>4. got' \in [Threads -> 0..255] /\ sure' \subseteq Threads /\ wmi' \in BOOLEAN
      BY <2>2 DEF WriteEc, UniwillInv, EcTypeOK
    <3> QED
      BY <1>2, <3>2, <3>3, <3>4 DEF EcTypeOK
  <2> QED
    BY <1>1, <2>1, <2>2
<1>5. FansTypeOK'
  <2>1. Without(Next1(t).value, FullMode) \in 0..255
    <3>1. Next1(t).value \in 0..255 /\ FullMode \in {64, 128}
      BY <1>3 DEF FullMode
    <3> QED
      BY <3>1 DEF Without, With, Has
  <2> QED
    BY <1>1, <2>1 DEF ModeFollows, UniwillInv, FansTypeOK
<1>6. LightbarTypeOK'
  BY DEF UniwillInv, LightbarTypeOK, lightbar
<1> QED
  BY <1>2, <1>4, <1>5, <1>6 DEF UniwillInv

LEMMA FansTypes ==
  ASSUME UniwillInv, UNCHANGED lightbar,
         \/ \E c \in Callers : Ioctl(c) \/ Choose(c) \/ Sleep(c)
         \/ \E f \in Fans : RampUp(f)
         \/ RampEnds
  PROVE  UniwillInv'
<1>0. LightbarTypeOK'
  BY DEF UniwillInv, LightbarTypeOK, lightbar
<1>1. ASSUME NEW c \in Callers, Ioctl(c) PROVE UniwillInv'
  <2>1. \A s \in Speeds : Cut(s) \in 0..255
    BY CutIsByte, FansAssumption
  <2>2. \A s \in Modes : Cut(s) \in 0..255
    BY CutIsByte, FansAssumption
  <2>3. c \in Threads /\ {"fan0", "fan1"} = Fans
    BY RegisterFacts DEF Fans
  <2>4. PICK list \in Seq(SoundTasks) : Starts(c, list)
    <3>1. ASSUME NEW f \in Fans, SetFan(c, f)
          PROVE  \E list \in Seq(SoundTasks) : Starts(c, list)
      BY <2>1, <3>1, FanLists DEF SetFan
    <3>2. ASSUME FanAuto(c) PROVE \E list \in Seq(SoundTasks) : Starts(c, list)
      <4>1. "fan0" \in Fans /\ 0 \in 0..255
        BY <2>3
      <4> QED
        BY <3>2, <4>1, FanLists DEF FanAuto
    <3>3. ASSUME SetMode(c) PROVE \E list \in Seq(SoundTasks) : Starts(c, list)
      <4>1. "fan0" \in Fans
        BY <2>3
      <4>2. \A v \in 0..255 : <<Write("mode", v)>> \in Seq(SoundTasks)
        BY <4>1, FanLists
      <4> QED
        BY <2>2, <3>3, <4>2 DEF SetMode
    <3> QED
      BY <1>1, <2>3, <3>1, <3>2, <3>3 DEF Ioctl
  <2>5. JobInv'
    BY <2>3, <2>4, StartsKeepsJobs DEF UniwillInv
  <2>6. EcTypeOK'
    BY <2>4, <2>5, JobsStep DEF Starts, UniwillInv, EcTypeOK
  <2>7. FansTypeOK'
    BY <1>1 DEF Ioctl, SetFan, FanAuto, SetMode, fans, UniwillInv, FansTypeOK
  <2> QED
    BY <1>0, <2>5, <2>6, <2>7 DEF UniwillInv
<1>2. ASSUME NEW c \in Callers, Choose(c) \/ Sleep(c) PROVE UniwillInv'
  <2>1. c \in Threads /\ ~Idle(c)
    BY <1>2, RegisterFacts DEF Choose, Sleep, Has1
  <2>2. PICK list \in Seq(SoundTasks) : Passes(c, list)
    <3>1. CASE Choose(c)
      <4>1. Next1(c).reg \in Registers /\ Next1(c).value \in 0..255
        BY <2>1, NextTaskFacts DEF UniwillInv
      <4> DEFINE f == Next1(c).reg
                 s == Next1(c).value
      <4>2. <<Write(f, s)>> \in Seq(SoundTasks)
        BY <4>1, TaskFacts
      <4>3. Switch(f, s) = Switch("fan0", s)
        BY DEF Switch
      <4>4. Switch("fan0", s) \in Seq(SoundTasks)
        BY <4>1, FanLists DEF Fans
      <4> QED
        BY <3>1, <4>2, <4>3, <4>4 DEF Choose
    <3>2. CASE Sleep(c)
      BY <3>2, EmptyList DEF Sleep
    <3> QED
      BY <1>2, <3>1, <3>2
  <2>3. JobInv'
    BY <2>1, <2>2, BecomesKeepsJobs DEF Passes, UniwillInv
  <2>4. EcTypeOK'
    BY <2>2, <2>3, JobsStep DEF Passes, UniwillInv, EcTypeOK
  <2>5. FansTypeOK'
    BY <1>2 DEF Choose, Sleep, fans, UniwillInv, FansTypeOK
  <2> QED
    BY <1>0, <2>3, <2>4, <2>5 DEF UniwillInv
<1>3. ASSUME NEW f \in Fans, RampUp(f) PROVE UniwillInv'
  <2>1. f \in Registers
    BY RegisterFacts
  <2>2. ram' \in [Registers -> 0..255]
    BY <1>3, <2>1, FansAssumption DEF RampUp, UniwillInv, EcTypeOK
  <2> QED
    BY <1>0, <1>3, <2>2 DEF RampUp, fans, UniwillInv, EcTypeOK, FansTypeOK, JobInv
<1>4. ASSUME RampEnds PROVE UniwillInv'
  BY <1>0, <1>4 DEF RampEnds, ec, UniwillInv, EcTypeOK, FansTypeOK, JobInv
<1> QED
  BY <1>1, <1>2, <1>3, <1>4

LEMMA LightbarTypes ==
  ASSUME UniwillInv, UNCHANGED fans,
         \/ \E l \in Leds : SetLed(l) \/ LedWork(l)
         \/ Bind \/ RegisterLed \/ RegisterFails \/ Probed
         \/ Unbind \/ UnregisterLed \/ FlushLed \/ Removed
  PROVE  UniwillInv'
<1>0. FansTypeOK' /\ Core \in Threads
  BY RegisterFacts DEF UniwillInv, FansTypeOK, fans
\* An LED is asked for something.
<1>7. ASSUME NEW l \in Leds, NEW b \in 0..36, b <= MaxBrightness(l), Asks(l, b)
      PROVE  /\ asked' \in [Leds -> 0..36 \cup {Unasked}] /\ asked'["animation"] \in {0, 1, Unasked}
             /\ queued' \subseteq Leds /\ animated' \subseteq BOOLEAN
  <2>1. asked' \in [Leds -> 0..36 \cup {Unasked}] /\ asked'["animation"] \in {0, 1, Unasked}
    BY <1>7 DEF Asks, UniwillInv, LightbarTypeOK, MaxBrightness
  <2>2. queued' \subseteq Leds
    BY <1>7 DEF Asks, UniwillInv, LightbarTypeOK
  <2>3. animated' \subseteq BOOLEAN
    <3>1. (l = "animation" /\ b = 1) \in BOOLEAN /\ animated \subseteq BOOLEAN
      BY DEF UniwillInv, LightbarTypeOK
    <3>2. animated' \subseteq {l = "animation" /\ b = 1} \cup animated
      BY <1>7 DEF Asks
    <3> QED
      BY <3>1, <3>2
  <2> QED
    BY <2>1, <2>2, <2>3
<1>1. ASSUME NEW l \in Leds, SetLed(l) PROVE UniwillInv'
  <2>1. PICK b \in Levels : Asks(l, IF b <= MaxBrightness(l) THEN b ELSE MaxBrightness(l))
    BY <1>1 DEF SetLed
  <2>2. /\ (IF b <= MaxBrightness(l) THEN b ELSE MaxBrightness(l)) \in 0..36
        /\ (IF b <= MaxBrightness(l) THEN b ELSE MaxBrightness(l)) <= MaxBrightness(l)
    BY LightbarAssumption DEF MaxBrightness
  <2>3. /\ asked' \in [Leds -> 0..36 \cup {Unasked}] /\ asked'["animation"] \in {0, 1, Unasked}
        /\ queued' \subseteq Leds /\ animated' \subseteq BOOLEAN
    BY <1>7, <2>1, <2>2
  <2>4. UNCHANGED <<ec, hasLightbar, phase, leds, loaded>>
    BY <1>1 DEF SetLed
  <2> QED
    BY <1>0, <2>3, <2>4 DEF ec, UniwillInv, EcTypeOK, JobInv, LightbarTypeOK
<1>2. ASSUME NEW l \in Leds, LedWork(l) PROVE UniwillInv'
  <2>1. asked[l] \in 0..255 /\ l \in Threads
    BY RegisterFacts DEF UniwillInv, LightbarTypeOK, Unasked
  <2>2. SetBlocking(l, asked[l]) \in Seq(SoundTasks)
    BY <2>1, LedLists
  <2>3. JobInv'
    BY <1>2, <2>1, <2>2, StartsKeepsJobs DEF LedWork, UniwillInv
  <2>4. EcTypeOK'
    BY <1>2, <2>3, JobsStep DEF LedWork, Starts, UniwillInv, EcTypeOK
  <2> QED
    BY <1>0, <1>2, <2>3, <2>4 DEF LedWork, UniwillInv, LightbarTypeOK
<1>3. CASE Bind
  <2>1. FanSetup \o (IF hasLightbar THEN RegisterAll ELSE <<>>) \o <<Do("probed")>>
          \in Seq(SoundTasks)
    BY LedLists, EmptyList, ConcatProperties
  <2>2. JobInv'
    BY <1>0, <1>3, <2>1 DEF Bind, UniwillInv, JobInv
  <2>3. EcTypeOK'
    BY <1>3, <2>2, JobsStep DEF Bind
  <2> QED
    BY <1>0, <1>3, <2>2, <2>3 DEF Bind, UniwillInv, LightbarTypeOK
<1>4. CASE RegisterFails
  <2>1. ~Idle(Core) /\ Next1(Core).value - 1 \in 0..4
    BY <1>0, <1>4, NextTaskFacts DEF RegisterFails, Has1, UniwillInv
  <2>2. TakeDown(Next1(Core).value - 1) \o <<Do("probed_without")>> \in Seq(SoundTasks)
    BY <2>1, LedLists, ConcatProperties
  <2>3. JobInv'
    BY <1>0, <1>4, <2>2 DEF RegisterFails, UniwillInv, JobInv
  <2>4. EcTypeOK'
    BY <1>4, <2>3, JobsStep DEF RegisterFails, UniwillInv, EcTypeOK
  <2> QED
    BY <1>0, <1>4, <2>3, <2>4 DEF RegisterFails, lightbar, UniwillInv, LightbarTypeOK
<1>5. CASE Unbind
  <2>1. 4 \in 0..4
    OBVIOUS
  <2>2. (IF loaded THEN TakeDown(4) ELSE <<>>) \o <<Do("removed")>> \in Seq(SoundTasks)
    BY <2>1, LedLists, EmptyList, ConcatProperties
  <2>3. JobInv'
    BY <1>0, <1>5, <2>2, StartsKeepsJobs DEF Unbind, UniwillInv
  <2>4. EcTypeOK'
    BY <1>5, <2>3, JobsStep DEF Unbind, Starts, UniwillInv, EcTypeOK
  <2> QED
    BY <1>0, <1>5, <2>3, <2>4 DEF Unbind, UniwillInv, LightbarTypeOK
<1>6. CASE RegisterLed \/ Probed \/ UnregisterLed \/ FlushLed \/ Removed
  <2>1. ~Idle(Core) /\ Becomes(Core, <<>>)
    BY <1>6 DEF RegisterLed, Probed, UnregisterLed, FlushLed, Removed, Passes, Has1
  <2>2. JobInv'
    BY <1>0, <2>1, BecomesKeepsJobs, EmptyList DEF UniwillInv
  <2>3. UNCHANGED <<ram, got, sure, missed, spoilt>> /\ wmi' \in BOOLEAN
    BY <1>6 DEF RegisterLed, Probed, UnregisterLed, FlushLed, Removed, Passes,
                UniwillInv, EcTypeOK
  <2>4. EcTypeOK'
    BY <2>2, <2>3, JobsStep
  <2>5. Next1(Core).do \in {"register", "unregister", "flush"} => Next1(Core).reg \in Leds
    BY <1>0, <2>1, NextTaskFacts DEF UniwillInv
  <2>6. LightbarTypeOK'
    <3>1. CASE RegisterLed
      BY <2>5, <3>1 DEF RegisterLed, Has1, UniwillInv, LightbarTypeOK
    <3>2. CASE UnregisterLed
      <4> DEFINE l == Next1(Core).reg
      <4>1. l \in Leds /\ Asks(l, 0) /\ leds' = leds \ {l} /\ UNCHANGED <<hasLightbar, phase, loaded>>
        BY <2>5, <3>2 DEF UnregisterLed, Has1
      <4>2. 0 \in 0..36 /\ 0 <= MaxBrightness(l)
        BY DEF MaxBrightness
      <4>3. /\ asked' \in [Leds -> 0..36 \cup {Unasked}] /\ asked'["animation"] \in {0, 1, Unasked}
            /\ queued' \subseteq Leds /\ animated' \subseteq BOOLEAN
        BY <1>7, <4>1, <4>2
      <4> QED
        BY <4>1, <4>3 DEF UniwillInv, LightbarTypeOK
    <3>3. CASE Probed \/ FlushLed \/ Removed
      BY <3>3 DEF Probed, FlushLed, Removed, lightbar, UniwillInv, LightbarTypeOK
    <3> QED
      BY <1>6, <3>1, <3>2, <3>3
  <2> QED
    BY <1>0, <2>2, <2>4, <2>6 DEF UniwillInv
<1> QED
  BY <1>1, <1>2, <1>3, <1>4, <1>5, <1>6

LEMMA UniwillTypes ==
  ASSUME UniwillInv, UniwillOp \/ UniwillStep
  PROVE  UniwillInv'
BY AccessTypes, FansTypes, LightbarTypes DEF UniwillOp, UniwillStep, Ioctl

-----------------------------------------------------------------------------
(***************************************************************************)
(* The switches and transports of the Clevo machine.                       *)
(***************************************************************************)
\* Calls go to the ACPI interface only while it is in, and it knows its device
\* from before that until after it.
AcpiInv ==
  /\ active = Acpi => acpiStep = "in"
  /\ acpiStep # "out" => acpiData

Busy(c, s) == call[c].at # "idle" /\ call[c].switch = s

\* What callers are about is among what is wanted; and on firmware that
\* toggles, there is one of them, who sets only what is not as he wants it.
SwitchInv ==
  \A s \in clean :
    /\ \A c \in IoCallers : Busy(c, s) => Bit(call[c].arg) \in wanted[s]
    /\ s = "webcam" /\ toggles =>
         \A c \in IoCallers : Busy(c, s) =>
           /\ \A d \in IoCallers : Busy(d, s) => d = c
           /\ call[c].at = "set" => position[s] # Bit(call[c].arg)

ClevoInv == ClevoTypeOK /\ AcpiInv /\ SwitchInv /\ SwitchAsAsked

CallRecords ==
  [at : {"idle", "get", "set"}, switch : Switches,
   arg : Args \cup {0}, result : 0..1, via : {Wmi, Acpi, None}, seen : BOOLEAN]

LEMMA CallFacts ==
  ASSUME ClevoInv
  PROVE  /\ call \in [IoCallers -> CallRecords]
         /\ NoCall \in CallRecords
         /\ \A s \in Switches : position[s] \in 0..1
         /\ \A n \in Args \cup {0} : Bit(n) \in 0..1
         /\ \A n \in 0..1 : Bit(n) = n
<1>1. \A n \in Nat : n % 2 \in 0..1
  OBVIOUS
<1>2. \A n \in 0..1 : n % 2 = n
  OBVIOUS
<1>3. \A n \in Args \cup {0} : n \in Nat
  BY ArgsAssumption
<1> QED
  BY <1>1, <1>2, <1>3
  DEF ClevoInv, ClevoTypeOK, CallRecords, NoCall, Bit, Switches

LEMMA ClevoUnchanged ==
  ASSUME ClevoInv, UNCHANGED clevo
  PROVE  ClevoInv'
<1>1. ClevoTypeOK' /\ AcpiInv'
  BY DEF ClevoInv, clevo, ClevoTypeOK, AcpiInv
<1>2. SwitchInv'
  BY DEF ClevoInv, clevo, SwitchInv, Busy, Bit
<1>3. SwitchAsAsked'
  BY DEF ClevoInv, clevo, SwitchAsAsked, Quiet
<1> QED
  BY <1>1, <1>2, <1>3 DEF ClevoInv

LEMMA TransportStep ==
  ASSUME ClevoInv, Transport
  PROVE  ClevoInv'
<1>1. UNCHANGED ioctls
  BY DEF Transport, AcpiData, AcpiAdd, AcpiRemove, AcpiGone, WmiAdd, WmiRemove
<1>2. SwitchInv'
  BY <1>1 DEF ClevoInv, ioctls, SwitchInv, Busy, Bit
<1>3. SwitchAsAsked'
  BY <1>1 DEF ClevoInv, ioctls, SwitchAsAsked, Quiet
<1>4. ClevoTypeOK'
  <2>1. registered' \subseteq {Wmi, Acpi} /\ active' \in {Wmi, Acpi, None}
    BY DEF Transport, AcpiData, AcpiAdd, AcpiRemove, AcpiGone, WmiAdd, WmiRemove,
           Arbiter!Register, Arbiter!Unregister, ClevoInv, ClevoTypeOK
  <2>2. acpiStep' \in {"out", "adding", "in", "removing"} /\ acpiData' \in BOOLEAN
    BY DEF Transport, AcpiData, AcpiAdd, AcpiRemove, AcpiGone, WmiAdd, WmiRemove,
           AcpiGoes, ClevoInv, ClevoTypeOK
  <2> QED
    BY <1>1, <2>1, <2>2 DEF ClevoInv, ClevoTypeOK, ioctls
<1>5. AcpiInv'
  BY DEF Transport, AcpiData, AcpiAdd, AcpiRemove, AcpiGone, WmiAdd, WmiRemove, AcpiGoes,
         Arbiter!Register, Arbiter!Unregister, ClevoInv, AcpiInv, Wmi, Acpi, None
<1> QED
  BY <1>2, <1>3, <1>4, <1>5 DEF ClevoInv

LEMMA BeginStep ==
  ASSUME ClevoInv, NEW c \in IoCallers, NEW s \in Switches, Begin(c, s)
  PROVE  ClevoInv'
<1>1. PICK a \in Args :
        /\ call' = [call EXCEPT ![c] = [NoCall EXCEPT
                      !.at = IF s = "webcam" THEN "get" ELSE "set", !.switch = s, !.arg = a]]
        /\ wanted' = [wanted EXCEPT ![s] = {Bit(a)} \cup (IF Quiet(s) THEN {} ELSE @)]
  BY DEF Begin
<1>2. /\ call'[c] \in CallRecords /\ call'[c].switch = s /\ call'[c].arg = a
      /\ call'[c].at = IF s = "webcam" THEN "get" ELSE "set"
      /\ \A d \in IoCallers : d # c => call'[d] = call[d]
      /\ call' \in [IoCallers -> CallRecords]
      /\ call[c].at = "idle"
  <2>1. [NoCall EXCEPT !.at = IF s = "webcam" THEN "get" ELSE "set", !.switch = s, !.arg = a]
          \in CallRecords
    BY CallFacts DEF CallRecords
  <2> QED
    BY <1>1, <2>1, CallFacts DEF Begin, NoCall
<1>3. Bit(a) \in 0..1
  BY CallFacts
<1>4. ClevoTypeOK'
  <2>1. wanted' \in [Switches -> SUBSET (0..1)]
    BY <1>1, <1>3 DEF ClevoInv, ClevoTypeOK
  <2>2. clean' \subseteq Switches
    BY DEF Begin, ClevoInv, ClevoTypeOK
  <2> QED
    BY <1>2, <2>1, <2>2 DEF Begin, transports, ClevoInv, ClevoTypeOK, CallRecords
<1>5. AcpiInv'
  BY DEF Begin, transports, ClevoInv, AcpiInv
<1>6. \A d \in IoCallers, t \in Switches :
        Busy(d, t)' <=> (IF d = c THEN t = s ELSE Busy(d, t))
  BY <1>2 DEF Busy
<1>7. \A t \in Switches : t # s => wanted'[t] = wanted[t] /\ (t \in clean' <=> t \in clean)
  BY <1>1 DEF Begin, ClevoInv, ClevoTypeOK
<1>8. wanted'[s] = {Bit(a)} \cup (IF Quiet(s) THEN {} ELSE wanted[s])
  BY <1>1 DEF ClevoInv, ClevoTypeOK
<1>9. s \in clean' => Quiet(s) \/ (s \in clean /\ ~(toggles /\ s = "webcam"))
  BY DEF Begin
<1>10. Quiet(s) => \A d \in IoCallers : ~Busy(d, s)
  BY DEF Quiet, Busy
<1>11. SwitchInv'
  <2>1. ASSUME NEW t \in clean', NEW d \in IoCallers, Busy(d, t)'
        PROVE  Bit(call'[d].arg) \in wanted'[t]
    <3>0. t \in Switches
      BY <1>4 DEF ClevoTypeOK
    <3>1. CASE d = c
      BY <1>2, <1>6, <1>8, <2>1, <3>0, <3>1
    <3>2. CASE d # c
      <4>1. Busy(d, t) /\ call'[d] = call[d]
        BY <1>2, <1>6, <2>1, <3>0, <3>2
      <4>2. t \in clean /\ wanted[t] \subseteq wanted'[t]
        BY <1>7, <1>8, <1>9, <1>10, <3>0, <4>1
      <4> QED
        BY <4>1, <4>2 DEF ClevoInv, SwitchInv
    <3> QED
      BY <3>1, <3>2
  <2>2. ASSUME NEW t \in clean', t = "webcam", toggles', NEW d \in IoCallers, Busy(d, t)'
        PROVE  /\ \A e \in IoCallers : Busy(e, t)' => e = d
               /\ call'[d].at = "set" => position'[t] # Bit(call'[d].arg)
    <3>0. t \in Switches /\ toggles /\ position' = position
      BY <1>4, <2>2 DEF Begin, ClevoTypeOK
    <3>1. CASE t = s
      <4>1. Quiet(s)
        BY <1>9, <2>2, <3>0, <3>1
      <4>2. \A e \in IoCallers : Busy(e, t)' => e = c
        BY <1>6, <1>10, <3>0, <3>1, <4>1
      <4> QED
        BY <1>2, <2>2, <3>1, <4>2
    <3>2. CASE t # s
      <4>1. \A e \in IoCallers : Busy(e, t)' => e # c /\ Busy(e, t) /\ call'[e] = call[e]
        BY <1>2, <1>6, <3>0, <3>2, CallFacts DEF Busy
      <4>2. t \in clean
        BY <1>7, <3>0, <3>2
      <4> QED
        BY <2>2, <3>0, <4>1, <4>2 DEF ClevoInv, SwitchInv
    <3> QED
      BY <3>1, <3>2
  <2> QED
    BY <2>1, <2>2 DEF SwitchInv, Bit
<1>12. SwitchAsAsked'
  <2>1. ASSUME NEW t \in clean', Quiet(t)', wanted'[t] # {} PROVE position'[t] \in wanted'[t]
    <3>0. t \in Switches
      BY <1>4 DEF ClevoTypeOK
    <3>1. t # s
      BY <1>2, <2>1 DEF Quiet
    <3>2. Quiet(t)
      BY <1>2, <2>1 DEF Quiet
    <3> QED
      BY <1>7, <2>1, <3>0, <3>1, <3>2 DEF Begin, ClevoInv, SwitchAsAsked
  <2> QED
    BY <2>1 DEF SwitchAsAsked
<1> QED
  BY <1>4, <1>5, <1>11, <1>12 DEF ClevoInv

\* What a caller's call becomes after a method has returned.
LEMMA ReturnsFacts ==
  ASSUME ClevoInv, NEW c \in IoCallers, NEW result \in 0..1, Returns(c, result)
  PROVE  /\ call' \in [IoCallers -> CallRecords]
         /\ \A d \in IoCallers : d # c => call'[d] = call[d]
         /\ call'[c].at # "idle" =>
              /\ call'[c].switch = call[c].switch /\ call'[c].arg = call[c].arg
              /\ call[c].at = "get" /\ call'[c].at = "set"
              /\ Bit(call[c].arg) # Bit(result)
         /\ call[c].at = "get" /\ call'[c].at = "idle" => Bit(call[c].arg) = Bit(result)
<1>1. call \in [IoCallers -> CallRecords] /\ NoCall \in CallRecords
  BY CallFacts
<1>2. call' = [call EXCEPT ![c] = IF call[c].at = "get" THEN AfterGet(c, result) ELSE NoCall]
  BY <1>1 DEF Returns
<1>3. [call[c] EXCEPT !.at = "set", !.result = result, !.via = None, !.seen = FALSE]
        \in CallRecords
  BY <1>1 DEF CallRecords
<1>4. AfterGet(c, result) \in CallRecords
  BY <1>1, <1>3 DEF AfterGet
<1>5. NoCall.at = "idle"
  BY DEF NoCall
<1> QED
  BY <1>1, <1>2, <1>3, <1>4, <1>5 DEF AfterGet, CallRecords

\* A step after which one caller's call is as it was, or over, or sets what it
\* has read; and which leaves the other callers alone.
LEMMA OthersUndisturbed ==
  ASSUME ClevoInv, NEW c \in IoCallers, NEW t \in Switches,
         \A d \in IoCallers : d # c => call'[d] = call[d],
         call'[c].at # "idle" =>
           /\ call[c].at # "idle"
           /\ call'[c].switch = call[c].switch /\ call'[c].arg = call[c].arg
  PROVE  /\ \A d \in IoCallers : Busy(d, t)' =>
              Busy(d, t) /\ Bit(call[d].arg) = Bit(call[d].arg)'
         /\ ~Busy(c, t) => (Quiet(t)' => Quiet(t))
<1>1. ASSUME NEW d \in IoCallers, Busy(d, t)'
      PROVE  Busy(d, t) /\ Bit(call[d].arg) = Bit(call[d].arg)'
  <2>1. CASE d = c
    BY <1>1, <2>1 DEF Busy, Bit
  <2>2. CASE d # c
    BY <1>1, <2>2 DEF Busy, Bit
  <2> QED
    BY <2>1, <2>2
<1>2. ASSUME ~Busy(c, t), Quiet(t)' PROVE Quiet(t)
  <2>1. ASSUME NEW d \in IoCallers PROVE call[d].at = "idle" \/ call[d].switch # t
    <3>1. CASE d = c
      BY <1>2, <3>1 DEF Busy
    <3>2. CASE d # c
      BY <1>2, <3>2 DEF Quiet
    <3> QED
      BY <3>1, <3>2
  <2> QED
    BY <2>1 DEF Quiet
<1> QED
  BY <1>1, <1>2

\* A call that ends in an error, or dies: its switch is where it was, or not,
\* and is not clean any more; the others' are left alone.
LEMMA UncleanStep ==
  ASSUME ClevoInv, NEW c \in IoCallers, NEW s \in Switches, s = call[c].switch,
         call[c].at # "idle", call' \in [IoCallers -> CallRecords],
         \A d \in IoCallers : d # c => call'[d] = call[d],
         call'[c].at # "idle" => call'[c].switch = s /\ call'[c].arg = call[c].arg,
         clean' = clean \ {s}, position' \in [Switches -> 0..1],
         \A t \in Switches : t # s => position'[t] = position[t],
         UNCHANGED <<transports, toggles, wanted>>
  PROVE  ClevoInv'
<1>1. ClevoTypeOK' /\ AcpiInv'
  BY DEF transports, ClevoInv, ClevoTypeOK, AcpiInv, CallRecords
<1>2. ASSUME NEW t \in clean'
      PROVE  /\ t \in clean /\ t \in Switches /\ ~Busy(c, t) /\ position'[t] = position[t]
             /\ \A d \in IoCallers : Busy(d, t)' =>
                  Busy(d, t) /\ d # c /\ Bit(call[d].arg) = Bit(call[d].arg)'
             /\ Quiet(t)' => Quiet(t)
  <2>1. t \in clean /\ t \in Switches /\ t # s /\ ~Busy(c, t)
    BY <1>2 DEF ClevoInv, ClevoTypeOK, Busy
  <2> QED
    BY <2>1, OthersUndisturbed
<1>3. SwitchInv'
  <2>1. ASSUME NEW t \in clean', NEW d \in IoCallers, Busy(d, t)'
        PROVE  /\ Bit(call[d].arg)' \in wanted'[t]
               /\ t = "webcam" /\ toggles' =>
                    /\ \A e \in IoCallers : Busy(e, t)' => e = d
                    /\ call'[d].at = "set" => position'[t] # Bit(call[d].arg)'
    BY <1>2, <2>1 DEF ClevoInv, SwitchInv
  <2> QED
    BY <2>1 DEF SwitchInv
<1>4. SwitchAsAsked'
  BY <1>2 DEF ClevoInv, SwitchAsAsked
<1> QED
  BY <1>1, <1>3, <1>4 DEF ClevoInv

LEMMA FailsStep ==
  ASSUME ClevoInv, NEW c \in IoCallers, call[c].at # "idle", Fails(c),
         position' \in {position, Acted(c)}, UNCHANGED <<transports, toggles, wanted>>
  PROVE  ClevoInv'
<1> DEFINE s == call[c].switch
<1>1. /\ Returns(c, call[c].result) /\ clean' = clean \ {s}
      /\ call[c].result \in 0..1 /\ s \in Switches
  BY CallFacts DEF Fails, CallRecords
<1>2. /\ call' \in [IoCallers -> CallRecords]
      /\ \A d \in IoCallers : d # c => call'[d] = call[d]
      /\ call'[c].at # "idle" => call'[c].switch = s /\ call'[c].arg = call[c].arg
  BY <1>1, ReturnsFacts
<1>3. position \in [Switches -> 0..1] /\ Bit(call[c].arg) \in 0..1
  BY CallFacts DEF ClevoInv, ClevoTypeOK, CallRecords
<1>4. /\ position' \in [Switches -> 0..1]
      /\ \A t \in Switches : t # s => position'[t] = position[t]
  BY <1>1, <1>3 DEF Acted
<1> QED
  BY <1>1, <1>2, <1>4, UncleanStep

LEMMA DiesStep ==
  ASSUME ClevoInv, NEW c \in IoCallers, call[c].at # "idle", Dies(c),
         UNCHANGED <<transports, toggles, wanted, position>>
  PROVE  ClevoInv'
<1>1. /\ call' = [call EXCEPT ![c] = NoCall] /\ clean' = clean \ {call[c].switch}
      /\ call[c].switch \in Switches /\ NoCall.at = "idle"
  BY CallFacts DEF Dies, CallRecords, NoCall
<1>2. call' \in [IoCallers -> CallRecords] /\ position' \in [Switches -> 0..1]
  BY <1>1, CallFacts DEF ClevoInv, ClevoTypeOK
<1>3. (\A d \in IoCallers : d # c => call'[d] = call[d]) /\ call'[c].at = "idle"
  BY <1>1, CallFacts
<1> QED
  BY <1>1, <1>2, <1>3, UncleanStep

\* A call that gets on: what it is to do stays the same.
LEMMA ProceedsStep ==
  ASSUME ClevoInv, NEW c \in IoCallers, NEW r \in CallRecords, Proceeds(c, r),
         r.at = call[c].at, r.switch = call[c].switch, r.arg = call[c].arg,
         UNCHANGED <<transports, toggles, wanted, position>>
  PROVE  ClevoInv'
<1>1. /\ call' \in [IoCallers -> CallRecords] /\ clean' = clean
      /\ \A d \in IoCallers :
           call'[d].at = call[d].at /\ call'[d].switch = call[d].switch /\ call'[d].arg = call[d].arg
  BY CallFacts DEF Proceeds
<1>2. ClevoTypeOK' /\ AcpiInv'
  BY <1>1 DEF transports, ClevoInv, ClevoTypeOK, AcpiInv, CallRecords
<1>3. SwitchInv'
  BY <1>1 DEF ClevoInv, SwitchInv, Busy, Bit
<1>4. SwitchAsAsked'
  BY <1>1 DEF ClevoInv, SwitchAsAsked, Quiet
<1> QED
  BY <1>2, <1>3, <1>4 DEF ClevoInv

\* How a call gets on.
LEMMA ProceedsFacts ==
  ASSUME ClevoInv, NEW c \in IoCallers, NEW to \in {Wmi, Acpi, None}
  PROVE  \A r \in {[call[c] EXCEPT !.seen = TRUE], [call[c] EXCEPT !.via = to, !.seen = FALSE]} :
           /\ r \in CallRecords
           /\ r.at = call[c].at /\ r.switch = call[c].switch /\ r.arg = call[c].arg
<1>1. call[c] \in CallRecords
  BY CallFacts
<1>2. ASSUME NEW r, r = [call[c] EXCEPT !.seen = TRUE]
      PROVE  r \in CallRecords /\ r.at = call[c].at /\ r.switch = call[c].switch /\ r.arg = call[c].arg
  BY <1>1, <1>2 DEF CallRecords
<1>3. ASSUME NEW r, r = [call[c] EXCEPT !.via = to, !.seen = FALSE]
      PROVE  r \in CallRecords /\ r.at = call[c].at /\ r.switch = call[c].switch /\ r.arg = call[c].arg
  BY <1>1, <1>3 DEF CallRecords
<1> QED
  BY <1>2, <1>3

LEMMA LookStep ==
  ASSUME ClevoInv, NEW c \in IoCallers, call[c].at # "idle",
         Look(c) \/ Load(c) \/ LookForData(c) \/ MissData(c)
  PROVE  ClevoInv'
<1>1. UNCHANGED <<transports, toggles, wanted, position>> /\ active \in {Wmi, Acpi, None}
  BY DEF Look, Load, LookForData, MissData, ClevoInv, ClevoTypeOK
<1>2. CASE Fails(c)
  BY <1>1, <1>2, FailsStep
<1>3. CASE Dies(c)
  BY <1>1, <1>3, DiesStep
<1>4. CASE \E r \in {[call[c] EXCEPT !.seen = TRUE], [call[c] EXCEPT !.via = active, !.seen = FALSE]} :
             Proceeds(c, r)
  BY <1>1, <1>4, ProceedsFacts, ProceedsStep
<1> QED
  BY <1>2, <1>3, <1>4 DEF Look, Load, LookForData, MissData

\* A method that returns: either the webcam's position has been read, or the
\* switch is where the caller wanted it, toggled or not.
LEMMA CallStep ==
  ASSUME ClevoInv, NEW c \in IoCallers, Call(c), call[c].at # "idle"
  PROVE  ClevoInv'
<1> DEFINE s == call[c].switch
<1>1. /\ s \in Switches /\ position[s] \in 0..1 /\ Bit(position[s]) = position[s]
      /\ Returns(c, position[s])
      /\ UNCHANGED <<transports, toggles, wanted, clean>>
      /\ Bit(call[c].arg) \in 0..1
  BY CallFacts DEF Call, CallRecords
<1>2. /\ call' \in [IoCallers -> CallRecords]
      /\ \A d \in IoCallers : d # c => call'[d] = call[d]
      /\ call'[c].at # "idle" =>
           /\ call'[c].switch = s /\ call'[c].arg = call[c].arg
           /\ call[c].at = "get" /\ call'[c].at = "set"
           /\ Bit(call[c].arg) # position[s]
      /\ call[c].at = "get" /\ call'[c].at = "idle" => Bit(call[c].arg) = position[s]
  BY <1>1, ReturnsFacts
<1>3. /\ call[c].at = "get" => UNCHANGED position
      /\ call[c].at # "get" =>
           position' = [position EXCEPT ![s] =
                          IF toggles /\ s = "webcam" THEN 1 - position[s] ELSE Bit(call[c].arg)]
  BY <1>1 DEF Call, Acted, ClevoInv, ClevoTypeOK
<1>4. position' \in [Switches -> 0..1]
  BY <1>1, <1>3 DEF ClevoInv, ClevoTypeOK
<1>5. ClevoTypeOK' /\ AcpiInv'
  BY <1>1, <1>2, <1>4 DEF transports, ClevoInv, ClevoTypeOK, AcpiInv, CallRecords
<1>6. ASSUME NEW t \in Switches
      PROVE  /\ \A d \in IoCallers : Busy(d, t)' =>
                  Busy(d, t) /\ Bit(call[d].arg) = Bit(call[d].arg)'
             /\ t # s => position'[t] = position[t] /\ (Quiet(t)' => Quiet(t))
  <2>1. t # s => ~Busy(c, t)
    BY DEF Busy
  <2> QED
    BY <1>2, <1>3, <2>1, OthersUndisturbed DEF ClevoInv, ClevoTypeOK
<1>7. s \in clean /\ s = "webcam" /\ toggles =>
        /\ \A d \in IoCallers : Busy(d, s) => d = c
        /\ call[c].at = "set" => position[s] # Bit(call[c].arg)
  BY DEF ClevoInv, SwitchInv, Busy
<1>8. s \in clean => Bit(call[c].arg) \in wanted[s]
  BY DEF ClevoInv, SwitchInv, Busy
<1>9. s \in clean /\ call'[c].at = "idle" => position'[s] = Bit(call[c].arg)
  <2>1. CASE call[c].at = "get"
    BY <1>2, <1>3, <2>1
  <2>2. CASE call[c].at # "get"
    <3>1. call[c].at = "set"
      BY <2>2, CallFacts DEF CallRecords
    <3>2. position'[s] = IF toggles /\ s = "webcam" THEN 1 - position[s] ELSE Bit(call[c].arg)
      BY <1>1, <1>3, <2>2 DEF ClevoInv, ClevoTypeOK
    <3>3. \A m, n \in 0..1 : m # n => 1 - m = n
      OBVIOUS
    <3> QED
      BY <1>1, <1>7, <3>1, <3>2, <3>3
  <2> QED
    BY <2>1, <2>2
<1>10. SwitchInv'
  <2>1. ASSUME NEW t \in clean', NEW d \in IoCallers, Busy(d, t)'
        PROVE  /\ Bit(call[d].arg)' \in wanted'[t]
               /\ t = "webcam" /\ toggles' =>
                    /\ \A e \in IoCallers : Busy(e, t)' => e = d
                    /\ call'[d].at = "set" => position'[t] # Bit(call[d].arg)'
    <3>1. t \in clean /\ t \in Switches /\ wanted' = wanted /\ toggles' = toggles
      BY <1>1, <2>1 DEF ClevoInv, ClevoTypeOK
    <3>2. Bit(call[d].arg)' \in wanted'[t]
      BY <1>6, <2>1, <3>1 DEF ClevoInv, SwitchInv
    <3>3. ASSUME t = "webcam", toggles', NEW e \in IoCallers, Busy(e, t)' PROVE e = d
      BY <1>6, <2>1, <3>1, <3>3 DEF ClevoInv, SwitchInv
    <3>4. ASSUME t = "webcam", toggles', call'[d].at = "set"
          PROVE  position'[t] # Bit(call[d].arg)'
      <4>1. CASE d = c
        <5>1. t = s /\ call[c].at = "get" /\ Bit(call[c].arg) # position[s]
          BY <1>2, <2>1, <4>1 DEF Busy
        <5> QED
          BY <1>3, <1>6, <2>1, <3>1, <4>1, <5>1
      <4>2. CASE d # c
        <5>1. t # s
          BY <1>6, <1>7, <2>1, <3>1, <3>4, <4>2
        <5> QED
          BY <1>2, <1>6, <2>1, <3>1, <3>4, <4>2, <5>1 DEF ClevoInv, SwitchInv
      <4> QED
        BY <4>1, <4>2
    <3> QED
      BY <3>2, <3>3, <3>4
  <2> QED
    BY <2>1 DEF SwitchInv
<1>11. SwitchAsAsked'
  <2>1. ASSUME NEW t \in clean', Quiet(t)', wanted'[t] # {} PROVE position'[t] \in wanted'[t]
    <3>1. t \in clean /\ t \in Switches /\ wanted' = wanted
      BY <1>1, <2>1 DEF ClevoInv, ClevoTypeOK
    <3>2. CASE t = s
      <4>1. call'[c].at = "idle"
        BY <1>2, <2>1, <3>2 DEF Quiet
      <4> QED
        BY <1>8, <1>9, <3>1, <3>2, <4>1
    <3>3. CASE t # s
      BY <1>6, <2>1, <3>1, <3>3 DEF ClevoInv, SwitchAsAsked
    <3> QED
      BY <3>2, <3>3
  <2> QED
    BY <2>1 DEF SwitchAsAsked
<1> QED
  BY <1>5, <1>10, <1>11 DEF ClevoInv

\* A caller who is in no ioctl has no interface in his hands.
IdleInv == \A c \in IoCallers : call[c].at = "idle" => call[c].via = None /\ ~call[c].seen

LEMMA StepsAreBusy ==
  ASSUME IdleInv, NEW c \in IoCallers, IoStep(c)
  PROVE  call[c].at # "idle"
BY DEF IoStep, Look, Load, LookForData, MissData, Call, CallFails, Reaches, IdleInv, Wmi, Acpi, None

LEMMA IdleStep ==
  ASSUME ClevoInv, IdleInv, ClevoOp \/ ClevoStep
  PROVE  IdleInv'
<1>1. CASE ClevoOp
  <2>1. PICK c \in IoCallers, s \in Switches : Begin(c, s)
    BY <1>1, CallersAssumption DEF ClevoOp
  <2>2. call'[c].at # "idle" /\ \A d \in IoCallers : d # c => call'[d] = call[d]
    BY <2>1, CallFacts DEF Begin, NoCall
  <2> QED
    BY <2>2 DEF IdleInv
<1>2. CASE Transport
  BY <1>2 DEF Transport, AcpiData, AcpiAdd, AcpiRemove, AcpiGone, WmiAdd, WmiRemove, ioctls,
              IdleInv
<1>3. ASSUME NEW c \in IoCallers, IoStep(c) PROVE IdleInv'
  <2>1. ASSUME NEW to \in {Wmi, Acpi, None},
               NEW r \in {[call[c] EXCEPT !.seen = TRUE], [call[c] EXCEPT !.via = to, !.seen = FALSE]},
               Proceeds(c, r)
        PROVE  IdleInv'
    <3>1. call[c].at # "idle"
      BY <1>3, StepsAreBusy
    <3>2. call'[c].at # "idle" /\ \A d \in IoCallers : d # c => call'[d] = call[d]
      BY <2>1, <3>1, ProceedsFacts, CallFacts DEF Proceeds
    <3> QED
      BY <3>2 DEF IdleInv
  <2>2. ASSUME NEW result \in 0..1, Returns(c, result) PROVE IdleInv'
    <3>1. call' = [call EXCEPT ![c] = IF call[c].at = "get" THEN AfterGet(c, result) ELSE NoCall]
      BY <2>2, CallFacts DEF Returns
    <3>2. /\ AfterGet(c, result).via = None /\ ~AfterGet(c, result).seen
          /\ NoCall.via = None /\ ~NoCall.seen
      BY CallFacts DEF AfterGet, NoCall, CallRecords
    <3> QED
      BY <3>1, <3>2, CallFacts DEF IdleInv
  <2>3. ASSUME Dies(c) PROVE IdleInv'
    BY <2>3, CallFacts DEF Dies, NoCall, IdleInv
  <2>4. /\ call[c].result \in 0..1 /\ position[call[c].switch] \in 0..1
        /\ active \in {Wmi, Acpi, None}
    BY CallFacts DEF CallRecords, ClevoInv, ClevoTypeOK
  <2>5. CASE Look(c) \/ Load(c) \/ LookForData(c) \/ MissData(c)
    BY <2>1, <2>2, <2>3, <2>4, <2>5 DEF Look, Load, LookForData, MissData, Fails
  <2>6. CASE Call(c) \/ CallFails(c)
    BY <2>2, <2>4, <2>6 DEF Call, CallFails, Fails
  <2> QED
    BY <1>3, <2>5, <2>6 DEF IoStep
<1> QED
  BY <1>1, <1>2, <1>3, CallersAssumption DEF ClevoStep

LEMMA ClevoStepKeeps ==
  ASSUME ClevoInv, IdleInv, ClevoOp \/ ClevoStep
  PROVE  ClevoInv'
<1>1. CASE ClevoOp
  BY <1>1, BeginStep, CallersAssumption DEF ClevoOp
<1>2. CASE Transport
  BY <1>2, TransportStep
<1>3. ASSUME NEW c \in IoCallers, IoStep(c) PROVE ClevoInv'
  <2>1. call[c].at # "idle"
    BY <1>3, StepsAreBusy
  <2>2. CASE Look(c) \/ Load(c) \/ LookForData(c) \/ MissData(c)
    BY <2>1, <2>2, LookStep
  <2>3. CASE CallFails(c)
    BY <2>1, <2>3, FailsStep DEF CallFails
  <2>4. CASE Call(c)
    BY <2>1, <2>4, CallStep
  <2> QED
    BY <1>3, <2>2, <2>3, <2>4 DEF IoStep
<1> QED
  BY <1>1, <1>2, <1>3, CallersAssumption DEF ClevoStep

-----------------------------------------------------------------------------
(***************************************************************************)
(* The mode register's profile.                                            *)
(***************************************************************************)
\* Who has read the mode since the profile was last written, and did not fail
\* to, holds the profile too.
ProfileInv ==
  kept /\ "mode" \notin spoilt =>
    /\ Without(ram["mode"], FullMode) = profile
    /\ \A t \in current \cap sure : Without(got[t], FullMode) = profile

LEMMA ProfileUnchanged ==
  ASSUME ProfileInv, UNCHANGED <<got, sure, spoilt, profile, current, kept>>,
         ram'["mode"] = ram["mode"]
  PROVE  ProfileInv'
BY DEF ProfileInv, Without, Has, FullMode

LEMMA ReadKeepsProfile ==
  ASSUME UniwillInv, ProfileInv, NEW t \in Threads, ReadEc(t), ModeFollows(t)
  PROVE  ProfileInv'
<1> DEFINE r == Next1(t).reg
<1>1. Next1(t).do = "read" /\ UNCHANGED <<ram, spoilt>> /\ got \in [Threads -> 0..255]
  BY DEF ReadEc, Has1, UniwillInv, EcTypeOK
<1>2. /\ profile' = profile /\ kept' = kept
      /\ current' = IF r = "mode" THEN current \cup {t} ELSE current \ {t}
  BY <1>1 DEF ModeFollows, Happens, UniwillInv, FansTypeOK
<1>3. /\ \A u \in Threads : u # t => got'[u] = got[u] /\ (u \in sure' <=> u \in sure)
      /\ t \in sure' => got'[t] = ram[r]
  BY <1>1 DEF ReadEc
<1>4. current' \subseteq Threads
  BY <1>2 DEF UniwillInv, FansTypeOK
<1>5. ASSUME kept', "mode" \notin spoilt', NEW u \in current' \cap sure'
      PROVE  Without(got'[u], FullMode) = profile'
  <2>1. CASE u = t
    BY <1>1, <1>2, <1>3, <1>5, <2>1 DEF ProfileInv
  <2>2. CASE u # t
    BY <1>1, <1>2, <1>3, <1>4, <1>5, <2>2 DEF ProfileInv
  <2> QED
    BY <2>1, <2>2
<1>6. Without(ram'["mode"], FullMode) = Without(ram["mode"], FullMode)
  BY <1>1
<1> QED
  BY <1>1, <1>2, <1>5, <1>6 DEF ProfileInv, Without, Has, FullMode

LEMMA WriteKeepsProfile ==
  ASSUME UniwillInv, ProfileInv, NEW t \in Threads, WriteEc(t), ModeFollows(t)
  PROVE  ProfileInv'
<1> DEFINE k == Next1(t)
<1>1. /\ k.do \in {"write", "set", "clear"} /\ k.reg \in Registers /\ k.value \in 0..255
      /\ k.do \in {"set", "clear"} /\ k.reg = "mode" => k.value = 64
      /\ got[t] \in 0..255
  BY NextTaskFacts DEF WriteEc, Has1, Writing, UniwillInv, EcTypeOK, FullMode
<1>2. /\ ram' = ram \/ ram' = [ram EXCEPT ![k.reg] = Byte(t)]
      /\ ram \in [Registers -> 0..255]
      /\ got' = [got EXCEPT ![t] = 0] /\ sure' = sure \ {t}
      /\ spoilt' = IF ~Happens(t) THEN spoilt
                   ELSE IF k.do = "write" THEN spoilt \ {k.reg}
                   ELSE IF t \in sure THEN spoilt ELSE spoilt \cup {k.reg}
  BY DEF WriteEc, UniwillInv, EcTypeOK
<1>3. \A u \in sure' : u \in sure /\ got'[u] = got[u]
  BY <1>2 DEF UniwillInv, EcTypeOK
<1>4. CASE k.reg # "mode" \/ ~Happens(t)
  <2>1. ram'["mode"] = ram["mode"]
    BY <1>1, <1>2, <1>4, RegisterFacts DEF Happens
  <2>2. "mode" \in spoilt' <=> "mode" \in spoilt
    BY <1>2, <1>4
  <2>3. profile' = profile /\ kept' = kept /\ current' \subseteq current
    BY <1>1, <1>4 DEF ModeFollows, UniwillInv, FansTypeOK
  <2> QED
    BY <1>3, <2>1, <2>2, <2>3 DEF ProfileInv, Without, Has, FullMode
<1>5. CASE k.reg = "mode" /\ k.do = "write" /\ Happens(t)
  <2>1. profile' = Without(k.value, FullMode) /\ current' = {}
    BY <1>5 DEF ModeFollows
  <2>2. ram'["mode"] = k.value
    BY <1>5 DEF Happens, Byte
  <2> QED
    BY <2>1, <2>2 DEF ProfileInv, Without, Has, FullMode
<1>6. CASE k.reg = "mode" /\ k.do \in {"set", "clear"} /\ Happens(t)
  <2>1. /\ profile' = profile /\ kept' = (kept /\ t \in current)
        /\ current' = current \ {t}
    BY <1>6 DEF ModeFollows, UniwillInv, FansTypeOK
  <2>2. spoilt' = IF t \in sure THEN spoilt ELSE spoilt \cup {"mode"}
    BY <1>2, <1>6
  <2>3. Without(ram'["mode"], 64) = Without(got[t], 64)
    <3>0. got[t] \in 0..255
      BY <1>1
    <3>1. CASE k.do = "set"
      <4>1. ram'["mode"] = With(got[t], 64)
        BY <1>1, <1>6, <3>1 DEF Happens, Byte
      <4>2. Without(With(got[t], 64), 64) = Without(got[t], 64)
        BY <3>0 DEF Without, With, Has
      <4> QED
        BY ONLY <4>1, <4>2
    <3>2. CASE k.do = "clear"
      <4>1. ram'["mode"] = Without(got[t], 64)
        BY <1>1, <1>6, <3>2 DEF Happens, Byte
      <4>2. Without(Without(got[t], 64), 64) = Without(got[t], 64)
        BY <3>0 DEF Without, With, Has
      <4> QED
        BY ONLY <4>1, <4>2
    <3> QED
      BY <1>6, <3>1, <3>2
  <2>4. kept' /\ "mode" \notin spoilt' =>
          kept /\ "mode" \notin spoilt /\ t \in current \cap sure
    BY <2>1, <2>2
  <2>5. \A u \in current' \cap sure' : u \in current \cap sure /\ got'[u] = got[u]
    BY <1>3, <2>1
  <2> QED
    BY <2>1, <2>3, <2>4, <2>5 DEF ProfileInv, Without, Has, FullMode
<1> QED
  BY <1>1, <1>4, <1>5, <1>6

LEMMA ProfileStep ==
  ASSUME UniwillInv, ProfileInv, UniwillOp \/ UniwillStep
  PROVE  ProfileInv'
<1>1. ASSUME NEW t \in Threads, Access(t) PROVE ProfileInv'
  BY <1>1, ReadKeepsProfile, WriteKeepsProfile DEF Access
<1>2. ASSUME NEW f \in Fans, RampUp(f) PROVE ProfileInv'
  <2>1. ram'["mode"] = ram["mode"]
    BY <1>2, RegisterFacts DEF RampUp, UniwillInv, EcTypeOK
  <2> QED
    BY <1>2, <2>1, ProfileUnchanged DEF RampUp, fans
<1>3. CASE RampEnds
  BY <1>3, ProfileUnchanged DEF RampEnds, ec
<1>4. ASSUME NEW c \in Callers, Ioctl(c) \/ Choose(c) \/ Sleep(c) PROVE ProfileInv'
  BY <1>4, ProfileUnchanged
  DEF Ioctl, SetFan, FanAuto, SetMode, Choose, Sleep, Starts, Passes, fans
<1>5. ASSUME UNCHANGED fans,
             \/ \E l \in Leds : SetLed(l) \/ LedWork(l)
             \/ Bind \/ RegisterLed \/ RegisterFails \/ Probed
             \/ Unbind \/ UnregisterLed \/ FlushLed \/ Removed
      PROVE  ProfileInv'
  BY <1>5, ProfileUnchanged
  DEF SetLed, LedWork, Bind, RegisterLed, RegisterFails, Probed, Unbind, UnregisterLed,
      FlushLed, Removed, Starts, Passes, ec, fans
<1> QED
  BY <1>1, <1>2, <1>3, <1>4, <1>5 DEF UniwillOp, UniwillStep

-----------------------------------------------------------------------------
(***************************************************************************)
(* The character device.                                                   *)
(***************************************************************************)
DeviceTypeOK ==
  /\ machine \in {"uniwill", "clevo"}
  /\ ioLoaded \in BOOLEAN /\ cdev \in BOOLEAN /\ node \in BOOLEAN
  /\ number \in {"free", "io", "other"}
  /\ ops \in 0..MaxOps

IInv ==
  /\ UniwillInv /\ ClevoInv /\ IdleInv /\ ProfileInv
  /\ DeviceTypeOK /\ IoGone

\* Without the device nobody comes to be inside an ioctl.
LEMMA NobodyEntersUniwill ==
  ASSUME UniwillInv, NobodyInside, ~cdev, UniwillOp \/ UniwillStep, UNCHANGED call
  PROVE  NobodyInside'
<1>1. \A c \in Callers : c \in Threads /\ c \notin Leds /\ c # Core
  BY ThreadsAssumption DEF Threads
<1>2. job \in [Threads -> Seq(SoundTasks)]
  BY DEF UniwillInv, JobInv
<1>3. ASSUME NEW c \in Callers PROVE job'[c] = job[c]
  <2>1. job[c] = <<>>
    BY DEF NobodyInside, Idle
  <2>2. ASSUME NEW t \in Threads, Access(t) PROVE job'[c] = job[c]
    BY <1>1, <1>2, <2>1, <2>2 DEF Access, ReadEc, WriteEc, Has1, Idle, Becomes
  <2>3. ASSUME NEW d \in Callers, Choose(d) \/ Sleep(d) PROVE FALSE
    BY <2>3 DEF Choose, Sleep, Has1, NobodyInside
  <2>4. ASSUME NEW l \in Leds, LedWork(l) PROVE job'[c] = job[c]
    BY <1>1, <1>2, <2>4 DEF LedWork, Starts
  <2>5. CASE \/ Bind \/ RegisterLed \/ RegisterFails \/ Probed
             \/ Unbind \/ UnregisterLed \/ FlushLed \/ Removed
    BY <1>1, <1>2, <2>5
    DEF Bind, RegisterLed, RegisterFails, Probed, Unbind, UnregisterLed, FlushLed, Removed,
        Starts, Passes, Becomes
  <2>6. CASE \/ \E l \in Leds : SetLed(l)
             \/ \E f \in Fans : RampUp(f)
             \/ RampEnds
    BY <2>6 DEF SetLed, RampUp, RampEnds, ec
  <2> QED
    BY <2>2, <2>3, <2>4, <2>5, <2>6 DEF UniwillOp, UniwillStep, Ioctl
<1> QED
  BY <1>3 DEF NobodyInside, Idle

LEMMA NobodyEntersClevo ==
  ASSUME ClevoInv, IdleInv, NobodyInside, ~cdev, ClevoOp \/ ClevoStep, UNCHANGED job
  PROVE  NobodyInside'
<1>1. ~ClevoOp
  BY DEF ClevoOp
<1>2. ASSUME NEW c \in Callers, IoStep(c) PROVE FALSE
  BY <1>2, StepsAreBusy, CallersAssumption DEF NobodyInside
<1>3. Transport
  BY <1>1, <1>2 DEF ClevoStep
<1>4. UNCHANGED call
  BY <1>3 DEF Transport, AcpiData, AcpiAdd, AcpiRemove, AcpiGone, WmiAdd, WmiRemove, ioctls
<1> QED
  BY <1>4 DEF NobodyInside, Idle

LEMMA InitIInv == Init => IInv
<1> SUFFICES ASSUME Init PROVE IInv
  OBVIOUS
<1>1. EcTypeOK /\ JobInv
  <2>1. ram \in [Registers -> 0..255]
    <3>1. (CHOOSE s \in EcSpeeds : TRUE) \in 0..255
      BY FansAssumption
    <3>2. AnimationBits + AnimationOn \in 0..255
      BY LightbarAssumption DEF AnimationOn
    <3> QED
      BY <3>1, <3>2, SMTT(30) DEF Init, EcInit
  <2>2. job \in [Threads -> Seq(Tasks)] /\ job \in [Threads -> Seq(SoundTasks)]
    <3>1. job = [t \in Threads |-> <<>>]
      BY DEF Init, EcInit
    <3> QED
      BY ONLY <3>1
  <2>3. got \in [Threads -> 0..255]
    BY DEF Init, EcInit
  <2>4. sure \subseteq Threads /\ wmi \in BOOLEAN
    BY Zenon DEF Init, EcInit
  <2>5. missed \subseteq Registers /\ spoilt \subseteq Registers
    BY DEF Init, EcInit
  <2> QED
    BY <2>1, <2>2, <2>3, <2>4, <2>5 DEF EcTypeOK, JobInv
<1>2. FansTypeOK /\ ProfileInv
  <2>1. ram["mode"] \in 0..255
    BY <1>1, RegisterFacts DEF EcTypeOK
  <2>2. Without(ram["mode"], FullMode) \in 0..255
    <3>1. FullMode \in {64, 128}
      BY DEF FullMode
    <3> QED
      BY <2>1, <3>1 DEF Without, With, Has
  <2> QED
    BY <2>2 DEF Init, FansInit, FansTypeOK, ProfileInv
<1>3. LightbarTypeOK
  BY DEF Init, LightbarInit, LightbarTypeOK, Leds
<1>4. ClevoInv /\ IdleInv
  <2>1. NoCall \in CallRecords /\ NoCall.at = "idle" /\ NoCall.via = None /\ ~NoCall.seen
    BY DEF NoCall, CallRecords, Switches
  <2>2. ClevoTypeOK
    BY <2>1 DEF Init, ClevoInit, ClevoTypeOK, CallRecords, Arbiter!Init
  <2>3. AcpiInv /\ IdleInv
    BY <2>1 DEF Init, ClevoInit, AcpiInv, IdleInv, Arbiter!Init, Acpi, None
  <2>4. SwitchInv /\ SwitchAsAsked
    BY <2>1 DEF Init, ClevoInit, SwitchInv, SwitchAsAsked, Busy
  <2> QED
    BY <2>2, <2>3, <2>4 DEF ClevoInv
<1>5. NobodyInside
  BY CallersAssumption DEF Init, EcInit, ClevoInit, NobodyInside, Idle, NoCall, Threads
<1>6. DeviceTypeOK /\ IoGone
  <2>1. 0 \in 0..MaxOps
    BY CallersAssumption
  <2>2. CASE Loaded
    BY <2>1, <2>2, <1>5 DEF Init, Loaded, DeviceTypeOK, IoGone
  <2>3. CASE NotLoaded
    BY <2>1, <2>3, <1>5 DEF Init, NotLoaded, DeviceTypeOK, IoGone
  <2> QED
    BY <2>2, <2>3 DEF Init
<1> QED
  BY <1>1, <1>2, <1>3, <1>4, <1>6 DEF IInv, UniwillInv

LEMMA Invariance == IInv /\ [Next]_vars => IInv'
<1> SUFFICES ASSUME IInv, [Next]_vars PROVE IInv'
  OBVIOUS
<1>1. CASE UNCHANGED vars
  <2>1. UniwillInv' /\ ClevoInv'
    BY <1>1, UniwillUnchanged, ClevoUnchanged DEF IInv, vars, uniwill, clevo
  <2>2. ProfileInv'
    BY <1>1, ProfileUnchanged DEF IInv, vars, uniwill, ec, fans
  <2>3. IdleInv' /\ DeviceTypeOK' /\ IoGone'
    BY <1>1 DEF IInv, vars, clevo, chardev, uniwill, ec, IdleInv, DeviceTypeOK, IoGone,
                NobodyInside, Idle
  <2> QED
    BY <2>1, <2>2, <2>3 DEF IInv
<1>2. CASE IoInit \/ IoExit \/ OtherDriver
  <2>1. UNCHANGED <<uniwill, clevo, machine, ops>>
    BY <1>2 DEF IoInit, IoExit, OtherDriver
  <2>2. UniwillInv' /\ ClevoInv'
    BY <2>1, UniwillUnchanged, ClevoUnchanged DEF IInv
  <2>3. ProfileInv'
    BY <2>1, ProfileUnchanged DEF IInv, uniwill, ec, fans
  <2>4. IdleInv' /\ (NobodyInside' <=> NobodyInside)
    BY <2>1 DEF IInv, clevo, uniwill, ec, IdleInv, NobodyInside, Idle
  <2>5. DeviceTypeOK'
    BY <1>2, <2>1 DEF IInv, IoInit, IoExit, OtherDriver, DeviceTypeOK
  <2>6. IoGone'
    BY <1>2, <2>4 DEF IInv, IoInit, IoExit, OtherDriver, IoGone
  <2> QED
    BY <2>2, <2>3, <2>4, <2>5, <2>6 DEF IInv
<1>3. CASE (UniwillOp \/ UniwillStep) /\ UNCHANGED <<machine, chardev, clevo>>
  <2>1. UniwillInv' /\ ProfileInv'
    BY <1>3, UniwillTypes, ProfileStep DEF IInv
  <2>2. ClevoInv' /\ IdleInv'
    BY <1>3, ClevoUnchanged DEF IInv, clevo, IdleInv
  <2>3. DeviceTypeOK'
    BY <1>3, CallersAssumption DEF IInv, chardev, UniwillOp, UniwillStep, CountOp, DeviceTypeOK
  <2>4. IoGone'
    <3>1. ~cdev /\ NobodyInside => NobodyInside'
      BY <1>3, NobodyEntersUniwill DEF IInv, clevo
    <3> QED
      BY <1>3, <3>1 DEF IInv, chardev, IoGone
  <2> QED
    BY <2>1, <2>2, <2>3, <2>4 DEF IInv
<1>4. CASE (ClevoOp \/ ClevoStep) /\ UNCHANGED <<machine, chardev, uniwill>>
  <2>1. ClevoInv' /\ IdleInv'
    BY <1>4, ClevoStepKeeps, IdleStep DEF IInv
  <2>2. UniwillInv' /\ ProfileInv'
    BY <1>4, UniwillUnchanged, ProfileUnchanged DEF IInv, uniwill, ec, fans
  <2>3. DeviceTypeOK'
    BY <1>4, CallersAssumption DEF IInv, chardev, ClevoOp, ClevoStep, CountOp, DeviceTypeOK
  <2>4. IoGone'
    <3>1. ~cdev /\ NobodyInside => NobodyInside'
      BY <1>4, NobodyEntersClevo DEF IInv, uniwill, ec
    <3> QED
      BY <1>4, <3>1 DEF IInv, chardev, IoGone
  <2> QED
    BY <2>1, <2>2, <2>3, <2>4 DEF IInv
<1> QED
  BY <1>1, <1>2, <1>3, <1>4 DEF Next

-----------------------------------------------------------------------------
\* Bytes stay bytes, LEDs in their range and calls well-formed on both machines,
\* whatever wide arguments, failed accesses and interleavings there are.
THEOREM TypeCorrect == Spec => []TypeOK
<1>1. IInv => TypeOK
  BY DEF IInv, UniwillInv, ClevoInv, DeviceTypeOK, TypeOK
<1> QED
  BY InitIInv, Invariance, <1>1, PTL DEF Spec

\* No fan call changes the profile bits of the mode register, whoever else
\* works on it, but for a failed read and one from before the profile was set.
THEOREM ProfileSurvives == Spec => []ProfileKept
<1>1. IInv => ProfileKept
  BY DEF IInv, ProfileInv, ProfileKept
<1> QED
  BY InitIInv, Invariance, <1>1, PTL DEF Spec

\* A switch at rest is where one of those who switched it last wanted it,
\* unless one of their calls failed or died or, on firmware that toggles, two of
\* them overlapped (clevo_ioctl_interface).
THEOREM SwitchesObey == Spec => []SwitchAsAsked
<1>1. IInv => SwitchAsAsked
  BY DEF IInv, ClevoInv
<1> QED
  BY InitIInv, Invariance, <1>1, PTL DEF Spec

\* The ACPI interface is never active without its device data.
THEOREM ActiveHasData == Spec => []DataWhileActive
<1>1. IInv => DataWhileActive
  BY DEF IInv, ClevoInv, AcpiInv, DataWhileActive
<1> QED
  BY InitIInv, Invariance, <1>1, PTL DEF Spec

\* The device is gone with its module, its number and its callers.
THEOREM DeviceGone == Spec => []IoGone
<1>1. IInv => IoGone
  BY DEF IInv
<1> QED
  BY InitIInv, Invariance, <1>1, PTL DEF Spec

=============================================================================
