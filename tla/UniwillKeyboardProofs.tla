------------------------ MODULE UniwillKeyboardProofs ------------------------
(***************************************************************************)
(* Proofs about UniwillKeyboard for all channels, colors, animations,      *)
(* parameters, check counts and any number of writers and lives: once      *)
(* nobody is about to paint, the keyboard shows the state; the boot check  *)
(* ends and waits for the animation; and while the driver core leaves the  *)
(* boot check its time (CalmSpec), the light is on, off and restored when  *)
(* it should be.                                                           *)
(***************************************************************************)
EXTENDS UniwillKeyboard, TaskLists

\* The tasks: reads, the channels of a color, the reset, the two bits of the
\* backlight register, and those without an access.
Reads     == [do : {"read"}, reg : Registers]
Paintings == [do : {"write"}, reg : Channels, value : 0..BrightnessMax]
Reset     == Write("bl", ResetByte)
Enables   == [do : {"enable"}, reg : {"bl"}, value : {0, 1}]
Dos       == [do : {"paint", "check", "stop", "init", "deltimer"}, reg : {"none"}]
Tasks     == Reads \cup Paintings \cup {Reset} \cup Enables \cup Dos

\* The type invariant, of the lists of tasks too.
TypeInv ==
  /\ rgb \in BOOLEAN /\ ram \in [Registers -> Byte] /\ onStart \in {0, 1}
  /\ state \in [brightness : 0..BrightnessMax, color : Rgb]
  /\ prev \in [1..3 -> Nat] /\ index \in 1..3
  /\ checks \in Int /\ checks <= CheckCount /\ timer \in BOOLEAN /\ queued \in BOOLEAN
  /\ phase \in {"out", "probing", "bound", "suspending", "asleep", "resuming", "removing"}
  /\ job \in [Threads -> Seq(Tasks)] /\ got \in [Threads -> [Registers -> Byte]]
  /\ lives \in Nat /\ streak \in 0..3 /\ readings \in Nat
  /\ detected \in BOOLEAN /\ failed \in BOOLEAN /\ shows \in {"state", "other", "lost"}

\* The tasks that only the work item and only the driver core have, each the
\* last of its list.
WorkEnds == {Do("check"), Do("stop")}
CoreEnds == {Do("init"), Do("deltimer")}

\* A thread sends the channels of a color before anything else, resets the
\* backlight first and paints after it, and ends with one of its last tasks.
ListOK(t, s) ==
  /\ FirstOnly(s, Paintings)
  /\ Reset \notin Later(s)
  /\ Reset \in All(s) => Do("paint") \in Later(s)
  /\ LastOnly(s, WorkEnds \cup CoreEnds)
  /\ t # Work => All(s) \cap WorkEnds = {}
  /\ t # Core => All(s) \cap CoreEnds = {}

ListsInv == \A t \in Threads : ListOK(t, job[t])

\* Some thread computes the color from the state later.
PaintPending == \E t \in Threads : Do("paint") \in All(job[t])

\* The channels of a color that a thread still has to send.
Channeled(t) == All(job[t]) \cap Paintings

\* What the keyboard lost is painted again; what it shows as the state comes
\* from one thread, and what is missing of it is on that thread's list.
ShownInv ==
  /\ shows = "lost" => (phase = "asleep" /\ rgb) \/ PaintPending
  /\ shows = "state" => \A t, u \in Threads : Channeled(t) # {} /\ Channeled(u) # {} => t = u
  /\ shows = "state" /\ ~PaintPending =>
       /\ \A t \in Threads : \A k \in Channeled(t) : k.value = Scaled(k.reg)
       /\ \A c \in Channels :
            ram[c] = Scaled(c) \/ \E t \in Threads : Write(c, Scaled(c)) \in Channeled(t)

\* A check is to come: the timer is armed, the work item waits or reads.
Checking == Do("check") \in All(job[Work])

\* In the first life one check is to come at most, none while the work item
\* sets the backlight up or before the parameters are set, and the counter
\* counts the readings of those that were.
CountInv ==
  lives <= 1 =>
    /\ timer \/ queued \/ Checking => checks >= 0 /\ readings + checks = CheckCount
    /\ ~(timer /\ queued) /\ (job[Work] # <<>> => ~timer /\ ~queued)
    /\ readings <= CheckCount + 1
    /\ lives = 0 \/ Do("init") \in All(job[Core]) =>
         ~timer /\ ~queued /\ job[Work] = <<>> /\ readings = 0 /\ checks = CheckCount
    /\ lives = 0 => phase = "out" /\ job[Core] = <<>>

\* In the first life no color is remembered before the first reading, and the
\* latest two differ when the streak has begun again.
StreakInv ==
  lives <= 1 =>
    /\ streak = 0 => /\ \A k \in 1..3 : prev[k] > White
                     /\ \A k \in 1..2 : prev[k] # prev[k + 1]
    /\ streak = 1 => prev[Before(index)] # prev[Before(Before(index))]
    /\ lives = 0 => streak = 0

-----------------------------------------------------------------------------
\* What the driver core has left to do in each phase.
CoreTasks ==
  CASE phase = "probing"    -> {Read("bl"), Do("init")} \cup (IF rgb THEN {} ELSE {Enable(1)})
    [] phase = "suspending" -> {Read("bl"), Enable(0)}
    [] phase = "resuming"   -> {Reset, Do("paint"), Read("bl"), Enable(1)} \cup Paintings
    [] phase = "removing"   -> {Read("bl"), Enable(onStart), Do("deltimer")}
    [] OTHER                -> {}

\* The bit the backlight register is given in each phase.
Goal ==
  CASE phase \in {"suspending", "asleep"} -> 0
    [] phase \in {"removing", "out"}      -> onStart
    [] OTHER                              -> 1

\* While the boot check is not over, the driver core is idle, and the work
\* item turns the backlight on only; others do not touch it.
CalmLists ==
  /\ ~CheckOver => rgb /\ phase \in {"probing", "bound"} /\ job[Core] = <<>>
  /\ All(job[Core]) \subseteq CoreTasks
  /\ Enable(0) \notin All(job[Work])
  /\ \A t \in Threads \ {Work, Core} : All(job[t]) \cap (Enables \cup {Reset}) = {}

\* The driver has come, its setup is not waited for and no access has failed.
Aimed ==
  ~failed /\ (phase \in {"probing", "bound"} /\ rgb => detected) /\ (phase = "out" => lives > 0)

\* The keyboard is lit, dark or restored, or will be.
LightInv ==
  Aimed =>
    \/ Enabled(ram["bl"]) = Goal
    \/ \E t \in {Work, Core} : Enable(Goal) \in All(job[t])
    \/ Do("init") \in All(job[Core])

\* Nothing is detected before the parameters are set.
InitInv == rgb /\ Do("init") \in All(job[Core]) => ~detected

CalmInv == CalmLists /\ LightInv /\ InitInv

-----------------------------------------------------------------------------
\* The threads that are not writers are different ones.
LEMMA ThreadFacts ==
  /\ Core \in Threads /\ Event \in Threads /\ Work \in Threads /\ Writers \subseteq Threads
  /\ Core # Event /\ Core # Work /\ Event # Work
  /\ Core \notin Writers /\ Event \notin Writers /\ Work \notin Writers
BY ConstantsAssumption DEF Threads, Core, Event, Work

\* The registers, and the channels of a color.
LEMMA ChannelFacts ==
  /\ Channels \subseteq {"red", "green", "blue"} /\ "bl" \notin Channels
  /\ Registers = Channels \cup {"bl"} /\ "none" \notin Registers
  /\ \A c \in Channels : Weight(c) \in Nat \ {0}
  /\ \A c \in Channels, n \in Nat : Channel(n, c) \in Byte
<1>1. Channels \subseteq {"red", "green", "blue"}
  BY ConstantsAssumption
<1>2. "bl" \notin Channels /\ Registers = Channels \cup {"bl"} /\ "none" \notin Registers
  BY <1>1 DEF Registers
<1>3. \A c \in Channels : Weight(c) \in Nat \ {0}
  BY <1>1, SMT DEF Weight
<1>4. ASSUME NEW c \in Channels, NEW n \in Nat PROVE Channel(n, c) \in Byte
  <2>1. PICK w \in Nat \ {0} : w = Weight(c)
    BY <1>3
  <2>2. n \div w \in Nat
    OBVIOUS
  <2>3. (n \div w) % 256 \in 0..255
    BY <2>2
  <2> QED
    BY <2>1, <2>3 DEF Channel, Byte
<1> QED
  BY <1>1, <1>2, <1>3, <1>4

\* Two numbers in their ranges have their product in its range.
LEMMA ProductBound ==
  ASSUME NEW a \in 0..200, NEW b \in 0..100
  PROVE  a * b \in Nat /\ a * b <= 20000
<1>1. a * b <= 200 * b
  BY SMT
<1>2. a * b >= 0 /\ a * b \in Int
  BY SMT
<1>3. 200 * b <= 20000
  BY SMT
<1> QED
  BY <1>1, <1>2, <1>3, SMT

\* What is sent for a channel is in the range the code calls valid.
LEMMA ScaledFacts ==
  ASSUME state.brightness \in 0..BrightnessMax, state.color \in Rgb, NEW c \in Channels
  PROVE  Scaled(c) \in 0..BrightnessMax
<1>1. state.color \in Nat /\ state.brightness \in 0..200
  <2>1. White \in Nat
    BY SMT DEF White
  <2> QED
    BY <2>1 DEF BrightnessMax, Rgb
<1>2. PICK h \in Byte : h = Channel(state.color, c)
  BY <1>1, ChannelFacts
<1>3. (h * 200) \div 255 \in 0..200
  <2>1. h \in 0..255
    BY DEF Byte
  <2> QED
    BY <2>1
<1>4. (state.brightness * 100) \div 200 \in 0..100
  BY <1>1
<1>5. PICK a \in 0..200, b \in 0..100 :
        a = (h * 200) \div 255 /\ b = (state.brightness * 100) \div 200
  BY <1>3, <1>4
<1>6. a * b \in Nat /\ a * b <= 20000
  BY ProductBound
<1>7. PICK p \in Nat : p = a * b
  BY <1>6
<1>8. p \div 100 \in 0..200
  <2>1. p <= 20000
    BY <1>6, <1>7
  <2> QED
    BY <2>1, SMT
<1>9. Scaled(c) = p \div 100
  BY <1>2, <1>5, <1>7 DEF Scaled, BrightnessMax
<1> QED
  BY <1>8, <1>9 DEF BrightnessMax

\* The bit written to the backlight register is the one read back, whatever
\* byte it was put into.
LEMMA EnableFacts ==
  ASSUME NEW byte \in Byte, NEW e \in {0, 1}
  PROVE  /\ WithEnabled(byte, e) \in Byte /\ Enabled(WithEnabled(byte, e)) = e
         /\ Enabled(byte) \in {0, 1}
<1>1. byte \in Int /\ 0 <= byte /\ byte <= 255
  BY DEF Byte
<1>2. PICK n : n = WithEnabled(byte, e)
  OBVIOUS
<1>3. n \in Int /\ 0 <= n /\ n <= 255
  BY <1>1, <1>2, SMT DEF WithEnabled
<1>4. (n \div 2) % 2 = 1 - e
  BY <1>1, <1>2, SMT DEF WithEnabled
<1>5. Enabled(byte) \in {0, 1}
  BY DEF Enabled
<1>6. n \in Byte
  BY <1>3 DEF Byte
<1>7. Enabled(n) = e
  BY <1>4 DEF Enabled
<1> QED
  BY <1>2, <1>5, <1>6, <1>7

-----------------------------------------------------------------------------
\* The tasks the driver writes down are tasks.
LEMMA TaskSets ==
  /\ \A r \in Registers : Read(r) \in Reads
  /\ \A c \in Channels, v \in 0..BrightnessMax : Write(c, v) \in Paintings
  /\ Reset \in Tasks /\ Reset \notin Paintings
  /\ \A e \in {0, 1} : Enable(e) \in Enables
  /\ \A w \in {"paint", "check", "stop", "init", "deltimer"} : Do(w) \in Dos
  /\ Reads \subseteq Tasks /\ Paintings \subseteq Tasks /\ Enables \subseteq Tasks
  /\ Dos \subseteq Tasks /\ WorkEnds \subseteq Dos /\ CoreEnds \subseteq Dos
BY ChannelFacts DEF Tasks, Reads, Paintings, Reset, Enables, Dos, Read, Write, Enable, Do,
   WorkEnds, CoreEnds

\* What is known of a task of each kind.
LEMMA TaskFacts ==
  ASSUME NEW k \in Tasks
  PROVE  /\ k.do \in {"read", "write", "enable", "paint", "check", "stop", "init", "deltimer"}
         /\ k.do = "read" => k \in Reads /\ k.reg \in Registers
         /\ k.do = "write" => k \in Paintings \cup {Reset} /\ k.reg \in Registers
         /\ k.do = "write" /\ k.reg \in Channels => k \in Paintings /\ k.value \in 0..BrightnessMax
         /\ k.do = "write" /\ k.reg \notin Channels => k = Reset /\ k.reg = "bl"
         /\ k.do = "enable" => /\ k \in Enables /\ k.reg = "bl" /\ k.value \in {0, 1}
                               /\ k = Enable(k.value)
         /\ k.do = "paint" => k = Do("paint")
         /\ k.do = "check" => k = Do("check")
         /\ k.do = "stop" => k = Do("stop")
         /\ k.do = "init" => k = Do("init")
         /\ k.do = "deltimer" => k = Do("deltimer")
         /\ k \in Paintings <=> k.do = "write" /\ k.reg \in Channels
         /\ k \in Paintings => k = Write(k.reg, k.value)
<1>1. CASE k \in Reads
  BY <1>1, ChannelFacts DEF Reads, Paintings
<1>2. CASE k \in Paintings
  BY <1>2, ChannelFacts DEF Paintings, Write
<1>3. CASE k = Reset
  BY <1>3, ChannelFacts DEF Reset, Write, Paintings
<1>4. CASE k \in Enables
  BY <1>4 DEF Enables, Enable, Paintings
<1>5. CASE k \in Dos
  BY <1>5 DEF Dos, Do, Paintings
<1> QED
  BY <1>1, <1>2, <1>3, <1>4, <1>5 DEF Tasks

\* The kinds are apart.
LEMMA Kinds ==
  /\ Reads \cap Paintings = {} /\ Reads \cap Enables = {} /\ Reads \cap Dos = {}
  /\ Paintings \cap Enables = {} /\ Paintings \cap Dos = {} /\ Enables \cap Dos = {}
  /\ Reset \notin Reads \cup Paintings \cup Enables \cup Dos
  /\ WorkEnds \cap CoreEnds = {} /\ Do("paint") \notin WorkEnds \cup CoreEnds
  /\ Do("check") # Do("stop") /\ Do("init") # Do("deltimer")
  /\ Enable(0) # Enable(1)
BY ChannelFacts DEF Reads, Paintings, Reset, Enables, Dos, Write, Enable, Do, WorkEnds, CoreEnds

\* A task for each channel.
LEMMA InOrderFacts ==
  ASSUME NEW f, \A c \in Channels : f[c] \in Tasks
  PROVE  InOrder(f) \in Seq(Tasks) /\ All(InOrder(f)) = {f[c] : c \in Channels}
<1> DEFINE One(c) == IF c \in Channels THEN <<f[c]>> ELSE <<>>
           Of(c)  == IF c \in Channels THEN {f[c]} ELSE {}
<1>1. ASSUME NEW c PROVE One(c) \in Seq(Tasks) /\ All(One(c)) = Of(c)
  BY Listed
<1>2. PICK r, g, b : r = One("red") /\ g = One("green") /\ b = One("blue")
  OBVIOUS
<1>3. /\ r \in Seq(Tasks) /\ g \in Seq(Tasks) /\ b \in Seq(Tasks)
      /\ All(r) = Of("red") /\ All(g) = Of("green") /\ All(b) = Of("blue")
  BY <1>1, <1>2
<1>4. InOrder(f) = (r \o g) \o b
  BY <1>2 DEF InOrder
<1>5. Of("red") \cup Of("green") \cup Of("blue") = {f[c] : c \in Channels}
  BY ChannelFacts
<1> HIDE DEF Of
<1>6. r \o g \in Seq(Tasks) /\ All(r \o g) = Of("red") \cup Of("green")
  BY <1>3, Joined
<1>7. PICK s \in Seq(Tasks) : s = r \o g
  BY <1>6
<1>8. s \o b \in Seq(Tasks) /\ All(s \o b) = All(s) \cup All(b)
  BY <1>3, Joined
<1> QED
  BY <1>3, <1>4, <1>5, <1>6, <1>7, <1>8

\* A list ends in one of these, whoever's it is.
Ends == WorkEnds \cup CoreEnds

\* Reading and writing back the bit of the backlight.
LEMMA EnableLists ==
  ASSUME NEW e \in {0, 1}
  PROVE  /\ WriteEnable(e) \in Seq(Tasks) /\ WriteEnable(e) # <<>>
         /\ All(WriteEnable(e)) = {Read("bl"), Enable(e)}
         /\ Later(WriteEnable(e)) = {Enable(e)}
<1>1. Read("bl") \in Tasks /\ Enable(e) \in Tasks
  BY TaskSets, ChannelFacts
<1>2. WriteEnable(e) = Couple(Read("bl"), Enable(e))
  BY DEF WriteEnable, Couple
<1>3. WriteEnable(e) \in Seq(Tasks)
  BY <1>1 DEF WriteEnable
<1> QED
  BY <1>2, <1>3, Twos

\* Setting the backlight up.
LEMMA InitSetLists ==
  /\ InitSet \in Seq(Tasks) /\ InitSet # <<>>
  /\ All(InitSet) = {Reset, Do("paint"), Read("bl"), Enable(1)}
  /\ Later(InitSet) = {Do("paint"), Read("bl"), Enable(1)}
<1>1. PICK a \in Tasks, b \in Tasks : a = Reset /\ b = Do("paint")
  BY TaskSets
<1>2. PICK u \in Seq(Tasks) : u = WriteEnable(1) /\ All(u) = {Read("bl"), Enable(1)}
  BY EnableLists
<1>3. PICK v \in Seq(Tasks) : v = <<a, b>> /\ All(v) = {a, b} /\ Later(v) = {b} /\ v # <<>>
  <2>1. Couple(a, b) = <<a, b>>
    BY DEF Couple
  <2>2. Couple(a, b) \in Seq(Tasks)
    BY <1>1 DEF Couple
  <2> QED
    BY <2>1, <2>2, Twos
<1>4. InitSet = v \o u
  BY <1>1, <1>2, <1>3 DEF InitSet, Reset
<1>5. /\ v \o u \in Seq(Tasks) /\ v \o u # <<>> /\ All(v \o u) = All(v) \cup All(u)
      /\ Later(v \o u) = Later(v) \cup All(u)
  <2>1. v # <<>>
    BY <1>3
  <2> QED
    BY <2>1, Joined
<1> QED
  BY <1>1, <1>2, <1>3, <1>4, <1>5

\* A list with one more task at its end.
LEMMA Ended ==
  ASSUME NEW u \in Seq(Tasks), NEW a \in Tasks
  PROVE  /\ u \o <<a>> \in Seq(Tasks) /\ u \o <<a>> # <<>>
         /\ All(u \o <<a>>) = All(u) \cup {a}
         /\ u # <<>> => Later(u \o <<a>>) = Later(u) \cup {a}
         /\ Later(u \o <<a>>) \subseteq Later(u) \cup {a}
<1>1. PICK v \in Seq(Tasks) : v = <<a>> /\ All(v) = {a} /\ v # <<>> /\ Later(v) = {}
  BY Listed
<1>2. /\ u \o v \in Seq(Tasks) /\ All(u \o v) = All(u) \cup All(v)
      /\ u = <<>> => u \o v = v
      /\ u # <<>> => u \o v # <<>> /\ Later(u \o v) = Later(u) \cup All(v)
  BY Joined
<1> QED
  BY <1>1, <1>2

\* A list of one task that is neither a reset nor one of the last ones.
LEMMA SimpleList ==
  ASSUME NEW t \in Threads, NEW u \in Seq(Tasks), Reset \notin All(u), All(u) \cap Ends = {},
         All(u) \cap Paintings = {}
  PROVE  ListOK(t, u)
<1>1. LastOnly(u, Ends) /\ FirstOnly(u, Paintings)
  BY NoneOf
<1>2. u # <<>> => Later(u) \subseteq All(u)
  BY ListParts
<1>3. u = <<>> => Later(u) = {}
  BY Listed
<1> QED
  BY <1>1, <1>2, <1>3 DEF ListOK, Ends

\* A list that ends with one of the last tasks.
LEMMA EndedList ==
  ASSUME NEW t \in Threads, NEW u \in Seq(Tasks), NEW a \in Ends,
         t # Work => a \notin WorkEnds, t # Core => a \notin CoreEnds,
         All(u) \cap (Ends \cup Paintings) = {},
         Reset \notin Later(u), Reset \in All(u) => Do("paint") \in Later(u)
  PROVE  /\ u \o <<a>> \in Seq(Tasks) /\ u \o <<a>> # <<>> /\ All(u \o <<a>>) = All(u) \cup {a}
         /\ u # <<>> => Later(u \o <<a>>) = Later(u) \cup {a}
         /\ ListOK(t, u \o <<a>>)
<1>0. a \in Tasks /\ a \in Dos
  BY TaskSets DEF Ends
<1>1. PICK s : s = u \o <<a>>
  OBVIOUS
<1>2. /\ s \in Seq(Tasks) /\ s # <<>> /\ All(s) = All(u) \cup {a}
      /\ u # <<>> => Later(s) = Later(u) \cup {a}
      /\ Later(s) \subseteq Later(u) \cup {a}
  BY <1>0, <1>1, Ended
<1>3. LastOnly(s, Ends)
  <2>1. All(u) \cap Ends = {}
    OBVIOUS
  <2> QED
    BY <1>0, <1>1, <2>1, LastOnlyEnd
<1>4. FirstOnly(s, Paintings)
  <2>1. All(s) \cap Paintings = {}
    BY <1>0, <1>2, Kinds
  <2> QED
    BY <1>2, <2>1, NoneOf
<1>5. Reset \notin Later(s)
  BY <1>0, <1>2, Kinds
<1>6. Reset \in All(s) => Do("paint") \in Later(s)
  <2>1. ASSUME Reset \in All(s) PROVE Do("paint") \in Later(s)
    <3>1. Reset \in All(u)
      BY <1>0, <1>2, <2>1, Kinds
    <3>2. u # <<>>
      BY <3>1, Listed
    <3> QED
      BY <1>2, <3>1, <3>2
  <2> QED
    BY <2>1
<1>7. t # Work => All(s) \cap WorkEnds = {}
  BY <1>2 DEF Ends
<1>8. t # Core => All(s) \cap CoreEnds = {}
  BY <1>2 DEF Ends
<1> QED
  BY <1>1, <1>2, <1>3, <1>4, <1>5, <1>6, <1>7, <1>8 DEF ListOK, Ends

\* The lists that a write to sysfs, an event, the work item, the probe, the
\* suspend, the resume and the removal start with, and the one that comes in
\* place of the last check.
PaintList  == <<Do("paint")>>
CheckList  == InOrder([c \in Channels |-> Read(c)]) \o <<Do("check")>>
ProbeList  == <<Read("bl"), Do("init")>>
RemoveList == WriteEnable(onStart) \o <<Do("deltimer")>>
SetupList  == InitSet \o <<Do("stop")>>

\* Tasks by their kinds.
LEMMA SomeTasks ==
  /\ Read("bl") \in Reads /\ Reset \in Tasks
  /\ \A e \in {0, 1} : Enable(e) \in Enables
  /\ \A w \in {"paint", "check", "stop", "init", "deltimer"} : Do(w) \in Dos /\ Do(w) \in Tasks
  /\ Do("check") \in Ends /\ Do("stop") \in Ends /\ Do("init") \in Ends /\ Do("deltimer") \in Ends
  /\ Reads \subseteq Tasks /\ Enables \subseteq Tasks
  /\ Ends \cap (Reads \cup Paintings \cup Enables \cup {Reset, Do("paint")}) = {}
BY TaskSets, ChannelFacts, Kinds DEF Ends, WorkEnds, CoreEnds

\* Painting.
LEMMA PaintLists ==
  /\ PaintList \in Seq(Tasks) /\ PaintList # <<>> /\ All(PaintList) = {Do("paint")}
  /\ \A t \in Threads : ListOK(t, PaintList)
<1>1. PaintList \in Seq(Tasks) /\ PaintList # <<>> /\ All(PaintList) = {Do("paint")}
  BY SomeTasks, Listed DEF PaintList
<1>2. /\ Reset \notin All(PaintList) /\ All(PaintList) \cap Ends = {}
      /\ All(PaintList) \cap Paintings = {}
  BY <1>1, SomeTasks, Kinds
<1> QED
  BY <1>1, <1>2, SimpleList

\* A check.
LEMMA CheckLists ==
  /\ CheckList \in Seq(Tasks) /\ CheckList # <<>> /\ All(CheckList) \subseteq Reads \cup {Do("check")}
  /\ Do("check") \in All(CheckList) /\ ListOK(Work, CheckList)
<1>1. PICK r \in Seq(Tasks) : r = InOrder([c \in Channels |-> Read(c)]) /\ All(r) \subseteq Reads
  <2>1. PICK f : f = [c \in Channels |-> Read(c)]
    OBVIOUS
  <2>2. \A c \in Channels : f[c] \in Reads /\ f[c] \in Tasks
    BY <2>1, TaskSets, ChannelFacts
  <2>3. InOrder(f) \in Seq(Tasks) /\ All(InOrder(f)) = {f[c] : c \in Channels}
    BY <2>2, InOrderFacts
  <2> QED
    BY <2>1, <2>2, <2>3
<1>2. PICK a \in Ends : a = Do("check") /\ a \notin CoreEnds
  BY SomeTasks, Kinds DEF WorkEnds
<1>3. All(r) \cap (Ends \cup Paintings) = {} /\ Reset \notin All(r)
  BY <1>1, SomeTasks, Kinds
<1>4. Reset \notin Later(r)
  BY <1>3, ListParts, Listed
<1>5. r \o <<a>> \in Seq(Tasks) /\ r \o <<a>> # <<>> /\ All(r \o <<a>>) = All(r) \cup {a} /\ ListOK(Work, r \o <<a>>)
  BY <1>2, <1>3, <1>4, ThreadFacts, EndedList
<1> QED
  BY <1>1, <1>2, <1>5 DEF CheckList

\* The probe.
LEMMA ProbeLists ==
  /\ ProbeList \in Seq(Tasks) /\ ProbeList # <<>> /\ All(ProbeList) = {Read("bl"), Do("init")}
  /\ ListOK(Core, ProbeList)
<1>1. PICK u \in Seq(Tasks) : u = <<Read("bl")>> /\ All(u) = {Read("bl")} /\ Later(u) = {}
  BY SomeTasks, Listed
<1>2. PICK a \in Ends : a = Do("init") /\ a \notin WorkEnds
  BY SomeTasks, Kinds DEF CoreEnds
<1>3. All(u) \cap (Ends \cup Paintings) = {} /\ Reset \notin All(u) /\ Reset \notin Later(u)
  BY <1>1, SomeTasks, Kinds
<1>4. /\ u \o <<a>> \in Seq(Tasks) /\ u \o <<a>> # <<>> /\ All(u \o <<a>>) = All(u) \cup {a}
      /\ ListOK(Core, u \o <<a>>)
  BY <1>2, <1>3, ThreadFacts, EndedList
<1>5. u \o <<a>> = ProbeList
  <2>1. PICK x \in Tasks, y \in Tasks : x = Read("bl") /\ y = Do("init")
    BY SomeTasks
  <2>2. <<x>> \o <<y>> = <<x, y>>
    BY CoupleJoined
  <2> QED
    BY <1>1, <1>2, <2>1, <2>2 DEF ProbeList
<1> QED
  BY <1>1, <1>2, <1>4, <1>5

\* Suspend, resume and removal.
LEMMA PowerLists ==
  ASSUME TypeInv
  PROVE  /\ \A e \in {0, 1} : ListOK(Core, WriteEnable(e))
         /\ ListOK(Core, InitSet)
         /\ RemoveList \in Seq(Tasks) /\ RemoveList # <<>> /\ ListOK(Core, RemoveList)
         /\ All(RemoveList) = {Read("bl"), Enable(onStart), Do("deltimer")}
<1>1. ASSUME NEW e \in {0, 1}
      PROVE  /\ ListOK(Core, WriteEnable(e)) /\ Reset \notin All(WriteEnable(e))
             /\ All(WriteEnable(e)) \cap (Ends \cup Paintings) = {}
  <2>1. /\ Reset \notin All(WriteEnable(e)) /\ All(WriteEnable(e)) \cap Ends = {}
        /\ All(WriteEnable(e)) \cap Paintings = {} /\ WriteEnable(e) \in Seq(Tasks)
    BY SomeTasks, EnableLists, Kinds
  <2> QED
    BY <2>1, ThreadFacts, SimpleList
<1>2. ListOK(Core, InitSet)
  <2>1. /\ All(InitSet) \cap Ends = {} /\ All(InitSet) \cap Paintings = {}
        /\ Reset \notin Later(InitSet) /\ Do("paint") \in Later(InitSet)
    BY SomeTasks, InitSetLists, Kinds
  <2>2. LastOnly(InitSet, Ends) /\ FirstOnly(InitSet, Paintings)
    BY <2>1, InitSetLists, NoneOf
  <2> QED
    BY <2>1, <2>2 DEF ListOK, Ends
<1>3. PICK a \in Ends : a = Do("deltimer") /\ a \notin WorkEnds
  BY SomeTasks, Kinds DEF CoreEnds
<1>4. onStart \in {0, 1}
  BY DEF TypeInv
<1>5. PICK u \in Seq(Tasks) :
        /\ u = WriteEnable(onStart) /\ All(u) = {Read("bl"), Enable(onStart)}
        /\ Later(u) = {Enable(onStart)}
  BY <1>4, EnableLists
<1>6. All(u) \cap (Ends \cup Paintings) = {} /\ Reset \notin All(u) /\ Reset \notin Later(u)
  <2>1. Enable(onStart) \in Enables
    BY <1>4, SomeTasks
  <2> QED
    BY <1>1, <1>4, <1>5, <2>1, Kinds
<1>7. /\ u \o <<a>> \in Seq(Tasks) /\ u \o <<a>> # <<>> /\ All(u \o <<a>>) = All(u) \cup {a}
      /\ ListOK(Core, u \o <<a>>)
  BY <1>3, <1>6, ThreadFacts, EndedList
<1> QED
  BY <1>1, <1>2, <1>3, <1>5, <1>7 DEF RemoveList

\* The setup.
LEMMA SetupLists ==
  /\ SetupList \in Seq(Tasks) /\ SetupList # <<>> /\ ListOK(Work, SetupList)
  /\ All(SetupList) = {Reset, Do("paint"), Read("bl"), Enable(1), Do("stop")}
  /\ Later(SetupList) = {Do("paint"), Read("bl"), Enable(1), Do("stop")}
<1>1. PICK a \in Ends : a = Do("stop") /\ a \notin CoreEnds
  BY SomeTasks, Kinds DEF WorkEnds
<1>2. PICK u \in Seq(Tasks) :
        /\ u = InitSet /\ u # <<>> /\ All(u) = {Reset, Do("paint"), Read("bl"), Enable(1)}
        /\ Later(u) = {Do("paint"), Read("bl"), Enable(1)}
  BY InitSetLists
<1>3. All(u) \cap (Ends \cup Paintings) = {} /\ Reset \notin Later(u) /\ Do("paint") \in Later(u)
  BY <1>2, SomeTasks, Kinds
<1>4. /\ u \o <<a>> \in Seq(Tasks) /\ u \o <<a>> # <<>> /\ All(u \o <<a>>) = All(u) \cup {a}
      /\ Later(u \o <<a>>) = Later(u) \cup {a} /\ ListOK(Work, u \o <<a>>)
  BY <1>1, <1>2, <1>3, ThreadFacts, EndedList
<1> QED
  BY <1>1, <1>2, <1>4 DEF SetupList

-----------------------------------------------------------------------------
\* The first task of t is done and the list u comes in its place.
Replaces(t, u) ==
  /\ job[t] # <<>> /\ job' \in [Threads -> Seq(Tasks)] /\ job'[t] = u \o Tail(job[t])
  /\ \A x \in Threads \ {t} : job'[x] = job[x]

\* The list u is given to t, which has none.
Given(t, u) ==
  /\ job[t] = <<>> /\ job' \in [Threads -> Seq(Tasks)] /\ job'[t] = u
  /\ \A x \in Threads \ {t} : job'[x] = job[x]

\* What the code's helpers do to the lists and to the bytes read.
LEMMA ListSteps ==
  ASSUME TypeInv, NEW t \in Threads, NEW u \in Seq(Tasks)
  PROVE  /\ job[t] # <<>> /\ Becomes(t, u) =>
              Replaces(t, u) /\ got' \in [Threads -> [Registers -> Byte]]
         /\ job[t] # <<>> /\ job' = [job EXCEPT ![t] = Tail(@)] => Replaces(t, <<>>)
         /\ Starts(t, u) => Given(t, u) /\ got' = got
<1>1. job \in [Threads -> Seq(Tasks)] /\ got \in [Threads -> [Registers -> Byte]]
  BY DEF TypeInv
<1>2. ASSUME job[t] # <<>>, Becomes(t, u)
      PROVE  Replaces(t, u) /\ got' \in [Threads -> [Registers -> Byte]]
  <2>1. PICK r \in Seq(Tasks) : r = u \o Tail(job[t])
    BY <1>1, <1>2, Replaced
  <2>2. /\ job' = [job EXCEPT ![t] = r]
        /\ got' = IF r = <<>> THEN [got EXCEPT ![t] = NoBytes] ELSE got
    BY <1>2, <2>1 DEF Becomes
  <2>3. NoBytes \in [Registers -> Byte]
    <3>1. 0 \in Byte
      BY DEF Byte
    <3> QED
      BY <3>1 DEF NoBytes
  <2>4. got' \in [Threads -> [Registers -> Byte]]
    BY <1>1, <2>2, <2>3
  <2>5. Replaces(t, u)
    BY <1>1, <1>2, <2>1, <2>2 DEF Replaces
  <2> QED
    BY <2>4, <2>5
<1>3. ASSUME job[t] # <<>>, job' = [job EXCEPT ![t] = Tail(@)] PROVE Replaces(t, <<>>)
  <2>1. PICK r \in Seq(Tasks) : r = Tail(job[t])
    <3>1. job[t] \in Seq(Tasks)
      BY <1>1
    <3>2. Tail(job[t]) \in Seq(Tasks)
      BY <1>3, <3>1, ListParts
    <3> QED
      BY <3>2
  <2>2. r = <<>> \o Tail(job[t])
    BY <2>1, ConcatEmptySeq
  <2>3. job' = [job EXCEPT ![t] = r]
    BY <1>3, <2>1
  <2> QED
    BY <1>1, <1>3, <2>2, <2>3 DEF Replaces
<1>4. ASSUME Starts(t, u) PROVE Given(t, u) /\ got' = got
  BY <1>1, <1>4 DEF Starts, Idle, Given
<1> QED
  BY <1>2, <1>3, <1>4

\* The next task of a busy thread is a task.
LEMMA Heads ==
  ASSUME TypeInv, NEW t \in Threads, job[t] # <<>>
  PROVE  job[t] \in Seq(Tasks) /\ Head(job[t]) \in Tasks /\ Head(job[t]) \in All(job[t])
<1>1. job[t] \in Seq(Tasks)
  BY DEF TypeInv
<1> QED
  BY <1>1, ListParts

\* The list that paints.
PaintingList == InOrder([c \in Channels |-> Write(c, Scaled(c))])

\* It has a task for each channel and no other.
LEMMA PaintingLists ==
  ASSUME TypeInv
  PROVE  /\ PaintingList \in Seq(Tasks)
         /\ All(PaintingList) = {Write(c, Scaled(c)) : c \in Channels}
         /\ All(PaintingList) \subseteq Paintings
<1>1. PICK f : f = [c \in Channels |-> Write(c, Scaled(c))]
  OBVIOUS
<1>2. ASSUME NEW c \in Channels PROVE Write(c, Scaled(c)) \in Paintings
  <2>1. state.brightness \in 0..BrightnessMax /\ state.color \in Rgb
    BY DEF TypeInv
  <2>2. Scaled(c) \in 0..BrightnessMax
    BY <2>1, ScaledFacts
  <2> QED
    BY <2>2, TaskSets
<1>3. \A c \in Channels : f[c] = Write(c, Scaled(c)) /\ f[c] \in Tasks
  BY <1>1, <1>2, TaskSets
<1>4. InOrder(f) \in Seq(Tasks) /\ All(InOrder(f)) = {f[c] : c \in Channels}
  BY <1>3, InOrderFacts
<1> QED
  BY <1>1, <1>2, <1>3, <1>4 DEF PaintingList

\* The steps of a thread's tasks as changes of its list.
LEMMA TaskSteps ==
  ASSUME TypeInv, NEW t \in Threads
  PROVE  /\ ReadEc(t) => Replaces(t, <<>>) /\ Head(job[t]) \in Reads
         /\ WriteEc(t) => Replaces(t, <<>>) /\ Head(job[t]) \in Paintings \cup {Reset}
         /\ EnableEc(t) => Replaces(t, <<>>) /\ Head(job[t]) \in Enables
         /\ Paint(t) => Replaces(t, PaintingList) /\ Head(job[t]) = Do("paint")
<1>0. <<>> \in Seq(Tasks)
  BY Listed
<1>1. ASSUME ReadEc(t) PROVE Replaces(t, <<>>) /\ Head(job[t]) \in Reads
  <2>1. job[t] # <<>> /\ Head(job[t]).do = "read" /\ job' = [job EXCEPT ![t] = Tail(@)]
    BY <1>1 DEF ReadEc, Task
  <2>2. Replaces(t, <<>>)
    BY <1>0, <2>1, ListSteps
  <2>3. Head(job[t]) \in Tasks
    BY <2>1, Heads
  <2>4. Head(job[t]) \in Reads
    BY <2>1, <2>3, TaskFacts
  <2> QED
    BY <2>2, <2>4
<1>2. ASSUME WriteEc(t) PROVE Replaces(t, <<>>) /\ Head(job[t]) \in Paintings \cup {Reset}
  <2>1. job[t] # <<>> /\ Head(job[t]).do = "write" /\ Becomes(t, <<>>)
    BY <1>2 DEF WriteEc, Task
  <2>2. Replaces(t, <<>>)
    BY <1>0, <2>1, ListSteps
  <2>3. Head(job[t]) \in Tasks
    BY <2>1, Heads
  <2>4. Head(job[t]) \in Paintings \cup {Reset}
    BY <2>1, <2>3, TaskFacts
  <2> QED
    BY <2>2, <2>4
<1>3. ASSUME EnableEc(t) PROVE Replaces(t, <<>>) /\ Head(job[t]) \in Enables
  <2>1. job[t] # <<>> /\ Head(job[t]).do = "enable" /\ Becomes(t, <<>>)
    BY <1>3 DEF EnableEc, Task
  <2>2. Replaces(t, <<>>)
    BY <1>0, <2>1, ListSteps
  <2>3. Head(job[t]) \in Tasks
    BY <2>1, Heads
  <2>4. Head(job[t]) \in Enables
    BY <2>1, <2>3, TaskFacts
  <2> QED
    BY <2>2, <2>4
<1>4. ASSUME Paint(t) PROVE Replaces(t, PaintingList) /\ Head(job[t]) = Do("paint")
  <2>1. job[t] # <<>> /\ Head(job[t]).do = "paint" /\ Becomes(t, PaintingList)
    BY <1>4 DEF Paint, Task, PaintingList
  <2>2. Replaces(t, PaintingList)
    BY PaintingLists, <2>1, ListSteps
  <2>3. Head(job[t]) \in Tasks
    BY <2>1, Heads
  <2>4. Head(job[t]) = Do("paint")
    BY <2>1, <2>3, TaskFacts
  <2> QED
    BY <2>2, <2>4
<1> QED
  BY <1>1, <1>2, <1>3, <1>4

\* The largest numbers, and the bytes and levels written.
LEMMA Numbers ==
  /\ White \in Nat /\ BrightnessMax \in Nat /\ BrightnessDefault \in 0..BrightnessMax
  /\ ResetByte \in Byte /\ 0..BrightnessMax \subseteq Byte /\ Byte \subseteq Nat
  /\ UShort \subseteq Nat /\ Rgb = 0..White
<1>1. White \in Nat
  BY SMT DEF White
<1>2. UShort \subseteq Nat
  BY SMT DEF UShort
<1>3. /\ BrightnessMax \in Nat /\ BrightnessDefault \in 0..BrightnessMax
      /\ ResetByte \in Byte /\ 0..BrightnessMax \subseteq Byte /\ Byte \subseteq Nat
  BY DEF BrightnessMax, BrightnessDefault, ResetByte, Byte
<1> QED
  BY <1>1, <1>2, <1>3 DEF Rgb

\* A color put together from its channels' bytes.
LEMMA CodeFacts ==
  ASSUME NEW bytes \in [Registers -> Byte]
  PROVE  Code(bytes) \in Nat /\ Code(bytes) <= White
<1>1. ASSUME NEW c \in Channels
      PROVE  bytes[c] \in Int /\ 0 <= bytes[c] /\ bytes[c] <= 255
  BY <1>1, ChannelFacts DEF Byte
<1>2. PICK r \in Int, g \in Int, b \in Int :
        /\ 0 <= r /\ r <= 255 /\ 0 <= g /\ g <= 255 /\ 0 <= b /\ b <= 255
        /\ Part(bytes, "red") = r * 65536 /\ Part(bytes, "green") = g * 256
        /\ Part(bytes, "blue") = b
  <2>1. PICK r \in Int : 0 <= r /\ r <= 255 /\ Part(bytes, "red") = r * 65536
    <3>1. CASE "red" \in Channels
      BY <1>1, <3>1, SMT DEF Part, Weight
    <3>2. CASE "red" \notin Channels
      <4>1. Part(bytes, "red") = 0 * 65536
        BY <3>2, SMT DEF Part
      <4> QED
        BY <4>1, SMT
    <3> QED
      BY <3>1, <3>2
  <2>2. PICK g \in Int : 0 <= g /\ g <= 255 /\ Part(bytes, "green") = g * 256
    <3>1. CASE "green" \in Channels
      BY <1>1, <3>1, SMT DEF Part, Weight
    <3>2. CASE "green" \notin Channels
      <4>1. Part(bytes, "green") = 0 * 256
        BY <3>2, SMT DEF Part
      <4> QED
        BY <4>1, SMT
    <3> QED
      BY <3>1, <3>2
  <2>3. PICK b \in Int : 0 <= b /\ b <= 255 /\ Part(bytes, "blue") = b
    <3>1. CASE "blue" \in Channels
      BY <1>1, <3>1, SMT DEF Part, Weight
    <3>2. CASE "blue" \notin Channels
      BY <3>2, SMT DEF Part
    <3> QED
      BY <3>1, <3>2
  <2> QED
    BY <2>1, <2>2, <2>3, SMT
<1>3. Code(bytes) = r * 65536 + g * 256 + b
  BY <1>2, SMT DEF Code
<1>4. PICK n : n = r * 65536 + g * 256 + b
  OBVIOUS
<1>5. n \in Nat /\ n <= 16777215
  BY <1>2, <1>4, SMT
<1> QED
  BY <1>3, <1>4, <1>5, SMT DEF White

\* Writing a byte, done or failed, leaves bytes in the registers.
LEMMA PutFacts ==
  ASSUME TypeInv, NEW r \in Registers, NEW v \in Byte, Put(r, v)
  PROVE  /\ ram' \in [Registers -> Byte] /\ failed' \in BOOLEAN
         /\ \A x \in Registers \ {r} : ram'[x] = ram[x]
         /\ ~failed' => ~failed /\ (r = "bl" => ram'[r] = v)
         /\ ram'[r] \in {v, ram[r]}
<1> DEFINE done == [ram EXCEPT ![r] = v]
<1>1. ram \in [Registers -> Byte] /\ failed \in BOOLEAN
  BY DEF TypeInv
<1>2. done \in [Registers -> Byte] /\ done[r] = v /\ \A x \in Registers \ {r} : done[x] = ram[x]
  BY <1>1
<1>3. \/ ram' = done /\ failed' = failed
      \/ ram' \in {ram, done} /\ failed' = (failed \/ r = "bl")
  BY DEF Put, Works, Fault
<1> HIDE DEF done
<1>4. CASE ram' = done /\ failed' = failed
  BY <1>1, <1>2, <1>4
<1>5. CASE ram' \in {ram, done} /\ failed' = (failed \/ r = "bl")
  BY <1>1, <1>2, <1>5
<1> QED
  BY <1>3, <1>4, <1>5

-----------------------------------------------------------------------------
\* The steps of tasks keep the types.
LEMMA TaskType ==
  ASSUME TypeInv, NEW t \in Threads, TaskStep(t)
  PROVE  TypeInv'
<1> DEFINE h == Head(job[t])
<1>0. <<>> \in Seq(Tasks)
  BY Listed
<1>1. CASE ReadEc(t)
  <2>1. job' \in [Threads -> Seq(Tasks)] /\ h \in Reads
    BY <1>1, TaskSteps DEF Replaces
  <2>2. h.reg \in Registers
    BY <2>1 DEF Reads
  <2>3. got' \in [Threads -> [Registers -> Byte]] /\ failed' \in BOOLEAN
    <3>1. PICK r \in Registers : r = h.reg
      BY <2>2
    <3>2. got \in [Threads -> [Registers -> Byte]] /\ ram[r] \in Byte /\ Garbage \subseteq Byte
      BY ConstantsAssumption DEF TypeInv
    <3>3. \/ got' = [got EXCEPT ![t][r] = ram[r]] /\ failed' = failed
          \/ /\ \E b \in Garbage : got' = [got EXCEPT ![t][r] = b]
             /\ failed' = (failed \/ r = "bl")
      BY <1>1, <3>1 DEF ReadEc, Works, Fault
    <3>4. failed' \in BOOLEAN
      BY <3>3 DEF TypeInv
    <3> HIDE DEF h
    <3>5. \E b \in Byte : got' = [got EXCEPT ![t][r] = b]
      BY <3>2, <3>3
    <3>6. got' \in [Threads -> [Registers -> Byte]]
      BY <3>2, <3>5
    <3> QED
      BY <3>4, <3>6
  <2>4. UNCHANGED <<rgb, onStart, phase, lives, ram, state, prev, index, checks, timer, queued,
                    streak, readings, detected, shows>>
    BY <1>1 DEF ReadEc, Fixed, check
  <2> QED
    BY <2>1, <2>3, <2>4 DEF TypeInv
<1>2. CASE WriteEc(t)
  <2>1. job' \in [Threads -> Seq(Tasks)] /\ h \in Paintings \cup {Reset} /\ job[t] # <<>>
    BY <1>2, TaskSteps DEF Replaces
  <2>2. h.reg \in Registers /\ h.value \in Byte
    BY <2>1, ChannelFacts, Numbers DEF Paintings, Reset, Write
  <2>3. Put(h.reg, h.value) /\ shows' \in {shows, "lost", "other"} /\ Becomes(t, <<>>)
    BY <1>2 DEF WriteEc, ShowsAfter
  <2>4. ram' \in [Registers -> Byte] /\ failed' \in BOOLEAN
    BY <2>2, <2>3, PutFacts
  <2>5. got' \in [Threads -> [Registers -> Byte]]
    BY <1>0, <2>1, <2>3, ListSteps
  <2>6. UNCHANGED <<rgb, onStart, phase, lives, state, prev, index, checks, timer, queued,
                    streak, readings, detected>>
    BY <1>2 DEF WriteEc, Fixed, check
  <2> QED
    BY <2>1, <2>3, <2>4, <2>5, <2>6 DEF TypeInv
<1>3. CASE EnableEc(t)
  <2>1. job' \in [Threads -> Seq(Tasks)] /\ h \in Enables /\ job[t] # <<>>
    BY <1>3, TaskSteps DEF Replaces
  <2>2. h.value \in {0, 1} /\ got[t]["bl"] \in Byte /\ "bl" \in Registers
    BY <2>1, ChannelFacts DEF Enables, TypeInv
  <2>3. PICK v \in Byte : v = WithEnabled(got[t]["bl"], h.value)
    BY <2>2, EnableFacts
  <2>4. Put("bl", v) /\ Becomes(t, <<>>)
    BY <1>3, <2>3 DEF EnableEc
  <2>5. ram' \in [Registers -> Byte] /\ failed' \in BOOLEAN
    BY <2>2, <2>4, PutFacts
  <2>6. got' \in [Threads -> [Registers -> Byte]]
    BY <1>0, <2>1, <2>4, ListSteps
  <2>7. UNCHANGED <<rgb, onStart, phase, lives, state, prev, index, checks, timer, queued,
                    streak, readings, detected, shows>>
    BY <1>3 DEF EnableEc, Fixed, check
  <2> QED
    BY <2>1, <2>5, <2>6, <2>7 DEF TypeInv
<1>4. CASE Paint(t)
  <2>1. job' \in [Threads -> Seq(Tasks)] /\ job[t] # <<>>
    BY <1>4, TaskSteps DEF Replaces
  <2>2. Becomes(t, PaintingList) /\ shows' \in {"state", "other"}
    BY <1>4 DEF Paint, PaintingList
  <2>3. got' \in [Threads -> [Registers -> Byte]]
    BY <2>1, <2>2, PaintingLists, ListSteps
  <2>4. UNCHANGED <<rgb, onStart, phase, lives, ram, state, prev, index, checks, timer, queued,
                    streak, readings, detected, failed>>
    BY <1>4 DEF Paint, Fixed, check
  <2> QED
    BY <2>1, <2>2, <2>3, <2>4 DEF TypeInv
<1> QED
  BY <1>1, <1>2, <1>3, <1>4 DEF TaskStep

\* What the work item's last step of a check does to its list.
LEMMA CheckSteps ==
  ASSUME TypeInv, Check
  PROVE  /\ job[Work] # <<>> /\ Head(job[Work]) = Do("check") /\ Code(got[Work]) \in Nat
         /\ Code(got[Work]) <= White
         /\ \/ /\ Same(prev') /\ detected' = TRUE /\ UNCHANGED <<timer, checks>>
               /\ Replaces(Work, SetupList)
            \/ /\ ~Same(prev') /\ detected' = detected /\ timer' = (checks # 0)
               /\ checks' = checks - 1 /\ Replaces(Work, <<>>)
         /\ got' \in [Threads -> [Registers -> Byte]]
         /\ prev' = [prev EXCEPT ![index] = Code(got[Work])] /\ index' = (index % 3) + 1
         /\ readings' = readings + 1
         /\ streak' = IF streak = 0 \/ Code(got[Work]) # prev[Before(index)] THEN 1
                      ELSE IF streak < 3 THEN streak + 1 ELSE 3
<1>1. Work \in Threads /\ job[Work] # <<>> /\ Head(job[Work]).do = "check"
  BY ThreadFacts DEF Check, Task
<1>2. Head(job[Work]) = Do("check")
  BY <1>1, Heads, TaskFacts
<1>3. Code(got[Work]) \in Nat /\ Code(got[Work]) <= White
  <2>1. got[Work] \in [Registers -> Byte]
    BY <1>1 DEF TypeInv
  <2> QED
    BY <2>1, CodeFacts
<1>4. /\ prev' = [prev EXCEPT ![index] = Code(got[Work])] /\ index' = (index % 3) + 1
      /\ readings' = readings + 1
      /\ streak' = IF streak = 0 \/ Code(got[Work]) # prev[Before(index)] THEN 1
                   ELSE IF streak < 3 THEN streak + 1 ELSE 3
  BY DEF Check
<1>5. \/ /\ Same(prev') /\ detected' = TRUE /\ UNCHANGED <<timer, checks>>
         /\ Becomes(Work, SetupList)
      \/ /\ ~Same(prev') /\ detected' = detected /\ timer' = (checks # 0)
         /\ checks' = checks - 1 /\ Becomes(Work, <<>>)
  BY DEF Check, CountDown, SetupList
<1>6. <<>> \in Seq(Tasks) /\ SetupList \in Seq(Tasks)
  BY Listed, SetupLists
<1>7. /\ Becomes(Work, SetupList) =>
           Replaces(Work, SetupList) /\ got' \in [Threads -> [Registers -> Byte]]
      /\ Becomes(Work, <<>>) =>
           Replaces(Work, <<>>) /\ got' \in [Threads -> [Registers -> Byte]]
  BY <1>1, <1>6, ListSteps
<1>8. \/ /\ Same(prev') /\ detected' = TRUE /\ UNCHANGED <<timer, checks>>
         /\ Replaces(Work, SetupList)
      \/ /\ ~Same(prev') /\ detected' = detected /\ timer' = (checks # 0)
         /\ checks' = checks - 1 /\ Replaces(Work, <<>>)
  BY <1>5, <1>7
<1>9. got' \in [Threads -> [Registers -> Byte]]
  BY <1>5, <1>7
<1> QED
  BY <1>1, <1>2, <1>3, <1>4, <1>8, <1>9

\* The last steps of the work item, of the probe and of the removal.
LEMMA LastSteps ==
  ASSUME TypeInv
  PROVE  /\ Stop => /\ Replaces(Work, <<>>) /\ Head(job[Work]) = Do("stop")
                    /\ got' \in [Threads -> [Registers -> Byte]]
         /\ DelTimer => /\ Replaces(Core, <<>>) /\ Head(job[Core]) = Do("deltimer")
                        /\ got' \in [Threads -> [Registers -> Byte]]
         /\ InitBacklight =>
              /\ Head(job[Core]) = Do("init") /\ got' \in [Threads -> [Registers -> Byte]]
              /\ \/ rgb /\ Replaces(Core, <<>>)
                 \/ ~rgb /\ Replaces(Core, WriteEnable(1))
<1>0. /\ <<>> \in Seq(Tasks) /\ WriteEnable(1) \in Seq(Tasks) /\ Work \in Threads
      /\ Core \in Threads
  BY Listed, EnableLists, ThreadFacts
<1>1. ASSUME Stop
      PROVE  /\ Replaces(Work, <<>>) /\ Head(job[Work]) = Do("stop")
             /\ got' \in [Threads -> [Registers -> Byte]]
  <2>1. job[Work] # <<>> /\ Head(job[Work]).do = "stop" /\ Becomes(Work, <<>>)
    BY <1>1 DEF Stop, Task
  <2>2. Head(job[Work]) = Do("stop")
    BY <1>0, <2>1, Heads, TaskFacts
  <2>3. Replaces(Work, <<>>) /\ got' \in [Threads -> [Registers -> Byte]]
    BY <1>0, <2>1, ListSteps
  <2> QED
    BY <2>2, <2>3
<1>2. ASSUME DelTimer
      PROVE  /\ Replaces(Core, <<>>) /\ Head(job[Core]) = Do("deltimer")
             /\ got' \in [Threads -> [Registers -> Byte]]
  <2>1. job[Core] # <<>> /\ Head(job[Core]).do = "deltimer" /\ Becomes(Core, <<>>)
    BY <1>2 DEF DelTimer, Task
  <2>2. Head(job[Core]) = Do("deltimer")
    BY <1>0, <2>1, Heads, TaskFacts
  <2>3. Replaces(Core, <<>>) /\ got' \in [Threads -> [Registers -> Byte]]
    BY <1>0, <2>1, ListSteps
  <2> QED
    BY <2>2, <2>3
<1>3. ASSUME InitBacklight
      PROVE  /\ Head(job[Core]) = Do("init") /\ got' \in [Threads -> [Registers -> Byte]]
             /\ \/ rgb /\ Replaces(Core, <<>>)
                \/ ~rgb /\ Replaces(Core, WriteEnable(1))
  <2>1. job[Core] # <<>> /\ Head(job[Core]).do = "init"
    BY <1>3 DEF InitBacklight, Task
  <2>2. Head(job[Core]) = Do("init")
    BY <1>0, <2>1, Heads, TaskFacts
  <2>3. \/ rgb /\ Becomes(Core, <<>>)
        \/ ~rgb /\ Becomes(Core, WriteEnable(1))
    BY <1>3 DEF InitBacklight
  <2>4. CASE rgb /\ Becomes(Core, <<>>)
    <3>1. Replaces(Core, <<>>) /\ got' \in [Threads -> [Registers -> Byte]]
      BY <1>0, <2>1, <2>4, ListSteps
    <3> QED
      BY <2>2, <2>4, <3>1
  <2>5. CASE ~rgb /\ Becomes(Core, WriteEnable(1))
    <3>1. Replaces(Core, WriteEnable(1)) /\ got' \in [Threads -> [Registers -> Byte]]
      BY <1>0, <2>1, <2>5, ListSteps
    <3> QED
      BY <2>2, <2>5, <3>1
  <2> QED
    BY <2>3, <2>4, <2>5
<1> QED
  BY <1>1, <1>2, <1>3

\* The lists that operations start with.
LEMMA FirstSteps ==
  ASSUME TypeInv
  PROVE  /\ WorkStarts => Given(Work, CheckList) /\ got' = got
         /\ \A w \in Writers : WriteBrightness(w) \/ WriteColor(w)
              => Given(w, PaintList) /\ got' = got /\ w \in Threads \ {Core, Work}
         /\ Level \/ AdapterChange => Given(Event, PaintList) /\ got' = got
         /\ Probe => Given(Core, ProbeList) /\ got' = got
         /\ Suspend => Given(Core, WriteEnable(0)) /\ got' = got
         /\ Resume => Given(Core, IF rgb THEN InitSet ELSE WriteEnable(1)) /\ got' = got
         /\ Remove => Given(Core, RemoveList) /\ got' = got
<1>0. /\ Work \in Threads /\ Core \in Threads /\ Event \in Threads
      /\ \A w \in Writers : w \in Threads \ {Core, Work}
  BY ThreadFacts
<1>1. ASSUME WorkStarts PROVE Given(Work, CheckList) /\ got' = got
  <2>1. Starts(Work, CheckList)
    BY <1>1 DEF WorkStarts, CheckList
  <2> QED
    BY <1>0, <2>1, CheckLists, ListSteps
<1>2. ASSUME NEW w \in Writers, WriteBrightness(w) \/ WriteColor(w)
      PROVE  Given(w, PaintList) /\ got' = got
  <2>1. Starts(w, PaintList)
    BY <1>2 DEF WriteBrightness, WriteColor, PaintList
  <2> QED
    BY <1>0, <2>1, PaintLists, ListSteps
<1>3. ASSUME Level \/ AdapterChange PROVE Given(Event, PaintList) /\ got' = got
  <2>1. Starts(Event, PaintList)
    BY <1>3 DEF Level, AdapterChange, PaintList
  <2> QED
    BY <1>0, <2>1, PaintLists, ListSteps
<1>4. ASSUME Probe PROVE Given(Core, ProbeList) /\ got' = got
  <2>1. Starts(Core, ProbeList)
    BY <1>4 DEF Probe, Enter, ProbeList
  <2> QED
    BY <1>0, <2>1, ProbeLists, ListSteps
<1>5. ASSUME Suspend PROVE Given(Core, WriteEnable(0)) /\ got' = got
  <2>1. Starts(Core, WriteEnable(0)) /\ WriteEnable(0) \in Seq(Tasks)
    BY <1>5, EnableLists DEF Suspend, Enter
  <2> QED
    BY <1>0, <2>1, ListSteps
<1>6. ASSUME Resume PROVE Given(Core, IF rgb THEN InitSet ELSE WriteEnable(1)) /\ got' = got
  <2>1. PICK u : u = IF rgb THEN InitSet ELSE WriteEnable(1)
    OBVIOUS
  <2>2. u \in Seq(Tasks)
    BY <2>1, EnableLists, InitSetLists
  <2>3. Starts(Core, u)
    BY <1>6, <2>1 DEF Resume, Enter
  <2>4. Given(Core, u) /\ got' = got
    BY <1>0, <2>2, <2>3, ListSteps
  <2> QED
    BY <2>1, <2>4
<1>7. ASSUME Remove PROVE Given(Core, RemoveList) /\ got' = got
  <2>1. Starts(Core, RemoveList) /\ RemoveList \in Seq(Tasks)
    BY <1>7, PowerLists DEF Remove, Enter, RemoveList
  <2> QED
    BY <1>0, <2>1, ListSteps
<1> QED
  BY <1>0, <1>1, <1>2, <1>3, <1>4, <1>5, <1>6, <1>7

\* A step that changes no more than the lists, the bytes read, the timer and
\* the phase keeps the types when these keep theirs.
LEMMA QuietType ==
  ASSUME TypeInv,
         job' \in [Threads -> Seq(Tasks)], got' \in [Threads -> [Registers -> Byte]],
         timer' \in BOOLEAN, queued' \in BOOLEAN, checks' \in Int, checks' <= CheckCount,
         phase' \in {"out", "probing", "bound", "suspending", "asleep", "resuming", "removing"},
         UNCHANGED <<rgb, onStart, lives, ram, state, prev, index, seen>>
  PROVE  TypeInv'
<1>1. /\ rgb' \in BOOLEAN /\ ram' \in [Registers -> Byte] /\ onStart' \in {0, 1}
      /\ state' \in [brightness : 0..BrightnessMax, color : Rgb]
      /\ prev' \in [1..3 -> Nat] /\ index' \in 1..3 /\ lives' \in Nat
  BY DEF TypeInv
<1>2. /\ streak' \in 0..3 /\ readings' \in Nat /\ detected' \in BOOLEAN /\ failed' \in BOOLEAN
      /\ shows' \in {"state", "other", "lost"}
  BY DEF TypeInv, seen
<1> QED
  BY <1>1, <1>2 DEF TypeInv

\* The work item and its timer keep the types.
LEMMA WorkType ==
  ASSUME TypeInv, TimerFires \/ WorkStarts \/ Check \/ Stop
  PROVE  TypeInv'
<1>1. CASE TimerFires
  BY <1>1 DEF TimerFires, TypeInv, Fixed, seen
<1>2. CASE WorkStarts
  <2>1. job' \in [Threads -> Seq(Tasks)] /\ got' = got
    BY <1>2, FirstSteps DEF Given
  <2>2. queued' = FALSE /\ UNCHANGED <<Fixed, ram, state, prev, index, checks, timer, seen>>
    BY <1>2 DEF WorkStarts
  <2> QED
    BY <2>1, <2>2, QuietType DEF TypeInv, Fixed
<1>3. CASE Check
  <2>1. /\ job' \in [Threads -> Seq(Tasks)] /\ got' \in [Threads -> [Registers -> Byte]]
        /\ checks' \in {checks, checks - 1} /\ timer' \in {timer, TRUE, FALSE}
        /\ detected' \in {detected, TRUE}
    BY <1>3, CheckSteps DEF Replaces
  <2>2. PICK code \in Nat : code = Code(got[Work])
    BY <1>3, CheckSteps
  <2>3. prev' = [prev EXCEPT ![index] = code] /\ index' = (index % 3) + 1 /\ readings' = readings + 1
    BY <1>3, <2>2, CheckSteps
  <2>4. prev' \in [1..3 -> Nat]
    BY <2>3 DEF TypeInv
  <2>5. index' \in 1..3
    <3>1. index \in {1, 2, 3}
      BY DEF TypeInv
    <3> QED
      BY <2>3, <3>1
  <2>6. streak' \in 0..3
    <3>1. streak' \in {1, streak + 1, 3} /\ (streak' = streak + 1 => streak < 3 \/ streak' \in {1, 3})
      BY <1>3 DEF Check
    <3>2. streak \in {0, 1, 2, 3}
      BY DEF TypeInv
    <3> QED
      BY <3>1, <3>2
  <2>7. checks' \in Int /\ checks' <= CheckCount
    <3>1. checks \in Int /\ checks <= CheckCount /\ CheckCount \in Nat
      BY ConstantsAssumption DEF TypeInv
    <3> QED
      BY <2>1, <3>1
  <2>8. UNCHANGED <<rgb, onStart, phase, lives, ram, state, queued, failed, shows>>
    BY <1>3 DEF Check, Fixed
  <2>9. readings' \in Nat
    BY <2>3 DEF TypeInv
  <2> QED
    <3>1. /\ rgb' \in BOOLEAN /\ ram' \in [Registers -> Byte] /\ onStart' \in {0, 1}
          /\ state' \in [brightness : 0..BrightnessMax, color : Rgb]
          /\ phase' \in {"out", "probing", "bound", "suspending", "asleep", "resuming", "removing"}
      BY <2>8 DEF TypeInv
    <3>2. /\ queued' \in BOOLEAN /\ failed' \in BOOLEAN /\ lives' \in Nat
          /\ shows' \in {"state", "other", "lost"}
      BY <2>8 DEF TypeInv
    <3>3. timer' \in BOOLEAN /\ detected' \in BOOLEAN
      BY <2>1 DEF TypeInv
    <3> QED
      BY <2>1, <2>4, <2>5, <2>6, <2>7, <2>9, <3>1, <3>2, <3>3 DEF TypeInv
<1>4. CASE Stop
  <2>1. job' \in [Threads -> Seq(Tasks)] /\ got' \in [Threads -> [Registers -> Byte]]
    BY <1>4, LastSteps DEF Replaces
  <2>2. checks' = checks - 1
    BY <1>4 DEF Stop, CountDown
  <2>3. checks' \in Int /\ checks' <= CheckCount
    <3>1. checks \in Int /\ checks <= CheckCount /\ CheckCount \in Nat
      BY ConstantsAssumption DEF TypeInv
    <3> QED
      BY <2>2, <3>1
  <2> QED
    <3>1. timer' = FALSE /\ UNCHANGED <<Fixed, ram, state, prev, index, queued, seen>>
      BY <1>4 DEF Stop
    <3> QED
      BY <2>1, <2>3, <3>1, QuietType DEF TypeInv, Fixed
<1> QED
  BY <1>1, <1>2, <1>3, <1>4

\* The animation and sleep keep them,
LEMMA FrameType ==
  ASSUME TypeInv, Animate \/ LoseColor
  PROVE  TypeInv'
<1>1. PICK f \in Frames : ram' = Colored(f)
  BY DEF Animate, LoseColor
<1>2. f \in Nat
  BY ConstantsAssumption, Numbers
<1>3. ram' \in [Registers -> Byte]
  <2>1. ASSUME NEW r \in Registers PROVE (IF r = "bl" THEN ram[r] ELSE Channel(f, r)) \in Byte
    BY <1>2, ChannelFacts DEF TypeInv
  <2> QED
    BY <1>1, <2>1 DEF Colored
<1>4. shows' \in {shows, "other", "lost"}
  BY DEF Animate, LoseColor
<1>5. UNCHANGED <<rgb, onStart, phase, lives, state, prev, index, checks, timer, queued, job, got,
                  streak, readings, detected, failed>>
  BY DEF Animate, LoseColor, Fixed, check
<1> QED
  BY <1>3, <1>4, <1>5 DEF TypeInv

\* and so do sysfs and the firmware's events.
LEMMA InputType ==
  ASSUME TypeInv,
         (\E w \in Writers : WriteBrightness(w) \/ WriteColor(w)) \/ Level \/ AdapterChange
  PROVE  TypeInv'
<1>1. job' \in [Threads -> Seq(Tasks)] /\ got' = got
  BY FirstSteps DEF Given
<1>2. state' \in [brightness : 0..BrightnessMax, color : Rgb]
  <2>1. state \in [brightness : 0..BrightnessMax, color : Rgb]
    BY DEF TypeInv
  <2>2. CASE \E w \in Writers : WriteBrightness(w)
    <3>1. PICK b \in Brightness : b <= BrightnessMax /\ state' = [state EXCEPT !.brightness = b]
      BY <2>2 DEF WriteBrightness
    <3>2. b \in 0..BrightnessMax
      BY <3>1, ConstantsAssumption, Numbers
    <3> QED
      BY <2>1, <3>1, <3>2
  <2>3. CASE \E w \in Writers : WriteColor(w)
    <3>1. PICK c \in Colors : c <= White /\ state' = [state EXCEPT !.color = c]
      BY <2>3 DEF WriteColor
    <3>2. c \in Rgb
      BY <3>1, ConstantsAssumption, Numbers
    <3> QED
      BY <2>1, <3>1, <3>2
  <2>4. CASE Level
    <3>1. PICK b \in Levels : state' = [state EXCEPT !.brightness = b]
      BY <2>4 DEF Level
    <3>2. b \in 0..BrightnessMax
      BY ConstantsAssumption
    <3> QED
      BY <2>1, <3>1, <3>2
  <2>5. CASE AdapterChange
    BY <2>1, <2>5 DEF AdapterChange
  <2> QED
    BY <2>2, <2>3, <2>4, <2>5
<1>3. UNCHANGED <<rgb, onStart, phase, lives, ram, prev, index, checks, timer, queued,
                  streak, readings, detected, failed, shows>>
  BY DEF WriteBrightness, WriteColor, Level, AdapterChange, Fixed, check, seen
<1> QED
  BY <1>1, <1>2, <1>3 DEF TypeInv

\* The driver core keeps them.
LEMMA CoreType ==
  ASSUME TypeInv,
         Probe \/ InitBacklight \/ Suspend \/ Resume \/ Remove \/ DelTimer \/ CoreDone
  PROVE  TypeInv'
<1>1. CASE Probe
  <2>1. job' \in [Threads -> Seq(Tasks)] /\ got' = got
    BY <1>1, FirstSteps DEF Given
  <2>2. /\ phase' = "probing" /\ lives' = lives + 1 /\ streak' = 0 /\ readings' = 0
        /\ detected' = FALSE /\ failed' = FALSE
        /\ UNCHANGED <<rgb, onStart, ram, state, prev, index, checks, timer, queued, shows>>
    BY <1>1 DEF Probe, Enter, check
  <2>3. lives' \in Nat /\ streak' \in 0..3 /\ readings' \in Nat
    BY <2>2 DEF TypeInv
  <2>4. /\ detected' \in BOOLEAN /\ failed' \in BOOLEAN
        /\ phase' \in {"out", "probing", "bound", "suspending", "asleep", "resuming", "removing"}
    BY <2>2
  <2>5. UNCHANGED <<rgb, onStart, ram, state, prev, index, checks, timer, queued, shows, got>>
    BY <2>1, <2>2
  <2> QED
    BY <2>1, <2>3, <2>4, <2>5 DEF TypeInv
<1>2. CASE InitBacklight
  <2>1. job' \in [Threads -> Seq(Tasks)] /\ got' \in [Threads -> [Registers -> Byte]]
    BY <1>2, LastSteps DEF Replaces
  <2>2. onStart' \in {0, 1}
    BY <1>2 DEF InitBacklight, Enabled
  <2>3. state' \in [brightness : 0..BrightnessMax, color : Rgb]
    <3>1. CASE state' = state
      BY <3>1 DEF TypeInv
    <3>2. CASE state' # state
      <4>1. PICK c \in ParamColors, b \in ParamBrightness :
              state' = [brightness |-> IF b > BrightnessMax THEN BrightnessDefault ELSE b,
                        color |-> IF c > White THEN White ELSE c]
        BY <1>2, <3>2 DEF InitBacklight
      <4>2. b \in Nat /\ c \in Nat
        BY ConstantsAssumption, Numbers
      <4>3. (IF b > BrightnessMax THEN BrightnessDefault ELSE b) \in 0..BrightnessMax
        BY <4>2, Numbers
      <4>4. (IF c > White THEN White ELSE c) \in Rgb
        BY <4>2, Numbers
      <4> QED
        BY <4>1, <4>3, <4>4
    <3> QED
      BY <3>1, <3>2
  <2>4. timer' \in {timer, TRUE} /\ shows' \in {shows, "other"}
    BY <1>2 DEF InitBacklight
  <2>5. UNCHANGED <<rgb, phase, lives, ram, prev, index, checks, queued,
                    streak, readings, detected, failed>>
    BY <1>2 DEF InitBacklight
  <2> QED
    <3>1. timer' \in BOOLEAN /\ shows' \in {"state", "other", "lost"}
      BY <2>4 DEF TypeInv
    <3>2. /\ rgb' \in BOOLEAN /\ ram' \in [Registers -> Byte] /\ prev' \in [1..3 -> Nat] /\ index' \in 1..3
          /\ phase' \in {"out", "probing", "bound", "suspending", "asleep", "resuming", "removing"}
      BY <2>5 DEF TypeInv
    <3>3. /\ checks' \in Int /\ checks' <= CheckCount /\ queued' \in BOOLEAN /\ lives' \in Nat
          /\ streak' \in 0..3 /\ readings' \in Nat /\ detected' \in BOOLEAN /\ failed' \in BOOLEAN
      BY <2>5 DEF TypeInv
    <3> QED
      BY <2>1, <2>2, <2>3, <3>1, <3>2, <3>3 DEF TypeInv
<1>3. CASE Suspend \/ Resume \/ Remove
  <2>1. job' \in [Threads -> Seq(Tasks)] /\ got' = got
    BY <1>3, FirstSteps DEF Given
  <2>2. /\ phase' \in {"suspending", "resuming", "removing"}
        /\ UNCHANGED <<rgb, onStart, lives, ram, state, prev, index, checks, timer, queued, seen>>
    BY <1>3 DEF Suspend, Resume, Remove, Enter, check
  <2> QED
    BY <2>1, <2>2, QuietType DEF TypeInv
<1>4. CASE DelTimer
  <2>1. job' \in [Threads -> Seq(Tasks)] /\ got' \in [Threads -> [Registers -> Byte]]
    BY <1>4, LastSteps DEF Replaces
  <2> QED
    BY <1>4, <2>1 DEF DelTimer, TypeInv, Fixed, seen
<1>5. CASE CoreDone
  <2>1. phase' \in {"bound", "asleep", "out", phase}
    BY <1>5 DEF CoreDone
  <2> QED
    BY <1>5, <2>1 DEF CoreDone, TypeInv, check, seen
<1> QED
  BY <1>1, <1>2, <1>3, <1>4, <1>5

\* Initially everything has its type.
LEMMA TypeInit == Init => TypeInv
<1> SUFFICES ASSUME Init PROVE TypeInv
  OBVIOUS
<1>1. PICK b \in BootBytes, f \in Frames :
        ram = [r \in Registers |-> IF r = "bl" THEN b ELSE Channel(f, r)]
  BY DEF Init
<1>2. ram \in [Registers -> Byte]
  <2>1. f \in Nat /\ b \in Byte
    BY ConstantsAssumption, Numbers
  <2>2. ASSUME NEW r \in Registers PROVE (IF r = "bl" THEN b ELSE Channel(f, r)) \in Byte
    BY <2>1, ChannelFacts
  <2> QED
    BY <1>1, <2>2
<1>3. state \in [brightness : 0..BrightnessMax, color : Rgb]
  BY Numbers DEF Init
<1>4. job \in [Threads -> Seq(Tasks)] /\ got \in [Threads -> [Registers -> Byte]]
  <2>1. NoBytes \in [Registers -> Byte]
    <3>1. 0 \in Byte
      BY DEF Byte
    <3> QED
      BY <3>1 DEF NoBytes
  <2>2. <<>> \in Seq(Tasks)
    BY Listed
  <2> QED
    BY <2>1, <2>2 DEF Init
<1>5. prev \in [1..3 -> Nat] /\ index \in 1..3
  BY SMT DEF Init
<1>6. checks \in Int /\ checks <= CheckCount
  BY ConstantsAssumption DEF Init
<1>7. /\ rgb \in BOOLEAN /\ onStart = 0 /\ timer = FALSE /\ queued = FALSE /\ phase = "out"
      /\ lives = 0 /\ streak = 0 /\ readings = 0 /\ detected = FALSE /\ failed = FALSE
      /\ shows = "other"
  BY DEF Init
<1>8. onStart \in {0, 1} /\ lives \in Nat /\ streak \in 0..3 /\ readings \in Nat
  BY <1>7
<1>9. /\ rgb \in BOOLEAN /\ timer \in BOOLEAN /\ queued \in BOOLEAN
      /\ phase \in {"out", "probing", "bound", "suspending", "asleep", "resuming", "removing"}
      /\ detected \in BOOLEAN /\ failed \in BOOLEAN /\ shows \in {"state", "other", "lost"}
  BY <1>7
<1> QED
  BY <1>2, <1>3, <1>4, <1>5, <1>6, <1>8, <1>9 DEF TypeInv

\* Every step keeps the types.
LEMMA TypeNext == TypeInv /\ [Next]_vars => TypeInv'
<1> SUFFICES ASSUME TypeInv, [Next]_vars PROVE TypeInv'
  OBVIOUS
<1>1. CASE \E t \in Threads : TaskStep(t)
  BY <1>1, TaskType
<1>2. CASE TimerFires \/ WorkStarts \/ Check \/ Stop
  BY <1>2, WorkType
<1>3. CASE Animate \/ LoseColor
  BY <1>3, FrameType
<1>4. CASE (\E w \in Writers : WriteBrightness(w) \/ WriteColor(w)) \/ Level \/ AdapterChange
  BY <1>4, InputType
<1>5. CASE Probe \/ InitBacklight \/ Suspend \/ Resume \/ Remove \/ DelTimer \/ CoreDone
  BY <1>5, CoreType
<1>6. CASE UNCHANGED vars
  BY <1>6 DEF vars, TypeInv, check, seen
<1>7. Work \in Threads
  BY ThreadFacts
<1> QED
  BY <1>1, <1>2, <1>3, <1>4, <1>5, <1>6, <1>7 DEF Next, WorkStep, Others

\* The invariant is stronger than the type invariant TLC checks.
LEMMA TypeParts == TypeInv => TypeOK
<1> SUFFICES ASSUME TypeInv PROVE TypeOK
  OBVIOUS
<1>1. ASSUME NEW t \in Threads, NEW k \in DOMAIN job[t],
             job[t][k].do = "write", job[t][k].reg \in Channels
      PROVE  job[t][k].value \in 0..BrightnessMax
  <2>1. job[t] \in Seq(Tasks)
    BY DEF TypeInv
  <2>2. job[t][k] \in Tasks
    BY <2>1
  <2> QED
    BY <1>1, <2>2, TaskFacts
<1> QED
  BY <1>1 DEF TypeInv, TypeOK

\* Brightness and color keep their ranges, and no channel is ever sent more
\* than 0xc8, the "valid range" of uniwill_write_kbd_bl_rgb, whatever numbers
\* sysfs, the parameters and the events ask for, on any channels.
THEOREM TypeCorrect == Spec => []TypeOK
<1>1. Spec => []TypeInv
  BY TypeInit, TypeNext, PTL DEF Spec
<1> QED
  BY <1>1, TypeParts, PTL
-----------------------------------------------------------------------------
\* A list stays in order when its first task is done and the channels of a
\* color come in its place, or when its last one starts another list.
LEMMA ListBecomes ==
  ASSUME NEW t \in Threads, NEW s \in Seq(Tasks), s # <<>>, ListOK(t, s), NEW u \in Seq(Tasks),
         \/ All(u) \subseteq Paintings
         \/ Head(s) \in Ends /\ ListOK(t, u) /\ All(u) \cap Paintings = {}
  PROVE  ListOK(t, u \o Tail(s))
<1> DEFINE r == u \o Tail(s)
<1>1. /\ r \in Seq(Tasks) /\ All(r) = All(u) \cup Later(s)
      /\ Later(r) \subseteq Later(u) \cup Later(s)
      /\ u # <<>> => Later(r) = Later(u) \cup Later(s)
  BY Replaced
<1>2. Later(s) \subseteq All(s) /\ (u # <<>> => Later(u) \subseteq All(u))
  BY ListParts
<1>3. u = <<>> => All(u) = {} /\ Later(u) = {}
  BY Listed
<1>4. /\ FirstOnly(s, Paintings) /\ LastOnly(s, Ends) /\ Reset \notin Later(s)
      /\ t # Work => All(s) \cap WorkEnds = {}
      /\ t # Core => All(s) \cap CoreEnds = {}
  BY DEF ListOK, Ends
<1>5. /\ Reset \notin Later(u) /\ (Reset \in All(u) => Do("paint") \in Later(u))
      /\ t # Work => All(u) \cap WorkEnds = {}
      /\ t # Core => All(u) \cap CoreEnds = {}
  <2>1. CASE All(u) \subseteq Paintings
    <3>1. Reset \notin All(u) /\ All(u) \cap Ends = {}
      BY <2>1, SomeTasks, TaskSets
    <3> QED
      BY <1>2, <1>3, <3>1 DEF Ends
  <2>2. CASE ListOK(t, u)
    BY <2>2 DEF ListOK
  <2> QED
    BY <2>1, <2>2
<1>6. FirstOnly(r, Paintings)
  <2>1. Ends \cap Paintings = {}
    BY SomeTasks
  <2> QED
    BY <1>4, <2>1, FirstOnlyReplaced
<1>7. LastOnly(r, Ends)
  <2>1. CASE All(u) \subseteq Paintings
    <3>1. All(u) \cap Ends = {}
      BY <2>1, SomeTasks
    <3> QED
      BY <1>4, <3>1, LastOnlyReplaced
  <2>2. CASE Head(s) \in Ends /\ ListOK(t, u)
    <3>1. LastOnly(u, Ends)
      BY <2>2 DEF ListOK, Ends
    <3> QED
      BY <1>4, <2>2, <3>1, LastOnlyReplaced
  <2> QED
    BY <2>1, <2>2
<1> HIDE DEF r
<1>8. Reset \notin Later(r)
  BY <1>1, <1>4, <1>5
<1>9. Reset \in All(r) => Do("paint") \in Later(r)
  BY <1>1, <1>3, <1>4, <1>5
<1>10. t # Work => All(r) \cap WorkEnds = {}
  BY <1>1, <1>2, <1>4, <1>5
<1>11. t # Core => All(r) \cap CoreEnds = {}
  BY <1>1, <1>2, <1>4, <1>5
<1> QED
  BY <1>6, <1>7, <1>8, <1>9, <1>10, <1>11 DEF ListOK, Ends, r

\* When one thread's list changes and is in order, all are.
LEMMA OneList ==
  ASSUME ListsInv, NEW t \in Threads, ListOK(t, job'[t]), \A x \in Threads \ {t} : job'[x] = job[x]
  PROVE  ListsInv'
<1>1. ASSUME NEW x \in Threads PROVE ListOK(x, job'[x])
  BY DEF ListsInv
<1> QED
  BY <1>1 DEF ListsInv

\* The lists are in order after a replacement,
LEMMA ReplacedLists ==
  ASSUME TypeInv, ListsInv, NEW t \in Threads, NEW u \in Seq(Tasks), Replaces(t, u),
         \/ All(u) \subseteq Paintings
         \/ Head(job[t]) \in Ends /\ ListOK(t, u) /\ All(u) \cap Paintings = {}
  PROVE  ListsInv'
<1>1. PICK s \in Seq(Tasks) : s = job[t] /\ s # <<>> /\ ListOK(t, s)
  BY DEF TypeInv, ListsInv, Replaces
<1>2. ListOK(t, u \o Tail(s))
  BY <1>1, ListBecomes
<1> QED
  BY <1>1, <1>2, OneList DEF Replaces

\* and when a list in order is given to an idle thread.
LEMMA GivenLists ==
  ASSUME ListsInv, NEW t \in Threads, NEW u, Given(t, u), ListOK(t, u)
  PROVE  ListsInv'
BY OneList DEF Given

\* Every step keeps the lists in order.
LEMMA ListsNext == TypeInv /\ ListsInv /\ [Next]_vars => ListsInv'
<1> SUFFICES ASSUME TypeInv, ListsInv, [Next]_vars PROVE ListsInv'
  OBVIOUS
<1>0. <<>> \in Seq(Tasks) /\ All(<<>>) \subseteq Paintings
  BY Listed
<1>1. ASSUME NEW t \in Threads, TaskStep(t) PROVE ListsInv'
  <2>1. CASE Paint(t)
    <3>1. Replaces(t, PaintingList) /\ PaintingList \in Seq(Tasks)
      BY <1>1, <2>1, TaskSteps, PaintingLists
    <3>2. All(PaintingList) \subseteq Paintings
      BY PaintingLists
    <3> QED
      BY <1>1, <3>1, <3>2, ReplacedLists
  <2>2. CASE ReadEc(t) \/ WriteEc(t) \/ EnableEc(t)
    <3>1. Replaces(t, <<>>)
      BY <1>1, <2>2, TaskSteps
    <3> QED
      BY <1>0, <1>1, <3>1, ReplacedLists
  <2> QED
    BY <1>1, <2>1, <2>2 DEF TaskStep
<1>2. ASSUME Check PROVE ListsInv'
  <2>1. Head(job[Work]) \in Ends /\ Work \in Threads
    BY <1>2, CheckSteps, SomeTasks, ThreadFacts
  <2>2. CASE Replaces(Work, SetupList)
    <3>1. All(SetupList) \cap Paintings = {}
      BY SetupLists, SomeTasks, Kinds
    <3> QED
      BY <2>1, <2>2, <3>1, SetupLists, ReplacedLists
  <2>3. CASE Replaces(Work, <<>>)
    BY <1>0, <2>1, <2>3, ReplacedLists
  <2> QED
    BY <1>2, <2>2, <2>3, CheckSteps
<1>3. ASSUME Stop \/ DelTimer PROVE ListsInv'
  <2>1. Replaces(Work, <<>>) \/ Replaces(Core, <<>>)
    BY <1>3, LastSteps
  <2> QED
    BY <1>0, <2>1, ThreadFacts, ReplacedLists
<1>4. ASSUME InitBacklight PROVE ListsInv'
  <2>1. Head(job[Core]) \in Ends /\ Core \in Threads
    BY <1>4, LastSteps, SomeTasks, ThreadFacts
  <2>2. CASE Replaces(Core, <<>>)
    BY <1>0, <2>1, <2>2, ReplacedLists
  <2>3. CASE Replaces(Core, WriteEnable(1))
    <3>1. /\ WriteEnable(1) \in Seq(Tasks) /\ ListOK(Core, WriteEnable(1))
          /\ All(WriteEnable(1)) \cap Paintings = {}
      BY EnableLists, PowerLists, SomeTasks, Kinds
    <3> QED
      BY <2>1, <2>3, <3>1, ReplacedLists
  <2> QED
    BY <1>4, <2>2, <2>3, LastSteps
<1>5. ASSUME NEW w \in Writers, WriteBrightness(w) \/ WriteColor(w) PROVE ListsInv'
  <2>1. Given(w, PaintList) /\ w \in Threads
    BY <1>5, FirstSteps
  <2>2. ListOK(w, PaintList)
    BY <2>1, PaintLists
  <2> QED
    BY <2>1, <2>2, GivenLists
<1>6. ASSUME Level \/ AdapterChange PROVE ListsInv'
  <2>1. Given(Event, PaintList) /\ Event \in Threads
    BY <1>6, FirstSteps, ThreadFacts
  <2>2. ListOK(Event, PaintList)
    BY <2>1, PaintLists
  <2> QED
    BY <2>1, <2>2, GivenLists
<1>7. ASSUME WorkStarts PROVE ListsInv'
  BY <1>7, FirstSteps, CheckLists, ThreadFacts, GivenLists
<1>8. ASSUME Probe PROVE ListsInv'
  BY <1>8, FirstSteps, ProbeLists, ThreadFacts, GivenLists
<1>9. ASSUME Suspend PROVE ListsInv'
  <2>1. Given(Core, WriteEnable(0))
    BY <1>9, FirstSteps
  <2>2. ListOK(Core, WriteEnable(0))
    BY PowerLists
  <2> QED
    BY <2>1, <2>2, ThreadFacts, GivenLists
<1>10. ASSUME Resume PROVE ListsInv'
  <2>1. PICK u : u = IF rgb THEN InitSet ELSE WriteEnable(1)
    OBVIOUS
  <2>2. Given(Core, u)
    BY <1>10, <2>1, FirstSteps
  <2>3. ListOK(Core, u)
    BY <2>1, PowerLists
  <2> QED
    BY <2>2, <2>3, ThreadFacts, GivenLists
<1>11. ASSUME Remove PROVE ListsInv'
  BY <1>11, FirstSteps, PowerLists, ThreadFacts, GivenLists
<1>12. ASSUME job' = job PROVE ListsInv'
  BY <1>12 DEF ListsInv
<1>13. (TimerFires \/ Animate \/ LoseColor \/ CoreDone \/ UNCHANGED vars) => job' = job
  BY DEF TimerFires, Animate, LoseColor, CoreDone, vars
<1>14. Work \in Threads
  BY ThreadFacts
<1> QED
  BY <1>1, <1>2, <1>3, <1>4, <1>5, <1>6, <1>7, <1>8, <1>9, <1>10, <1>11, <1>12, <1>13, <1>14
  DEF Next, WorkStep, Others

\* At first there are no lists.
LEMMA ListsInit == Init => ListsInv
<1> SUFFICES ASSUME Init PROVE ListsInv
  OBVIOUS
<1>1. <<>> \in Seq(Tasks) /\ All(<<>>) = {}
  BY Listed
<1>2. \A t \in Threads : ListOK(t, <<>>)
  BY <1>1, SimpleList
<1>3. \A t \in Threads : job[t] = <<>>
  BY SMT DEF Init
<1> QED
  BY <1>2, <1>3 DEF ListsInv
-----------------------------------------------------------------------------
\* What a thread has left after such a step, and that nothing is left behind
\* one of the last tasks.
LEMMA ReplacedFacts ==
  ASSUME TypeInv, ListsInv, NEW t \in Threads, NEW u \in Seq(Tasks), Replaces(t, u)
  PROVE  /\ All(job'[t]) = All(u) \cup Later(job[t])
         /\ All(job[t]) = {Head(job[t])} \cup Later(job[t])
         /\ u = <<>> => All(job'[t]) = Later(job[t])
         /\ Head(job[t]) \in Ends => job'[t] = u /\ Later(job[t]) = {}
<1>1. PICK s \in Seq(Tasks) : s = job[t] /\ s # <<>> /\ ListOK(t, s)
  BY DEF TypeInv, ListsInv, Replaces
<1>2. /\ All(u \o Tail(s)) = All(u) \cup Later(s) /\ All(s) = {Head(s)} \cup Later(s)
      /\ u = <<>> => u \o Tail(s) = Tail(s)
  BY <1>1, Replaced, ListParts
<1>3. u = <<>> => All(u) = {}
  BY Listed
<1>4. ASSUME Head(s) \in Ends PROVE Tail(s) = <<>> /\ Later(s) = {}
  <2>1. LastOnly(s, Ends)
    BY <1>1 DEF ListOK, Ends
  <2>2. Len(s) \in Nat \ {0} /\ Len(Tail(s)) = Len(s) - 1 /\ Tail(s) \in Seq(Tasks)
    BY <1>1, ListParts
  <2>3. Head(s) = s[1]
    BY <1>1
  <2>4. Len(s) = 1
    BY <1>4, <2>1, <2>2, <2>3 DEF LastOnly
  <2>5. Tail(s) = <<>>
    <3>1. Tail(s) # <<>> => Len(Tail(s)) \in Nat \ {0}
      BY <2>2, ListParts
    <3> QED
      BY <2>2, <2>4, <3>1
  <2>6. Later(s) = {}
    BY <2>4 DEF Later
  <2> QED
    BY <2>5, <2>6
<1>5. Head(s) \in Ends => u \o Tail(s) = u
  BY <1>4, ConcatEmptySeq
<1>6. job'[t] = u \o Tail(s)
  BY <1>1 DEF Replaces
<1> QED
  BY <1>1, <1>2, <1>3, <1>4, <1>5, <1>6

\* The steps of tasks bring no last task, and no idle thread to work.
LEMMA TaskEnds ==
  ASSUME TypeInv, ListsInv, NEW t \in Threads, TaskStep(t)
  PROVE  /\ \A x \in Threads : (job'[x] # <<>> => job[x] # <<>>)
         /\ \A x \in Threads, e \in Ends : e \in All(job'[x]) <=> e \in All(job[x])
         /\ UNCHANGED <<rgb, onStart, phase, lives, state, prev, index, checks, timer, queued,
                        streak, readings, detected>>
<1>1. UNCHANGED <<rgb, onStart, phase, lives, state, prev, index, checks, timer, queued,
                  streak, readings, detected>>
  BY DEF TaskStep, ReadEc, WriteEc, EnableEc, Paint, Fixed, check
<1>2. PICK u \in Seq(Tasks) : Replaces(t, u) /\ All(u) \cap Ends = {} /\ Head(job[t]) \notin Ends
  <2>1. CASE Paint(t)
    <3>1. All(PaintingList) \cap Ends = {} /\ PaintingList \in Seq(Tasks)
      BY PaintingLists, SomeTasks
    <3>2. Replaces(t, PaintingList) /\ Head(job[t]) \notin Ends
      BY <2>1, TaskSteps, SomeTasks
    <3> QED
      BY <3>1, <3>2
  <2>2. CASE ReadEc(t) \/ WriteEc(t) \/ EnableEc(t)
    <3>1. Replaces(t, <<>>) /\ Head(job[t]) \notin Ends
      BY <2>2, TaskSteps, SomeTasks
    <3>2. All(<<>>) = {} /\ <<>> \in Seq(Tasks)
      BY Listed
    <3> QED
      BY <3>1, <3>2
  <2> QED
    BY <2>1, <2>2 DEF TaskStep
<1>3. All(job'[t]) = All(u) \cup Later(job[t]) /\ All(job[t]) = {Head(job[t])} \cup Later(job[t])
  BY <1>2, ReplacedFacts
<1>4. job[t] # <<>> /\ \A x \in Threads \ {t} : job'[x] = job[x]
  BY <1>2 DEF Replaces
<1>5. ASSUME NEW x \in Threads, NEW e \in Ends
      PROVE  e \in All(job'[x]) <=> e \in All(job[x])
  BY <1>2, <1>3, <1>4
<1> QED
  BY <1>1, <1>4, <1>5

\* The last tasks a thread has are of its own kind.
LEMMA OwnEnds ==
  ASSUME ListsInv
  PROVE  /\ Do("init") \notin All(job[Work])
         /\ Do("check") \notin All(job[Core]) /\ Do("stop") \notin All(job[Core])
<1>1. ListOK(Work, job[Work]) /\ ListOK(Core, job[Core]) /\ Work # Core
  BY ThreadFacts DEF ListsInv
<1> QED
  BY <1>1 DEF ListOK, WorkEnds, CoreEnds

\* The steps other than those of the boot check and the probe leave it alone,
\* but for the removal's stopping of the timer, and give the driver core
\* nothing to do before it comes for the first time.
LEMMA CountOthers ==
  ASSUME TypeInv, ListsInv, CountInv,
         UNCHANGED <<lives, queued, readings, checks>>, timer' \in {timer, FALSE},
         All(job'[Work]) \cap Ends \subseteq All(job[Work]),
         job'[Work] # <<>> => job[Work] # <<>>,
         Do("init") \in All(job'[Core]) => Do("init") \in All(job[Core]),
         lives = 0 => phase' = phase /\ job'[Core] = <<>>
  PROVE  CountInv'
<1>1. Do("check") \in Ends
  BY SomeTasks
<1>2. Checking' => Checking
  BY <1>1 DEF Checking
<1> QED
  BY <1>2 DEF CountInv, Checking, TypeInv
\* The boot check's own steps keep its count,
LEMMA CountWork ==
  ASSUME TypeInv, ListsInv, CountInv, TimerFires \/ WorkStarts \/ Check \/ Stop
  PROVE  CountInv'
<1> SUFFICES ASSUME lives' <= 1 PROVE CountInv'
  BY DEF CountInv
<1>0. /\ Work \in Threads /\ Core \in Threads /\ Core # Work /\ Do("check") # Do("stop")
      /\ lives \in Nat /\ checks \in Int /\ readings \in Nat /\ CheckCount \in Nat
      /\ timer \in BOOLEAN /\ queued \in BOOLEAN
  BY ThreadFacts, Kinds, ConstantsAssumption DEF TypeInv
<1>1. lives' = lives /\ phase' = phase
  BY DEF TimerFires, WorkStarts, Check, Stop, Fixed
<1>2. lives <= 1
  BY <1>1
<1>3. CASE TimerFires
  <2>1. timer /\ timer' = FALSE /\ queued' = TRUE /\ UNCHANGED <<readings, checks, job>>
    BY <1>3 DEF TimerFires, seen
  <2>2. lives # 0 /\ Do("init") \notin All(job[Core])
    BY <1>2, <2>1 DEF CountInv
  <2> QED
    BY <1>1, <1>2, <2>1, <2>2 DEF CountInv, Checking
<1>4. CASE WorkStarts
  <2>1. queued /\ queued' = FALSE /\ UNCHANGED <<timer, readings, checks>> /\ job[Work] = <<>>
    BY <1>4 DEF WorkStarts, Starts, Idle, seen
  <2>2. job'[Core] = job[Core]
    BY <1>0, <1>4, FirstSteps DEF Given
  <2>3. lives # 0 /\ Do("init") \notin All(job[Core]) /\ ~timer
    BY <1>2, <2>1 DEF CountInv
  <2> QED
    BY <1>1, <1>2, <2>1, <2>2, <2>3 DEF CountInv
<1>5. CASE Check
  <2>1. job[Work] # <<>> /\ Head(job[Work]) = Do("check") /\ readings' = readings + 1
    BY <1>5, CheckSteps
  <2>2. Checking
    BY <1>0, <2>1, Heads DEF Checking
  <2>3. /\ checks >= 0 /\ readings + checks = CheckCount /\ ~timer /\ ~queued
        /\ lives # 0 /\ Do("init") \notin All(job[Core])
    BY <1>2, <2>1, <2>2 DEF CountInv
  <2>4. queued' = queued
    BY <1>5 DEF Check
  <2>5. readings' <= CheckCount + 1
    BY <1>0, <2>1, <2>3
  <2>6. CASE Replaces(Work, SetupList)
    <3>1. job'[Work] = SetupList /\ job'[Core] = job[Core]
      <4>1. Do("check") \in Ends
        BY SomeTasks
      <4> QED
        BY <1>0, <2>1, <2>6, <4>1, SetupLists, ReplacedFacts DEF Replaces
    <3>2. Do("check") \notin All(SetupList)
      BY SetupLists, SomeTasks, Kinds
    <3>3. timer' = timer \/ job'[Work] = <<>>
      <4>1. job[Work] # <<>> /\ Replaces(Work, SetupList)
        BY <2>1, <2>6
      <4>2. ASSUME Replaces(Work, <<>>) PROVE job'[Work] = <<>>
        <5>1. Do("check") \in Ends /\ <<>> \in Seq(Tasks)
          BY SomeTasks, Listed
        <5> QED
          BY <1>0, <2>1, <4>2, <5>1, ReplacedFacts
      <4> QED
        BY <1>5, <4>2, CheckSteps
    <3>4. job'[Work] # <<>>
      BY <3>1, SetupLists
    <3>5. ~timer' /\ ~queued' /\ ~Checking'
      BY <2>3, <2>4, <3>1, <3>2, <3>3, <3>4 DEF Checking
    <3> QED
      BY <1>1, <2>3, <2>5, <3>1, <3>5 DEF CountInv
  <2>7. CASE timer' = (checks # 0) /\ checks' = checks - 1 /\ Replaces(Work, <<>>)
    <3>1. job'[Work] = <<>> /\ job'[Core] = job[Core]
      <4>1. Do("check") \in Ends /\ <<>> \in Seq(Tasks)
        BY SomeTasks, Listed
      <4> QED
        BY <1>0, <2>1, <2>7, <4>1, ReplacedFacts DEF Replaces
    <3>2. ~Checking' /\ ~queued'
      BY <2>3, <2>4, <3>1, Listed DEF Checking
    <3>3. timer' => checks' >= 0 /\ readings' + checks' = CheckCount
      BY <1>0, <2>1, <2>3, <2>7
    <3> QED
      BY <1>1, <2>3, <2>5, <3>1, <3>2, <3>3 DEF CountInv
  <2> QED
    BY <1>5, <2>6, <2>7, CheckSteps
<1>6. CASE Stop
  <2>1. Replaces(Work, <<>>) /\ Head(job[Work]) = Do("stop") /\ job[Work] # <<>>
    BY <1>6, LastSteps DEF Replaces
  <2>2. job'[Work] = <<>> /\ job'[Core] = job[Core]
    <3>1. Do("stop") \in Ends /\ <<>> \in Seq(Tasks)
      BY SomeTasks, Listed
    <3> QED
      BY <1>0, <2>1, <3>1, ReplacedFacts DEF Replaces
  <2>3. /\ ~queued /\ lives # 0 /\ Do("init") \notin All(job[Core])
        /\ readings <= CheckCount + 1
    BY <1>2, <2>1 DEF CountInv
  <2>4. timer' = FALSE /\ UNCHANGED <<queued, readings>>
    BY <1>6 DEF Stop, seen
  <2>5. ~Checking'
    BY <2>2, Listed DEF Checking
  <2> QED
    BY <1>1, <2>2, <2>3, <2>4, <2>5 DEF CountInv
<1> QED
  BY <1>3, <1>4, <1>5, <1>6

\* and so do the probe and the setting of the parameters, which arms the
\* timer.
LEMMA CountProbe ==
  ASSUME TypeInv, ListsInv, CountInv, Probe \/ InitBacklight
  PROVE  CountInv'
<1> SUFFICES ASSUME lives' <= 1 PROVE CountInv'
  BY DEF CountInv
<1>0. /\ Work \in Threads /\ Core \in Threads /\ Core # Work
      /\ lives \in Nat /\ checks \in Int /\ readings \in Nat /\ CheckCount \in Nat
      /\ timer \in BOOLEAN /\ queued \in BOOLEAN
  BY ThreadFacts, ConstantsAssumption DEF TypeInv
<1>1. CASE Probe
  <2>1. lives' = lives + 1 /\ readings' = 0 /\ UNCHANGED <<checks, timer, queued>>
    BY <1>1 DEF Probe, Enter, check
  <2>2. lives = 0 /\ lives' = 1
    BY <1>0, <2>1
  <2>3. ~timer /\ ~queued /\ job[Work] = <<>> /\ checks = CheckCount
    BY <2>2 DEF CountInv
  <2>4. job'[Work] = <<>>
    BY <1>0, <1>1, <2>3, FirstSteps DEF Given
  <2>5. ~Checking'
    BY <2>4, Listed DEF Checking
  <2> QED
    BY <1>0, <2>1, <2>2, <2>3, <2>4, <2>5 DEF CountInv
<1>2. CASE InitBacklight
  <2>1. lives' = lives /\ UNCHANGED <<checks, queued, readings, phase>> /\ timer' \in {timer, TRUE}
    BY <1>2 DEF InitBacklight
  <2>2. Head(job[Core]) = Do("init") /\ job[Core] # <<>>
    BY <1>2, LastSteps DEF Replaces
  <2>3. Do("init") \in All(job[Core])
    BY <1>0, <2>2, Heads
  <2>4. /\ ~queued /\ job[Work] = <<>> /\ checks = CheckCount /\ readings = 0 /\ lives # 0
    BY <2>1, <2>2, <2>3 DEF CountInv
  <2>5. job'[Work] = <<>> /\ Do("init") \notin All(job'[Core])
    <3>1. Do("init") \in Ends /\ <<>> \in Seq(Tasks) /\ WriteEnable(1) \in Seq(Tasks)
      BY SomeTasks, Listed, EnableLists
    <3>2. Do("init") \notin All(WriteEnable(1)) /\ Do("init") \notin All(<<>>)
      BY EnableLists, Listed, SomeTasks
    <3>3. CASE Replaces(Core, <<>>)
      <4>1. job'[Core] = <<>>
        BY <1>0, <2>2, <3>1, <3>3, ReplacedFacts
      <4> QED
        BY <1>0, <2>4, <3>2, <3>3, <4>1 DEF Replaces
    <3>4. CASE Replaces(Core, WriteEnable(1))
      <4>1. job'[Core] = WriteEnable(1)
        BY <1>0, <2>2, <3>1, <3>4, ReplacedFacts
      <4> QED
        BY <1>0, <2>4, <3>2, <3>4, <4>1 DEF Replaces
    <3> QED
      BY <1>2, <3>3, <3>4, LastSteps
  <2>6. ~Checking'
    BY <2>5, Listed DEF Checking
  <2> QED
    BY <1>0, <2>1, <2>4, <2>5, <2>6 DEF CountInv
<1> QED
  BY <1>1, <1>2

\* Every step keeps the count of the boot check.
LEMMA CountNext == TypeInv /\ ListsInv /\ CountInv /\ [Next]_vars => CountInv'
<1> SUFFICES ASSUME TypeInv, ListsInv, CountInv, [Next]_vars PROVE CountInv'
  OBVIOUS
<1>0. /\ Work \in Threads /\ Core \in Threads /\ Core # Work /\ Event # Work /\ Event # Core
      /\ Do("init") \in Ends /\ timer \in BOOLEAN /\ Event \in Threads
  BY ThreadFacts, SomeTasks DEF TypeInv
<1>1. ASSUME NEW t \in Threads, TaskStep(t) PROVE CountInv'
  <2>1. /\ UNCHANGED <<lives, queued, readings, checks, phase, timer>>
        /\ All(job'[Work]) \cap Ends \subseteq All(job[Work])
        /\ job'[Work] # <<>> => job[Work] # <<>>
        /\ Do("init") \in All(job'[Core]) => Do("init") \in All(job[Core])
    BY <1>0, <1>1, TaskEnds
  <2>2. lives = 0 => phase' = phase /\ job'[Core] = <<>>
    <3>1. lives = 0 => job[Core] = <<>>
      BY DEF CountInv
    <3> QED
      BY <1>0, <1>1, <2>1, <3>1, TaskEnds
  <2> QED
    BY <2>1, <2>2, CountOthers
<1>2. CASE TimerFires \/ WorkStarts \/ Check \/ Stop
  BY <1>2, CountWork
<1>3. CASE Probe \/ InitBacklight
  BY <1>3, CountProbe
<1>4. CASE Animate \/ LoseColor \/ UNCHANGED vars
  <2>1. UNCHANGED <<lives, queued, readings, checks, phase, timer, job>>
    BY <1>4 DEF Animate, LoseColor, vars, Fixed, check, seen
  <2>2. lives = 0 => job[Core] = <<>>
    BY DEF CountInv
  <2> QED
    BY <2>1, <2>2, CountOthers
<1>5. CASE (\E w \in Writers : WriteBrightness(w) \/ WriteColor(w)) \/ Level \/ AdapterChange
  <2>1. UNCHANGED <<lives, queued, readings, checks, phase, timer>>
    BY <1>5 DEF WriteBrightness, WriteColor, Level, AdapterChange, Fixed, check, seen
  <2>2. job'[Work] = job[Work] /\ job'[Core] = job[Core]
    BY <1>0, <1>5, FirstSteps DEF Given
  <2>3. lives = 0 => job[Core] = <<>>
    BY DEF CountInv
  <2> QED
    BY <2>1, <2>2, <2>3, CountOthers
<1>6. CASE Suspend \/ Resume \/ Remove
  <2>1. /\ UNCHANGED <<lives, queued, readings, checks, timer, rgb>>
        /\ phase \in {"bound", "asleep"}
    BY <1>6 DEF Suspend, Resume, Remove, Enter, check, seen
  <2>2. job'[Work] = job[Work] /\ Do("init") \notin All(job'[Core])
    <3>1. \E u \in {WriteEnable(0), WriteEnable(1), InitSet, RemoveList} : Given(Core, u)
      BY <1>6, FirstSteps
    <3>2. PICK u \in {WriteEnable(0), WriteEnable(1), InitSet, RemoveList} : Given(Core, u)
      BY <3>1
    <3>3. Do("init") \notin All(u)
      <4>1. onStart \in {0, 1}
        BY DEF TypeInv
      <4>2. Do("init") \notin Reads \cup Enables \cup {Reset, Do("paint"), Do("deltimer")}
        BY SomeTasks, Kinds
      <4>3. All(u) \subseteq Reads \cup Enables \cup {Reset, Do("paint"), Do("deltimer")}
        BY <3>2, <4>1, SomeTasks, EnableLists, InitSetLists, PowerLists
      <4> QED
        BY <4>2, <4>3
    <3> QED
      BY <1>0, <3>2, <3>3 DEF Given
  <2>3. lives # 0 \/ ~(lives <= 1)
    BY <2>1 DEF CountInv
  <2>4. CASE lives <= 1
    BY <2>1, <2>2, <2>3, <2>4, CountOthers
  <2>5. CASE ~(lives <= 1)
    BY <2>1, <2>5 DEF CountInv
  <2> QED
    BY <2>4, <2>5
<1>7. CASE DelTimer
  <2>1. UNCHANGED <<lives, queued, readings, checks, phase>> /\ timer' = FALSE
    BY <1>7 DEF DelTimer, Fixed, seen
  <2>2. Replaces(Core, <<>>) /\ <<>> \in Seq(Tasks)
    BY <1>7, LastSteps, Listed
  <2>3. job'[Work] = job[Work] /\ All(job'[Core]) \subseteq All(job[Core]) /\ job[Core] # <<>>
    <3>1. /\ All(job'[Core]) = All(<<>>) \cup Later(job[Core])
          /\ All(job[Core]) = {Head(job[Core])} \cup Later(job[Core])
      BY <1>0, <2>2, ReplacedFacts
    <3>2. All(<<>>) = {}
      BY Listed
    <3>3. job'[Work] = job[Work] /\ job[Core] # <<>>
      BY <1>0, <2>2 DEF Replaces
    <3> QED
      BY <3>1, <3>2, <3>3
  <2>4. lives # 0 \/ ~(lives <= 1)
    BY <2>3 DEF CountInv
  <2>5. CASE lives <= 1
    BY <2>1, <2>3, <2>4, <2>5, CountOthers
  <2>6. CASE ~(lives <= 1)
    BY <2>1, <2>6 DEF CountInv
  <2> QED
    BY <2>5, <2>6
<1>8. CASE CoreDone
  <2>1. /\ UNCHANGED <<lives, queued, readings, checks, timer, job>> /\ job[Core] = <<>>
        /\ phase # "out"
    BY <1>8 DEF CoreDone, check, seen, Idle
  <2>2. lives # 0 \/ ~(lives <= 1)
    BY <2>1 DEF CountInv
  <2>3. CASE lives <= 1
    BY <2>1, <2>2, <2>3, CountOthers
  <2>4. CASE ~(lives <= 1)
    BY <2>1, <2>4 DEF CountInv
  <2> QED
    BY <2>3, <2>4
<1> QED
  BY <1>0, <1>1, <1>2, <1>3, <1>4, <1>5, <1>6, <1>7, <1>8 DEF Next, WorkStep, Others

\* At first nothing is armed and nothing counted.
LEMMA CountInit == Init => CountInv
<1> SUFFICES ASSUME Init PROVE CountInv
  OBVIOUS
<1>1. /\ timer = FALSE /\ queued = FALSE /\ readings = 0 /\ checks = CheckCount /\ lives = 0
      /\ phase = "out"
  BY SMT DEF Init
<1>2. \A t \in Threads : job[t] = <<>>
  BY SMT DEF Init
<1>3. job[Work] = <<>> /\ job[Core] = <<>>
  BY <1>2, ThreadFacts
<1>4. ~Checking
  BY <1>3, Listed DEF Checking
<1>5. CheckCount \in Nat
  BY ConstantsAssumption
<1> QED
  BY <1>1, <1>3, <1>4, <1>5 DEF CountInv

\* "if (uw_kbd_bl_check_count != 0) mod_timer(...)": however long the boot
\* animation goes on and whatever happens meanwhile, in the driver's first
\* life the color is read at most once more often than there are checks.
THEOREM ChecksAreBounded == Spec => []ChecksEnd
<1>1. CountInv => ChecksEnd
  BY DEF CountInv, ChecksEnd
<1>2. Spec => []TypeInv
  BY TypeInit, TypeNext, PTL DEF Spec
<1>3. Spec => []ListsInv
  BY <1>2, ListsInit, ListsNext, PTL DEF Spec
<1>4. Spec => []CountInv
  BY <1>2, <1>3, CountInit, CountNext, PTL DEF Spec
<1> QED
  BY <1>1, <1>4, PTL

-----------------------------------------------------------------------------
\* The places before the next reading's: the latest reading's and the one
\* before it.
LEMMA Places ==
  ASSUME NEW i \in 1..3
  PROVE  /\ Before(i) \in 1..3 /\ Before(Before(i)) \in 1..3 /\ (i % 3) + 1 \in 1..3
         /\ Before(i) # i /\ Before(Before(i)) # i /\ Before(Before(i)) # Before(i)
         /\ Before((i % 3) + 1) = i
<1>1. i \in {1, 2, 3}
  OBVIOUS
<1> QED
  BY <1>1 DEF Before

\* Three colors are the same when the three pairs of neighbors are.
LEMMA SameFacts ==
  ASSUME NEW p, Same(p), NEW i \in 1..3, NEW j \in 1..3
  PROVE  p[i] = p[j]
<1>1. p[1] = p[2] /\ p[2] = p[3]
  <2>1. p[1] = p[1 + 1] /\ p[2] = p[2 + 1]
    BY DEF Same
  <2>2. 1 + 1 = 2 /\ 2 + 1 = 3
    OBVIOUS
  <2> QED
    BY <2>1, <2>2
<1>2. i \in {1, 2, 3} /\ j \in {1, 2, 3}
  OBVIOUS
<1> QED
  BY <1>1, <1>2

\* A check goes on with the streak of equal readings, and finds three equal
\* ones in the first life only when it is three long.
LEMMA StreakCheck ==
  ASSUME TypeInv, CountInv, StreakInv, lives <= 1, Check
  PROVE  StreakInv' /\ (Same(prev') => streak' = 3)
<1>1. PICK code \in Nat : code = Code(got[Work]) /\ code <= White
  BY CheckSteps
<1>2. /\ prev' = [prev EXCEPT ![index] = code] /\ index' = (index % 3) + 1
      /\ streak' = IF streak = 0 \/ code # prev[Before(index)] THEN 1
                   ELSE IF streak < 3 THEN streak + 1 ELSE 3
      /\ lives' = lives
  BY <1>1, CheckSteps DEF Check, Fixed
<1>3. prev \in [1..3 -> Nat] /\ index \in 1..3 /\ streak \in {0, 1, 2, 3} /\ White \in Nat
  BY Numbers DEF TypeInv
<1>4. PICK b \in 1..3 : b = Before(index) /\ b # index
  BY <1>3, Places
<1>5. PICK a \in 1..3 : a = Before(Before(index)) /\ a # index /\ a # b
  BY <1>3, <1>4, Places
<1>6. prev'[index] = code /\ prev'[b] = prev[b] /\ prev'[a] = prev[a]
  BY <1>2, <1>3, <1>4, <1>5
<1>7. Before(index') = index /\ Before(Before(index')) = b
  BY <1>2, <1>3, <1>4, Places
<1>8. streak = 0 => prev[b] > White
  BY <1>4 DEF StreakInv
<1>9. streak = 1 => prev[b] # prev[a]
  BY <1>4, <1>5 DEF StreakInv
<1>10. code # prev[b] \/ streak # 0
  BY <1>1, <1>3, <1>8
<1>11. streak' \in {1, 2, 3}
  BY <1>2, <1>3
<1>12. streak' = 1 => code # prev[b]
  BY <1>2, <1>3, <1>4, <1>10
<1>13. lives # 0
  <2>1. job[Work] # <<>>
    BY CheckSteps
  <2> QED
    BY <2>1 DEF CountInv
<1>14. StreakInv'
  <2>1. streak' # 0 /\ lives' # 0
    BY <1>2, <1>11, <1>13
  <2>2. streak' = 1 => prev'[Before(index')] # prev'[Before(Before(index'))]
    BY <1>6, <1>7, <1>12
  <2> QED
    BY <2>1, <2>2 DEF StreakInv
<1>15. ASSUME Same(prev') PROVE streak' = 3
  <2>1. PICK p : p = prev'
    OBVIOUS
  <2>2. p[index] = p[b] /\ p[b] = p[a]
    BY <1>3, <1>15, <2>1, SameFacts
  <2>3. code = prev[b] /\ prev[b] = prev[a]
    BY <1>6, <2>1, <2>2
  <2>4. streak \in {2, 3}
    BY <1>3, <1>9, <1>10, <2>3
  <2> QED
    BY <1>2, <1>4, <2>3, <2>4
<1> QED
  BY <1>14, <1>15

\* Every step keeps the streak.
LEMMA StreakNext == TypeInv /\ CountInv /\ StreakInv /\ [Next]_vars => StreakInv'
<1> SUFFICES ASSUME TypeInv, CountInv, StreakInv, [Next]_vars PROVE StreakInv'
  OBVIOUS
<1>1. CASE Check
  <2>1. CASE lives <= 1
    BY <1>1, <2>1, StreakCheck
  <2>2. CASE ~(lives <= 1)
    <3>1. lives' = lives
      BY <1>1 DEF Check, Fixed
    <3> QED
      BY <2>2, <3>1 DEF StreakInv
  <2> QED
    BY <2>1, <2>2
<1>2. CASE Probe
  <2>1. lives' = lives + 1 /\ streak' = 0 /\ UNCHANGED <<prev, index>> /\ lives \in Nat
    BY <1>2 DEF Probe, Enter, check, TypeInv
  <2>2. CASE lives' <= 1
    <3>1. lives = 0 /\ lives' # 0 /\ streak = 0
      BY <2>1, <2>2 DEF StreakInv
    <3> QED
      BY <2>1, <3>1 DEF StreakInv
  <2>3. CASE ~(lives' <= 1)
    BY <2>3 DEF StreakInv
  <2> QED
    BY <2>2, <2>3
<1>3. CASE UNCHANGED <<prev, index, streak, lives>>
  BY <1>3 DEF StreakInv
<1>4. \/ Check \/ Probe \/ UNCHANGED <<prev, index, streak, lives>>
  <2>1. ASSUME NEW t \in Threads, TaskStep(t) PROVE UNCHANGED <<prev, index, streak, lives>>
    BY <2>1 DEF TaskStep, ReadEc, WriteEc, EnableEc, Paint, Fixed, check
  <2>2. ASSUME TimerFires \/ WorkStarts \/ Stop PROVE UNCHANGED <<prev, index, streak, lives>>
    BY <2>2 DEF TimerFires, WorkStarts, Stop, Fixed, seen
  <2>3. ASSUME Animate \/ LoseColor \/ DelTimer PROVE UNCHANGED <<prev, index, streak, lives>>
    BY <2>3 DEF Animate, LoseColor, DelTimer, Fixed, check, seen
  <2>4. ASSUME (\E w \in Writers : WriteBrightness(w) \/ WriteColor(w)) \/ Level \/ AdapterChange
        PROVE  UNCHANGED <<prev, index, streak, lives>>
    BY <2>4 DEF WriteBrightness, WriteColor, Level, AdapterChange, Fixed, check, seen
  <2>5. ASSUME InitBacklight \/ CoreDone PROVE UNCHANGED <<prev, index, streak, lives>>
    BY <2>5 DEF InitBacklight, CoreDone, check, seen
  <2>6. ASSUME Suspend \/ Resume \/ Remove PROVE UNCHANGED <<prev, index, streak, lives>>
    BY <2>6 DEF Suspend, Resume, Remove, Enter, check, seen
  <2>7. UNCHANGED vars => UNCHANGED <<prev, index, streak, lives>>
    BY DEF vars, check, seen
  <2>8. Work \in Threads
    BY ThreadFacts
  <2> QED
    BY <2>1, <2>2, <2>3, <2>4, <2>5, <2>6, <2>7, <2>8 DEF Next, WorkStep, Others
<1> QED
  BY <1>1, <1>2, <1>3, <1>4

\* Only a check that finds three equal colors starts the setup.
LEMMA DetectedBy ==
  ASSUME TypeInv, [Next]_vars, ~detected, detected'
  PROVE  Check /\ Same(prev')
<1>1. Check \/ detected' \in {detected, FALSE}
  <2>1. ASSUME NEW t \in Threads, TaskStep(t) PROVE detected' = detected
    BY <2>1 DEF TaskStep, ReadEc, WriteEc, EnableEc, Paint
  <2>2. ASSUME TimerFires \/ WorkStarts \/ Stop PROVE detected' = detected
    BY <2>2 DEF TimerFires, WorkStarts, Stop, seen
  <2>3. ASSUME Animate \/ LoseColor \/ DelTimer PROVE detected' = detected
    BY <2>3 DEF Animate, LoseColor, DelTimer, seen
  <2>4. ASSUME (\E w \in Writers : WriteBrightness(w) \/ WriteColor(w)) \/ Level \/ AdapterChange
        PROVE  detected' = detected
    BY <2>4 DEF WriteBrightness, WriteColor, Level, AdapterChange, seen
  <2>5. ASSUME Probe \/ InitBacklight \/ CoreDone PROVE detected' \in {detected, FALSE}
    BY <2>5 DEF Probe, InitBacklight, CoreDone, seen
  <2>6. ASSUME Suspend \/ Resume \/ Remove PROVE detected' = detected
    BY <2>6 DEF Suspend, Resume, Remove, seen
  <2>7. UNCHANGED vars => detected' = detected
    BY DEF vars, seen
  <2>8. Work \in Threads
    BY ThreadFacts
  <2> QED
    BY <2>1, <2>2, <2>3, <2>4, <2>5, <2>6, <2>7, <2>8 DEF Next, WorkStep, Others
<1>2. Check
  BY <1>1
<1>3. Same(prev') \/ detected' = detected
  BY <1>2, CheckSteps
<1> QED
  BY <1>2, <1>3

\* No color is remembered at first.
LEMMA StreakInit == Init => StreakInv
<1> SUFFICES ASSUME Init PROVE StreakInv
  OBVIOUS
<1>1. prev = <<16777216, 33554432, 50331648>> /\ streak = 0
  BY SMT DEF Init
<1>2. \A k \in 1..3 : prev[k] > White
  BY <1>1, SMT DEF White
<1>3. \A k \in 1..2 : prev[k] # prev[k + 1]
  BY <1>1, SMT
<1> QED
  BY <1>1, <1>2, <1>3 DEF StreakInv

\* "if (prev_colors_same)" of uw_kbd_bl_init_ready_check_work_func: in the
\* driver's first life the backlight is set up only once the last three
\* readings, all taken since the driver came, were equal, whatever the
\* animation shows and even if reads fail.
THEOREM SetsUpAfterAnimation == Spec => SetupAfterAnimation
<1>1. Spec => []TypeInv
  BY TypeInit, TypeNext, PTL DEF Spec
<1>2. Spec => []ListsInv
  BY <1>1, ListsInit, ListsNext, PTL DEF Spec
<1>3. Spec => []CountInv
  BY <1>1, <1>2, CountInit, CountNext, PTL DEF Spec
<1>4. Spec => []StreakInv
  BY <1>1, <1>3, StreakInit, StreakNext, PTL DEF Spec
<1>5. TypeInv /\ CountInv /\ StreakInv /\ [Next]_vars
        => [lives <= 1 /\ ~detected /\ detected' => streak' = 3]_vars
  <2>1. ASSUME TypeInv, CountInv, StreakInv, [Next]_vars, lives <= 1, ~detected, detected'
        PROVE  streak' = 3
    BY <2>1, DetectedBy, StreakCheck
  <2> QED
    BY <2>1
<1> QED
  BY <1>1, <1>3, <1>4, <1>5, PTL DEF Spec, SetupAfterAnimation

-----------------------------------------------------------------------------
\* A thread is about to send a channel exactly when it has one to send.
LEMMA NowPaints ==
  TypeInv /\ ListsInv => \A t \in Threads : PaintsNow(t) <=> Channeled(t) # {}
<1> SUFFICES ASSUME TypeInv, ListsInv, NEW t \in Threads
             PROVE  PaintsNow(t) <=> Channeled(t) # {}
  OBVIOUS
<1>1. PICK s \in Seq(Tasks) : s = job[t] /\ ListOK(t, s)
  BY DEF TypeInv, ListsInv
<1>2. CASE s = <<>>
  <2>1. ~PaintsNow(t)
    BY <1>1, <1>2 DEF PaintsNow
  <2>2. All(s) = {}
    BY <1>2, Listed
  <2> QED
    BY <1>1, <2>1, <2>2 DEF Channeled
<1>3. CASE s # <<>>
  <2>1. PICK k \in Tasks : k = Head(s) /\ k \in All(s)
    BY <1>3, ListParts
  <2>2. k \in Paintings <=> k.do = "write" /\ k.reg \in Channels
    BY TaskFacts
  <2>3. PaintsNow(t) <=> k \in Paintings
    BY <1>1, <1>3, <2>1, <2>2 DEF PaintsNow
  <2>4. FirstOnly(s, Paintings)
    BY <1>1 DEF ListOK
  <2>5. k \notin Paintings => All(s) \cap Paintings = {}
    BY <1>3, <2>1, <2>4, FirstOnlyHead
  <2> QED
    BY <1>1, <2>1, <2>3, <2>5 DEF Channeled
<1> QED
  BY <1>2, <1>3

\* A thread that does not paint has neither.
LEMMA NoPaints ==
  ASSUME TypeInv, NEW t \in Threads, ~Paints(t)
  PROVE  Channeled(t) = {} /\ Do("paint") \notin All(job[t])
<1>1. PICK s \in Seq(Tasks) : s = job[t]
  BY DEF TypeInv
<1>2. DOMAIN s = 1..Len(s) /\ \A i \in 1..Len(s) : s[i] \in Tasks
  OBVIOUS
<1>3. ASSUME NEW k \in All(s) PROVE k \notin Paintings /\ k # Do("paint")
  <2>1. PICK i \in 1..Len(s) : k = s[i]
    BY DEF All
  <2>2. k.do # "paint" /\ ~(k.do = "write" /\ k.reg \in Channels)
    BY <1>1, <1>2, <2>1 DEF Paints
  <2>3. k \in Tasks
    BY <1>2, <2>1
  <2>4. k \notin Paintings
    BY <2>2, <2>3, TaskFacts
  <2>5. Do("paint").do = "paint"
    BY DEF Do
  <2> QED
    BY <2>2, <2>4, <2>5
<1> QED
  BY <1>1, <1>3 DEF Channeled

\* A step that leaves the colors, the channels to send and the state alone,
\* and takes no painting away, keeps what is shown.
LEMMA ShownKept ==
  ASSUME ShownInv, state' = state, \A c \in Channels : ram'[c] = ram[c],
         shows' \in {shows, "other"},
         \A t \in Threads : All(job'[t]) \cap Paintings = All(job[t]) \cap Paintings,
         PaintPending => PaintPending',
         phase = "asleep" /\ rgb => (phase' = "asleep" /\ rgb') \/ PaintPending'
  PROVE  ShownInv'
<1>1. \A t \in Threads : Channeled(t)' = Channeled(t)
  BY DEF Channeled
<1>2. \A c \in Channels : Scaled(c)' = Scaled(c)
  BY DEF Scaled
<1>3. shows' = "lost" => (phase' = "asleep" /\ rgb') \/ PaintPending'
  BY DEF ShownInv
<1>4. ASSUME shows' = "state" PROVE shows = "state"
  BY <1>4
<1>5. ASSUME NEW t \in Threads, NEW k \in Channeled(t)
      PROVE  Scaled(k.reg)' = Scaled(k.reg)
  BY DEF Scaled
<1> QED
  BY <1>1, <1>2, <1>3, <1>4, <1>5 DEF ShownInv

\* Nothing is claimed of what is shown while the color is still computed.
LEMMA ShownPending ==
  ASSUME ShownInv, PaintPending', shows' \in {shows, "other"},
         \A t \in Threads : All(job'[t]) \cap Paintings = All(job[t]) \cap Paintings
  PROVE  ShownInv'
<1>1. \A t \in Threads : Channeled(t)' = Channeled(t)
  BY DEF Channeled
<1> QED
  BY <1>1 DEF ShownInv

\* A task that sends no channel is done and lists without one come in its
\* place: the channels to send are the same.
LEMMA ChannelsReplaced ==
  ASSUME TypeInv, ListsInv, NEW t \in Threads, NEW u \in Seq(Tasks), Replaces(t, u),
         Head(job[t]) \notin Paintings, All(u) \cap Paintings = {}
  PROVE  /\ \A x \in Threads : All(job'[x]) \cap Paintings = All(job[x]) \cap Paintings
         /\ Head(job[t]) # Do("paint") => (PaintPending => PaintPending')
         /\ Do("paint") \in All(u) => PaintPending'
<1>1. All(job'[t]) = All(u) \cup Later(job[t]) /\ All(job[t]) = {Head(job[t])} \cup Later(job[t])
  BY ReplacedFacts
<1>2. \A x \in Threads \ {t} : job'[x] = job[x]
  BY DEF Replaces
<1>3. ASSUME NEW x \in Threads
      PROVE  All(job'[x]) \cap Paintings = All(job[x]) \cap Paintings
  BY <1>1, <1>2
<1>4. ASSUME Head(job[t]) # Do("paint"), PaintPending PROVE PaintPending'
  <2>1. PICK x \in Threads : Do("paint") \in All(job[x])
    BY <1>4 DEF PaintPending
  <2>2. Do("paint") \in All(job'[x])
    BY <1>1, <1>2, <1>4, <2>1
  <2> QED
    BY <2>2 DEF PaintPending
<1>5. Do("paint") \in All(u) => PaintPending'
  BY <1>1 DEF PaintPending
<1> QED
  BY <1>3, <1>4, <1>5

\* A list without a channel is given to an idle thread: likewise.
LEMMA ChannelsGiven ==
  ASSUME NEW t \in Threads, NEW u, Given(t, u), All(u) \cap Paintings = {}
  PROVE  /\ \A x \in Threads : All(job'[x]) \cap Paintings = All(job[x]) \cap Paintings
         /\ PaintPending => PaintPending'
         /\ Do("paint") \in All(u) => PaintPending'
<1>1. All(job[t]) = {} /\ job'[t] = u /\ \A x \in Threads \ {t} : job'[x] = job[x]
  BY Listed DEF Given
<1>2. ASSUME NEW x \in Threads
      PROVE  /\ All(job'[x]) \cap Paintings = All(job[x]) \cap Paintings
             /\ Do("paint") \in All(job[x]) => Do("paint") \in All(job'[x])
  BY <1>1
<1> QED
  BY <1>1, <1>2 DEF PaintPending

\* A read, and a write of the backlight bit, send no channel.
LEMMA ShownQuiet ==
  ASSUME TypeInv, ListsInv, ShownInv, NEW t \in Threads, ReadEc(t) \/ EnableEc(t)
  PROVE  ShownInv'
<1>1. /\ Replaces(t, <<>>) /\ Head(job[t]) \notin Paintings /\ Head(job[t]) # Do("paint")
      /\ <<>> \in Seq(Tasks) /\ All(<<>>) \cap Paintings = {}
  BY TaskSteps, Listed, Kinds, SomeTasks
<1>2. /\ \A x \in Threads : All(job'[x]) \cap Paintings = All(job[x]) \cap Paintings
      /\ PaintPending => PaintPending'
  BY <1>1, ChannelsReplaced
<1>3. UNCHANGED <<rgb, phase, state, shows>>
  BY DEF ReadEc, EnableEc, Fixed
<1>4. \A c \in Channels : ram'[c] = ram[c]
  <2>1. CASE ReadEc(t)
    BY <2>1 DEF ReadEc
  <2>2. CASE EnableEc(t)
    <3>1. PICK v : v = WithEnabled(got[t]["bl"], Head(job[t]).value)
      OBVIOUS
    <3>2. v \in Byte
      <4>1. Head(job[t]) \in Enables
        BY <2>2, TaskSteps
      <4>2. Head(job[t]).value \in {0, 1} /\ got[t]["bl"] \in Byte
        BY <4>1, ChannelFacts DEF Enables, TypeInv
      <4> QED
        BY <3>1, <4>2, EnableFacts
    <3>3. Put("bl", v) /\ "bl" \in Registers
      BY <2>2, <3>1, ChannelFacts DEF EnableEc
    <3>4. \A x \in Registers \ {"bl"} : ram'[x] = ram[x]
      BY <3>2, <3>3, PutFacts
    <3> QED
      BY <3>4, ChannelFacts
  <2> QED
    BY <2>1, <2>2
<1> QED
  BY <1>2, <1>3, <1>4, ShownKept

\* A reset loses the color, which is painted behind it.
LEMMA ShownReset ==
  ASSUME TypeInv, ListsInv, ShownInv, NEW t \in Threads, WriteEc(t), Head(job[t]) = Reset
  PROVE  ShownInv'
<1>1. Replaces(t, <<>>) /\ <<>> \in Seq(Tasks) /\ All(<<>>) = {}
  BY TaskSteps, Listed
<1>2. All(job'[t]) = Later(job[t])
  BY <1>1, ReplacedFacts
<1>3. Do("paint") \in Later(job[t])
  <2>1. ListOK(t, job[t]) /\ Reset \in All(job[t])
    BY <1>1, Heads DEF ListsInv, Replaces
  <2> QED
    BY <2>1 DEF ListOK
<1>4. PaintPending'
  BY <1>2, <1>3 DEF PaintPending
<1>5. shows' = "lost"
  <2>1. Reset.reg = "bl"
    BY DEF Reset, Write
  <2> QED
    BY <2>1 DEF WriteEc, ShowsAfter
<1> QED
  BY <1>4, <1>5 DEF ShownInv

\* A channel is sent.
LEMMA ShownWrite ==
  ASSUME TypeInv, ListsInv, ShownInv, NEW t \in Threads, WriteEc(t), Head(job[t]) \in Paintings
  PROVE  ShownInv'
<1>1. PICK k \in Paintings : k = Head(job[t]) /\ k.reg \in Channels /\ k.value \in Byte
  BY Numbers DEF Paintings
<1>2. k = Write(k.reg, k.value) /\ k.reg \in Registers /\ k.reg # "bl" /\ k # Do("paint")
  BY <1>1, TaskSets, TaskFacts, ChannelFacts, Kinds, SomeTasks
<1>3. /\ Replaces(t, <<>>) /\ <<>> \in Seq(Tasks) /\ All(<<>>) = {}
  BY TaskSteps, Listed
<1>4. /\ All(job'[t]) = Later(job[t]) /\ All(job[t]) = {k} \cup Later(job[t])
      /\ \A x \in Threads \ {t} : job'[x] = job[x]
  BY <1>1, <1>3, ReplacedFacts DEF Replaces
<1>5. Put(k.reg, k.value) /\ shows' = ShowsAfter(t, k.reg, k.value) /\ UNCHANGED <<state, phase, rgb>>
  BY <1>1 DEF WriteEc, Fixed
<1>6. \A x \in Registers \ {k.reg} : ram'[x] = ram[x]
  BY <1>1, <1>2, <1>5, PutFacts
<1>7. PaintPending' <=> PaintPending
  BY <1>2, <1>4 DEF PaintPending
<1>8. /\ \A x \in Threads : Channeled(x)' \subseteq Channeled(x)
      /\ \A x \in Threads \ {t} : Channeled(x)' = Channeled(x)
      /\ Channeled(t) = {k} \cup Channeled(t)'
  BY <1>1, <1>4 DEF Channeled
<1>9. shows' = "lost" => (phase' = "asleep" /\ rgb') \/ PaintPending'
  BY <1>2, <1>5, <1>7 DEF ShownInv, ShowsAfter
<1>10. ASSUME shows' = "state"
       PROVE  /\ shows = "state" /\ ram'[k.reg] = k.value
              /\ \A u \in Threads \ {t} : ~PaintsNow(u)
  BY <1>2, <1>5, <1>10 DEF ShowsAfter
<1>11. ASSUME shows' = "state"
       PROVE  \A x, y \in Threads : Channeled(x)' # {} /\ Channeled(y)' # {} => x = y
  BY <1>8, <1>10, <1>11 DEF ShownInv
<1>12. ASSUME shows' = "state", ~PaintPending'
       PROVE  /\ \A x \in Threads : \A q \in Channeled(x)' : q.value = Scaled(q.reg)
              /\ \A c \in Channels :
                   ram'[c] = Scaled(c) \/ \E x \in Threads : Write(c, Scaled(c)) \in Channeled(x)'
  <2>1. /\ \A x \in Threads : \A q \in Channeled(x) : q.value = Scaled(q.reg)
        /\ \A c \in Channels :
             ram[c] = Scaled(c) \/ \E x \in Threads : Write(c, Scaled(c)) \in Channeled(x)
    BY <1>7, <1>10, <1>12 DEF ShownInv
  <2>2. k.value = Scaled(k.reg)
    BY <1>8, <2>1
  <2>3. ASSUME NEW c \in Channels
        PROVE  ram'[c] = Scaled(c) \/ \E x \in Threads : Write(c, Scaled(c)) \in Channeled(x)'
    <3>1. CASE c = k.reg
      BY <1>10, <1>12, <2>2, <3>1
    <3>2. CASE c # k.reg
      <4>1. ram'[c] = ram[c]
        BY <1>6, <3>2, ChannelFacts
      <4>2. Write(c, Scaled(c)) # k
        BY <3>2 DEF Write
      <4> QED
        BY <1>8, <2>1, <4>1, <4>2
    <3> QED
      BY <3>1, <3>2
  <2> QED
    BY <1>8, <2>1, <2>3
<1>13. \A c : Scaled(c)' = Scaled(c)
  BY <1>5 DEF Scaled
<1> QED
  BY <1>9, <1>11, <1>12, <1>13 DEF ShownInv

\* The color is computed from the state.
LEMMA ShownPaint ==
  ASSUME TypeInv, ListsInv, ShownInv, NEW t \in Threads, Paint(t)
  PROVE  ShownInv'
<1>1. /\ Replaces(t, PaintingList) /\ PaintingList \in Seq(Tasks) /\ Head(job[t]) = Do("paint")
      /\ All(PaintingList) = {Write(c, Scaled(c)) : c \in Channels}
      /\ All(PaintingList) \subseteq Paintings
  BY TaskSteps, PaintingLists
<1>2. /\ All(job'[t]) = All(PaintingList) \cup Later(job[t])
      /\ All(job[t]) = {Do("paint")} \cup Later(job[t])
      /\ \A x \in Threads \ {t} : job'[x] = job[x]
  BY <1>1, ReplacedFacts DEF Replaces
<1>3. Channeled(t) = {}
  <2>1. Do("paint") \notin Paintings
    BY SomeTasks, Kinds
  <2>2. PICK s \in Seq(Tasks) : s = job[t] /\ s # <<>> /\ FirstOnly(s, Paintings)
    BY <1>1 DEF TypeInv, ListsInv, ListOK, Replaces
  <2>3. All(s) \cap Paintings = {}
    BY <1>1, <2>1, <2>2, FirstOnlyHead
  <2> QED
    BY <2>2, <2>3 DEF Channeled
<1>4. Channeled(t)' = All(PaintingList) /\ \A x \in Threads \ {t} : Channeled(x)' = Channeled(x)
  BY <1>1, <1>2, <1>3 DEF Channeled
<1>5. shows' \in {"state", "other"} /\ (shows' = "state" => \A x \in Threads \ {t} : Channeled(x) = {})
  <2>1. shows' = IF \E x \in Threads \ {t} : PaintsNow(x) THEN "other" ELSE "state"
    BY DEF Paint
  <2> QED
    BY <2>1, NowPaints
<1>6. \A c : Scaled(c)' = Scaled(c)
  BY DEF Paint, Fixed, Scaled
<1>7. ASSUME shows' = "state"
      PROVE  /\ \A x, y \in Threads : Channeled(x)' # {} /\ Channeled(y)' # {} => x = y
             /\ \A x \in Threads : \A q \in Channeled(x)' : q.value = Scaled(q.reg)
             /\ \A c \in Channels : \E x \in Threads : Write(c, Scaled(c)) \in Channeled(x)'
  <2>1. \A q \in All(PaintingList) : q.value = Scaled(q.reg)
    BY <1>1 DEF Write
  <2>2. \A x \in Threads \ {t} : Channeled(x)' = {}
    BY <1>4, <1>5, <1>7
  <2>3. \A c \in Channels : Write(c, Scaled(c)) \in Channeled(t)'
    BY <1>1, <1>4
  <2> QED
    BY <1>4, <2>1, <2>2, <2>3
<1> QED
  BY <1>5, <1>6, <1>7 DEF ShownInv

\* The work item's own steps,
LEMMA ShownWork ==
  ASSUME TypeInv, ListsInv, ShownInv, TimerFires \/ WorkStarts \/ Check \/ Stop
  PROVE  ShownInv'
<1>0. /\ Work \in Threads /\ Core \in Threads /\ <<>> \in Seq(Tasks) /\ All(<<>>) \cap Paintings = {}
      /\ Ends \cap Paintings = {} /\ Do("paint") \notin Ends
      /\ Do("check") \in Ends /\ Do("stop") \in Ends
  BY ThreadFacts, Listed, SomeTasks
<1>1. UNCHANGED <<rgb, phase, state, ram, shows>>
  BY DEF TimerFires, WorkStarts, Check, Stop, Fixed, seen
<1>2. CASE TimerFires
  <2>1. job' = job
    BY <1>2 DEF TimerFires
  <2>2. PaintPending' <=> PaintPending
    BY <2>1 DEF PaintPending
  <2> QED
    BY <1>1, <2>1, <2>2, ShownKept
<1>3. CASE WorkStarts
  <2>1. Given(Work, CheckList)
    BY <1>3, FirstSteps
  <2>2. All(CheckList) \cap Paintings = {}
    BY CheckLists, Kinds, SomeTasks
  <2> QED
    BY <1>0, <1>1, <2>1, <2>2, ChannelsGiven, ShownKept
<1>4. CASE Check
  <2>1. Head(job[Work]) \notin Paintings /\ Head(job[Work]) # Do("paint")
    BY <1>0, <1>4, CheckSteps
  <2>2. CASE Replaces(Work, SetupList)
    <3>1. SetupList \in Seq(Tasks) /\ All(SetupList) \cap Paintings = {} /\ Do("paint") \in All(SetupList)
      BY SetupLists, SomeTasks, Kinds
    <3>2. /\ \A x \in Threads : All(job'[x]) \cap Paintings = All(job[x]) \cap Paintings
          /\ PaintPending'
      BY <1>0, <2>1, <2>2, <3>1, ChannelsReplaced
    <3> QED
      BY <1>1, <3>2, ShownPending
  <2>3. CASE Replaces(Work, <<>>)
    BY <1>0, <1>1, <2>1, <2>3, ChannelsReplaced, ShownKept
  <2> QED
    BY <1>4, <2>2, <2>3, CheckSteps
<1>5. CASE Stop
  <2>1. Replaces(Work, <<>>) /\ Head(job[Work]) \notin Paintings /\ Head(job[Work]) # Do("paint")
    BY <1>0, <1>5, LastSteps
  <2> QED
    BY <1>0, <1>1, <2>1, ChannelsReplaced, ShownKept
<1> QED
  BY <1>2, <1>3, <1>4, <1>5

\* those of sysfs and the events,
LEMMA ShownInput ==
  ASSUME TypeInv, ListsInv, ShownInv,
         (\E w \in Writers : WriteBrightness(w) \/ WriteColor(w)) \/ Level \/ AdapterChange
  PROVE  ShownInv'
<1>1. PICK t \in Threads : Given(t, PaintList)
  BY FirstSteps, ThreadFacts
<1>2. All(PaintList) \cap Paintings = {} /\ Do("paint") \in All(PaintList)
  BY PaintLists, SomeTasks, Kinds
<1>3. shows' = shows
  BY DEF WriteBrightness, WriteColor, Level, AdapterChange, seen
<1> QED
  BY <1>1, <1>2, <1>3, ChannelsGiven, ShownPending

\* and those of the driver core.
LEMMA ShownCore ==
  ASSUME TypeInv, ListsInv, ShownInv,
         Probe \/ InitBacklight \/ Suspend \/ Resume \/ Remove \/ DelTimer \/ CoreDone
  PROVE  ShownInv'
<1>0. /\ Core \in Threads /\ <<>> \in Seq(Tasks) /\ All(<<>>) \cap Paintings = {}
      /\ Ends \cap Paintings = {} /\ Do("paint") \notin Ends
      /\ Do("init") \in Ends /\ Do("deltimer") \in Ends /\ onStart \in {0, 1}
      /\ Do("paint") \notin Paintings
  BY ThreadFacts, Listed, SomeTasks, Kinds DEF TypeInv
<1>1. ASSUME NEW e \in {0, 1} PROVE All(WriteEnable(e)) \cap Paintings = {}
  BY EnableLists, SomeTasks, Kinds
<1>2. CASE Probe \/ Suspend \/ Remove
  <2>1. PICK u \in {ProbeList, WriteEnable(0), RemoveList} : Given(Core, u)
    BY <1>2, FirstSteps
  <2>2. All(u) \cap Paintings = {}
    <3>1. All(ProbeList) \cap Paintings = {}
      BY <1>0, ProbeLists, SomeTasks, Kinds
    <3>2. All(RemoveList) \cap Paintings = {}
      BY <1>0, PowerLists, SomeTasks, Kinds
    <3> QED
      BY <1>1, <3>1, <3>2
  <2>3. UNCHANGED <<rgb, state, ram, shows>> /\ phase \in {"out", "bound"}
    BY <1>2 DEF Probe, Suspend, Remove, Enter, seen
  <2> QED
    BY <1>0, <2>1, <2>2, <2>3, ChannelsGiven, ShownKept
<1>3. CASE Resume
  <2>1. UNCHANGED <<rgb, state, ram, shows>>
    BY <1>3 DEF Resume, Enter, seen
  <2>2. CASE rgb
    <3>1. Given(Core, InitSet)
      BY <1>3, <2>2, FirstSteps
    <3>2. All(InitSet) \cap Paintings = {} /\ Do("paint") \in All(InitSet)
      BY InitSetLists, SomeTasks, Kinds
    <3> QED
      BY <1>0, <2>1, <3>1, <3>2, ChannelsGiven, ShownPending
  <2>3. CASE ~rgb
    <3>1. Given(Core, WriteEnable(1))
      BY <1>3, <2>3, FirstSteps
    <3> QED
      BY <1>0, <1>1, <2>1, <2>3, <3>1, ChannelsGiven, ShownKept
  <2> QED
    BY <2>2, <2>3
<1>4. CASE DelTimer
  <2>1. Replaces(Core, <<>>) /\ Head(job[Core]) \notin Paintings /\ Head(job[Core]) # Do("paint")
    BY <1>0, <1>4, LastSteps
  <2>2. UNCHANGED <<rgb, phase, state, ram, shows>>
    BY <1>4 DEF DelTimer, Fixed, seen
  <2> QED
    BY <1>0, <2>1, <2>2, ChannelsReplaced, ShownKept
<1>5. CASE CoreDone
  <2>1. UNCHANGED <<rgb, state, ram, job, shows>> /\ phase # "asleep"
    BY <1>5 DEF CoreDone, seen
  <2>2. PaintPending' <=> PaintPending
    BY <2>1 DEF PaintPending
  <2> QED
    BY <2>1, <2>2, ShownKept
<1>6. CASE InitBacklight
  <2>1. Head(job[Core]) \notin Paintings /\ Head(job[Core]) # Do("paint")
    BY <1>0, <1>6, LastSteps
  <2>2. PICK u \in Seq(Tasks) : Replaces(Core, u) /\ All(u) \cap Paintings = {}
    BY <1>0, <1>1, <1>6, LastSteps, EnableLists
  <2>3. /\ \A x \in Threads : All(job'[x]) \cap Paintings = All(job[x]) \cap Paintings
        /\ PaintPending => PaintPending'
    BY <1>0, <2>1, <2>2, ChannelsReplaced
  <2>4. UNCHANGED <<rgb, phase, ram>> /\ shows' \in {shows, "other"}
    BY <1>6 DEF InitBacklight
  <2>5. CASE rgb
    <3>1. shows' # "state" /\ (shows' = "lost" => shows = "lost")
      BY <1>6, <2>5 DEF InitBacklight
    <3> QED
      BY <2>3, <2>4, <3>1 DEF ShownInv
  <2>6. CASE ~rgb
    <3>1. state' = state
      BY <1>6, <2>6 DEF InitBacklight
    <3> QED
      BY <2>3, <2>4, <3>1, ShownKept
  <2> QED
    BY <2>5, <2>6
<1> QED
  BY <1>2, <1>3, <1>4, <1>5, <1>6

\* Every step keeps what is known of the keyboard's color.
LEMMA ShownNext == TypeInv /\ ListsInv /\ ShownInv /\ [Next]_vars => ShownInv'
<1> SUFFICES ASSUME TypeInv, ListsInv, ShownInv, [Next]_vars PROVE ShownInv'
  OBVIOUS
<1>1. ASSUME NEW t \in Threads, TaskStep(t) PROVE ShownInv'
  <2>1. CASE ReadEc(t) \/ EnableEc(t)
    BY <1>1, <2>1, ShownQuiet
  <2>2. CASE WriteEc(t)
    <3>1. Head(job[t]) \in Paintings \cup {Reset}
      BY <1>1, <2>2, TaskSteps
    <3> QED
      BY <1>1, <2>2, <3>1, ShownReset, ShownWrite
  <2>3. CASE Paint(t)
    BY <1>1, <2>3, ShownPaint
  <2> QED
    BY <1>1, <2>1, <2>2, <2>3 DEF TaskStep
<1>2. CASE TimerFires \/ WorkStarts \/ Check \/ Stop
  BY <1>2, ShownWork
<1>3. CASE (\E w \in Writers : WriteBrightness(w) \/ WriteColor(w)) \/ Level \/ AdapterChange
  BY <1>3, ShownInput
<1>4. CASE Probe \/ InitBacklight \/ Suspend \/ Resume \/ Remove \/ DelTimer \/ CoreDone
  BY <1>4, ShownCore
<1>5. CASE Animate
  <2>1. /\ shows' # "state" /\ (shows' = "lost" => shows = "lost")
        /\ UNCHANGED <<rgb, phase, job>>
    BY <1>5 DEF Animate, Fixed
  <2>2. PaintPending' <=> PaintPending
    BY <2>1 DEF PaintPending
  <2> QED
    BY <2>1, <2>2 DEF ShownInv
<1>6. CASE LoseColor
  BY <1>6 DEF LoseColor, Fixed, ShownInv
<1>7. CASE UNCHANGED vars
  <2>1. UNCHANGED <<rgb, phase, state, ram, job, shows>>
    BY <1>7 DEF vars, seen
  <2>2. PaintPending' <=> PaintPending
    BY <2>1 DEF PaintPending
  <2> QED
    BY <2>1, <2>2, ShownKept
<1>8. Work \in Threads
  BY ThreadFacts
<1> QED
  BY <1>1, <1>2, <1>3, <1>4, <1>5, <1>6, <1>7, <1>8 DEF Next, WorkStep, Others

\* With nobody about to paint, what is shown is the state.
LEMMA ShownParts == TypeInv /\ ListsInv /\ ShownInv => StateShown
<1> SUFFICES ASSUME TypeInv, ListsInv, ShownInv, phase = "bound", \A t \in Threads : ~Paints(t)
             PROVE  /\ shows # "lost"
                    /\ shows = "state" => \A c \in Channels : ram[c] = Scaled(c)
  BY DEF StateShown
<1>1. \A t \in Threads : Channeled(t) = {} /\ Do("paint") \notin All(job[t])
  BY NoPaints
<1>2. ~PaintPending
  BY <1>1 DEF PaintPending
<1> QED
  BY <1>1, <1>2 DEF ShownInv

\* uniwill_write_kbd_bl_state, called by sysfs, the events, the setup and the
\* resume at any time: once no thread is about to send the color, every reset
\* and every sleep has been followed by one that was sent after it; and that
\* is, in each channel, the stored color at the stored brightness, except when
\* an access failed, the animation went on or two threads sent theirs at once.
THEOREM StateIsShown == Spec => []StateShown
<1>1. Spec => []TypeInv
  BY TypeInit, TypeNext, PTL DEF Spec
<1>2. Spec => []ListsInv
  BY <1>1, ListsInit, ListsNext, PTL DEF Spec
<1>3. Init => ShownInv
  <2>1. Init => shows = "other"
    BY SMT DEF Init
  <2> QED
    BY <2>1 DEF ShownInv
<1>4. Spec => []ShownInv
  BY <1>1, <1>2, <1>3, ShownNext, PTL DEF Spec
<1> QED
  BY <1>1, <1>2, <1>4, ShownParts, PTL

-----------------------------------------------------------------------------
\* What the driver core and the work item have left tells the phase, and the
\* bit they write is the one the phase asks for.
LEMMA CalmFacts ==
  ASSUME TypeInv, CalmLists
  PROVE  /\ Do("init") \in All(job[Core]) => phase = "probing"
         /\ Do("paint") \in All(job[Core]) => phase = "resuming"
         /\ Reset \in All(job[Core]) => phase = "resuming"
         /\ \A e \in {0, 1} : Enable(e) \in All(job[Core]) \cup All(job[Work]) => e = Goal
         /\ job[Work] # <<>> => rgb /\ phase \in {"probing", "bound"} /\ job[Core] = <<>>
         /\ Goal \in {0, 1} /\ CoreTasks \subseteq Tasks
<1>0. /\ onStart \in {0, 1} /\ Do("init") # Do("deltimer") /\ Do("init") # Do("paint")
      /\ Do("paint") # Do("deltimer") /\ Enable(0) # Enable(1)
      /\ Do("init") \in Dos /\ Do("paint") \in Dos /\ Do("deltimer") \in Dos
      /\ Read("bl") \in Reads /\ Enable(0) \in Enables /\ Enable(1) \in Enables
      /\ Enable(onStart) \in Enables
  BY SomeTasks, Kinds DEF TypeInv, WorkEnds, CoreEnds
<1>1. ASSUME NEW k \in CoreTasks
      PROVE  /\ k = Do("init") => phase = "probing"
             /\ k = Do("paint") => phase = "resuming"
             /\ k = Reset => phase = "resuming"
  BY <1>0, Kinds DEF CoreTasks
<1>2. job[Work] # <<>> => rgb /\ phase \in {"probing", "bound"} /\ job[Core] = <<>>
  BY DEF CalmLists, CheckOver, Idle
<1>3. Goal \in {0, 1}
  BY <1>0 DEF Goal
<1>4. ASSUME NEW e \in {0, 1}, Enable(e) \in CoreTasks PROVE e = Goal
  <2>1. /\ Enable(e) \in Enables
        /\ (e # 0 => Enable(e) # Enable(0)) /\ (e # 1 => Enable(e) # Enable(1))
        /\ (e # onStart => Enable(e) # Enable(onStart))
    BY <1>0
  <2>2. CASE phase = "probing"
    BY <1>4, <2>1, <2>2, <1>0, Kinds DEF CoreTasks, Goal
  <2>3. CASE phase = "suspending"
    BY <1>4, <2>1, <2>3, <1>0, Kinds DEF CoreTasks, Goal
  <2>4. CASE phase = "resuming"
    BY <1>4, <2>1, <2>4, <1>0, Kinds DEF CoreTasks, Goal
  <2>5. CASE phase = "removing"
    BY <1>4, <2>1, <2>5, <1>0, Kinds DEF CoreTasks, Goal
  <2>6. CASE phase \notin {"probing", "suspending", "resuming", "removing"}
    BY <1>4, <2>6 DEF CoreTasks
  <2> QED
    BY <2>2, <2>3, <2>4, <2>5, <2>6
<1>5. ASSUME NEW e \in {0, 1}, Enable(e) \in All(job[Work]) PROVE e = Goal
  <2>1. job[Work] # <<>>
    BY <1>5, Listed
  <2>2. Goal = 1
    BY <1>2, <2>1 DEF Goal
  <2>3. Enable(0) \notin All(job[Work])
    BY DEF CalmLists
  <2> QED
    BY <1>5, <2>2, <2>3
<1>6. All(job[Core]) \subseteq CoreTasks
  BY DEF CalmLists
<1>7. CoreTasks \subseteq Tasks
  BY <1>0, TaskSets DEF CoreTasks
<1> QED
  BY <1>1, <1>2, <1>3, <1>4, <1>5, <1>6, <1>7

\* The boot check is quiet with the lists of the core, and only the core and
\* the work item switch the backlight, after a task,
LEMMA CalmTask ==
  ASSUME TypeInv, ListsInv, CalmLists, NEW t \in Threads, TaskStep(t)
  PROVE  CalmLists'
<1>0. /\ Work \in Threads /\ Core \in Threads /\ Core # Work
      /\ Paintings \cap (Enables \cup {Reset}) = {} /\ Enable(0) \in Enables
  BY ThreadFacts, Kinds, SomeTasks
<1>1. PICK u \in Seq(Tasks) :
        Replaces(t, u) /\ All(u) \subseteq Paintings /\ (All(u) # {} => Head(job[t]) = Do("paint"))
  <2>1. CASE Paint(t)
    BY <2>1, TaskSteps, PaintingLists
  <2>2. CASE ReadEc(t) \/ WriteEc(t) \/ EnableEc(t)
    <3>1. Replaces(t, <<>>) /\ <<>> \in Seq(Tasks) /\ All(<<>>) = {}
      BY <2>2, TaskSteps, Listed
    <3> QED
      BY <3>1
  <2> QED
    BY <2>1, <2>2 DEF TaskStep
<1>2. /\ All(job'[t]) = All(u) \cup Later(job[t]) /\ All(job[t]) = {Head(job[t])} \cup Later(job[t])
      /\ \A x \in Threads \ {t} : job'[x] = job[x]
  BY <1>1, ReplacedFacts DEF Replaces
<1>3. /\ \A x \in Threads : job'[x] # <<>> => job[x] # <<>>
      /\ UNCHANGED <<timer, queued, rgb, phase, onStart>>
  BY TaskEnds
<1>4. \A x \in Threads : All(job'[x]) \subseteq All(job[x]) \cup Paintings
  BY <1>1, <1>2
<1>5. ~CheckOver' => rgb' /\ phase' \in {"probing", "bound"} /\ job'[Core] = <<>>
  BY <1>0, <1>3 DEF CalmLists, CheckOver, Idle
<1>6. All(job'[Core]) \subseteq CoreTasks'
  <2>1. CoreTasks' = CoreTasks
    BY <1>3 DEF CoreTasks
  <2>2. All(job[Core]) \subseteq CoreTasks
    BY DEF CalmLists
  <2>3. CASE t = Core /\ All(u) # {}
    <3>1. phase = "resuming"
      BY <1>1, <1>2, <2>3, CalmFacts
    <3>2. Paintings \subseteq CoreTasks
      BY <3>1 DEF CoreTasks
    <3> QED
      BY <1>0, <1>4, <2>1, <2>2, <3>2
  <2>4. CASE t # Core \/ All(u) = {}
    BY <1>0, <1>2, <2>1, <2>2, <2>4
  <2> QED
    BY <2>3, <2>4
<1>7. Enable(0) \notin All(job'[Work])
  BY <1>0, <1>4 DEF CalmLists
<1>8. \A x \in Threads \ {Work, Core} : All(job'[x]) \cap (Enables \cup {Reset}) = {}
  BY <1>0, <1>4 DEF CalmLists
<1> QED
  BY <1>5, <1>6, <1>7, <1>8 DEF CalmLists

\* after a step that gives a list to the work item or shortens it,
LEMMA CalmWork ==
  ASSUME TypeInv, ListsInv, CalmLists, TimerFires \/ WorkStarts \/ Check \/ Stop
  PROVE  CalmLists'
<1>0. /\ Work \in Threads /\ Core \in Threads /\ Core # Work
      /\ <<>> \in Seq(Tasks) /\ All(<<>>) = {} /\ Do("check") \in Ends /\ Do("stop") \in Ends
  BY ThreadFacts, SomeTasks, Listed
<1>1. UNCHANGED <<rgb, phase, onStart>>
  BY DEF TimerFires, WorkStarts, Check, Stop, Fixed
<1>2. ~CheckOver
  BY CheckSteps, LastSteps DEF TimerFires, WorkStarts, CheckOver, Idle, Replaces
<1>3. rgb /\ phase \in {"probing", "bound"} /\ job[Core] = <<>>
  BY <1>2 DEF CalmLists
<1>4. /\ \A x \in Threads \ {Work} : job'[x] = job[x]
      /\ Enable(0) \notin All(job'[Work])
  <2>1. CASE TimerFires
    BY <2>1 DEF TimerFires, CalmLists
  <2>2. CASE WorkStarts
    <3>1. Given(Work, CheckList)
      BY <2>2, FirstSteps
    <3>2. Enable(0) \notin All(CheckList)
      BY CheckLists, SomeTasks, Kinds
    <3> QED
      BY <3>1, <3>2 DEF Given
  <2>3. CASE Check
    <3>1. Replaces(Work, SetupList) \/ Replaces(Work, <<>>)
      BY <2>3, CheckSteps
    <3>2. Enable(0) \notin All(SetupList)
      BY SetupLists, SomeTasks, Kinds
    <3>3. job'[Work] = SetupList \/ job'[Work] = <<>>
      <4>1. Head(job[Work]) \in Ends
        BY <1>0, <2>3, CheckSteps DEF Ends, WorkEnds
      <4>2. ASSUME Replaces(Work, SetupList) PROVE job'[Work] = SetupList
        BY <1>0, <4>1, <4>2, SetupLists, ReplacedFacts
      <4>3. ASSUME Replaces(Work, <<>>) PROVE job'[Work] = <<>>
        BY <1>0, <4>1, <4>3, ReplacedFacts
      <4> QED
        BY <3>1, <4>2, <4>3
    <3> QED
      BY <1>0, <3>1, <3>2, <3>3 DEF Replaces
  <2>4. CASE Stop
    <3>1. Replaces(Work, <<>>) /\ job'[Work] = <<>>
      BY <1>0, <2>4, LastSteps, ReplacedFacts
    <3> QED
      BY <1>0, <3>1 DEF Replaces
  <2> QED
    BY <2>1, <2>2, <2>3, <2>4
<1>5. job'[Core] = job[Core] /\ \A x \in Threads \ {Work, Core} : job'[x] = job[x]
  BY <1>0, <1>4
<1>6. CoreTasks' = CoreTasks
  BY <1>1 DEF CoreTasks
<1> QED
  BY <1>1, <1>3, <1>4, <1>5, <1>6 DEF CalmLists

\* after one that gives a painting to a writer or an event,
LEMMA CalmInput ==
  ASSUME TypeInv, CalmLists,
         (\E w \in Writers : WriteBrightness(w) \/ WriteColor(w)) \/ Level \/ AdapterChange
  PROVE  CalmLists'
<1>0. Work \in Threads /\ Core \in Threads /\ Core # Work
  BY ThreadFacts
<1>1. PICK t \in Threads \ {Core, Work} : Given(t, PaintList)
  BY FirstSteps, ThreadFacts
<1>2. All(PaintList) \cap (Enables \cup {Reset}) = {}
  BY PaintLists, SomeTasks, Kinds
<1>3. UNCHANGED <<rgb, phase, onStart, timer, queued>>
  BY DEF WriteBrightness, WriteColor, Level, AdapterChange, Fixed, check
<1>4. job'[t] = PaintList /\ \A x \in Threads \ {t} : job'[x] = job[x]
  BY <1>1 DEF Given
<1>5. job'[Core] = job[Core] /\ job'[Work] = job[Work]
  BY <1>0, <1>4
<1>6. CoreTasks' = CoreTasks /\ CheckOver' = CheckOver
  BY <1>3, <1>5 DEF CoreTasks, CheckOver, Idle
<1>7. \A x \in Threads \ {Work, Core} : All(job'[x]) \cap (Enables \cup {Reset}) = {}
  BY <1>2, <1>4 DEF CalmLists
<1> QED
  BY <1>3, <1>5, <1>6, <1>7 DEF CalmLists

\* after one that begins or ends an operation of the driver core,
LEMMA CalmStart ==
  ASSUME TypeInv, ListsInv, CalmLists,
         Probe \/ (CheckOver /\ Suspend) \/ Resume \/ (CheckOver /\ Remove) \/ CoreDone
  PROVE  CalmLists'
<1>0. Work \in Threads /\ Core \in Threads /\ Core # Work
  BY ThreadFacts
<1>1. PICK u \in Seq(Tasks) : job'[Core] = u /\ \A x \in Threads \ {Core} : job'[x] = job[x]
  <2>1. CASE CoreDone
    <3>1. job' = job
      BY <2>1 DEF CoreDone
    <3> QED
      BY <1>0, <3>1 DEF TypeInv
  <2>2. CASE Probe \/ Suspend \/ Resume \/ Remove
    <3>1. \E u : Given(Core, u)
      BY <2>2, FirstSteps
    <3> QED
      BY <1>0, <3>1 DEF Given
  <2> QED
    BY <2>1, <2>2
<1>2. UNCHANGED <<rgb, timer, queued>>
  BY DEF Probe, Suspend, Resume, Remove, CoreDone, Enter, check
<1>3. CheckOver' = CheckOver
  BY <1>0, <1>1, <1>2 DEF CheckOver, Idle
<1>4. ~CheckOver => rgb /\ phase \in {"probing", "bound"} /\ job[Core] = <<>>
  BY DEF CalmLists
<1>5. All(job'[Core]) \subseteq CoreTasks' /\ (~CheckOver => phase' = "bound" /\ job'[Core] = <<>>)
  <2>1. CASE Probe
    <3>1. phase' = "probing" /\ phase = "out" /\ job'[Core] = ProbeList
      BY <2>1, FirstSteps DEF Probe, Enter, Given
    <3> QED
      BY <1>4, <3>1, ProbeLists DEF CoreTasks
  <2>2. CASE CheckOver /\ Suspend
    <3>1. phase' = "suspending" /\ job'[Core] = WriteEnable(0)
      BY <2>2, FirstSteps DEF Suspend, Enter, Given
    <3> QED
      BY <2>2, <3>1, EnableLists DEF CoreTasks
  <2>3. CASE Resume
    <3>1. phase' = "resuming" /\ phase = "asleep" /\ job'[Core] \in {InitSet, WriteEnable(1)}
      BY <2>3, FirstSteps DEF Resume, Enter, Given
    <3>2. All(job'[Core]) \subseteq {Reset, Do("paint"), Read("bl"), Enable(1)}
      BY <3>1, InitSetLists, EnableLists
    <3> QED
      BY <1>4, <3>1, <3>2 DEF CoreTasks
  <2>4. CASE CheckOver /\ Remove
    <3>1. phase' = "removing" /\ job'[Core] = RemoveList /\ onStart' = onStart
      BY <2>4, FirstSteps DEF Remove, Enter, Given
    <3> QED
      BY <2>4, <3>1, PowerLists DEF CoreTasks
  <2>5. CASE CoreDone
    <3>1. job[Core] = <<>> /\ job' = job /\ phase' # phase
      BY <2>5 DEF CoreDone, Idle
    <3>2. phase \in {"probing", "bound"} => phase' = "bound"
      BY <2>5, <3>1 DEF CoreDone
    <3> QED
      BY <1>4, <3>1, <3>2, Listed
  <2> QED
    BY <2>1, <2>2, <2>3, <2>4, <2>5
<1>6. ~CheckOver' => rgb' /\ phase' \in {"probing", "bound"} /\ job'[Core] = <<>>
  BY <1>2, <1>3, <1>4, <1>5
<1>7. Enable(0) \notin All(job'[Work])
  BY <1>0, <1>1 DEF CalmLists
<1>8. \A x \in Threads \ {Work, Core} : All(job'[x]) \cap (Enables \cup {Reset}) = {}
  BY <1>1 DEF CalmLists
<1> QED
  BY <1>5, <1>6, <1>7, <1>8 DEF CalmLists

\* and after the last task of the probe, which arms the timer on an idle
\* core, and of the removal.
LEMMA CalmEnd ==
  ASSUME TypeInv, ListsInv, CalmLists, InitBacklight \/ DelTimer
  PROVE  CalmLists'
<1>0. /\ Work \in Threads /\ Core \in Threads /\ Core # Work
      /\ <<>> \in Seq(Tasks) /\ All(<<>>) = {} /\ Do("init") \in Ends /\ Do("deltimer") \in Ends
  BY ThreadFacts, SomeTasks, Listed
<1>1. /\ job[Core] # <<>> /\ \A x \in Threads \ {Core} : job'[x] = job[x]
  BY LastSteps DEF Replaces
<1>2. \/ job'[Core] = <<>>
      \/ ~rgb /\ job'[Core] = WriteEnable(1) /\ InitBacklight
  <2>0. Head(job[Core]) \in Ends
    BY <1>0, LastSteps
  <2>1. CASE DelTimer
    <3>1. Replaces(Core, <<>>)
      BY <2>1, LastSteps
    <3> QED
      BY <1>0, <2>0, <3>1, ReplacedFacts
  <2>2. CASE InitBacklight
    <3>1. \/ rgb /\ Replaces(Core, <<>>)
          \/ ~rgb /\ Replaces(Core, WriteEnable(1))
      BY <2>2, LastSteps
    <3>2. WriteEnable(1) \in Seq(Tasks)
      BY EnableLists
    <3>3. Replaces(Core, WriteEnable(1)) => job'[Core] = WriteEnable(1)
      BY <1>0, <2>0, <3>2, ReplacedFacts
    <3>4. Replaces(Core, <<>>) => job'[Core] = <<>>
      BY <1>0, <2>0, ReplacedFacts
    <3> QED
      BY <2>2, <3>1, <3>3, <3>4
  <2> QED
    BY <2>1, <2>2
<1>3. UNCHANGED <<rgb, phase, queued>> /\ (timer' => (rgb /\ InitBacklight) \/ timer)
  BY DEF InitBacklight, DelTimer, Fixed
<1>4. CheckOver
  BY <1>1 DEF CalmLists
<1>5. InitBacklight => phase = "probing"
  <2>1. InitBacklight => Do("init") \in All(job[Core])
    BY <1>0, <1>1, LastSteps, Heads
  <2> QED
    BY <2>1, CalmFacts
<1>6. ~CheckOver' => rgb' /\ phase' \in {"probing", "bound"} /\ job'[Core] = <<>>
  <2>1. job'[Work] = <<>> /\ ~queued /\ ~timer
    BY <1>0, <1>1, <1>4 DEF CheckOver, Idle
  <2>2. ~CheckOver' => timer'
    BY <1>3, <2>1 DEF CheckOver, Idle
  <2>3. ~CheckOver' => rgb /\ InitBacklight
    BY <1>3, <2>1, <2>2
  <2> QED
    BY <1>2, <1>3, <1>5, <2>3
<1>7. All(job'[Core]) \subseteq CoreTasks'
  <2>1. ASSUME ~rgb, job'[Core] = WriteEnable(1), InitBacklight
        PROVE  All(job'[Core]) \subseteq CoreTasks'
    BY <1>3, <1>5, <2>1, EnableLists DEF CoreTasks
  <2> QED
    BY <1>0, <1>2, <2>1
<1>8. Enable(0) \notin All(job'[Work])
  BY <1>0, <1>1 DEF CalmLists
<1>9. \A x \in Threads \ {Work, Core} : All(job'[x]) \cap (Enables \cup {Reset}) = {}
  BY <1>1 DEF CalmLists
<1> QED
  BY <1>6, <1>7, <1>8, <1>9 DEF CalmLists

\* Calm steps are steps.
LEMMA CalmIsNext == [CalmNext]_vars => [Next]_vars
BY DEF CalmNext, Next

\* Every calm step keeps it so.
LEMMA CalmListsNext == TypeInv /\ ListsInv /\ CalmLists /\ [CalmNext]_vars => CalmLists'
<1> SUFFICES ASSUME TypeInv, ListsInv, CalmLists, [CalmNext]_vars PROVE CalmLists'
  OBVIOUS
<1>1. ASSUME NEW t \in Threads, TaskStep(t) PROVE CalmLists'
  BY <1>1, CalmTask
<1>2. CASE TimerFires \/ WorkStarts \/ Check \/ Stop
  BY <1>2, CalmWork
<1>3. CASE (\E w \in Writers : WriteBrightness(w) \/ WriteColor(w)) \/ Level \/ AdapterChange
  BY <1>3, CalmInput
<1>4. CASE Probe \/ (CheckOver /\ Suspend) \/ Resume \/ (CheckOver /\ Remove) \/ CoreDone
  BY <1>4, CalmStart
<1>5. CASE InitBacklight \/ DelTimer
  BY <1>5, CalmEnd
<1>6. CASE Animate \/ LoseColor \/ UNCHANGED vars
  <2>1. UNCHANGED <<rgb, phase, onStart, timer, queued, job>>
    BY <1>6 DEF Animate, LoseColor, vars, Fixed, check
  <2>2. CoreTasks' = CoreTasks /\ CheckOver' = CheckOver
    BY <2>1 DEF CoreTasks, CheckOver, Idle
  <2> QED
    BY <2>1, <2>2 DEF CalmLists
<1>7. Work \in Threads
  BY ThreadFacts
<1> QED
  BY <1>1, <1>2, <1>3, <1>4, <1>5, <1>6, <1>7 DEF CalmNext, WorkStep, Others

-----------------------------------------------------------------------------
\* A step that leaves the backlight register and the goal alone and drops no
\* switch of it keeps the light as it was or will be.
LEMMA LightKept ==
  ASSUME LightInv, ram'["bl"] = ram["bl"], Goal' = Goal, Aimed' => Aimed,
         Enable(Goal) \in All(job[Work]) => Enable(Goal) \in All(job'[Work]),
         Enable(Goal) \in All(job[Core]) => Enable(Goal) \in All(job'[Core]),
         Do("init") \in All(job[Core]) => Do("init") \in All(job'[Core])
  PROVE  LightInv'
<1>1. CASE Aimed'
  <2>1. \/ Enabled(ram["bl"]) = Goal
        \/ \E t \in {Work, Core} : Enable(Goal) \in All(job[t])
        \/ Do("init") \in All(job[Core])
    BY <1>1 DEF LightInv
  <2>2. Enabled(ram["bl"])' = Enabled(ram["bl"]) /\ Enable(Goal)' = Enable(Goal)
    BY DEF Enabled, Enable
  <2>3. \/ Enabled(ram["bl"])' = Goal'
        \/ \E t \in {Work, Core} : Enable(Goal)' \in All(job'[t])
        \/ Do("init") \in All(job'[Core])
    BY <2>1, <2>2
  <2> QED
    BY <2>3 DEF LightInv
<1> QED
  BY <1>1 DEF LightInv

\* Task steps that do not switch the backlight,
LEMMA LightQuiet ==
  ASSUME TypeInv, ListsInv, LightInv, CalmLists, NEW t \in Threads, TaskStep(t),
         Head(job[t]) \notin Enables, Head(job[t]) # Reset
  PROVE  LightInv'
<1>0. /\ Work \in Threads /\ Core \in Threads /\ Do("init") \in Ends /\ "bl" \in Registers
      /\ \A e \in {0, 1} : Enable(e) \in Enables
  BY ThreadFacts, SomeTasks, ChannelFacts
<1>1. PICK u \in Seq(Tasks) : Replaces(t, u)
  BY TaskSteps, PaintingLists, Listed DEF TaskStep
<1>2. /\ All(job'[t]) = All(u) \cup Later(job[t]) /\ All(job[t]) = {Head(job[t])} \cup Later(job[t])
      /\ \A x \in Threads \ {t} : job'[x] = job[x]
  BY <1>1, ReplacedFacts DEF Replaces
<1>3. Goal \in {0, 1} /\ Enable(Goal) \in Enables
  BY <1>0, CalmFacts
<1>4. \A x \in Threads : Enable(Goal) \in All(job[x]) => Enable(Goal) \in All(job'[x])
  BY <1>2, <1>3
<1>5. UNCHANGED <<rgb, phase, onStart, lives, detected>> /\ (Do("init") \in All(job'[Core]) <=> Do("init") \in All(job[Core]))
  BY <1>0, TaskEnds
<1>6. ram'["bl"] = ram["bl"] /\ (~failed' => ~failed)
  <2>1. CASE ReadEc(t)
    <3>1. ram' = ram
      BY <2>1 DEF ReadEc
    <3>2. \E r : failed' = failed \/ Fault(r)
      BY <2>1 DEF ReadEc, Works
    <3>3. failed' = failed \/ \E r : failed' = (failed \/ r = "bl")
      BY <3>2 DEF Fault
    <3>4. failed \in BOOLEAN
      BY DEF TypeInv
    <3>5. ~failed' => ~failed
      BY <3>3, <3>4
    <3> QED
      BY <3>1, <3>5
  <2>2. CASE Paint(t)
    BY <2>2 DEF Paint
  <2>3. CASE WriteEc(t)
    <3>1. PICK k \in Paintings : k = Head(job[t]) /\ k.reg \in Channels /\ k.value \in Byte
      <4>1. Head(job[t]) \in Paintings
        BY <2>3, TaskSteps
      <4> QED
        BY <4>1, Numbers DEF Paintings
    <3>2. Put(k.reg, k.value) /\ k.reg \in Registers /\ k.reg # "bl"
      BY <2>3, <3>1, ChannelFacts DEF WriteEc
    <3> QED
      BY <1>0, <3>1, <3>2, PutFacts
  <2>4. ~EnableEc(t)
    BY TaskSteps
  <2> QED
    BY <2>1, <2>2, <2>3, <2>4 DEF TaskStep
<1>7. Goal' = Goal /\ (Aimed' => Aimed)
  BY <1>5, <1>6 DEF Goal, Aimed
<1> QED
  BY <1>0, <1>4, <1>5, <1>6, <1>7, LightKept

\* the reset, which lights it, when it is to be lit,
LEMMA LightReset ==
  ASSUME TypeInv, ListsInv, CalmLists, NEW t \in Threads, WriteEc(t), Head(job[t]) = Reset
  PROVE  LightInv'
<1>0. Work \in Threads /\ Core \in Threads /\ "bl" \in Registers /\ ResetByte \in Byte
  BY ThreadFacts, ChannelFacts, Numbers
<1>1. Reset \in All(job[t]) /\ job[t] # <<>>
  BY TaskSteps, Heads DEF Replaces
<1>2. t \in {Work, Core}
  BY <1>1 DEF CalmLists
<1>3. phase \in {"probing", "bound", "resuming"}
  BY <1>1, <1>2, CalmFacts
<1>4. phase' = phase /\ onStart' = onStart
  BY DEF WriteEc, Fixed
<1>5. Goal' = 1
  BY <1>3, <1>4 DEF Goal
<1>6. Put("bl", ResetByte)
  BY DEF WriteEc, Reset, Write
<1>7. ~failed' => ram'["bl"] = ResetByte
  BY <1>0, <1>6, PutFacts
<1>8. Enabled(ResetByte) = 1
  <2>1. (16 \div 2) % 2 = 0
    OBVIOUS
  <2> QED
    BY <2>1 DEF Enabled, ResetByte
<1>9. Aimed' => ~failed'
  BY DEF Aimed
<1> QED
  BY <1>5, <1>7, <1>8, <1>9 DEF LightInv

\* and the switch, which is to the goal.
LEMMA LightSwitch ==
  ASSUME TypeInv, ListsInv, CalmLists, NEW t \in Threads, EnableEc(t)
  PROVE  LightInv'
<1>0. Work \in Threads /\ Core \in Threads /\ "bl" \in Registers
  BY ThreadFacts, ChannelFacts
<1>1. job[t] # <<>> /\ Head(job[t]) \in Enables
  BY TaskSteps DEF Replaces
<1>2. PICK e \in {0, 1} : Head(job[t]) = Enable(e) /\ e = Head(job[t]).value
  BY <1>1 DEF Enables, Enable
<1>3. Enable(e) \in All(job[t]) /\ t \in {Work, Core}
  BY <1>1, <1>2, Heads DEF CalmLists
<1>4. e = Goal
  BY <1>3, CalmFacts
<1>5. PICK b \in Byte : b = got[t]["bl"]
  BY <1>0 DEF TypeInv
<1>6. PICK v \in Byte : v = WithEnabled(b, e) /\ Enabled(v) = e
  BY EnableFacts
<1>7. Put("bl", v)
  BY <1>2, <1>5, <1>6 DEF EnableEc
<1>8. ~failed' => ram'["bl"] = v
  BY <1>0, <1>7, PutFacts
<1>9. Goal' = Goal
  BY DEF EnableEc, Fixed, Goal
<1>10. Aimed' => ~failed'
  BY DEF Aimed
<1> QED
  BY <1>4, <1>6, <1>8, <1>9, <1>10 DEF LightInv

\* The work item switches it on when it sets up,
LEMMA LightWork ==
  ASSUME TypeInv, ListsInv, CalmLists, LightInv, TimerFires \/ WorkStarts \/ Check \/ Stop
  PROVE  LightInv'
<1>0. /\ Work \in Threads /\ Core \in Threads /\ Core # Work /\ <<>> \in Seq(Tasks)
      /\ Do("check") \in Ends /\ Do("stop") \in Ends /\ Ends \cap Enables = {}
      /\ All(<<>>) = {} /\ (\A e \in {0, 1} : Enable(e) \in Enables) /\ Goal \in {0, 1}
  BY ThreadFacts, SomeTasks, Listed, CalmFacts
<1>1. UNCHANGED <<rgb, phase, onStart, lives, failed, ram>>
  BY DEF TimerFires, WorkStarts, Check, Stop, Fixed, seen
<1>2. Goal' = Goal
  BY <1>1 DEF Goal
<1>3. ASSUME detected' = detected, job'[Core] = job[Core],
             Enable(Goal) \in All(job[Work]) => Enable(Goal) \in All(job'[Work])
      PROVE  LightInv'
  <2>1. Aimed' => Aimed
    BY <1>1, <1>3 DEF Aimed
  <2> QED
    BY <1>1, <1>2, <1>3, <2>1, LightKept
<1>4. CASE TimerFires
  BY <1>3, <1>4 DEF TimerFires, seen
<1>5. CASE WorkStarts
  <2>1. All(job[Work]) = {} /\ job'[Core] = job[Core]
    BY <1>0, <1>5, FirstSteps DEF Given
  <2> QED
    BY <1>3, <1>5, <2>1 DEF WorkStarts, seen
<1>6. CASE Stop
  <2>1. Head(job[Work]) = Do("stop") /\ Replaces(Work, <<>>)
    BY <1>6, LastSteps
  <2>2. Later(job[Work]) = {} /\ All(job[Work]) = {Head(job[Work])} \cup Later(job[Work])
    BY <1>0, <2>1, ReplacedFacts
  <2>3. Enable(Goal) \notin All(job[Work])
    BY <1>0, <2>1, <2>2
  <2>4. job'[Core] = job[Core]
    BY <1>0, <2>1 DEF Replaces
  <2> QED
    BY <1>3, <1>6, <2>3, <2>4 DEF Stop, seen
<1>7. CASE Check
  <2>1. Head(job[Work]) = Do("check") /\ job[Work] # <<>>
    BY <1>7, CheckSteps
  <2>2. CASE Replaces(Work, SetupList)
    <3>1. job'[Work] = SetupList
      BY <1>0, <2>1, <2>2, SetupLists, ReplacedFacts
    <3>2. Enable(1) \in All(job'[Work])
      BY <3>1, SetupLists
    <3>3. Goal = 1
      <4>1. phase \in {"probing", "bound"}
        BY <2>1, CalmFacts
      <4> QED
        BY <4>1 DEF Goal
    <3>4. Enable(Goal)' = Enable(1)
      BY <1>2, <3>3 DEF Enable
    <3> QED
      BY <3>2, <3>4 DEF LightInv
  <2>3. CASE Replaces(Work, <<>>) /\ detected' = detected
    <3>1. Later(job[Work]) = {} /\ All(job[Work]) = {Head(job[Work])} \cup Later(job[Work])
      BY <1>0, <2>1, <2>3, ReplacedFacts
    <3>2. Enable(Goal) \notin All(job[Work])
      BY <1>0, <2>1, <3>1
    <3>3. job'[Core] = job[Core]
      BY <1>0, <2>3 DEF Replaces
    <3> QED
      BY <1>3, <2>3, <3>2, <3>3
  <2> QED
    BY <1>7, <2>2, <2>3, CheckSteps
<1> QED
  BY <1>4, <1>5, <1>6, <1>7

\* the driver core switches it to the goal of the phase it begins,
LEMMA LightStart ==
  ASSUME TypeInv, ListsInv, CalmLists, LightInv, Probe \/ Suspend \/ Resume \/ Remove
  PROVE  LightInv'
<1>0. Work \in Threads /\ Core \in Threads
  BY ThreadFacts
<1>1. CASE Probe
  <2>1. job'[Core] = ProbeList
    BY <1>1, FirstSteps DEF Given
  <2>2. Do("init") \in All(job'[Core])
    BY <2>1, ProbeLists
  <2> QED
    BY <2>2 DEF LightInv
<1>2. CASE Suspend \/ Resume \/ Remove
  <2>1. Enable(Goal') \in All(job'[Core])
    <3>1. CASE Suspend
      <4>1. job'[Core] = WriteEnable(0) /\ phase' = "suspending"
        BY <3>1, FirstSteps DEF Given, Suspend, Enter
      <4>2. Goal' = 0
        BY <4>1 DEF Goal
      <4> QED
        BY <4>1, <4>2, EnableLists
    <3>2. CASE Resume
      <4>1. job'[Core] \in {InitSet, WriteEnable(1)} /\ phase' = "resuming"
        BY <3>2, FirstSteps DEF Given, Resume, Enter
      <4>2. Goal' = 1
        BY <4>1 DEF Goal
      <4>3. Enable(1) \in All(InitSet) /\ Enable(1) \in All(WriteEnable(1))
        BY InitSetLists, EnableLists
      <4> QED
        BY <4>1, <4>2, <4>3
    <3>3. CASE Remove
      <4>1. job'[Core] = RemoveList /\ phase' = "removing" /\ onStart' = onStart
        BY <3>3, FirstSteps DEF Given, Remove, Enter
      <4>2. Goal' = onStart
        BY <4>1 DEF Goal
      <4> QED
        BY <4>1, <4>2, PowerLists
    <3> QED
      BY <1>2, <3>1, <3>2, <3>3
  <2>2. Enable(Goal)' = Enable(Goal')
    BY DEF Enable
  <2> QED
    BY <2>1, <2>2 DEF LightInv
<1> QED
  BY <1>1, <1>2

\* and keeps it until it begins another, but for a probe that leaves the
\* setup to the work item.
LEMMA LightEnd ==
  ASSUME TypeInv, ListsInv, CalmLists, LightInv, InitInv, InitBacklight \/ DelTimer \/ CoreDone
  PROVE  LightInv'
<1>0. /\ Work \in Threads /\ Core \in Threads /\ Core # Work /\ <<>> \in Seq(Tasks)
      /\ Do("init") \in Ends /\ Do("deltimer") \in Ends /\ Ends \cap Enables = {}
      /\ Do("init") # Do("deltimer")
      /\ (\A e \in {0, 1} : Enable(e) \in Enables) /\ Goal \in {0, 1}
  BY ThreadFacts, SomeTasks, Listed, Kinds, CalmFacts
<1>1. CASE InitBacklight
  <2>1. Head(job[Core]) = Do("init") /\ job[Core] # <<>>
    BY <1>1, LastSteps DEF Replaces
  <2>2. Do("init") \in All(job[Core])
    BY <1>0, <2>1, Heads
  <2>3. phase = "probing" /\ UNCHANGED <<phase, rgb, detected>>
    BY <1>1, <2>2, CalmFacts DEF InitBacklight
  <2>4. CASE rgb
    <3>1. ~Aimed'
      BY <2>2, <2>3, <2>4 DEF InitInv, Aimed
    <3> QED
      BY <3>1 DEF LightInv
  <2>5. CASE ~rgb
    <3>1. Replaces(Core, WriteEnable(1)) /\ WriteEnable(1) \in Seq(Tasks)
      BY <1>1, <2>5, LastSteps, EnableLists
    <3>2. job'[Core] = WriteEnable(1)
      BY <1>0, <2>1, <3>1, ReplacedFacts
    <3>3. Goal' = 1
      BY <2>3 DEF Goal
    <3>4. Enable(Goal)' = Enable(1)
      BY <3>3 DEF Enable
    <3> QED
      BY <3>2, <3>4, EnableLists DEF LightInv
  <2> QED
    BY <2>4, <2>5
<1>2. CASE DelTimer
  <2>1. Head(job[Core]) = Do("deltimer") /\ Replaces(Core, <<>>)
    BY <1>2, LastSteps
  <2>2. Later(job[Core]) = {} /\ All(job[Core]) = {Head(job[Core])} \cup Later(job[Core])
    BY <1>0, <2>1, ReplacedFacts
  <2>3. Enable(Goal) \notin All(job[Core]) /\ Do("init") \notin All(job[Core])
    BY <1>0, <2>1, <2>2
  <2>4. job'[Work] = job[Work]
    BY <1>0, <2>1 DEF Replaces
  <2>5. UNCHANGED <<rgb, phase, onStart, lives, failed, detected, ram>>
    BY <1>2 DEF DelTimer, Fixed, seen
  <2>6. Goal' = Goal /\ (Aimed' => Aimed)
    BY <2>5 DEF Goal, Aimed
  <2> QED
    BY <2>3, <2>4, <2>5, <2>6, LightKept
<1>3. CASE CoreDone
  <2>1. UNCHANGED <<rgb, onStart, lives, failed, detected, ram, job>>
    BY <1>3 DEF CoreDone, seen
  <2>2. \/ phase \in {"probing", "resuming"} /\ phase' = "bound"
        \/ phase = "suspending" /\ phase' = "asleep"
        \/ phase = "removing" /\ phase' = "out"
    BY <1>3 DEF CoreDone
  <2>3. Goal' = Goal /\ (Aimed' => Aimed)
    BY <2>1, <2>2 DEF Goal, Aimed
  <2> QED
    BY <2>1, <2>3, LightKept
<1> QED
  BY <1>1, <1>2, <1>3

\* Every calm step keeps what is known of the light,
LEMMA LightNext ==
  TypeInv /\ ListsInv /\ CalmInv /\ [CalmNext]_vars => LightInv'
<1> SUFFICES ASSUME TypeInv, ListsInv, CalmInv, [CalmNext]_vars PROVE LightInv'
  OBVIOUS
<1>0. CalmLists /\ LightInv /\ InitInv /\ Work \in Threads /\ Core \in Threads /\ Core # Work
  BY ThreadFacts DEF CalmInv
<1>1. ASSUME NEW t \in Threads, TaskStep(t) PROVE LightInv'
  <2>1. CASE EnableEc(t)
    BY <1>0, <2>1, LightSwitch
  <2>2. CASE WriteEc(t) /\ Head(job[t]) = Reset
    BY <1>0, <2>2, LightReset
  <2>3. CASE Head(job[t]) \notin Enables /\ Head(job[t]) # Reset
    BY <1>0, <1>1, <2>3, LightQuiet
  <2>4. /\ ReadEc(t) \/ Paint(t) => Head(job[t]) \notin Enables /\ Head(job[t]) # Reset
        /\ WriteEc(t) /\ Head(job[t]) # Reset => Head(job[t]) \notin Enables
    BY TaskSteps, SomeTasks, Kinds
  <2> QED
    BY <1>1, <2>1, <2>2, <2>3, <2>4 DEF TaskStep
<1>2. CASE TimerFires \/ WorkStarts \/ Check \/ Stop
  BY <1>0, <1>2, LightWork
<1>3. CASE Probe \/ Suspend \/ Resume \/ Remove
  BY <1>0, <1>3, LightStart
<1>4. CASE InitBacklight \/ DelTimer \/ CoreDone
  BY <1>0, <1>4, LightEnd
<1>5. CASE (\E w \in Writers : WriteBrightness(w) \/ WriteColor(w)) \/ Level \/ AdapterChange
  <2>1. PICK t \in Threads \ {Core, Work} : Given(t, PaintList)
    BY <1>5, FirstSteps, ThreadFacts
  <2>2. job'[Core] = job[Core] /\ job'[Work] = job[Work]
    BY <1>0, <2>1 DEF Given
  <2>3. UNCHANGED <<rgb, phase, onStart, lives, failed, detected, ram>>
    BY <1>5 DEF WriteBrightness, WriteColor, Level, AdapterChange, Fixed, seen
  <2>4. Goal' = Goal /\ (Aimed' => Aimed)
    BY <2>3 DEF Goal, Aimed
  <2> QED
    BY <1>0, <2>2, <2>3, <2>4, LightKept
<1>6. CASE Animate \/ LoseColor \/ UNCHANGED vars
  <2>1. UNCHANGED <<rgb, phase, onStart, lives, failed, detected, job>>
    BY <1>6 DEF Animate, LoseColor, vars, Fixed, check, seen
  <2>2. ram'["bl"] = ram["bl"]
    <3>1. CASE Animate \/ LoseColor
      <4>1. PICK f : ram' = Colored(f)
        BY <3>1 DEF Animate, LoseColor
      <4> QED
        BY <4>1, ChannelFacts DEF Colored
    <3>2. CASE UNCHANGED vars
      BY <3>2 DEF vars
    <3> QED
      BY <1>6, <3>1, <3>2
  <2>3. Goal' = Goal /\ (Aimed' => Aimed)
    BY <2>1 DEF Goal, Aimed
  <2> QED
    BY <1>0, <2>1, <2>2, <2>3, LightKept
<1> QED
  BY <1>0, <1>1, <1>2, <1>3, <1>4, <1>5, <1>6 DEF CalmNext, WorkStep, Others

\* and that nothing is detected before the parameters are set.
LEMMA InitInvNext ==
  TypeInv /\ ListsInv /\ CalmInv /\ [CalmNext]_vars => InitInv'
<1> SUFFICES ASSUME TypeInv, ListsInv, CalmInv, [CalmNext]_vars, rgb', Do("init") \in All(job'[Core])
             PROVE  ~detected'
  BY DEF InitInv
<1>0. /\ CalmLists /\ InitInv /\ Work \in Threads /\ Core \in Threads /\ Core # Work
      /\ Do("init") \in Ends
  BY ThreadFacts, SomeTasks DEF CalmInv
<1>1. CASE Probe
  BY <1>1 DEF Probe
<1>2. CASE ~Probe
  <2>1. [Next]_vars
    BY CalmIsNext
  <2>2. Do("init") \in All(job[Core])
    <3>1. ASSUME NEW t \in Threads, TaskStep(t) PROVE Do("init") \in All(job[Core])
      BY <1>0, <3>1, TaskEnds
    <3>2. ASSUME WorkStarts \/ Check \/ Stop PROVE Do("init") \in All(job[Core])
      <4>1. job'[Core] = job[Core]
        BY <1>0, <3>2, FirstSteps, CheckSteps, LastSteps DEF Given, Replaces
      <4> QED
        BY <4>1
    <3>3. ASSUME (\E w \in Writers : WriteBrightness(w) \/ WriteColor(w)) \/ Level \/ AdapterChange
          PROVE  Do("init") \in All(job[Core])
      <4>1. PICK t \in Threads \ {Core, Work} : Given(t, PaintList)
        BY <3>3, FirstSteps, ThreadFacts
      <4>2. job'[Core] = job[Core]
        BY <1>0, <4>1 DEF Given
      <4> QED
        BY <4>2
    <3>4. ~(Suspend \/ Resume \/ Remove)
      <4>1. ASSUME Suspend \/ Resume \/ Remove PROVE FALSE
        <5>1. PICK u \in {WriteEnable(0), WriteEnable(1), InitSet, RemoveList} : Given(Core, u)
          BY <4>1, FirstSteps
        <5>2. onStart \in {0, 1}
          BY DEF TypeInv
        <5>3. Do("init") \notin Reads \cup Enables \cup {Reset, Do("paint"), Do("deltimer")}
          BY SomeTasks, Kinds
        <5>4. All(u) \subseteq Reads \cup Enables \cup {Reset, Do("paint"), Do("deltimer")}
          BY <5>1, <5>2, SomeTasks, EnableLists, InitSetLists, PowerLists
        <5> QED
          BY <5>1, <5>3, <5>4 DEF Given
      <4> QED
        BY <4>1
    <3>5. ~(InitBacklight \/ DelTimer)
      <4>1. ASSUME InitBacklight \/ DelTimer PROVE FALSE
        <5>1. Head(job[Core]) \in Ends
          BY <4>1, LastSteps, SomeTasks
        <5>2. PICK u \in Seq(Tasks) : Replaces(Core, u) /\ Do("init") \notin All(u)
          <6>1. Replaces(Core, <<>>) \/ Replaces(Core, WriteEnable(1))
            BY <4>1, LastSteps
          <6>2. <<>> \in Seq(Tasks) /\ Do("init") \notin All(<<>>)
            BY Listed
          <6>3. WriteEnable(1) \in Seq(Tasks) /\ Do("init") \notin All(WriteEnable(1))
            BY EnableLists, SomeTasks
          <6> QED
            BY <6>1, <6>2, <6>3
        <5>3. job'[Core] = u
          BY <1>0, <5>1, <5>2, ReplacedFacts
        <5> QED
          BY <5>2, <5>3
      <4> QED
        BY <4>1
    <3>6. ASSUME TimerFires \/ Animate \/ LoseColor \/ CoreDone \/ UNCHANGED vars
          PROVE  Do("init") \in All(job[Core])
      <4>1. job' = job
        BY <3>6 DEF TimerFires, Animate, LoseColor, CoreDone, vars
      <4> QED
        BY <4>1
    <3> QED
      BY <1>0, <1>2, <2>1, <3>1, <3>2, <3>3, <3>4, <3>5, <3>6 DEF Next, WorkStep, Others
  <2>3. rgb' = rgb
    <3>1. ASSUME NEW t \in Threads, TaskStep(t) PROVE rgb' = rgb
      BY <3>1, TaskEnds
    <3>2. ASSUME TimerFires \/ WorkStarts \/ Check \/ Stop \/ Animate \/ LoseColor PROVE rgb' = rgb
      BY <3>2 DEF TimerFires, WorkStarts, Check, Stop, Animate, LoseColor, Fixed
    <3>3. ASSUME (\E w \in Writers : WriteBrightness(w) \/ WriteColor(w)) \/ Level \/ AdapterChange
          PROVE  rgb' = rgb
      BY <3>3 DEF WriteBrightness, WriteColor, Level, AdapterChange, Fixed
    <3>4. ASSUME Suspend \/ Resume \/ Remove \/ InitBacklight \/ DelTimer \/ CoreDone \/ UNCHANGED vars
          PROVE  rgb' = rgb
      BY <3>4 DEF Suspend, Resume, Remove, Enter, InitBacklight, DelTimer, CoreDone, Fixed, vars
    <3> QED
      BY <1>0, <1>2, <2>1, <3>1, <3>2, <3>3, <3>4 DEF Next, WorkStep, Others
  <2>4. ~detected
    BY <1>0, <2>2, <2>3 DEF InitInv
  <2>5. ~Check
    <3>1. job[Core] # <<>>
      BY <2>2, Listed
    <3>2. job[Work] = <<>>
      BY <1>0, <3>1, CalmFacts
    <3> QED
      BY <3>2, CheckSteps
  <2> QED
    BY <2>1, <2>4, <2>5, DetectedBy
<1> QED
  BY <1>1, <1>2

\* Together they are kept.
LEMMA CalmInvNext == TypeInv /\ ListsInv /\ CalmInv /\ [CalmNext]_vars => CalmInv'
BY CalmListsNext, LightNext, InitInvNext DEF CalmInv

\* The driver starts calm: it is out, and nothing is under way.
LEMMA CalmInit == Init => CalmInv
<1> SUFFICES ASSUME Init PROVE CalmInv
  OBVIOUS
<1>1. timer = FALSE /\ queued = FALSE /\ lives = 0 /\ phase = "out"
  BY SMT DEF Init
<1>2. \A t \in Threads : job[t] = <<>>
  BY SMT DEF Init
<1>3. \A t \in Threads : All(job[t]) = {}
  BY <1>2, Listed
<1>4. Work \in Threads /\ Core \in Threads
  BY ThreadFacts
<1>5. CalmLists
  BY <1>1, <1>2, <1>3, <1>4 DEF CalmLists, CheckOver, Idle
<1>6. LightInv
  BY <1>1 DEF LightInv, Aimed
<1>7. InitInv
  BY <1>3, <1>4 DEF InitInv
<1> QED
  BY <1>5, <1>6, <1>7 DEF CalmInv

\* The invariants of calm behaviors.
LEMMA CalmAlways == CalmSpec => [](TypeInv /\ ListsInv /\ CalmInv)
<1>1. CalmSpec => Spec
  BY CalmIsNext, PTL DEF CalmSpec, Spec
<1>2. Spec => []TypeInv
  BY TypeInit, TypeNext, PTL DEF Spec
<1>3. Spec => []ListsInv
  BY <1>2, ListsInit, ListsNext, PTL DEF Spec
<1>4. CalmSpec => []CalmInv
  BY <1>1, <1>2, <1>3, CalmInit, CalmInvNext, PTL DEF CalmSpec
<1> QED
  BY <1>1, <1>2, <1>3, <1>4, PTL

\* When no operation of the driver core and no boot check is under way, the
\* register holds the goal.
LEMMA LightParts == TypeInv /\ CalmInv => LitWhenReady /\ DarkAsleep /\ RestoresEnableState
<1> SUFFICES ASSUME TypeInv, CalmInv PROVE LitWhenReady /\ DarkAsleep /\ RestoresEnableState
  OBVIOUS
<1>1. CalmLists /\ LightInv
  BY DEF CalmInv
<1>2. ASSUME phase \in {"bound", "asleep", "out"}, CheckOver, Aimed
      PROVE  Enabled(ram["bl"]) = Goal
  <2>1. All(job[Core]) = {}
    <3>1. CoreTasks = {}
      BY <1>2 DEF CoreTasks
    <3> QED
      BY <1>1, <3>1 DEF CalmLists
  <2>2. All(job[Work]) = {}
    BY <1>2, Listed DEF CheckOver, Idle
  <2> QED
    BY <1>1, <1>2, <2>1, <2>2 DEF LightInv
<1>3. phase \in {"asleep", "out"} => CheckOver
  BY <1>1 DEF CalmLists
<1>4. LitWhenReady
  BY <1>2 DEF LitWhenReady, Goal, Aimed
<1>5. DarkAsleep
  BY <1>2, <1>3 DEF DarkAsleep, Goal, Aimed
<1>6. RestoresEnableState
  BY <1>2, <1>3 DEF RestoresEnableState, Goal, Aimed
<1> QED
  BY <1>4, <1>5, <1>6

\* "uniwill_write_kbd_bl_enable(1)" of the probe, the setup and the resume:
\* while the driver core leaves the boot check its time and no access to the
\* register fails, the keyboard is lit once the driver serves it, whatever
\* other threads do to the register's color meanwhile.
THEOREM LitOnceReady == CalmSpec => []LitWhenReady
BY CalmAlways, LightParts, PTL

\* "uniwill_write_kbd_bl_enable(0)" of the suspend: likewise, the keyboard is
\* dark until the machine wakes.
THEOREM DarkWhileAsleep == CalmSpec => []DarkAsleep
BY CalmAlways, LightParts, PTL

\* "Restore previous backlight enable state" of the removal: likewise, the
\* keyboard is lit afterwards exactly if it was when the driver came.
THEOREM EnableStateRestored == CalmSpec => []RestoresEnableState
BY CalmAlways, LightParts, PTL

=============================================================================
