------------------------- MODULE ClevoKeyboardProofs -------------------------
(***************************************************************************)
(* Proofs about ClevoKeyboard for every set of writers, numbers, colors,   *)
(* parameters and regions.  While operations follow one another            *)
(* (SerialSpec), what the driver caches is what the firmware was last told,*)
(* and after probe, sleep and resume the firmware gets the cached settings *)
(* back, the light last.                                                   *)
(***************************************************************************)
EXTENDS ClevoKeyboard, TaskLists

\* What a field of kbd_led_state may hold.
Values(f) ==
  CASE f \in Regions -> Nat
    [] f = "pattern" -> 0..PatternCount - 1
    [] f = "brightness" -> Byte
    [] f \in {"enabled", "has_extra"} -> {0, 1}
    [] f = "whole" -> 0..Len(Palette) - 1

\* The tasks: with a value at hand, with one to be taken from the cache, the
\* number of a hot key's color to be noted, and the two halves of the probe.
Ready  == {k \in [do : {"keep", "show", "put"}, field : Settings, value : Nat] :
             k.value \in Values(k.field)}
Loads  == [do : {"keep", "show"},
           field : Settings \cup {"left", "center", "right", "extra"}, value : {Cached}]
Notes  == [do : {"put"}, field : {"whole"}, value : 0..Len(Palette) - 1]
Probes == [do : {"probe", "init"}, params : Params]
Tasks  == Ready \cup Loads \cup Notes \cup Probes

\* The type invariant, of the lists of tasks too.
TypeInv ==
  /\ led \in [Fields -> Nat] /\ \A f \in Fields : led[f] \in Values(f)
  /\ fw \in [Settings -> Nat] /\ sure \subseteq Settings /\ failed \in BOOLEAN
  /\ phase \in {"probing", "up", "suspending", "asleep", "resuming"}
  /\ job \in [Threads -> Seq(Tasks)]

\* The tasks that light or darken the keyboard.
Lights == {k \in Tasks : k.do \in {"keep", "show", "put"} /\ k.field = "enabled"}

\* What a thread may have waiting behind its next task: a value at hand waits
\* only behind a hot key's colors.
Waiting(t) ==
  Loads \cup Probes \cup
    (IF t = Core THEN {} ELSE Notes \cup {k \in Ready : k.do = "keep" /\ k.field \in Regions})

\* Every list waits like that, and the light comes last in it.
JobsInv == \A t \in Threads :
  /\ Later(job[t]) \subseteq Waiting(t)
  /\ LastOnly(job[t], Lights)
  /\ All(job[t]) \cap Probes # {} => t = Core /\ phase = "probing"

\* The parameters of the probe are still to be taken over.
InitPending == All(job[Core]) \cap Probes # {}

\* s is the second half of the probe and what follows it.
InitFirst(s, p) ==
  s # <<>> /\ Head(s) = [do |-> "init", params |-> p] /\ Tail(s) = WriteState

\* The probe has shown the extra region its color, or is about to.
Booting(s, p) ==
  \/ InitFirst(s, p)
  \/ /\ s # <<>> /\ InitFirst(Tail(s), p)
     /\ Head(s) \in {[do |-> "probe", params |-> p], Show("extra", p.color["extra"])}

\* The probe's list is the one it began with, or the rest of it.
BootInv ==
  /\ InitPending => \E p \in Params : Booting(job[Core], p)
  /\ Task(Core, {"probe"}) => sure = {}

\* A value to be cached is what the firmware has just been told; one that is
\* sent again is still the cached one; mode 0 brings the colors with it.
HeadOK(t, h) ==
  /\ h.do = "put" /\ h.field \in Settings =>
       h.field \in sure /\ fw[h.field] = Shown(h.field, h.value)
  /\ h.do = "show" /\ h.value # Cached /\ ~InitPending /\ phase # "suspending"
       => h.value = led[h.field]
  /\ h.do \in {"keep", "put"} /\ h.field = "pattern" /\ h.value = 0
       => \A r \in Regions : Show(r, Cached) \in Later(job[t])
  /\ t = Core /\ phase # "probing" /\ h.do \in {"keep", "put"} /\ h.value # Cached
       => h.value = led[h.field]

\* All threads' next tasks are like that.
HeadInv == \A t \in Threads : job[t] # <<>> => HeadOK(t, Head(job[t]))

\* A setting the firmware knows is the cached one, or about to be cached.
CacheInv == \A f \in sure :
  \/ Agrees(f)
  \/ \E t \in Threads : job[t] # <<>> /\ Head(job[t]).do = "put" /\ Head(job[t]).field = f

\* Task k will tell the firmware setting f.
Serves(k, f) ==
  \/ k.do = "keep" /\ k.field = f
  \/ k.do = "show" /\ k.field = f /\ k.value \in {Cached, led[f]}
  \/ f \in Regions /\ k = Keep("pattern", Cached)

\* Some thread has such a task left.
Pending(f) == \E t \in Threads : \E k \in All(job[t]) : Serves(k, f)

\* Unless a call failed, a setting the firmware may have lost is on its way.
RestoredInv ==
  ~failed /\ ~InitPending /\ phase \notin {"suspending", "asleep"}
    => \A f \in Visible : f \in sure \/ Pending(f)

\* The inductive invariant of SerialSpec.
SerialInv == TypeInv /\ Serial /\ JobsInv /\ BootInv /\ HeadInv /\ CacheInv /\ RestoredInv
-----------------------------------------------------------------------------
\* The fields and their values.
LEMMA FieldFacts ==
  /\ Regions \subseteq {"left", "center", "right", "extra"} /\ "extra" \in Regions
  /\ Regions \cap {"pattern", "brightness", "enabled", "has_extra", "whole"} = {}
  /\ "has_extra" \notin Settings /\ "whole" \notin Settings /\ Settings \subseteq Fields
  /\ \A r \in Regions : Values(r) = Nat
  /\ Values("pattern") = 0..PatternCount - 1 /\ Values("brightness") = Byte
  /\ Values("enabled") = {0, 1} /\ Values("has_extra") = {0, 1}
  /\ Values("whole") = 0..Len(Palette) - 1
  /\ Cached \notin Nat
<1>1. /\ Regions \subseteq {"left", "center", "right", "extra"} /\ "extra" \in Regions
      /\ Regions \cap {"pattern", "brightness", "enabled", "has_extra", "whole"} = {}
  <2>1. Regions \subseteq {"left", "center", "right", "extra"} /\ "extra" \in Regions
    BY ConstantsAssumption
  <2>2. {"left", "center", "right", "extra"}
          \cap {"pattern", "brightness", "enabled", "has_extra", "whole"} = {}
    OBVIOUS
  <2> QED
    BY <2>1, <2>2
<1>2. "has_extra" \notin Settings /\ "whole" \notin Settings /\ Settings \subseteq Fields
  BY <1>1 DEF Settings, Fields
<1>3. ASSUME NEW r \in Regions PROVE Values(r) = Nat
  <2>1. r \notin {"pattern", "brightness", "enabled", "has_extra", "whole"}
    BY <1>1
  <2> QED
    BY <2>1 DEF Values
<1>4. /\ Values("pattern") = 0..PatternCount - 1 /\ Values("brightness") = Byte
      /\ Values("enabled") = {0, 1} /\ Values("has_extra") = {0, 1}
      /\ Values("whole") = 0..Len(Palette) - 1
  BY <1>1 DEF Values
<1>5. Cached \notin Nat
  BY DEF Cached
<1> QED
  BY <1>1, <1>2, <1>3, <1>4, <1>5

\* The values are numbers; a byte, the palette and the patterns are not empty.
LEMMA ValueFacts ==
  /\ \A f \in Fields : Values(f) \subseteq Nat
  /\ 255 \in Byte /\ Len(Palette) \in Nat \ {0} /\ PatternCount \in 1..256
<1>1. Len(Palette) \in Nat \ {0} /\ PatternCount \in 1..256
  <2>1. Palette \in Seq(Nat) /\ Len(Palette) > 0 /\ PatternCount \in 1..256
    BY ConstantsAssumption
  <2> QED
    BY <2>1
<1>2. 255 \in Byte
  BY DEF Byte
<1>3. ASSUME NEW f \in Fields PROVE Values(f) \subseteq Nat
  <2>1. 0..PatternCount - 1 \subseteq Nat /\ Byte \subseteq Nat /\ {0, 1} \subseteq Nat
        /\ 0..Len(Palette) - 1 \subseteq Nat
    BY <1>1 DEF Byte
  <2>2. \/ f \in Regions
        \/ f \in {"pattern", "brightness", "enabled", "has_extra", "whole"}
    BY DEF Fields, Settings
  <2> QED
    BY <2>1, <2>2, FieldFacts
<1> QED
  BY <1>1, <1>2, <1>3

\* What is known of a task of each kind.
LEMMA TaskFacts ==
  ASSUME NEW k \in Tasks
  PROVE  /\ k.do \in {"keep", "show", "put", "probe", "init"}
         /\ k.do \in {"keep", "show"} /\ k.value = Cached => k \in Loads
         /\ k.do \in {"keep", "show"} /\ k.value # Cached
              => k.field \in Settings /\ k.value \in Nat /\ k.value \in Values(k.field)
         /\ k.do = "put" => k.field \in Settings \cup {"whole"} /\ k.value \in Nat
                           /\ k.value \in Values(k.field)
         /\ k.do \in {"probe", "init"} <=> k \in Probes
         /\ k \in Loads => k.do \in {"keep", "show"} /\ k.value = Cached
<1>1. Values("whole") = 0..Len(Palette) - 1 /\ 0..Len(Palette) - 1 \subseteq Nat
      /\ Cached \notin Nat
  BY FieldFacts, ValueFacts
<1>2. CASE k \in Ready
  BY <1>1, <1>2 DEF Ready, Probes, Loads
<1>3. CASE k \in Loads
  BY <1>1, <1>3 DEF Loads, Probes
<1>4. CASE k \in Notes
  BY <1>1, <1>4 DEF Notes, Probes, Loads
<1>5. CASE k \in Probes
  BY <1>5 DEF Probes, Loads
<1> QED
  BY <1>2, <1>3, <1>4, <1>5 DEF Tasks

\* The tasks the driver writes down are tasks.
LEMMA TaskSets ==
  /\ \A f \in Settings : \A v \in Values(f) :
       Keep(f, v) \in Ready /\ Show(f, v) \in Ready /\ Put(f, v) \in Ready
  /\ \A f \in Settings : Keep(f, Cached) \in Loads
  /\ \A f \in {"left", "center", "right", "extra"} : Show(f, Cached) \in Loads
  /\ \A n \in 0..Len(Palette) - 1 : Put("whole", n) \in Notes
  /\ \A p \in Params : [do |-> "probe", params |-> p] \in Probes
                      /\ [do |-> "init", params |-> p] \in Probes
<1>1. \A f \in Settings : Values(f) \subseteq Nat
  BY ValueFacts, FieldFacts
<1>2. ASSUME NEW f \in Settings, NEW v \in Values(f)
      PROVE  Keep(f, v) \in Ready /\ Show(f, v) \in Ready /\ Put(f, v) \in Ready
  BY <1>1 DEF Ready, Keep, Show, Put
<1> QED
  BY <1>2 DEF Loads, Notes, Probes, Keep, Show, Put
-----------------------------------------------------------------------------
\* The invariant is stronger than the type invariant TLC checks.
LEMMA TypeParts == TypeInv => TypeOK
<1>1. {"pattern", "brightness", "enabled", "has_extra", "whole"} \subseteq Fields
  BY DEF Fields, Settings
<1> QED
  BY <1>1, FieldFacts DEF TypeInv, TypeOK

\* set_mode's list: the pattern, and with mode 0 every region's color.
LEMMA PatternLists ==
  ASSUME NEW p \in Values("pattern")
  PROVE  /\ SetPattern(p) \in Seq(Tasks) /\ SetPattern(p) # <<>>
         /\ Head(SetPattern(p)) = Keep("pattern", p)
         /\ Later(SetPattern(p)) \subseteq {k \in Loads : k.do = "show" /\ k.field # "enabled"}
         /\ p = 0 => \A r \in Regions : Show(r, Cached) \in Later(SetPattern(p))
<1> DEFINE shows == [i \in DOMAIN RegionOrder |-> Show(RegionOrder[i], Cached)]
           rest  == IF p = 0 THEN shows ELSE <<>>
<1>1. /\ DOMAIN RegionOrder = 1..4 /\ RegionOrder[1] = "left" /\ RegionOrder[2] = "center"
      /\ RegionOrder[3] = "right" /\ RegionOrder[4] = "extra"
  BY DEF RegionOrder
<1>2. \A i \in 1..4 : RegionOrder[i] \in {"left", "center", "right", "extra"}
  <2>1. \A i \in 1..4 : i = 1 \/ i = 2 \/ i = 3 \/ i = 4
    OBVIOUS
  <2> QED
    BY <1>1, <2>1
<1>3. shows \in Seq(Loads) /\ Len(shows) = 4 /\ DOMAIN shows = 1..4
      /\ \A i \in 1..4 : shows[i] = Show(RegionOrder[i], Cached)
  <2>1. \A i \in 1..4 : Show(RegionOrder[i], Cached) \in Loads
    BY <1>2, TaskSets
  <2>2. shows \in [1..4 -> Loads]
    BY <1>1, <2>1
  <2>3. shows \in Seq(Loads)
    BY <2>2, IsASeq
  <2> QED
    BY <1>1, <2>2, <2>3
<1> HIDE DEF shows
<1>4. All(shows) \subseteq {k \in Loads : k.do = "show" /\ k.field # "enabled"}
  <2>1. ASSUME NEW i \in 1..4
        PROVE  /\ shows[i] \in Loads /\ shows[i].do = "show"
               /\ shows[i].field \in {"left", "center", "right", "extra"}
    BY <1>2, <1>3, TaskSets DEF Show
  <2> QED
    BY <1>3, <2>1 DEF All
<1>5. ASSUME NEW r \in Regions PROVE Show(r, Cached) \in All(shows)
  <2>1. r \in {"left", "center", "right", "extra"}
    BY FieldFacts
  <2>2. PICK i \in 1..4 : RegionOrder[i] = r
    <3>1. 1 \in 1..4 /\ 2 \in 1..4 /\ 3 \in 1..4 /\ 4 \in 1..4
      OBVIOUS
    <3> QED
      BY <1>1, <2>1, <3>1
  <2> QED
    BY <1>3, <2>2 DEF All
<1>6. /\ rest \in Seq(Tasks)
      /\ All(rest) \subseteq {k \in Loads : k.do = "show" /\ k.field # "enabled"}
      /\ p = 0 => \A r \in Regions : Show(r, Cached) \in All(rest)
  <2>1. CASE p = 0
    <3>1. shows \in Seq(Tasks)
      BY <1>3 DEF Tasks
    <3> QED
      BY <2>1, <3>1, <1>4, <1>5
  <2>2. CASE p # 0
    BY <2>2, Listed
  <2> QED
    BY <2>1, <2>2
<1>7. Keep("pattern", p) \in Tasks
  BY TaskSets DEF Tasks, Settings
<1> DEFINE first == <<Keep("pattern", p)>>
<1>8. /\ first \in Seq(Tasks) /\ first # <<>> /\ Head(first) = Keep("pattern", p)
      /\ Later(first) = {}
  BY <1>7, Listed
<1> HIDE DEF rest, first
<1>9. /\ first \o rest \in Seq(Tasks) /\ first \o rest # <<>>
      /\ Head(first \o rest) = Keep("pattern", p) /\ Later(first \o rest) = All(rest)
  <2>1. first \in Seq(Tasks) /\ rest \in Seq(Tasks) /\ first # <<>>
    BY <1>6, <1>8
  <2>2. /\ first \o rest \in Seq(Tasks) /\ first \o rest # <<>>
        /\ Head(first \o rest) = Head(first)
        /\ Later(first \o rest) = Later(first) \cup All(rest)
    BY <2>1, Joined
  <2> QED
    BY <2>2, <1>8
<1>10. SetPattern(p) = first \o rest
  BY DEF SetPattern, first, rest, shows
<1> QED
  BY <1>6, <1>9, <1>10

\* The lists of set_kbd_led_state (write_kbd_led_state) and of the suspend.
LEMMA StateLists ==
  /\ WriteState \in Seq(Tasks) /\ WriteState # <<>>
  /\ All(WriteState) = {Keep("pattern", Cached), Keep("brightness", Cached), Keep("enabled", Cached)}
  /\ Head(WriteState) = Keep("pattern", Cached) /\ LastOnly(WriteState, Lights)
  /\ All(WriteState) \subseteq Loads /\ Later(WriteState) \subseteq Loads
  /\ Darken \in Seq(Tasks) /\ Darken # <<>> /\ Head(Darken) = Show("enabled", 0)
  /\ All(Darken) = {Show("enabled", 0)} /\ Later(Darken) = {}
<1>1. /\ Keep("pattern", Cached) \in Loads /\ Keep("brightness", Cached) \in Loads
      /\ Keep("enabled", Cached) \in Loads /\ Show("enabled", 0) \in Ready
  BY TaskSets, FieldFacts DEF Settings
<1>2. Loads \subseteq Tasks /\ Ready \subseteq Tasks
  BY DEF Tasks
<1>3. LastOnly(WriteState, Lights)
  <2>1. /\ Len(WriteState) = 3 /\ WriteState[1] = Keep("pattern", Cached)
        /\ WriteState[2] = Keep("brightness", Cached)
    BY DEF WriteState
  <2>2. \A i \in 1..3 - 1 : i = 1 \/ i = 2
    OBVIOUS
  <2> QED
    BY <2>1, <2>2 DEF LastOnly, Lights, Keep
<1>4. /\ WriteState \in Seq(Tasks) /\ WriteState # <<>>
      /\ All(WriteState) = {Keep("pattern", Cached), Keep("brightness", Cached), Keep("enabled", Cached)}
      /\ Head(WriteState) = Keep("pattern", Cached)
      /\ Later(WriteState) = {Keep("brightness", Cached), Keep("enabled", Cached)}
  <2> DEFINE a == Keep("pattern", Cached)
             b == Keep("brightness", Cached)
             c == Keep("enabled", Cached)
  <2>1. a \in Tasks /\ b \in Tasks /\ c \in Tasks /\ WriteState = <<a, b, c>>
    BY <1>1, <1>2 DEF WriteState
  <2>3. WriteState = Triple(a, b, c)
    BY <2>1 DEF Triple
  <2> HIDE DEF a, b, c
  <2>2. /\ WriteState \in Seq(Tasks) /\ WriteState # <<>> /\ All(WriteState) = {a, b, c}
        /\ Head(WriteState) = a /\ Later(WriteState) = {b, c}
    <3>1. WriteState \in Seq(Tasks)
      BY <2>1
    <3> QED
      BY <2>3, <3>1, Threes
  <2> QED
    BY <2>2 DEF a, b, c
<1>5. /\ Darken \in Seq(Tasks) /\ Darken # <<>> /\ Head(Darken) = Show("enabled", 0)
      /\ All(Darken) = {Show("enabled", 0)} /\ Later(Darken) = {}
  <2>1. Show("enabled", 0) \in Tasks
    BY <1>1, <1>2
  <2> QED
    BY <2>1, Listed DEF Darken
<1> QED
  BY <1>1, <1>3, <1>4, <1>5
-----------------------------------------------------------------------------
\* A thread's first task is replaced; no other thread's list changes.
LEMMA BecomesFacts ==
  ASSUME TypeInv, NEW t \in Threads, job[t] # <<>>, NEW u \in Seq(Tasks), Becomes(t, u)
  PROVE  /\ job' \in [Threads -> Seq(Tasks)] /\ job'[t] = u \o Tail(job[t])
         /\ \A x \in Threads \ {t} : job'[x] = job[x]
<1>1. job \in [Threads -> Seq(Tasks)]
  BY DEF TypeInv
<1>2. u \o Tail(job[t]) \in Seq(Tasks)
  BY <1>1, Replaced
<1> QED
  BY <1>1, <1>2 DEF Becomes

\* A list is given to one thread.
LEMMA StartFacts ==
  ASSUME TypeInv, NEW t \in Threads, NEW u \in Seq(Tasks), job' = [job EXCEPT ![t] = u]
  PROVE  /\ job' \in [Threads -> Seq(Tasks)] /\ job'[t] = u
         /\ \A x \in Threads \ {t} : job'[x] = job[x]
BY DEF TypeInv

\* The next task of a busy thread is a task of its list.
LEMMA Heads ==
  ASSUME TypeInv, NEW t \in Threads, job[t] # <<>>
  PROVE  job[t] \in Seq(Tasks) /\ Head(job[t]) \in Tasks /\ Head(job[t]) \in All(job[t])
<1>1. job[t] \in Seq(Tasks)
  BY DEF TypeInv
<1> QED
  BY <1>1, ListParts

\* The driver core, the events and the writers are different threads.
LEMMA ThreadFacts ==
  /\ Core \in Threads /\ Event \in Threads /\ Writers \subseteq Threads
  /\ Core # Event /\ Core \notin Writers /\ Event \notin Writers
BY ConstantsAssumption DEF Threads, Core, Event

\* What a task that reads the cache is replaced with.
Loaded(h) ==
  CASE h.field \notin Settings                      -> <<>>
    [] h.field = "extra" /\ led["has_extra"] # 1    -> <<>>
    [] h.field = "pattern"                          -> SetPattern(led[h.field])
    [] OTHER -> <<[h EXCEPT !.value = led[h.field]]>>

\* What can come in place of a task that takes its value from the cache.
LEMMA LoadedFacts ==
  ASSUME TypeInv, NEW h \in Loads
  PROVE  \/ Loaded(h) = <<>> /\ (h.field \notin Settings \/ (h.field = "extra" /\ led["has_extra"] # 1))
         \/ h.field = "pattern" /\ Loaded(h) = SetPattern(led["pattern"])
         \/ /\ h.field \in Settings \ {"pattern"}
            /\ Loaded(h) = <<[do |-> h.do, field |-> h.field, value |-> led[h.field]]>>
            /\ [do |-> h.do, field |-> h.field, value |-> led[h.field]] \in Ready
<1>1. CASE h.field \notin Settings
  <2>1. h.field # "pattern" /\ h.field # "extra"
    BY <1>1, FieldFacts DEF Settings
  <2> QED
    BY <1>1, <2>1 DEF Loaded
<1>2. CASE h.field = "extra" /\ led["has_extra"] # 1
  BY <1>2, FieldFacts DEF Loaded, Settings
<1>3. CASE h.field = "pattern"
  BY <1>3, FieldFacts DEF Loaded, Settings
<1>4. CASE /\ h.field \in Settings \ {"pattern"}
           /\ ~(h.field = "extra" /\ led["has_extra"] # 1)
  <2>1. Loaded(h) = <<[h EXCEPT !.value = led[h.field]]>>
    BY <1>4 DEF Loaded
  <2>2. h = [do |-> h.do, field |-> h.field, value |-> h.value] /\ h.do \in {"keep", "show"}
    BY DEF Loads
  <2>3. [h EXCEPT !.value = led[h.field]] = [do |-> h.do, field |-> h.field, value |-> led[h.field]]
    BY <2>2
  <2>4. led[h.field] \in Values(h.field) /\ led[h.field] \in Nat
    BY <1>4, FieldFacts DEF TypeInv
  <2>5. [do |-> h.do, field |-> h.field, value |-> led[h.field]] \in Ready
    BY <1>4, <2>2, <2>4 DEF Ready
  <2> QED
    BY <1>4, <2>1, <2>3, <2>5
<1> QED
  BY <1>1, <1>2, <1>3, <1>4

\* A number from outside, clamped, is in range.
LEMMA ClampFacts ==
  ASSUME NEW n \in Nat, NEW max \in 0..255
  PROVE  Clamp8(n, max) \in 0..max
<1>1. n % 256 \in 0..255
  OBVIOUS
<1> QED
  BY <1>1 DEF Clamp8

\* The list with which a hot key sends the next color.
Stroke(r, c) == IF r \in Regions THEN <<Keep(r, c)>> ELSE <<>>
Strokes(c, n) ==
  Stroke("left", c) \o Stroke("center", c) \o Stroke("right", c) \o Stroke("extra", c)
    \o <<Put("whole", n)>>

\* A hot key's list has the colors of regions and the number to note.
LEMMA StrokesFacts ==
  ASSUME NEW c \in Nat, NEW n \in 0..Len(Palette) - 1
  PROVE  /\ Strokes(c, n) \in Seq(Tasks) /\ Strokes(c, n) # <<>>
         /\ All(Strokes(c, n)) \subseteq Notes \cup {k \in Ready : k.do = "keep" /\ k.field \in Regions}
         /\ Later(Strokes(c, n)) \subseteq Notes \cup {k \in Ready : k.do = "keep" /\ k.field \in Regions}
<1> DEFINE Ks == Notes \cup {k \in Ready : k.do = "keep" /\ k.field \in Regions}
           a == Stroke("left", c)  b == Stroke("center", c)
           d == Stroke("right", c) e == Stroke("extra", c)
           f == <<Put("whole", n)>>
<1>1. ASSUME NEW r PROVE Stroke(r, c) \in Seq(Ks)
  <2>1. CASE r \in Regions
    <3>1. r \in Settings /\ c \in Values(r)
      BY <2>1, FieldFacts DEF Settings
    <3>2. Keep(r, c) \in Ready /\ Keep(r, c).do = "keep" /\ Keep(r, c).field = r
      BY <3>1, TaskSets DEF Keep
    <3>3. Keep(r, c) \in Ks
      BY <2>1, <3>2
    <3> HIDE DEF Ks
    <3> QED
      BY <2>1, <3>3, Listed DEF Stroke
  <2>2. CASE r \notin Regions
    BY <2>2, Listed DEF Stroke
  <2> QED
    BY <2>1, <2>2
<1>2. f \in Seq(Ks) /\ f # <<>> /\ Len(f) = 1
  <2>1. Put("whole", n) \in Ks
    BY TaskSets
  <2> QED
    BY <2>1
<1>3. a \in Seq(Ks) /\ b \in Seq(Ks) /\ d \in Seq(Ks) /\ e \in Seq(Ks)
  BY <1>1
<1> HIDE DEF Ks, a, b, d, e, f
<1>4. a \o b \in Seq(Ks)
  BY <1>3, Joined
<1>5. (a \o b) \o d \in Seq(Ks)
  BY <1>3, <1>4, Joined
<1>6. ((a \o b) \o d) \o e \in Seq(Ks)
  BY <1>3, <1>5, Joined
<1> DEFINE g == ((a \o b) \o d) \o e
           s == g \o f
<1>7. g \in Seq(Ks)
  BY <1>6
<1> HIDE DEF g
<1>8. s \in Seq(Ks) /\ Len(s) = Len(g) + Len(f) /\ Len(g) \in Nat
  <2>1. f \in Seq(Ks)
    BY <1>2
  <2>2. s \in Seq(Ks) /\ Len(s) = Len(g) + Len(f)
    BY <2>1, <1>7, Joined
  <2> QED
    BY <2>2, <1>7, LenProperties
<1>9. s # <<>>
  BY <1>2, <1>8
<1> HIDE DEF s
<1>10. All(s) \subseteq Ks /\ Later(s) \subseteq Ks
  BY <1>8, <1>9, ListParts
<1>11. Ks \subseteq Tasks
  BY DEF Ks, Tasks
<1>12. s \in Seq(Tasks)
  BY <1>8, <1>11
<1>13. Strokes(c, n) = s
  BY DEF Strokes, s, g, a, b, d, e, f
<1> QED
  BY <1>9, <1>10, <1>12, <1>13 DEF Ks

-----------------------------------------------------------------------------
\* Initially everything has its type.
LEMMA TypeInit == Init => TypeInv
<1> SUFFICES ASSUME Init PROVE TypeInv
  OBVIOUS
<1>1. led \in [Fields -> Nat] /\ \A f \in Fields : led[f] \in Values(f)
  <2>1. ASSUME NEW f \in Fields
        PROVE  led[f] \in Values(f)
    <3>1. CASE f \in Regions
      <4>1. led[f] = White
        BY <3>1, FieldFacts DEF Init
      <4> QED
        BY <3>1, <4>1, FieldFacts DEF White
    <3>2. CASE f = "brightness"
      <4>1. led[f] = BrightnessMax
        BY <3>2, FieldFacts DEF Init
      <4> QED
        BY <3>2, <4>1, FieldFacts, ValueFacts DEF BrightnessMax
    <3>3. CASE f = "enabled"
      <4>1. led[f] = 1
        BY <3>3, FieldFacts DEF Init
      <4> QED
        BY <3>3, <4>1, FieldFacts
    <3>4. CASE f = "whole"
      <4>1. led[f] = Len(Palette) - 1
        BY <3>4, FieldFacts DEF Init
      <4>2. Len(Palette) - 1 \in 0..Len(Palette) - 1
        BY ValueFacts
      <4> QED
        BY <3>4, <4>1, <4>2, FieldFacts
    <3>5. CASE f = "pattern" \/ f = "has_extra"
      <4>1. led[f] = 0
        BY <3>5, FieldFacts DEF Init
      <4>2. 0 \in 0..PatternCount - 1
        BY ValueFacts
      <4> QED
        BY <3>5, <4>1, <4>2, FieldFacts
    <3> QED
      BY <3>1, <3>2, <3>3, <3>4, <3>5 DEF Fields, Settings
  <2>2. led = [f \in Fields |-> led[f]]
    BY DEF Init
  <2>3. \A f \in Fields : led[f] \in Nat
    BY <2>1, ValueFacts
  <2> QED
    BY <2>1, <2>2, <2>3
<1>2. fw \in [Settings -> Nat]
  BY <1>1, FieldFacts DEF Init
<1>3. job \in [Threads -> Seq(Tasks)]
  <2>1. PICK p \in Params :
          job = [t \in Threads |->
                   IF t = Core
                   THEN <<[do |-> "probe", params |-> p], [do |-> "init", params |-> p]>>
                          \o WriteState
                   ELSE <<>>]
    BY DEF Init
  <2> DEFINE u == <<[do |-> "probe", params |-> p], [do |-> "init", params |-> p]>>
  <2>2. u \in Seq(Tasks)
    BY TaskSets, Listed DEF Tasks
  <2> HIDE DEF u
  <2>3. u \o WriteState \in Seq(Tasks)
    BY <2>2, StateLists, Joined
  <2> QED
    BY <2>1, <2>3, Listed DEF u
<1> QED
  BY <1>1, <1>2, <1>3 DEF Init, TypeInv

\* Loading, calling the firmware, failing and caching keep the types.
LEMMA CallsType ==
  ASSUME TypeInv, NEW t \in Threads, Load(t) \/ Call(t) \/ CallFails(t) \/ Store(t)
  PROVE  TypeInv'
<1> DEFINE h == Head(job[t])
<1>1. ASSUME job[t] # <<>> PROVE h \in Tasks
  BY <1>1, Heads
<1>2. CASE Load(t)
  <2>1. job[t] # <<>> /\ h \in Loads /\ Becomes(t, Loaded(h))
    BY <1>1, <1>2, TaskFacts DEF Load, Task, Loaded
  <2>2. Loaded(h) \in Seq(Tasks)
    <3>1. CASE Loaded(h) = <<>>
      BY <3>1, Listed
    <3>2. CASE Loaded(h) = SetPattern(led["pattern"])
      <4>1. led["pattern"] \in Values("pattern")
        BY FieldFacts DEF TypeInv, Fields, Settings
      <4> QED
        BY <3>2, <4>1, PatternLists
    <3>3. CASE \E k \in Ready : Loaded(h) = <<k>>
      <4>1. PICK k \in Ready : Loaded(h) = <<k>>
        BY <3>3
      <4>2. k \in Tasks
        BY DEF Tasks
      <4> QED
        BY <4>1, <4>2, Listed
    <3> QED
      BY <2>1, <3>1, <3>2, <3>3, LoadedFacts
  <2>3. job' \in [Threads -> Seq(Tasks)]
    BY <2>1, <2>2, BecomesFacts
  <2> QED
    BY <1>2, <2>3 DEF Load, TypeInv
<1>3. CASE Call(t)
  <2>1. /\ job[t] # <<>> /\ h.field \in Settings /\ h.value \in Nat
        /\ h.value \in Values(h.field)
    BY <1>1, <1>3, TaskFacts DEF Call, Task
  <2>2. Put(h.field, h.value) \in Tasks
    BY <2>1, TaskSets DEF Tasks
  <2>3. (IF h.do = "keep" THEN <<Put(h.field, h.value)>> ELSE <<>>) \in Seq(Tasks)
    BY <2>2, Listed
  <2>4. job' \in [Threads -> Seq(Tasks)]
    BY <1>3, <2>1, <2>3, BecomesFacts DEF Call
  <2>5. fw' \in [Settings -> Nat]
    <3>1. Shown(h.field, h.value) \in Nat
      BY <2>1 DEF Shown
    <3> QED
      BY <1>3, <2>1, <3>1 DEF Call, Takes, TypeInv
  <2>6. sure' \subseteq Settings
    BY <1>3, <2>1 DEF Call, Takes, TypeInv
  <2> QED
    BY <1>3, <2>4, <2>5, <2>6 DEF Call, TypeInv
<1>4. CASE CallFails(t)
  <2>1. job' \in [Threads -> Seq(Tasks)]
    BY <1>4, Listed, BecomesFacts DEF CallFails, Task
  <2>2. h.field \in Settings /\ h.value \in Nat
    BY <1>1, <1>4, TaskFacts DEF CallFails, Task
  <2>3. fw' \in [Settings -> Nat] /\ sure' \subseteq Settings
    <3>1. Shown(h.field, h.value) \in Nat
      BY <2>2 DEF Shown
    <3> QED
      BY <1>4, <2>2, <3>1 DEF CallFails, Takes, TypeInv
  <2> QED
    BY <1>4, <2>1, <2>3 DEF CallFails, TypeInv
<1>5. CASE Store(t)
  <2>1. job[t] # <<>> /\ h.field \in Fields /\ h.value \in Nat /\ h.value \in Values(h.field)
    BY <1>1, <1>5, TaskFacts DEF Store, Task, Fields
  <2>2. job' \in [Threads -> Seq(Tasks)]
    BY <1>5, <2>1, Listed, BecomesFacts DEF Store
  <2>3. led' = [led EXCEPT ![h.field] = h.value]
    BY <1>5 DEF Store
  <2> HIDE DEF h
  <2>4. led' \in [Fields -> Nat] /\ \A f \in Fields : led'[f] \in Values(f)
    BY <2>1, <2>3 DEF TypeInv
  <2> QED
    BY <1>5, <2>2, <2>4 DEF Store, TypeInv
<1> QED
  BY <1>2, <1>3, <1>4, <1>5

\* Both halves of the probe keep them.
LEMMA ProbeType ==
  ASSUME TypeInv, ProbeExtra \/ InitState
  PROVE  TypeInv'
<1> DEFINE h == Head(job[Core])
<1>1. job[Core] # <<>> /\ h \in Probes
  <2>1. job[Core] # <<>> /\ h.do \in {"probe", "init"}
    BY DEF ProbeExtra, InitState, Task
  <2> QED
    BY <2>1, ThreadFacts, Heads, TaskFacts
<1>2. h.params \in Params
  BY <1>1 DEF Probes
<1>3. /\ h.params.color \in [Regions -> Nat] /\ h.params.pattern \in 0..PatternCount - 1
      /\ h.params.brightness \in 0..UShortMax /\ h.params.enabled \in {0, 1}
  BY <1>2, ConstantsAssumption
<1>4. CASE ProbeExtra
  <2>1. h.params.color["extra"] \in Nat /\ "extra" \in Settings /\ "has_extra" \in Fields
    BY <1>3, FieldFacts DEF Settings, Fields
  <2>2. Show("extra", h.params.color["extra"]) \in Tasks
    BY <2>1, TaskSets, FieldFacts DEF Tasks
  <2>3. job' \in [Threads -> Seq(Tasks)]
    BY <1>1, <1>4, <2>2, ThreadFacts, Listed, BecomesFacts DEF ProbeExtra
  <2>4. fw' \in [Settings -> Nat]
    BY <1>4, <2>1 DEF ProbeExtra, TypeInv, White
  <2>5. led' \in [Fields -> Nat] /\ \A f \in Fields : led'[f] \in Values(f)
    <3>1. \E n \in {0, 1} : led' = [led EXCEPT !["has_extra"] = n]
      BY <1>4 DEF ProbeExtra
    <3> QED
      BY <2>1, <3>1, FieldFacts DEF TypeInv
  <2> QED
    BY <1>4, <2>3, <2>4, <2>5 DEF ProbeExtra, TypeInv
<1>5. CASE InitState
  <2>1. job' \in [Threads -> Seq(Tasks)]
    BY <1>1, <1>5, ThreadFacts, Listed, BecomesFacts DEF InitState
  <2>2. ASSUME NEW f \in Fields PROVE led'[f] \in Values(f)
    <3>1. CASE f \in Regions
      <4>1. led'[f] = h.params.color[f]
        BY <1>5, <3>1, FieldFacts DEF InitState
      <4> QED
        BY <1>3, <3>1, <4>1, FieldFacts
    <3>2. CASE f = "pattern"
      <4>1. led'[f] = h.params.pattern
        BY <1>5, <3>2, FieldFacts DEF InitState
      <4> QED
        BY <1>3, <3>2, <4>1, FieldFacts
    <3>3. CASE f = "brightness"
      <4>1. led'[f] = IF h.params.brightness > BrightnessMax THEN BrightnessMax
                      ELSE h.params.brightness
        BY <1>5, <3>3, FieldFacts DEF InitState
      <4> DEFINE b == h.params.brightness
      <4>2. b \in Nat
        <5>1. UShortMax \in Nat
          BY DEF UShortMax
        <5>2. b \in 0..UShortMax
          BY <1>3
        <5> HIDE DEF b
        <5> QED
          BY <5>1, <5>2
      <4>3. led'[f] = IF b > 255 THEN 255 ELSE b
        BY <4>1 DEF BrightnessMax
      <4> HIDE DEF b
      <4>4. led'[f] \in 0..255
        BY <4>2, <4>3
      <4> QED
        BY <3>3, <4>4, FieldFacts DEF Byte
    <3>4. CASE f = "enabled"
      <4>1. led'[f] = h.params.enabled
        BY <1>5, <3>4, FieldFacts DEF InitState
      <4> QED
        BY <1>3, <3>4, <4>1, FieldFacts
    <3>5. CASE f = "has_extra" \/ f = "whole"
      <4>1. led'[f] = led[f]
        BY <1>5, <3>5, FieldFacts DEF InitState
      <4> QED
        BY <4>1 DEF TypeInv
    <3> QED
      BY <3>1, <3>2, <3>3, <3>4, <3>5 DEF Fields, Settings
  <2>3. led' \in [Fields -> Nat]
    <3>1. led' = [f \in Fields |-> led'[f]]
      BY <1>5 DEF InitState
    <3> QED
      BY <2>2, <3>1, ValueFacts
  <2> QED
    BY <1>5, <2>1, <2>2, <2>3 DEF InitState, TypeInv
<1> QED
  BY <1>4, <1>5

\* Starting an operation keeps them.
LEMMA StartsType ==
  ASSUME TypeInv, NEW t \in Threads, NEW u \in Seq(Tasks), Start(t, u)
  PROVE  TypeInv'
BY DEF Start, TypeInv

\* The lists that sysfs writes and hot keys start with.
LEMMA Written ==
  ASSUME TypeInv, NEW w \in Writers,
         WriteBrightness(w) \/ WriteEnabled(w) \/ WriteMode(w) \/ WriteColor(w)
  PROVE  Awake /\ \/ \E f \in Settings \ {"pattern"} : \E v \in Values(f) : Start(w, <<Keep(f, v)>>)
                  \/ \E p \in Values("pattern") : Start(w, SetPattern(p))
<1>0. /\ Numbers \subseteq Nat /\ Codes \subseteq Nat
      /\ {"brightness", "enabled"} \subseteq Settings \ {"pattern"}
      /\ Regions \subseteq Settings \ {"pattern"}
  BY ConstantsAssumption, FieldFacts DEF Settings
<1>1. CASE WriteBrightness(w)
  <2>1. Awake /\ \E n \in Numbers : Start(w, <<Keep("brightness", Clamp8(n, BrightnessMax))>>)
    BY <1>1 DEF WriteBrightness
  <2>2. PICK n \in Numbers : Start(w, <<Keep("brightness", Clamp8(n, BrightnessMax))>>)
    BY <2>1
  <2>3. PICK v : v = Clamp8(n, BrightnessMax)
    OBVIOUS
  <2>4. n \in Nat /\ BrightnessMax \in 0..255 /\ BrightnessMax = 255 /\ Values("brightness") = 0..255
    BY <1>0, FieldFacts DEF BrightnessMax, Byte
  <2>5. v \in Values("brightness")
    <3>1. v \in 0..BrightnessMax
      BY <2>3, <2>4, ClampFacts
    <3> QED
      BY <2>4, <3>1
  <2>6. \E f \in Settings \ {"pattern"} : \E x \in Values(f) : Start(w, <<Keep(f, x)>>)
    BY <1>0, <2>2, <2>3, <2>5
  <2> QED
    BY <2>1, <2>6
<1>2. CASE WriteEnabled(w)
  <2>1. PICK n \in Numbers : Start(w, <<Keep("enabled", Clamp8(n, 1))>>)
    BY <1>2 DEF WriteEnabled
  <2>2. Clamp8(n, 1) \in 0..1 /\ 0..1 = {0, 1}
    <3>1. n \in Nat /\ 1 \in 0..255 /\ 0..1 = {0, 1}
      BY <1>0
    <3> QED
      BY <3>1, ClampFacts
  <2>3. Clamp8(n, 1) \in Values("enabled")
    BY <2>2, FieldFacts
  <2>4. \E f \in Settings \ {"pattern"} : \E x \in Values(f) : Start(w, <<Keep(f, x)>>)
    BY <1>0, <2>1, <2>3
  <2>5. Awake
    BY <1>2 DEF WriteEnabled
  <2> QED
    BY <2>4, <2>5
<1>3. CASE WriteMode(w)
  <2>1. PICK n \in Numbers : Start(w, SetPattern(Clamp8(n, PatternCount - 1)))
    BY <1>3 DEF WriteMode
  <2>2. PatternCount - 1 \in 0..255
    BY ValueFacts
  <2>3. Clamp8(n, PatternCount - 1) \in Values("pattern")
    BY <1>0, <2>2, ClampFacts, FieldFacts
  <2> QED
    BY <1>3, <2>1, <2>3 DEF WriteMode
<1>4. CASE WriteColor(w)
  <2>1. PICK r \in Regions, c \in Codes : Start(w, <<Keep(r, c)>>)
    BY <1>4 DEF WriteColor
  <2>2. c \in Values(r)
    BY <1>0, FieldFacts
  <2> QED
    BY <1>0, <1>4, <2>1, <2>2 DEF WriteColor
<1> QED
  BY <1>1, <1>2, <1>3, <1>4

\* The lists that the hot keys start with.
LEMMA Pressed ==
  ASSUME TypeInv, Dim \/ Brighten \/ Toggle \/ NextColor
  PROVE  \/ \E f \in Settings \ {"pattern"} : \E v \in Values(f) : Start(Event, <<Keep(f, v)>>)
         \/ \E c \in Nat, n \in 0..Len(Palette) - 1 : Start(Event, Strokes(c, n))
<1>0. /\ {"brightness", "enabled"} \subseteq Settings \ {"pattern"}
      /\ led["brightness"] \in Byte /\ led["enabled"] \in {0, 1}
      /\ led["whole"] \in 0..Len(Palette) - 1
  BY FieldFacts DEF Settings, Fields, TypeInv
<1>1. ASSUME NEW b \in Byte
      PROVE  /\ (IF b - BrightnessStep < 0 THEN 0 ELSE b - BrightnessStep) \in Byte
             /\ (IF b + BrightnessStep > BrightnessMax THEN BrightnessMax
                 ELSE b + BrightnessStep) \in Byte
  <2>1. BrightnessStep \in 1..255
    BY ConstantsAssumption DEF BrightnessMax
  <2> QED
    BY <2>1 DEF Byte, BrightnessMax
<1>2. CASE Dim
  <2> DEFINE b == led["brightness"]
             v == IF b - BrightnessStep < 0 THEN 0 ELSE b - BrightnessStep
  <2>1. Start(Event, <<Keep("brightness", v)>>)
    BY <1>2 DEF Dim
  <2>2. v \in Values("brightness")
    BY <1>0, <1>1, FieldFacts
  <2> HIDE DEF v
  <2> QED
    BY <1>0, <2>1, <2>2
<1>3. CASE Brighten
  <2> DEFINE b == led["brightness"]
             v == IF b + BrightnessStep > BrightnessMax THEN BrightnessMax ELSE b + BrightnessStep
  <2>1. Start(Event, <<Keep("brightness", v)>>)
    BY <1>3 DEF Brighten
  <2>2. v \in Values("brightness")
    BY <1>0, <1>1, FieldFacts
  <2> HIDE DEF v
  <2> QED
    BY <1>0, <2>1, <2>2
<1>4. CASE Toggle
  <2> DEFINE v == IF led["enabled"] = 0 THEN 1 ELSE 0
  <2>1. Start(Event, <<Keep("enabled", v)>>)
    BY <1>4 DEF Toggle
  <2>2. v \in Values("enabled")
    BY FieldFacts
  <2> HIDE DEF v
  <2> QED
    BY <1>0, <2>1, <2>2
<1>5. CASE NextColor
  <2> DEFINE next == IF led["whole"] + 1 >= Len(Palette) THEN 0 ELSE led["whole"] + 1
  <2>1. Start(Event, Strokes(Palette[next + 1], next))
    BY <1>5 DEF NextColor, Strokes, Stroke
  <2>2. next \in 0..Len(Palette) - 1
    BY <1>0, ValueFacts
  <2>3. Palette[next + 1] \in Nat
    <3>1. Palette \in Seq(Nat) /\ next + 1 \in 1..Len(Palette)
      BY <2>2, ValueFacts, ConstantsAssumption
    <3> HIDE DEF next
    <3> QED
      BY <3>1
  <2> HIDE DEF next
  <2> QED
    BY <2>1, <2>2, <2>3
<1> QED
  BY <1>2, <1>3, <1>4, <1>5

\* The driver core keeps them.
LEMMA PowerType ==
  ASSUME TypeInv, ProbeDone \/ Suspend \/ Sleep \/ Resume \/ ResumeDone
  PROVE  TypeInv'
<1>1. CASE ProbeDone \/ ResumeDone
  BY <1>1 DEF ProbeDone, ResumeDone, TypeInv
<1>2. CASE Suspend
  <2>1. job' \in [Threads -> Seq(Tasks)]
    BY <1>2, StateLists, ThreadFacts, StartFacts DEF Suspend
  <2> QED
    BY <1>2, <2>1 DEF Suspend, TypeInv
<1>3. CASE Resume
  <2>1. job' \in [Threads -> Seq(Tasks)]
    BY <1>3, StateLists, ThreadFacts, StartFacts DEF Resume
  <2> QED
    BY <1>3, <2>1 DEF Resume, TypeInv
<1>4. CASE Sleep
  <2>1. fw' \in [Settings -> Nat] /\ sure' \subseteq Settings
    <3>1. CASE UNCHANGED <<fw, sure>>
      BY <3>1 DEF TypeInv
    <3>2. CASE /\ fw' = [f \in Settings |->
                            CASE f \in Regions      -> White
                              [] f = "brightness" -> BrightnessMax
                              [] f = "pattern"    -> 0
                              [] OTHER            -> fw[f]]
               /\ sure' = {}
      <4>1. ASSUME NEW f \in Settings PROVE fw'[f] \in Nat
        <5>1. CASE f \in Regions
          BY <3>2, <5>1, FieldFacts DEF White
        <5>2. CASE f \notin Regions
          BY <3>2, <5>2, FieldFacts DEF TypeInv, Settings, BrightnessMax
        <5> QED
          BY <5>1, <5>2
      <4>2. fw' = [f \in Settings |-> fw'[f]]
        BY <3>2
      <4> QED
        BY <3>2, <4>1, <4>2
    <3> QED
      BY <1>4, <3>1, <3>2 DEF Sleep
  <2> QED
    BY <1>4, <2>1 DEF Sleep, TypeInv
<1> QED
  BY <1>1, <1>2, <1>3, <1>4

\* Every step keeps them.
LEMMA TypeNext == TypeInv /\ [Next]_vars => TypeInv'
<1> SUFFICES ASSUME TypeInv, [Next]_vars PROVE TypeInv'
  OBVIOUS
<1>1. CASE \E t \in Threads : Load(t) \/ Call(t) \/ CallFails(t) \/ Store(t)
  BY <1>1, CallsType
<1>2. CASE ProbeExtra \/ InitState
  BY <1>2, ProbeType
<1>3. CASE \E w \in Writers : \/ WriteBrightness(w) \/ WriteEnabled(w)
                              \/ WriteMode(w) \/ WriteColor(w)
  <2>1. PICK w \in Writers : \/ WriteBrightness(w) \/ WriteEnabled(w)
                             \/ WriteMode(w) \/ WriteColor(w)
    BY <1>3
  <2>2. w \in Threads
    BY ThreadFacts
  <2>3. CASE \E f \in Settings \ {"pattern"} : \E v \in Values(f) : Start(w, <<Keep(f, v)>>)
    <3>0. PICK f \in Settings : \E v \in Values(f) : Start(w, <<Keep(f, v)>>)
      BY <2>3
    <3>1. PICK v \in Values(f) : Start(w, <<Keep(f, v)>>)
      BY <3>0
    <3>2. Keep(f, v) \in Tasks
      BY TaskSets DEF Tasks
    <3>3. <<Keep(f, v)>> \in Seq(Tasks)
      BY <3>2, Listed
    <3> QED
      BY <2>2, <3>1, <3>3, StartsType
  <2>4. CASE \E p \in Values("pattern") : Start(w, SetPattern(p))
    BY <2>2, <2>4, PatternLists, StartsType
  <2> QED
    BY <2>1, <2>3, <2>4, Written
<1>4. CASE Dim \/ Brighten \/ Toggle \/ NextColor
  <2>1. CASE \E f \in Settings \ {"pattern"} : \E v \in Values(f) : Start(Event, <<Keep(f, v)>>)
    <3>0. PICK f \in Settings : \E v \in Values(f) : Start(Event, <<Keep(f, v)>>)
      BY <2>1
    <3>1. PICK v \in Values(f) : Start(Event, <<Keep(f, v)>>)
      BY <3>0
    <3>2. Keep(f, v) \in Tasks
      BY TaskSets DEF Tasks
    <3>3. <<Keep(f, v)>> \in Seq(Tasks)
      BY <3>2, Listed
    <3> QED
      BY <3>1, <3>3, ThreadFacts, StartsType
  <2>2. CASE \E c \in Nat, n \in 0..Len(Palette) - 1 : Start(Event, Strokes(c, n))
    BY <2>2, ThreadFacts, StrokesFacts, StartsType
  <2> QED
    BY <1>4, <2>1, <2>2, Pressed
<1>5. CASE ProbeDone \/ Suspend \/ Sleep \/ Resume \/ ResumeDone
  BY <1>5, PowerType
<1>6. CASE UNCHANGED vars
  BY <1>6 DEF vars, TypeInv
<1> QED
  BY <1>1, <1>2, <1>3, <1>4, <1>5, <1>6 DEF Next

\* Every setting keeps its range: no pattern, brightness or color number that
\* clevo_keyboard.h indexes or sends can leave it, whatever the orders.
THEOREM TypeCorrect == Spec => []TypeOK
<1>1. Spec => []TypeInv
  BY TypeInit, TypeNext, PTL DEF Spec
<1> QED
  BY <1>1, TypeParts, PTL
-----------------------------------------------------------------------------
\* A waiting task has no value at hand, but for a hot key's colors.
LEMMA WaitingFacts ==
  ASSUME NEW t \in Threads, NEW k \in Waiting(t)
  PROVE  /\ k \in Tasks
         /\ k.do = "show" => k.value = Cached
         /\ k.do = "put" => k.field = "whole" /\ t # Core
         /\ k.do = "keep" => \/ k.value = Cached
                             \/ t # Core /\ k.field \in Regions
<1>1. CASE k \in Loads
  <2>1. k \in Tasks
    BY <1>1 DEF Tasks
  <2>2. k.do \in {"keep", "show"} /\ k.value = Cached
    BY <1>1, <2>1, TaskFacts
  <2>3. k.do # "put"
    BY <2>2
  <2> QED
    BY <2>1, <2>2, <2>3
<1>2. CASE k \in Probes
  BY <1>2 DEF Probes, Tasks
<1>3. CASE t # Core /\ k \in Notes
  BY <1>3 DEF Notes, Tasks
<1>4. CASE t # Core /\ k \in Ready /\ k.do = "keep" /\ k.field \in Regions
  BY <1>4 DEF Tasks
<1> QED
  BY <1>1, <1>2, <1>3, <1>4 DEF Waiting

\* A waiting task may come first in any state.
LEMMA WaitingHead ==
  ASSUME NEW t \in Threads, NEW k \in Waiting(t)
  PROVE  HeadOK(t, k)'
<1>1. Cached # 0 /\ "whole" \notin Settings /\ "pattern" \notin Regions
  BY FieldFacts DEF Cached
<1> QED
  BY <1>1, WaitingFacts DEF HeadOK

\* What a waiting task will tell the firmware does not depend on the state.
LEMMA WaitingServes ==
  ASSUME NEW t \in Threads, NEW k \in Waiting(t), NEW f, Serves(k, f)
  PROVE  Serves(k, f)'
BY WaitingFacts DEF Serves

\* While one thread is busy, all that is pending is on its list.
LEMMA Busy ==
  ASSUME SerialInv, NEW t \in Threads, job[t] # <<>>
  PROVE  /\ \A x \in Threads \ {t} : job[x] = <<>>
         /\ t # Core => ~InitPending
         /\ CacheInv => \A f \in sure : Agrees(f) \/ (Head(job[t]).do = "put" /\ Head(job[t]).field = f)
         /\ \A f : Pending(f) => \/ Serves(Head(job[t]), f)
                                 \/ \E k \in Later(job[t]) : Serves(k, f)
<1>1. \A x \in Threads \ {t} : job[x] = <<>>
  BY DEF SerialInv, Serial
<1>2. \A x \in Threads \ {t} : All(job[x]) = {}
  BY <1>1, Listed
<1>3. t # Core => ~InitPending
  BY <1>2, ThreadFacts DEF InitPending
<1>4. ASSUME NEW f, Pending(f)
      PROVE  \/ Serves(Head(job[t]), f)
             \/ \E k \in Later(job[t]) : Serves(k, f)
  <2>1. PICK x \in Threads : \E k \in All(job[x]) : Serves(k, f)
    BY <1>4 DEF Pending
  <2>2. PICK k \in All(job[x]) : Serves(k, f)
    BY <2>1
  <2>3. x = t
    BY <1>2, <2>2
  <2>4. job[t] \in Seq(Tasks)
    BY DEF SerialInv, TypeInv
  <2>5. All(job[t]) = {Head(job[t])} \cup Later(job[t])
    BY <2>4, ListParts
  <2> QED
    BY <2>2, <2>3, <2>5
<1>5. CacheInv => \A f \in sure : Agrees(f) \/ (Head(job[t]).do = "put" /\ Head(job[t]).field = f)
  BY <1>1 DEF CacheInv
<1> QED
  BY <1>1, <1>3, <1>4, <1>5

\* JobsInv after a first task is replaced.
LEMMA JobsBecome ==
  ASSUME SerialInv, NEW t \in Threads, job[t] # <<>>, NEW u \in Seq(Tasks), Becomes(t, u),
         Later(u) \subseteq Waiting(t), All(u) \cap Probes = {}, phase' = phase,
         (All(u) \cap Lights = {}) \/ (Head(job[t]) \in Lights /\ LastOnly(u, Lights))
  PROVE  JobsInv'
<1>1. /\ job' \in [Threads -> Seq(Tasks)] /\ job'[t] = u \o Tail(job[t])
      /\ \A x \in Threads \ {t} : job'[x] = job[x]
  BY BecomesFacts DEF SerialInv
<1>2. job[t] \in Seq(Tasks)
  BY DEF SerialInv, TypeInv
<1> DEFINE s == job[t]
           r == u \o Tail(s)
<1>3. All(r) = All(u) \cup Later(s) /\ Later(r) \subseteq Later(u) \cup Later(s)
  BY <1>2, Replaced
<1>4. LastOnly(s, Lights) /\ Later(s) \subseteq Waiting(t)
      /\ (All(s) \cap Probes # {} => t = Core /\ phase = "probing")
  BY DEF SerialInv, JobsInv
<1>5. LastOnly(r, Lights)
  BY <1>2, <1>4, LastOnlyReplaced
<1>6. Later(s) \subseteq All(s)
  BY <1>2, ListParts
<1>7. Later(r) \subseteq Waiting(t)
  BY <1>3, <1>4
<1>8. All(r) \cap Probes # {} => t = Core /\ phase = "probing"
  BY <1>3, <1>4, <1>6
<1> HIDE DEF r
<1>9. ASSUME NEW x \in Threads
      PROVE  /\ Later(job'[x]) \subseteq Waiting(x) /\ LastOnly(job'[x], Lights)
             /\ (All(job'[x]) \cap Probes # {} => x = Core /\ phase' = "probing")
  <2>1. CASE x = t
    BY <1>1, <1>5, <1>7, <1>8, <2>1 DEF r
  <2>2. CASE x # t
    BY <1>1, <2>2 DEF SerialInv, JobsInv
  <2> QED
    BY <2>1, <2>2
<1> QED
  BY <1>9 DEF JobsInv

\* Only the tasks of a probe are there while one of them is.
LEMMA BootHead ==
  ASSUME SerialInv, NEW t \in Threads, job[t] # <<>>, InitPending
  PROVE  /\ t = Core
         /\ \E p \in Params :
              \/ InitFirst(job[t], p)
              \/ /\ InitFirst(Tail(job[t]), p)
                 /\ Head(job[t]) \in {[do |-> "probe", params |-> p],
                                     Show("extra", p.color["extra"])}
                 /\ p.color["extra"] \in Nat
<1>1. t = Core
  BY Busy
<1>2. \A p \in Params : p.color["extra"] \in Nat
  BY ConstantsAssumption
<1> QED
  BY <1>1, <1>2 DEF SerialInv, BootInv, Booting

\* With init next, the probe is pending but past its first half.
LEMMA InitLater ==
  ASSUME TypeInv', NEW p \in Params, InitFirst(job[Core], p)'
  PROVE  InitPending' /\ ~Task(Core, {"probe"})'
<1> DEFINE i == [do |-> "init", params |-> p]
<1>1. job'[Core] \in Seq(Tasks) /\ job'[Core] # <<>> /\ Head(job'[Core]) = i
  BY ThreadFacts DEF TypeInv, InitFirst
<1>2. i \in Probes /\ i.do # "probe"
  BY TaskSets
<1>3. i \in All(job'[Core])
  BY <1>1, ListParts
<1> QED
  BY <1>1, <1>2, <1>3 DEF InitPending, Task

\* No probe is under way, and none starts.
LEMMA NoBoot ==
  ASSUME SerialInv, TypeInv', NEW t \in Threads, ~InitPending, job[t] \in Seq(Tasks),
         \A x \in Threads \ {t} : job'[x] = job[x],
         \A k \in All(job'[t]) : k \in All(job[t]) \/ k \notin Probes
  PROVE  ~InitPending' /\ BootInv'
<1>1. ~InitPending'
  <2>1. CASE t = Core
    BY <2>1 DEF InitPending
  <2>2. CASE t # Core
    BY <2>2, ThreadFacts DEF InitPending
  <2> QED
    BY <2>1, <2>2
<1>2. ~Task(Core, {"probe"})'
  <2> SUFFICES ASSUME job'[Core] # <<>>, Head(job'[Core]).do = "probe"
               PROVE  FALSE
    BY DEF Task
  <2>1. job'[Core] \in Seq(Tasks)
    BY ThreadFacts DEF TypeInv
  <2>2. Head(job'[Core]) \in Tasks /\ Head(job'[Core]) \in All(job'[Core])
    BY <2>1, ListParts
  <2>3. Head(job'[Core]) \in Probes
    BY <2>2, TaskFacts
  <2> QED
    BY <1>1, <2>2, <2>3 DEF InitPending
<1> QED
  BY <1>1, <1>2 DEF BootInv

\* The first task of t was replaced with u, outside a probe.
LEMMA StepParts ==
  ASSUME SerialInv, TypeInv', NEW t \in Threads, job[t] # <<>>, NEW u \in Seq(Tasks),
         Becomes(t, u), All(u) \cap Probes = {}
  PROVE  /\ All(job'[t]) = All(u) \cup Later(job[t])
         /\ u = <<>> /\ job'[t] # <<>> => Head(job'[t]) \in Waiting(t)
         /\ u # <<>> => /\ job'[t] # <<>> /\ Head(job'[t]) = Head(u)
                        /\ Later(job'[t]) = Later(u) \cup Later(job[t])
         /\ \A x \in Threads \ {t} : job'[x] = <<>>
         /\ ~InitPending => ~InitPending' /\ BootInv'
<1>1. job[t] \in Seq(Tasks) /\ Later(job[t]) \subseteq Waiting(t)
  BY DEF SerialInv, TypeInv, JobsInv
<1>2. job'[t] = u \o Tail(job[t]) /\ \A x \in Threads \ {t} : job'[x] = job[x]
  BY BecomesFacts DEF SerialInv
<1> DEFINE r == u \o Tail(job[t])
<1>3. /\ All(r) = All(u) \cup Later(job[t])
      /\ u = <<>> => (r # <<>> => Head(r) \in Later(job[t]))
      /\ u # <<>> => r # <<>> /\ Head(r) = Head(u) /\ Later(r) = Later(u) \cup Later(job[t])
  <2>1. job[t] \in Seq(Tasks)
    BY <1>1
  <2>2. /\ All(r) = All(u) \cup Later(job[t])
        /\ u = <<>> => /\ r = Tail(job[t])
                       /\ r # <<>> => Head(r) \in Later(job[t])
        /\ u # <<>> => /\ r # <<>> /\ Head(r) = Head(u)
                       /\ Later(r) = Later(u) \cup Later(job[t])
    BY <2>1, Replaced
  <2> QED
    BY <2>2
<1> HIDE DEF r
<1>4. \A x \in Threads \ {t} : job'[x] = <<>>
  BY <1>2, Busy
<1>5. job'[t] = r
  BY <1>2 DEF r
<1>6. \A k \in All(job'[t]) : k \in All(job[t]) \/ k \notin Probes
  BY <1>1, <1>3, <1>5, ListParts
<1>7. ~InitPending => ~InitPending' /\ BootInv'
  BY <1>1, <1>2, <1>6, NoBoot
<1> QED
  BY <1>1, <1>3, <1>4, <1>5, <1>7

\* Only t has anything to do after the step.
LEMMA OnlyOne ==
  ASSUME NEW t \in Threads, \A x \in Threads \ {t} : job'[x] = <<>>
  PROVE  (job'[t] # <<>> => HeadOK(t, Head(job[t]))') => HeadInv'
BY DEF HeadInv

\* A task of a thread's new list makes its setting pending.
LEMMA PendingNext ==
  ASSUME NEW t \in Threads, NEW f, NEW k \in All(job'[t]), Serves(k, f)'
  PROVE  Pending(f)'
BY DEF Pending

-----------------------------------------------------------------------------
\* Taking a value from the cache keeps the invariant.
LEMMA LoadSerial ==
  ASSUME SerialInv, TypeInv', Serial', NEW t \in Threads, Load(t)
  PROVE  SerialInv'
<1> DEFINE h == Head(job[t])
           u == Loaded(h)
<1>1. /\ job[t] # <<>> /\ job[t] \in Seq(Tasks) /\ h \in Tasks /\ h \in Loads
      /\ h.do \in {"keep", "show"} /\ h.value = Cached
  <2>1. job[t] # <<>> /\ h.do \in {"keep", "show"} /\ h.value = Cached
    BY DEF Load, Task
  <2> QED
    BY <2>1, Heads, TaskFacts DEF SerialInv
<1>2. Becomes(t, u) /\ UNCHANGED <<led, fw, phase, sure, failed>>
  BY DEF Load, Loaded
<1>3. TypeInv
  BY DEF SerialInv
<1>4. \/ u = <<>> /\ (h.field \notin Settings \/ (h.field = "extra" /\ led["has_extra"] # 1))
      \/ h.field = "pattern" /\ u = SetPattern(led["pattern"])
      \/ /\ h.field \in Settings \ {"pattern"}
         /\ u = <<[do |-> h.do, field |-> h.field, value |-> led[h.field]]>>
         /\ [do |-> h.do, field |-> h.field, value |-> led[h.field]] \in Ready
  BY <1>1, <1>3, LoadedFacts
<1>5. led["pattern"] \in Values("pattern")
  BY <1>3, FieldFacts DEF TypeInv, Fields, Settings
<1>6. ~InitPending
  <2> SUFFICES ASSUME InitPending PROVE FALSE
    OBVIOUS
  <2>1. PICK p \in Params :
          \/ InitFirst(job[t], p)
          \/ /\ InitFirst(Tail(job[t]), p)
             /\ h \in {[do |-> "probe", params |-> p], Show("extra", p.color["extra"])}
             /\ p.color["extra"] \in Nat
    BY <1>1, BootHead
  <2> QED
    BY <1>1, <2>1, FieldFacts DEF InitFirst, Show
<1> HIDE DEF u, h
<1>7. /\ u \in Seq(Tasks) /\ Later(u) \subseteq Loads /\ All(u) \cap Probes = {}
      /\ (All(u) \cap Lights = {}) \/ (h \in Lights /\ LastOnly(u, Lights))
      /\ u # <<>> => \/ Head(u).do \in {"keep", "show"} /\ Head(u).field # "pattern"
                        /\ Head(u).value = led[Head(u).field]
                     \/ /\ Head(u) = Keep("pattern", led["pattern"])
                        /\ led["pattern"] = 0 => \A r \in Regions : Show(r, Cached) \in Later(u)
  <2>1. CASE u = <<>>
    BY <2>1, Listed
  <2>2. CASE h.field = "pattern" /\ u = SetPattern(led["pattern"])
    <3>1. /\ u \in Seq(Tasks) /\ u # <<>> /\ Head(u) = Keep("pattern", led["pattern"])
          /\ Later(u) \subseteq {k \in Loads : k.do = "show" /\ k.field # "enabled"}
          /\ led["pattern"] = 0 => \A r \in Regions : Show(r, Cached) \in Later(u)
      BY <2>2, <1>5, PatternLists
    <3>2. All(u) = {Head(u)} \cup Later(u)
      BY <3>1, ListParts
    <3>3. Head(u) \notin Lights /\ Head(u) \notin Probes
      BY <3>1 DEF Keep, Lights, Probes
    <3>4. \A k \in Later(u) : k \notin Lights /\ k \notin Probes
      BY <3>1 DEF Lights, Loads, Probes
    <3> QED
      BY <3>1, <3>2, <3>3, <3>4
  <2>3. CASE /\ h.field \in Settings \ {"pattern"}
             /\ u = <<[do |-> h.do, field |-> h.field, value |-> led[h.field]]>>
             /\ [do |-> h.do, field |-> h.field, value |-> led[h.field]] \in Ready
    <3> DEFINE k == [do |-> h.do, field |-> h.field, value |-> led[h.field]]
    <3>1. k \in Tasks /\ k \notin Probes
      BY <2>3 DEF Tasks, Ready, Probes
    <3>2. k.do = h.do /\ k.field = h.field /\ k.value = led[k.field]
      OBVIOUS
    <3>3. u = <<k>>
      BY <2>3
    <3> HIDE DEF k
    <3>4. u \in Seq(Tasks) /\ All(u) = {k} /\ Later(u) = {} /\ u # <<>> /\ Head(u) = k
      BY <3>1, <3>3, Listed
    <3>5. LastOnly(u, Lights)
      BY <3>3 DEF LastOnly
    <3>6. k \in Lights => h \in Lights
      BY <1>1, <3>2 DEF Lights
    <3> QED
      BY <1>1, <2>3, <3>1, <3>2, <3>4, <3>5, <3>6
  <2> QED
    BY <1>4, <2>1, <2>2, <2>3
<1>8. JobsInv'
  <2>1. Later(u) \subseteq Waiting(t)
    BY <1>7 DEF Waiting
  <2> QED
    BY <1>1, <1>2, <1>7, <2>1, JobsBecome DEF h
<1>9. /\ All(job'[t]) = All(u) \cup Later(job[t])
      /\ u = <<>> /\ job'[t] # <<>> => Head(job'[t]) \in Waiting(t)
      /\ u # <<>> => /\ job'[t] # <<>> /\ Head(job'[t]) = Head(u)
                     /\ Later(job'[t]) = Later(u) \cup Later(job[t])
      /\ \A x \in Threads \ {t} : job'[x] = <<>>
      /\ ~InitPending' /\ BootInv'
  BY <1>1, <1>2, <1>6, <1>7, StepParts
<1>10. HeadInv'
  <2>1. CASE u = <<>>
    BY <1>9, <2>1, WaitingHead, OnlyOne
  <2>2. CASE u # <<>>
    <3>1. HeadOK(t, Head(job[t]))'
      <4>0. PICK k : k = Head(u)
        OBVIOUS
      <4>1. /\ Head(job'[t]) = k /\ Later(u) \subseteq Later(job'[t])
            /\ led' = led
        BY <1>2, <1>9, <2>2, <4>0
      <4>2. \/ k.do \in {"keep", "show"} /\ k.field # "pattern" /\ k.value = led[k.field]
            \/ /\ k = Keep("pattern", led["pattern"])
               /\ led["pattern"] = 0 => \A r \in Regions : Show(r, Cached) \in Later(u)
        BY <1>7, <2>2, <4>0
      <4>3. /\ k.do \in {"keep", "show"} /\ k.value = led[k.field]
            /\ k.field = "pattern" /\ k.value = 0 => \A r \in Regions : Show(r, Cached) \in Later(u)
        BY <4>2 DEF Keep
      <4>4. HeadOK(t, k)'
        BY <4>1, <4>3 DEF HeadOK
      <4> QED
        BY <4>1, <4>4
    <3> QED
      BY <1>9, <3>1, OnlyOne
  <2> QED
    BY <2>1, <2>2
<1>11. CacheInv'
  <2>1. \A f \in sure : Agrees(f)
    BY <1>1, Busy DEF SerialInv, h
  <2> QED
    BY <1>2, <2>1 DEF CacheInv, Agrees
<1>12. RestoredInv'
  <2> SUFFICES ASSUME ~failed, phase \notin {"suspending", "asleep"}, NEW f \in Visible, f \notin sure
               PROVE  Pending(f)'
    BY <1>2 DEF RestoredInv, Visible
  <2>1. \/ Serves(h, f)
        \/ \E k \in Later(job[t]) : Serves(k, f)
    BY <1>1, <1>6, Busy DEF SerialInv, RestoredInv, h
  <2>2. CASE \E k \in Later(job[t]) : Serves(k, f)
    <3>1. PICK k \in Later(job[t]) : Serves(k, f)
      BY <2>2
    <3>2. Serves(k, f)' /\ k \in All(job'[t])
      BY <1>2, <1>9, <3>1 DEF Serves
    <3> QED
      BY <3>2, PendingNext
  <2>3. CASE Serves(h, f)
    <3>1. f \in Settings /\ (f = "extra" => led["has_extra"] = 1)
          /\ (f \in Regions => led["pattern"] = 0)
      BY FieldFacts DEF Visible, Settings
    <3>2. h.field = f \/ (f \in Regions /\ h.field = "pattern")
      BY <2>3 DEF Serves, Keep
    <3>3. u # <<>>
      <4>1. h.field \in Settings
        BY <3>1, <3>2 DEF Settings
      <4>2. h.field = "extra" => led["has_extra"] = 1
        BY <3>1, <3>2
      <4>3. SetPattern(led["pattern"]) # <<>>
        BY <1>5, PatternLists
      <4>4. \A k : <<k>> # <<>>
        OBVIOUS
      <4> QED
        BY <1>4, <4>1, <4>2, <4>3, <4>4
    <3>4. All(u) = {Head(u)} \cup Later(u)
      BY <1>7, <3>3, ListParts
    <3>5. CASE h.field = "pattern"
      <4>1. u = SetPattern(led["pattern"])
        BY <1>4, <3>3, <3>5
      <4>2. /\ Head(u) = Keep("pattern", led["pattern"])
            /\ led["pattern"] = 0 => \A r \in Regions : Show(r, Cached) \in Later(u)
        BY <1>5, <4>1, PatternLists
      <4>3. CASE f \in Regions
        <5>1. Show(f, Cached) \in All(job'[t])
          BY <1>9, <3>1, <3>4, <4>2, <4>3
        <5>2. Serves(Show(f, Cached), f)'
          BY DEF Serves, Show
        <5> QED
          BY <5>1, <5>2, PendingNext
      <4>4. CASE f = "pattern"
        <5>0. PICK k : k = Head(u)
          OBVIOUS
        <5>1. k \in All(job'[t]) /\ Serves(k, f)'
          BY <1>9, <3>4, <4>2, <4>4, <5>0 DEF Serves, Keep
        <5> QED
          BY <5>1, PendingNext
      <4> QED
        BY <3>2, <3>5, <4>3, <4>4
    <3>6. CASE h.field # "pattern"
      <4>0. PICK k : k = [do |-> h.do, field |-> h.field, value |-> led[h.field]]
        OBVIOUS
      <4>1. u = <<k>> /\ h.field = f
        BY <1>4, <3>2, <3>3, <3>6, <4>0
      <4>2. Head(u) = k
        BY <4>1
      <4>3. Serves(k, f)'
        <5>1. k.do = h.do /\ k.field = f /\ k.value = led'[f]
          BY <1>2, <4>0, <4>1
        <5> QED
          BY <1>1, <5>1 DEF Serves
      <4>4. k \in All(job'[t])
        BY <1>9, <3>4, <4>2
      <4> QED
        BY <4>3, <4>4, PendingNext
    <3> QED
      BY <3>5, <3>6
  <2> QED
    BY <2>1, <2>2, <2>3
<1> QED
  BY <1>8, <1>9, <1>10, <1>11, <1>12 DEF SerialInv

\* While the probe shows the extra region its color, the other tasks of the
\* probe stay as they are.
LEMMA BootShown ==
  ASSUME SerialInv, TypeInv', NEW t \in Threads, job[t] # <<>>, InitPending,
         Head(job[t]).do \in {"keep", "show"}, Becomes(t, <<>>)
  PROVE  InitPending' /\ BootInv' /\ Head(job[t]).do = "show"
<1>1. PICK p \in Params :
        \/ InitFirst(job[t], p)
        \/ /\ InitFirst(Tail(job[t]), p)
           /\ Head(job[t]) \in {[do |-> "probe", params |-> p], Show("extra", p.color["extra"])}
           /\ p.color["extra"] \in Nat
  BY BootHead
<1>2. t = Core /\ InitFirst(Tail(job[t]), p) /\ Head(job[t]).do = "show"
  <2>1. t = Core
    BY BootHead
  <2>2. ~InitFirst(job[t], p)
    BY DEF InitFirst
  <2>3. InitFirst(Tail(job[t]), p) /\ Head(job[t]).do # "probe"
    BY <1>1, <2>2
  <2>4. Head(job[t]).do \in {"probe", "show"}
    BY <1>1, <2>2 DEF Show
  <2> QED
    BY <2>1, <2>3, <2>4
<1>3. job'[t] = Tail(job[t])
  <2>1. job[t] \in Seq(Tasks) /\ Tail(job[t]) \in Seq(Tasks)
    BY ListParts DEF SerialInv, TypeInv
  <2>2. <<>> \o Tail(job[t]) = Tail(job[t])
    BY <2>1, ConcatEmptySeq
  <2> QED
    BY <2>2, Listed, BecomesFacts DEF SerialInv
<1>4. InitFirst(job[Core], p)'
  BY <1>2, <1>3 DEF InitFirst
<1> QED
  BY <1>2, <1>4, InitLater DEF BootInv, Booting

\* So does a call of the firmware that succeeds,
LEMMA CallSerial ==
  ASSUME SerialInv, TypeInv', Serial', NEW t \in Threads, Call(t)
  PROVE  SerialInv'
<1> DEFINE h == Head(job[t])
           u == IF h.do = "keep" THEN <<Put(h.field, h.value)>> ELSE <<>>
<1>1. /\ job[t] # <<>> /\ job[t] \in Seq(Tasks) /\ h \in Tasks
      /\ h.do \in {"keep", "show"} /\ h.value # Cached
      /\ h.field \in Settings /\ h.value \in Nat /\ h.value \in Values(h.field)
  <2>1. job[t] # <<>> /\ h.do \in {"keep", "show"} /\ h.value # Cached
    BY DEF Call, Task
  <2>2. job[t] \in Seq(Tasks) /\ h \in Tasks
    BY <2>1, Heads DEF SerialInv
  <2>3. h.field \in Settings /\ h.value \in Nat /\ h.value \in Values(h.field)
    BY <2>1, <2>2, TaskFacts
  <2> QED
    BY <2>1, <2>2, <2>3
<1>2. /\ fw' = [fw EXCEPT ![h.field] = Shown(h.field, h.value)]
      /\ Becomes(t, u)
      /\ sure' = IF h.do = "keep" \/ h.value = led[h.field]
                 THEN sure \cup {h.field} ELSE sure \ {h.field}
      /\ UNCHANGED <<led, phase, failed>>
  BY DEF Call, Takes
<1>3. fw \in [Settings -> Nat]
  BY DEF SerialInv, TypeInv
<1>4. PICK k : k = Put(h.field, h.value)
  OBVIOUS
<1>5. k \in Tasks /\ k \notin Probes /\ k.do = "put" /\ k.field = h.field /\ k.value = h.value
      /\ (k \in Lights => h \in Lights)
  <2>1. k \in Ready
    BY <1>1, <1>4, TaskSets
  <2>2. k.do = "put" /\ k.field = h.field /\ k.value = h.value
    BY <1>4 DEF Put
  <2>3. k \in Tasks /\ k \notin Probes
    BY <2>1, <2>2 DEF Tasks, Probes
  <2>4. k \in Lights => h \in Lights
    BY <1>1, <2>2 DEF Lights
  <2> QED
    BY <2>2, <2>3, <2>4
<1>6. \/ h.do = "keep" /\ u = <<k>>
      \/ h.do = "show" /\ u = <<>>
  BY <1>1, <1>4
<1> HIDE DEF h, u
<1>7. /\ u \in Seq(Tasks) /\ Later(u) = {} /\ All(u) \subseteq {k} /\ LastOnly(u, Lights)
      /\ u # <<>> => Head(u) = k
  <2>1. CASE u = <<k>>
    <3>1. u \in Seq(Tasks) /\ Later(u) = {} /\ All(u) = {k} /\ Head(u) = k
      BY <1>5, <2>1, Listed
    <3>2. LastOnly(u, Lights)
      BY <2>1 DEF LastOnly
    <3> QED
      BY <3>1, <3>2
  <2>2. CASE u = <<>>
    <3>1. LastOnly(u, Lights)
      BY <2>2 DEF LastOnly
    <3> QED
      BY <2>2, <3>1, Listed
  <2> QED
    BY <1>6, <2>1, <2>2
<1>8. JobsInv'
  <2>1. All(u) \cap Probes = {} /\ Later(u) \subseteq Waiting(t)
        /\ ((All(u) \cap Lights = {}) \/ (h \in Lights /\ LastOnly(u, Lights)))
    BY <1>5, <1>7
  <2> QED
    BY <1>1, <1>2, <1>7, <2>1, JobsBecome DEF h
<1>9. /\ All(job'[t]) = All(u) \cup Later(job[t])
      /\ u = <<>> /\ job'[t] # <<>> => Head(job'[t]) \in Waiting(t)
      /\ u # <<>> => /\ job'[t] # <<>> /\ Head(job'[t]) = Head(u)
                     /\ Later(job'[t]) = Later(u) \cup Later(job[t])
      /\ \A x \in Threads \ {t} : job'[x] = <<>>
      /\ ~InitPending => ~InitPending' /\ BootInv'
  <2>1. All(u) \cap Probes = {}
    BY <1>5, <1>7
  <2> QED
    BY <1>1, <1>2, <1>7, <2>1, StepParts
<1>10. InitPending => InitPending' /\ BootInv' /\ u = <<>>
  <2> SUFFICES ASSUME InitPending PROVE InitPending' /\ BootInv' /\ u = <<>>
    OBVIOUS
  <2>1. h.do = "show"
    <3>1. PICK p \in Params :
            \/ InitFirst(job[t], p)
            \/ /\ InitFirst(Tail(job[t]), p)
               /\ h \in {[do |-> "probe", params |-> p], Show("extra", p.color["extra"])}
               /\ p.color["extra"] \in Nat
      BY <1>1, BootHead DEF h
    <3> QED
      BY <1>1, <3>1 DEF InitFirst, Show, h
  <2>2. u = <<>>
    BY <1>6, <2>1
  <2> QED
    BY <1>1, <1>2, <2>2, BootShown DEF h
<1>11. HeadOK(t, h)
  BY <1>1 DEF SerialInv, HeadInv, h
<1>12. HeadInv'
  <2>1. CASE u = <<>>
    BY <1>9, <2>1, WaitingHead, OnlyOne
  <2>2. CASE u # <<>>
    <3>1. /\ Head(job'[t]) = k /\ Later(job'[t]) = Later(job[t]) /\ h.do = "keep"
          /\ led' = led /\ phase' = phase
      BY <1>2, <1>6, <1>7, <1>9, <2>2
    <3>2. k.field \in sure' /\ fw'[k.field] = Shown(k.field, k.value)
      BY <1>1, <1>2, <1>3, <1>5, <3>1
    <3>3. HeadOK(t, k)'
      BY <1>1, <1>5, <1>11, <3>1, <3>2 DEF HeadOK
    <3> QED
      BY <1>9, <3>1, <3>3, OnlyOne
  <2> QED
    BY <2>1, <2>2
<1>13. CacheInv'
  <2>1. \A f \in sure : Agrees(f)
    BY <1>1, Busy DEF SerialInv, h
  <2>2. ASSUME NEW f \in sure', f # h.field PROVE Agrees(f)'
    <3>1. f \in sure /\ f \in Settings
      BY <1>2, <2>2 DEF SerialInv, TypeInv
    <3> QED
      BY <1>2, <1>3, <2>1, <2>2, <3>1 DEF Agrees
  <2>4. ASSUME h.do = "keep"
        PROVE  job'[t] # <<>> /\ Head(job'[t]).do = "put" /\ Head(job'[t]).field = h.field
    <3>1. u = <<k>> /\ <<k>> # <<>>
      BY <1>6, <2>4
    <3>2. job'[t] # <<>> /\ Head(job'[t]) = k
      BY <1>7, <1>9, <3>1
    <3> QED
      BY <1>5, <3>2
  <2>5. ASSUME NEW f \in sure'
        PROVE  \/ Agrees(f)'
               \/ \E x \in Threads : /\ job'[x] # <<>> /\ Head(job'[x]).do = "put"
                                     /\ Head(job'[x]).field = f
    <3>1. CASE f # h.field
      BY <2>2, <3>1
    <3>2. CASE f = h.field /\ h.do = "show"
      <4>1. fw'[f] = Shown(f, led'[f])
        BY <1>1, <1>2, <1>3, <2>5, <3>2
      <4> QED
        BY <4>1 DEF Agrees
    <3>3. CASE f = h.field /\ h.do = "keep"
      BY <2>4, <3>3
    <3> QED
      BY <1>1, <3>1, <3>2, <3>3
  <2> QED
    BY <2>5 DEF CacheInv
<1>14. RestoredInv'
  <2> SUFFICES ASSUME ~failed, phase \notin {"suspending", "asleep"}, ~InitPending,
                      NEW f \in Visible, f \notin sure'
               PROVE  Pending(f)'
    BY <1>2, <1>10 DEF RestoredInv, Visible
  <2>1. h.do = "show" => h.value = led[h.field]
    BY <1>1, <1>11 DEF HeadOK
  <2>2. sure' = sure \cup {h.field}
    BY <1>1, <1>2, <2>1
  <2>3. \/ Serves(h, f)
        \/ \E k2 \in Later(job[t]) : Serves(k2, f)
    BY <1>1, <2>2, Busy DEF SerialInv, RestoredInv, h
  <2>4. ~Serves(h, f)
    BY <1>1, <2>2 DEF Serves, Keep
  <2>5. PICK k2 \in Later(job[t]) : Serves(k2, f)
    BY <2>3, <2>4
  <2>6. Serves(k2, f)' /\ k2 \in All(job'[t])
    BY <1>2, <1>9, <2>5 DEF Serves
  <2> QED
    BY <2>6, PendingNext
<1> QED
  BY <1>8, <1>9, <1>10, <1>12, <1>13, <1>14 DEF SerialInv

\* one that fails,
LEMMA FailSerial ==
  ASSUME SerialInv, TypeInv', Serial', NEW t \in Threads, CallFails(t)
  PROVE  SerialInv'
<1> DEFINE h == Head(job[t])
<1>1. /\ job[t] # <<>> /\ job[t] \in Seq(Tasks) /\ h \in Tasks
      /\ h.do \in {"keep", "show"} /\ Becomes(t, <<>>) /\ failed' = TRUE
      /\ UNCHANGED <<led, phase>>
  BY Heads DEF CallFails, Task, SerialInv
<1>2. <<>> \in Seq(Tasks) /\ All(<<>>) = {} /\ Later(<<>>) = {}
  BY Listed
<1>3. JobsInv'
  BY <1>1, <1>2, JobsBecome
<1>4. /\ job'[t] # <<>> => Head(job'[t]) \in Waiting(t)
      /\ \A x \in Threads \ {t} : job'[x] = <<>>
      /\ ~InitPending => ~InitPending' /\ BootInv'
  <2>1. All(<<>>) \cap Probes = {}
    BY <1>2
  <2> QED
    BY <1>1, <1>2, <2>1, StepParts
<1>5. BootInv'
  BY <1>1, <1>4, BootShown
<1>6. HeadInv'
  BY <1>4, WaitingHead, OnlyOne
<1>7. CacheInv'
  <2>1. \A f \in sure : Agrees(f)
    BY <1>1, Busy DEF SerialInv
  <2>2. h.field \in Settings /\ fw \in [Settings -> Nat] /\ sure \subseteq Settings
    BY <1>1, TaskFacts DEF SerialInv, TypeInv, CallFails
  <2>3. CASE UNCHANGED <<fw, sure>>
    BY <1>1, <2>1, <2>3 DEF CacheInv, Agrees
  <2>4. CASE Takes(h, FALSE)
    <3>1. /\ fw' = [fw EXCEPT ![h.field] = Shown(h.field, h.value)]
          /\ sure' = IF h.value = led[h.field] THEN sure \cup {h.field} ELSE sure \ {h.field}
      BY <2>4 DEF Takes
    <3> HIDE DEF h
    <3>2. ASSUME NEW f \in sure' PROVE Agrees(f)'
      <4>1. CASE f = h.field
        <5>1. h.value = led[f]
          BY <3>1, <3>2, <4>1
        <5>2. fw'[f] = Shown(f, led'[f])
          BY <1>1, <2>2, <3>1, <4>1, <5>1
        <5> QED
          BY <5>2 DEF Agrees
      <4>2. CASE f # h.field
        <5>1. f \in sure /\ f \in Settings
          BY <2>2, <3>1, <3>2, <4>2
        <5> QED
          BY <1>1, <2>1, <2>2, <3>1, <4>2, <5>1 DEF Agrees
      <4> QED
        BY <4>1, <4>2
    <3> QED
      BY <3>2 DEF CacheInv
  <2> QED
    BY <2>3, <2>4 DEF CallFails
<1>8. RestoredInv'
  BY <1>1 DEF RestoredInv
<1> QED
  BY <1>3, <1>5, <1>6, <1>7, <1>8 DEF SerialInv

\* caching what was sent,
LEMMA StoreSerial ==
  ASSUME SerialInv, TypeInv', Serial', NEW t \in Threads, Store(t)
  PROVE  SerialInv'
<1> DEFINE h == Head(job[t])
<1>1. /\ job[t] # <<>> /\ job[t] \in Seq(Tasks) /\ h \in Tasks /\ h.do = "put"
      /\ h.field \in Settings \cup {"whole"}
      /\ Becomes(t, <<>>) /\ led' = [led EXCEPT ![h.field] = h.value]
      /\ UNCHANGED <<fw, phase, sure, failed>>
  <2>1. job[t] # <<>> /\ h.do = "put"
    BY DEF Store, Task
  <2>2. job[t] \in Seq(Tasks) /\ h \in Tasks
    BY <2>1, Heads DEF SerialInv
  <2>3. h.field \in Settings \cup {"whole"}
    BY <2>1, <2>2, TaskFacts
  <2> QED
    BY <2>1, <2>2, <2>3 DEF Store
<1>2. <<>> \in Seq(Tasks) /\ All(<<>>) = {} /\ Later(<<>>) = {}
  BY Listed
<1>3. JobsInv'
  BY <1>1, <1>2, JobsBecome
<1>4. /\ All(job'[t]) = Later(job[t])
      /\ job'[t] # <<>> => Head(job'[t]) \in Waiting(t)
      /\ \A x \in Threads \ {t} : job'[x] = <<>>
      /\ ~InitPending => ~InitPending' /\ BootInv'
  <2>1. All(<<>>) \cap Probes = {}
    BY <1>2
  <2>2. All(job'[t]) = {} \cup Later(job[t])
    BY <1>1, <1>2, <2>1, StepParts
  <2> QED
    BY <1>1, <1>2, <2>1, <2>2, StepParts
<1>5. ~InitPending
  <2> SUFFICES ASSUME InitPending PROVE FALSE
    OBVIOUS
  <2>1. PICK p \in Params :
          \/ InitFirst(job[t], p)
          \/ /\ InitFirst(Tail(job[t]), p)
             /\ h \in {[do |-> "probe", params |-> p], Show("extra", p.color["extra"])}
             /\ p.color["extra"] \in Nat
    BY <1>1, BootHead
  <2> QED
    BY <1>1, <2>1 DEF InitFirst, Show
<1>6. /\ led \in [Fields -> Nat] /\ Settings \cup {"whole"} \subseteq Fields
      /\ sure \subseteq Settings
  BY FieldFacts DEF SerialInv, TypeInv, Fields
<1>7. HeadOK(t, h)
  BY <1>1 DEF SerialInv, HeadInv
<1> HIDE DEF h
<1>8. /\ led'[h.field] = h.value
      /\ \A f \in Fields : f # h.field => led'[f] = led[f]
  BY <1>1, <1>6
<1>9. HeadInv'
  BY <1>4, WaitingHead, OnlyOne
<1>10. CacheInv'
  <2>1. ASSUME NEW f \in sure, f # h.field PROVE Agrees(f)'
    <3>1. Agrees(f)
      BY <1>1, <2>1, Busy DEF SerialInv, h
    <3>2. led'[f] = led[f]
      BY <1>6, <1>8, <2>1
    <3> QED
      BY <1>1, <3>1, <3>2 DEF Agrees
  <2>2. ASSUME NEW f \in sure, f = h.field PROVE Agrees(f)'
    <3>1. fw[f] = Shown(f, h.value)
      BY <1>1, <1>6, <1>7, <2>2 DEF HeadOK
    <3> QED
      BY <1>1, <1>8, <2>2, <3>1 DEF Agrees
  <2> QED
    BY <1>1, <2>1, <2>2 DEF CacheInv
<1>11. RestoredInv'
  <2> SUFFICES ASSUME ~failed, phase \notin {"suspending", "asleep"}, NEW f \in Visible', f \notin sure
               PROVE  Pending(f)'
    BY <1>1 DEF RestoredInv
  <2>0. Later(job[t]) \subseteq Waiting(t)
    BY DEF SerialInv, JobsInv
  <2>1. CASE f \in Visible
    <3>1. \/ Serves(h, f)
          \/ \E k \in Later(job[t]) : Serves(k, f)
      BY <1>1, <1>5, <2>1, Busy DEF SerialInv, RestoredInv, h
    <3>2. PICK k \in Later(job[t]) : Serves(k, f)
      BY <1>1, <3>1 DEF Serves, Keep
    <3>3. Serves(k, f)' /\ k \in All(job'[t])
      BY <1>4, <2>0, <3>2, WaitingServes
    <3> QED
      BY <3>3, PendingNext
  <2>2. CASE f \notin Visible
    <3>1. "has_extra" \in Fields /\ "pattern" \in Fields /\ h.field # "has_extra"
      BY <1>1, FieldFacts DEF Fields, Settings
    <3>2. f \in Regions /\ led'["pattern"] = 0 /\ led["pattern"] # 0
      BY <1>8, <2>2, <3>1 DEF Visible
    <3>3. h.field = "pattern" /\ h.value = 0
      BY <1>8, <3>1, <3>2
    <3>4. Show(f, Cached) \in Later(job[t])
      BY <1>1, <1>7, <3>2, <3>3 DEF HeadOK
    <3>5. Serves(Show(f, Cached), f)'
      BY DEF Serves, Show
    <3> QED
      BY <1>4, <3>4, <3>5, PendingNext
  <2> QED
    BY <2>1, <2>2
<1> QED
  BY <1>3, <1>4, <1>5, <1>9, <1>10, <1>11 DEF SerialInv

\* the first half of the probe
LEMMA ProbeSerial ==
  ASSUME SerialInv, TypeInv', Serial', ProbeExtra
  PROVE  SerialInv'
<1> DEFINE h == Head(job[Core])
<1>1. job[Core] # <<>> /\ h.do = "probe" /\ Task(Core, {"probe"}) /\ Core \in Threads
  BY ThreadFacts DEF ProbeExtra, Task
<1>2. h \in Probes /\ InitPending /\ job[Core] \in Seq(Tasks)
  BY <1>1, Heads, TaskFacts DEF SerialInv, InitPending
<1>3. PICK p \in Params :
        /\ InitFirst(Tail(job[Core]), p) /\ p.color["extra"] \in Nat
        /\ h = [do |-> "probe", params |-> p]
  <2>1. PICK p \in Params :
          \/ InitFirst(job[Core], p)
          \/ /\ InitFirst(Tail(job[Core]), p)
             /\ h \in {[do |-> "probe", params |-> p], Show("extra", p.color["extra"])}
             /\ p.color["extra"] \in Nat
    BY <1>1, <1>2, BootHead
  <2>2. /\ [do |-> "init", params |-> p].do = "init"
        /\ Show("extra", p.color["extra"]).do = "show"
    BY DEF Show
  <2>3. ~InitFirst(job[Core], p)
    BY <1>1, <2>2 DEF InitFirst
  <2> QED
    BY <1>1, <2>1, <2>2, <2>3
<1>4. PICK k : k = Show("extra", p.color["extra"])
  OBVIOUS
<1>5. k \in Tasks /\ k \notin Probes /\ k \notin Lights /\ k.do = "show" /\ k.field = "extra"
  <2>1. k \in Ready /\ k.do = "show" /\ k.field = "extra"
    BY <1>3, <1>4, TaskSets, FieldFacts DEF Settings, Show
  <2> QED
    BY <2>1 DEF Tasks, Probes, Lights
<1>6. sure = {}
  BY <1>1 DEF SerialInv, BootInv
<1>7. PICK u \in {<<k>>, <<>>} : Becomes(Core, u)
  <2>1. h.params = p
    BY <1>3
  <2>2. Becomes(Core, <<k>>) \/ Becomes(Core, <<>>)
    BY <1>4, <2>1 DEF ProbeExtra
  <2> QED
    BY <2>2
<1>8. /\ u \in Seq(Tasks) /\ Later(u) = {} /\ All(u) \subseteq {k} /\ (u # <<>> => Head(u) = k)
  <2>1. CASE u = <<k>>
    <3>1. u \in Seq(Tasks) /\ All(u) = {k} /\ Later(u) = {} /\ Head(u) = k
      BY <1>5, <2>1, Listed
    <3> QED
      BY <3>1
  <2>2. CASE u = <<>>
    BY <2>2, Listed
  <2> QED
    BY <1>7, <2>1, <2>2
<1>9. UNCHANGED <<phase, sure, failed>>
  BY DEF ProbeExtra
<1>10. JobsInv'
  <2>1. All(u) \cap Probes = {} /\ All(u) \cap Lights = {} /\ Later(u) \subseteq Waiting(Core)
    BY <1>5, <1>8
  <2> QED
    BY <1>1, <1>7, <1>8, <1>9, <2>1, JobsBecome
<1>11. /\ u = <<>> /\ job'[Core] # <<>> => Head(job'[Core]) \in Waiting(Core)
       /\ u # <<>> => job'[Core] # <<>> /\ Head(job'[Core]) = k
       /\ \A x \in Threads \ {Core} : job'[x] = <<>>
  <2>1. All(u) \cap Probes = {}
    BY <1>5, <1>8
  <2> QED
    BY <1>1, <1>7, <1>8, <2>1, StepParts
<1>12. InitPending' /\ BootInv'
  <2>1. Tail(job[Core]) \in Seq(Tasks) /\ job'[Core] = u \o Tail(job[Core])
    BY <1>1, <1>2, <1>7, <1>8, ListParts, BecomesFacts DEF SerialInv
  <2>2. CASE u = <<>>
    <3>1. job'[Core] = Tail(job[Core])
      BY <2>1, <2>2, ConcatEmptySeq
    <3>2. InitFirst(job[Core], p)'
      BY <1>3, <3>1 DEF InitFirst
    <3> QED
      BY <3>2, InitLater DEF BootInv, Booting
  <2>3. CASE u = <<k>>
    <3>1. /\ job'[Core] # <<>> /\ Head(job'[Core]) = k /\ Tail(job'[Core]) = Tail(job[Core])
      BY <1>5, <2>1, <2>3, TailJoined
    <3>2. Booting(job'[Core], p)
      BY <1>3, <1>4, <3>1 DEF Booting
    <3>3. ~Task(Core, {"probe"})'
      BY <1>5, <3>1 DEF Task
    <3>4. InitPending'
      <4> DEFINE i == [do |-> "init", params |-> p]
      <4>1. Head(Tail(job[Core])) = i /\ Tail(job[Core]) # <<>>
        BY <1>3 DEF InitFirst
      <4>2. i \in All(Tail(job[Core]))
        <5>1. PICK v : v = Tail(job[Core])
          OBVIOUS
        <5>2. v \in Seq(Tasks) /\ v # <<>> /\ Head(v) = i
          BY <2>1, <4>1, <5>1
        <5> HIDE DEF i
        <5>3. Head(v) \in All(v)
          BY <5>2, ListParts
        <5> QED
          BY <5>1, <5>2, <5>3
      <4>3. job'[Core] \in Seq(Tasks)
        BY <1>1 DEF TypeInv
      <4>4. All(job'[Core]) = {k} \cup Later(job'[Core])
            /\ All(Tail(job'[Core])) = Later(job'[Core])
        BY <3>1, <4>3, ListParts
      <4>5. i \in All(job'[Core])
        BY <3>1, <4>2, <4>4
      <4>6. i \in Probes
        BY TaskSets
      <4> QED
        BY <4>5, <4>6 DEF InitPending
    <3> QED
      BY <3>2, <3>3, <3>4 DEF BootInv
  <2> QED
    BY <1>7, <2>2, <2>3
<1>13. HeadInv'
  <2>1. HeadOK(Core, k)'
    BY <1>5, <1>12 DEF HeadOK
  <2> QED
    BY <1>1, <1>11, <2>1, WaitingHead, OnlyOne
<1>14. CacheInv' /\ RestoredInv'
  BY <1>6, <1>9, <1>12 DEF CacheInv, RestoredInv
<1> QED
  BY <1>10, <1>12, <1>13, <1>14 DEF SerialInv

\* and the second.
LEMMA InitSerial ==
  ASSUME SerialInv, TypeInv', Serial', InitState
  PROVE  SerialInv'
<1> DEFINE h == Head(job[Core])
<1>1. job[Core] # <<>> /\ h.do = "init" /\ Core \in Threads
  BY ThreadFacts DEF InitState, Task
<1>2. h \in Probes /\ InitPending /\ job[Core] \in Seq(Tasks)
  BY <1>1, Heads, TaskFacts DEF SerialInv, InitPending
<1>3. Tail(job[Core]) = WriteState
  <2>1. PICK p \in Params :
          \/ InitFirst(job[Core], p)
          \/ /\ InitFirst(Tail(job[Core]), p)
             /\ h \in {[do |-> "probe", params |-> p], Show("extra", p.color["extra"])}
             /\ p.color["extra"] \in Nat
    BY <1>1, <1>2, BootHead
  <2>2. /\ [do |-> "probe", params |-> p].do = "probe"
        /\ Show("extra", p.color["extra"]).do = "show"
    BY DEF Show
  <2> QED
    BY <1>1, <2>1, <2>2 DEF InitFirst
<1>4. Becomes(Core, <<>>) /\ sure' = {} /\ phase' = phase
  BY DEF InitState
<1>5. <<>> \in Seq(Tasks) /\ All(<<>>) = {} /\ Later(<<>>) = {}
  BY Listed
<1>6. JobsInv'
  BY <1>1, <1>4, <1>5, JobsBecome
<1>7. job'[Core] = WriteState /\ \A x \in Threads \ {Core} : job'[x] = <<>>
  <2>1. job'[Core] = <<>> \o Tail(job[Core]) /\ \A x \in Threads \ {Core} : job'[x] = job[x]
    BY <1>1, <1>4, <1>5, BecomesFacts DEF SerialInv
  <2>2. <<>> \o WriteState = WriteState
    BY StateLists, ConcatEmptySeq
  <2> QED
    BY <1>1, <1>3, <2>1, <2>2, Busy
<1>8. ~InitPending' /\ BootInv'
  <2>1. Loads \cap Probes = {}
    BY DEF Loads, Probes
  <2>2. ~InitPending'
    BY <1>7, <2>1, StateLists DEF InitPending
  <2>3. ~Task(Core, {"probe"})'
    BY <1>7, StateLists DEF Task, Keep
  <2> QED
    BY <2>2, <2>3 DEF BootInv
<1>9. HeadInv'
  <2>1. Head(WriteState) \in Waiting(Core)
    <3>1. Head(WriteState) \in All(WriteState)
      BY StateLists, ListParts
    <3> QED
      BY <3>1, StateLists DEF Waiting
  <2>2. PICK k : k = Head(WriteState)
    OBVIOUS
  <2>3. HeadOK(Core, k)' /\ Head(job'[Core]) = k
    BY <1>1, <1>7, <2>1, <2>2, WaitingHead
  <2> QED
    BY <1>1, <1>7, <2>3, OnlyOne
<1>10. CacheInv'
  BY <1>4 DEF CacheInv
<1>11. RestoredInv'
  <2> SUFFICES ASSUME NEW f \in Visible' PROVE Pending(f)'
    BY DEF RestoredInv
  <2>1. f \in Regions \cup {"pattern", "brightness", "enabled"}
    BY DEF Visible
  <2>2. PICK k : k = Keep(IF f \in Regions THEN "pattern" ELSE f, Cached)
    OBVIOUS
  <2>3. k \in All(job'[Core])
    BY <1>7, <2>1, <2>2, StateLists
  <2>4. Serves(k, f)'
    BY <2>1, <2>2 DEF Serves, Keep
  <2> QED
    BY <1>1, <2>3, <2>4, PendingNext
<1> QED
  BY <1>6, <1>8, <1>9, <1>10, <1>11 DEF SerialInv

\* An operation begins: no other is under way, before and after.
LEMMA StartSerial ==
  ASSUME SerialInv, TypeInv', Serial', NEW t \in Threads \ {Core}, NEW u \in Seq(Tasks),
         u # <<>>, Start(t, u), All(u) \cap Probes = {}, Later(u) \subseteq Waiting(t),
         LastOnly(u, Lights),
         \/ Head(u) \in Notes
         \/ /\ Head(u).do = "keep"
            /\ Head(u).field = "pattern" /\ Head(u).value = 0
                 => \A r \in Regions : Show(r, Cached) \in Later(u)
  PROVE  SerialInv'
<1>1. /\ job[t] = <<>> /\ job' = [job EXCEPT ![t] = u]
      /\ UNCHANGED <<led, fw, phase, sure, failed>>
  BY DEF Start
<1>2. job'[t] = u /\ \A x \in Threads \ {t} : job'[x] = job[x]
  BY <1>1, StartFacts DEF SerialInv
<1>3. \A x \in Threads \ {t} : job'[x] = <<>>
  BY <1>2 DEF Serial
<1>4. \A x \in Threads : job[x] = <<>>
  BY <1>1, <1>2, <1>3
<1>5. job[t] \in Seq(Tasks) /\ ~InitPending
  <2>1. All(job[Core]) = {}
    BY <1>4, Listed, ThreadFacts
  <2>2. ~InitPending
    BY <2>1 DEF InitPending
  <2>3. job[t] = <<>> /\ <<>> \in Seq(Tasks)
    BY <1>4, Listed
  <2> QED
    BY <2>2, <2>3
<1>6. ~InitPending' /\ BootInv'
  <2>1. \A k \in All(job'[t]) : k \in All(job[t]) \/ k \notin Probes
    BY <1>2
  <2> QED
    BY <1>2, <1>5, <2>1, NoBoot
<1>7. JobsInv'
  <2>1. ASSUME NEW x \in Threads
        PROVE  /\ Later(job'[x]) \subseteq Waiting(x) /\ LastOnly(job'[x], Lights)
               /\ All(job'[x]) \cap Probes = {}
    <3>1. CASE x = t
      BY <1>2, <3>1
    <3>2. CASE x # t
      <4>1. job'[x] = <<>>
        BY <1>3, <3>2
      <4>2. LastOnly(<<>>, Lights)
        BY DEF LastOnly
      <4> QED
        BY <4>1, <4>2, Listed
    <3> QED
      BY <3>1, <3>2
  <2> QED
    BY <2>1 DEF JobsInv
<1>8. HeadInv'
  <2>1. PICK k : k = Head(u)
    OBVIOUS
  <2>2. \/ k.do = "put" /\ k.field = "whole"
        \/ /\ k.do = "keep"
           /\ k.field = "pattern" /\ k.value = 0
                => \A r \in Regions : Show(r, Cached) \in Later(u)
    BY <2>1 DEF Notes
  <2>3. "whole" \notin Settings /\ "whole" # "pattern"
    BY FieldFacts
  <2>4. HeadOK(t, k)'
    BY <1>2, <2>2, <2>3 DEF HeadOK
  <2> QED
    BY <1>2, <1>3, <2>1, <2>4, OnlyOne
<1>9. CacheInv'
  <2>1. \A f \in sure : Agrees(f)
    BY <1>4 DEF SerialInv, CacheInv
  <2> QED
    BY <1>1, <2>1 DEF CacheInv, Agrees
<1>10. RestoredInv'
  <2>1. \A f : ~Pending(f)
    BY <1>4, Listed DEF Pending
  <2>2. ~failed /\ phase \notin {"suspending", "asleep"} => \A f \in Visible : f \in sure
    BY <1>5, <2>1 DEF SerialInv, RestoredInv
  <2> QED
    BY <1>1, <2>2 DEF RestoredInv, Visible
<1> QED
  BY <1>6, <1>7, <1>8, <1>9, <1>10 DEF SerialInv

\* sysfs or a hot key sets one value.
LEMMA KeepSerial ==
  ASSUME SerialInv, TypeInv', Serial', NEW t \in Threads \ {Core},
         NEW f \in Settings \ {"pattern"}, NEW v \in Values(f), Start(t, <<Keep(f, v)>>)
  PROVE  SerialInv'
<1>1. PICK k : k = Keep(f, v)
  OBVIOUS
<1>2. k \in Tasks /\ k \notin Probes /\ k.do = "keep" /\ k.field = f
  <2>1. k \in Ready /\ k.do = "keep" /\ k.field = f
    BY <1>1, TaskSets DEF Keep
  <2> QED
    BY <2>1 DEF Tasks, Probes
<1>3. PICK u : u = <<k>>
  OBVIOUS
<1>4. u \in Seq(Tasks) /\ u # <<>> /\ All(u) = {k} /\ Later(u) = {} /\ Head(u) = k
  BY <1>2, <1>3, Listed
<1>5. LastOnly(u, Lights)
  BY <1>3 DEF LastOnly
<1>6. Start(t, u)
  BY <1>1, <1>3
<1>7. All(u) \cap Probes = {} /\ Later(u) \subseteq Waiting(t)
  BY <1>2, <1>4
<1> QED
  BY <1>2, <1>4, <1>5, <1>6, <1>7, StartSerial

\* sysfs sets the mode.
LEMMA ModeSerial ==
  ASSUME SerialInv, TypeInv', Serial', NEW t \in Threads \ {Core},
         NEW p \in Values("pattern"), Start(t, SetPattern(p))
  PROVE  SerialInv'
<1>1. PICK u : u = SetPattern(p)
  OBVIOUS
<1>2. /\ u \in Seq(Tasks) /\ u # <<>> /\ Head(u) = Keep("pattern", p)
      /\ Later(u) \subseteq {k \in Loads : k.do = "show" /\ k.field # "enabled"}
      /\ p = 0 => \A r \in Regions : Show(r, Cached) \in Later(u)
  BY <1>1, PatternLists
<1>3. All(u) = {Head(u)} \cup Later(u)
  BY <1>2, ListParts
<1>4. Head(u).do = "keep" /\ Head(u).field = "pattern" /\ Head(u).value = p
  BY <1>2 DEF Keep
<1>5. \A k \in All(u) : k \notin Probes /\ k \notin Lights
  <2>1. Head(u) \notin Probes /\ Head(u) \notin Lights
    BY <1>4 DEF Probes, Lights
  <2>2. \A k \in Later(u) : k \notin Probes /\ k \notin Lights
    BY <1>2 DEF Loads, Probes, Lights
  <2> QED
    BY <1>3, <2>1, <2>2
<1>6. LastOnly(u, Lights)
  <2>1. \A i \in 1..Len(u) - 1 : i \in 1..Len(u)
    BY <1>2
  <2> QED
    BY <1>5, <2>1 DEF LastOnly, All
<1>7. Later(u) \subseteq Waiting(t) /\ All(u) \cap Probes = {}
  BY <1>2, <1>5 DEF Waiting
<1> QED
  BY <1>1, <1>2, <1>4, <1>6, <1>7, StartSerial

\* A hot key sets the next color.
LEMMA StrokesSerial ==
  ASSUME SerialInv, TypeInv', Serial', NEW c \in Nat, NEW n \in 0..Len(Palette) - 1,
         Start(Event, Strokes(c, n))
  PROVE  SerialInv'
<1>1. PICK u : u = Strokes(c, n)
  OBVIOUS
<1> DEFINE Ks == Notes \cup {k \in Ready : k.do = "keep" /\ k.field \in Regions}
<1>2. /\ u \in Seq(Tasks) /\ u # <<>> /\ All(u) \subseteq Ks /\ Later(u) \subseteq Ks
  BY <1>1, StrokesFacts
<1>3. ASSUME NEW k \in Ks
      PROVE  k \notin Probes /\ k \notin Lights /\ (k \in Notes \/ (k.do = "keep" /\ k.field # "pattern"))
  BY <1>3, FieldFacts DEF Notes, Probes, Lights
<1>4. Event \in Threads \ {Core} /\ Waiting(Event) = Loads \cup Probes \cup Ks
  BY ThreadFacts DEF Waiting
<1> HIDE DEF Ks
<1>5. LastOnly(u, Lights)
  <2>1. \A i \in 1..Len(u) - 1 : i \in 1..Len(u)
    BY <1>2
  <2> QED
    BY <1>2, <1>3, <2>1 DEF LastOnly, All
<1>6. All(u) \cap Probes = {} /\ Later(u) \subseteq Waiting(Event) /\ Head(u) \in Ks
  <2>1. Head(u) \in All(u)
    BY <1>2, ListParts
  <2> QED
    BY <1>2, <1>3, <1>4, <2>1
<1>7. Start(Event, u)
  BY <1>1
<1> QED
  BY <1>2, <1>3, <1>4, <1>5, <1>6, <1>7, StartSerial

\* The driver core changes the phase while nothing is under way.
LEMMA PowerSerial ==
  ASSUME SerialInv, TypeInv', Serial', ProbeDone \/ Suspend \/ Sleep \/ Resume \/ ResumeDone
  PROVE  SerialInv'
<1>1. Core \in Threads /\ job[Core] = <<>> /\ job[Core] \in Seq(Tasks)
  BY ThreadFacts DEF ProbeDone, Suspend, Sleep, Resume, ResumeDone, CoreIdle, SerialInv, TypeInv
<1>2. ~InitPending
  BY <1>1, Listed DEF InitPending
<1>3. \A t \in Threads : All(job[t]) \cap Probes = {}
  BY <1>1, <1>2 DEF SerialInv, JobsInv, InitPending
<1>4. CASE ProbeDone \/ ResumeDone
  <2>1. /\ UNCHANGED <<led, fw, job, sure, failed>> /\ phase' = "up"
        /\ phase \in {"probing", "resuming"}
    BY <1>4 DEF ProbeDone, ResumeDone
  <2>2. ~InitPending' /\ BootInv'
    BY <1>1, <1>2, <2>1 DEF InitPending, BootInv, Task
  <2>3. JobsInv'
    BY <1>3, <2>1 DEF SerialInv, JobsInv
  <2>4. HeadInv'
    <3>1. ASSUME NEW t \in Threads, job'[t] # <<>> PROVE HeadOK(t, Head(job[t]))'
      <4>1. PICK k : k = Head(job[t])
        OBVIOUS
      <4>2. HeadOK(t, k) /\ t # Core
        BY <1>1, <2>1, <3>1, <4>1 DEF SerialInv, HeadInv
      <4>3. HeadOK(t, k)'
        BY <1>2, <2>1, <4>2 DEF HeadOK
      <4> QED
        BY <2>1, <4>1, <4>3
    <3> QED
      BY <3>1 DEF HeadInv
  <2>5. CacheInv'
    BY <2>1 DEF SerialInv, CacheInv, Agrees
  <2>6. RestoredInv'
    BY <1>2, <2>1 DEF SerialInv, RestoredInv, Visible, Pending, Serves
  <2> QED
    BY <2>2, <2>3, <2>4, <2>5, <2>6 DEF SerialInv
<1>5. CASE Suspend \/ Resume
  <2>1. PICK u : \/ u = Darken /\ Suspend
                 \/ u = WriteState /\ Resume
    BY <1>5
  <2>2. /\ job' = [job EXCEPT ![Core] = u] /\ UNCHANGED <<led, fw, sure>>
        /\ phase' = IF u = Darken /\ Suspend THEN "suspending" ELSE "resuming"
    BY <2>1 DEF Suspend, Resume
  <2>3. /\ u \in Seq(Tasks) /\ u # <<>> /\ LastOnly(u, Lights) /\ Later(u) \subseteq Loads
        /\ All(u) \cap Probes = {}
        /\ \/ Head(u).do = "show" /\ phase' = "suspending"
           \/ Head(u).do = "keep" /\ Head(u).value = Cached
    <3>1. CASE u = Darken /\ Suspend
      <4>1. LastOnly(u, Lights)
        BY <3>1 DEF LastOnly, Darken
      <4>2. All(u) = {Show("enabled", 0)} /\ Head(u).do = "show" /\ Later(u) = {}
        BY <3>1, StateLists DEF Show
      <4>3. Show("enabled", 0) \notin Probes
        BY DEF Show, Probes
      <4> QED
        BY <2>2, <3>1, <4>1, <4>2, <4>3, StateLists
    <3>2. CASE u = WriteState /\ Resume
      <4>1. Loads \cap Probes = {}
        BY DEF Loads, Probes
      <4>2. Head(u).do = "keep" /\ Head(u).value = Cached
        BY <3>2, StateLists DEF Keep
      <4> QED
        BY <3>2, <4>1, <4>2, StateLists
    <3> QED
      BY <2>1, <3>1, <3>2
  <2>4. job'[Core] = u /\ \A x \in Threads \ {Core} : job'[x] = job[x]
    BY <1>1, <2>2, <2>3, StartFacts DEF SerialInv
  <2>5. \A x \in Threads \ {Core} : job'[x] = <<>>
    BY <1>1, <2>3, <2>4 DEF Serial
  <2>6. \A x \in Threads : job[x] = <<>>
    BY <1>1, <2>4, <2>5
  <2>7. ~InitPending' /\ BootInv'
    <3>1. \A k \in All(job'[Core]) : k \in All(job[Core]) \/ k \notin Probes
      BY <2>3, <2>4
    <3> QED
      BY <1>1, <1>2, <2>4, <3>1, NoBoot
  <2>8. JobsInv'
    <3>1. ASSUME NEW x \in Threads
          PROVE  /\ Later(job'[x]) \subseteq Waiting(x) /\ LastOnly(job'[x], Lights)
                 /\ All(job'[x]) \cap Probes = {}
      <4>1. CASE x = Core
        BY <2>3, <2>4, <4>1 DEF Waiting
      <4>2. CASE x # Core
        <5>1. job'[x] = <<>>
          BY <2>5, <4>2
        <5>2. LastOnly(<<>>, Lights)
          BY DEF LastOnly
        <5> QED
          BY <5>1, <5>2, Listed
      <4> QED
        BY <4>1, <4>2
    <3> QED
      BY <3>1 DEF JobsInv
  <2>9. HeadInv'
    <3>1. PICK k : k = Head(u)
      OBVIOUS
    <3>2. HeadOK(Core, k)'
      BY <2>3, <3>1 DEF HeadOK, Cached
    <3> QED
      BY <1>1, <2>4, <2>5, <3>1, <3>2, OnlyOne
  <2>10. CacheInv'
    <3>1. \A f \in sure : Agrees(f)
      BY <2>6 DEF SerialInv, CacheInv
    <3> QED
      BY <2>2, <3>1 DEF CacheInv, Agrees
  <2>11. RestoredInv'
    <3>1. CASE u = Darken /\ Suspend
      BY <2>2, <3>1 DEF RestoredInv
    <3>2. CASE u = WriteState /\ Resume
      <4> SUFFICES ASSUME NEW f \in Visible' PROVE Pending(f)'
        BY DEF RestoredInv
      <4>1. f \in Regions \cup {"pattern", "brightness", "enabled"}
        BY DEF Visible
      <4>2. PICK k : k = Keep(IF f \in Regions THEN "pattern" ELSE f, Cached)
        OBVIOUS
      <4>3. k \in All(job'[Core])
        BY <2>4, <3>2, <4>1, <4>2, StateLists
      <4>4. Serves(k, f)'
        BY <4>1, <4>2 DEF Serves, Keep
      <4> QED
        BY <1>1, <4>3, <4>4, PendingNext
    <3> QED
      BY <2>1, <3>1, <3>2
  <2> QED
    BY <2>7, <2>8, <2>9, <2>10, <2>11 DEF SerialInv
<1>6. CASE Sleep
  <2>1. /\ phase' = "asleep" /\ UNCHANGED <<led, job, failed>>
        /\ \A t \in Threads : job[t] = <<>>
        /\ sure' = {} \/ UNCHANGED <<fw, sure>>
    BY <1>6 DEF Sleep
  <2>2. ~InitPending' /\ BootInv'
    BY <1>1, <1>2, <2>1 DEF InitPending, BootInv, Task
  <2>3. JobsInv'
    BY <1>3, <2>1 DEF SerialInv, JobsInv
  <2>4. HeadInv' /\ RestoredInv'
    BY <2>1 DEF HeadInv, RestoredInv
  <2>5. CacheInv'
    <3>1. \A f \in sure : Agrees(f)
      BY <2>1 DEF SerialInv, CacheInv
    <3> QED
      BY <2>1, <3>1 DEF CacheInv, Agrees
  <2> QED
    BY <2>2, <2>3, <2>4, <2>5 DEF SerialInv
<1> QED
  BY <1>4, <1>5, <1>6

\* The invariant holds initially: the probe has all of its list before it.
LEMMA SerialInit == Init => SerialInv
<1> SUFFICES ASSUME Init PROVE SerialInv
  OBVIOUS
<1>1. PICK p \in Params :
        job = [t \in Threads |->
                 IF t = Core
                 THEN <<[do |-> "probe", params |-> p], [do |-> "init", params |-> p]>>
                        \o WriteState
                 ELSE <<>>]
  BY DEF Init
<1> DEFINE a == [do |-> "probe", params |-> p]
           b == [do |-> "init", params |-> p]
           v == <<b>> \o WriteState
           s == <<a>> \o v
<1>2. a \in Tasks /\ b \in Tasks /\ a \in Probes /\ b \in Probes /\ a \notin Lights /\ b \notin Lights
  BY TaskSets DEF Tasks, Lights
<1>3. WriteState \in Seq(Tasks)
  BY StateLists
<1>4. job[Core] = s
  <2>1. <<a, b>> \o WriteState = <<a>> \o (<<b>> \o WriteState)
    <3>1. PICK x, y, ws : x = a /\ y = b /\ ws = WriteState
      OBVIOUS
    <3>2. /\ <<x>> \in Seq(Tasks) /\ <<y>> \in Seq(Tasks) /\ ws \in Seq(Tasks)
          /\ <<x>> \o <<y>> = <<x, y>>
      <4>1. x \in Tasks /\ y \in Tasks /\ ws \in Seq(Tasks)
        BY <1>2, <1>3, <3>1
      <4>2. <<x>> \o <<y>> = <<x, y>>
        BY CoupleJoined
      <4> QED
        BY <4>1, <4>2
    <3>3. (<<x>> \o <<y>>) \o ws = <<x>> \o (<<y>> \o ws)
      BY <3>2, ConcatAssociative
    <3> QED
      BY <3>1, <3>2, <3>3
  <2>2. job[Core] = <<a, b>> \o WriteState
    BY <1>1, ThreadFacts
  <2> QED
    BY <2>1, <2>2
<1>5. \A t \in Threads \ {Core} : job[t] = <<>>
  BY <1>1
<1> HIDE DEF a, b
<1>6. v \in Seq(Tasks) /\ v # <<>> /\ Head(v) = b /\ Tail(v) = WriteState
  BY <1>2, <1>3, TailJoined
<1> HIDE DEF v
<1>7. All(v) = {b} \cup All(WriteState) /\ Later(v) = All(WriteState)
  BY <1>3, <1>6, ListParts
<1>8. s \in Seq(Tasks) /\ s # <<>> /\ Head(s) = a /\ Tail(s) = v
  BY <1>2, <1>6, TailJoined
<1>9. All(s) = {a} \cup All(v) /\ Later(s) = All(v)
  BY <1>8, ListParts
<1> HIDE DEF s
<1>10. TypeInv
  BY TypeInit
<1>11. Serial
  BY <1>5 DEF Serial
<1>12. JobsInv
  <2>1. Later(s) \subseteq Waiting(Core)
    BY <1>2, <1>7, <1>9, StateLists DEF Waiting
  <2>2. LastOnly(s, Lights)
    <3>1. LastOnly(WriteState, Lights) /\ Len(WriteState) \in Nat
      BY StateLists, LenProperties
    <3>2. LastOnly(v, Lights)
      <4>1. /\ v = <<b>> \o WriteState /\ <<b>> \in Seq(Tasks) /\ Len(<<b>>) = 1 /\ <<b>>[1] = b
        BY <1>2 DEF v
      <4>2. /\ Len(v) = 1 + Len(WriteState)
            /\ \A i \in 1..1 + Len(WriteState) :
                 v[i] = IF i <= 1 THEN <<b>>[i] ELSE WriteState[i - 1]
        BY <1>3, <4>1, ConcatProperties
      <4>3. ASSUME NEW i \in 1..Len(v) - 1 PROVE v[i] \notin Lights
        <5>1. CASE i = 1
          BY <1>2, <3>1, <4>1, <4>2, <5>1
        <5>2. CASE i # 1
          <6>1. i - 1 \in 1..Len(WriteState) - 1 /\ v[i] = WriteState[i - 1]
            BY <3>1, <4>2, <5>2
          <6> QED
            BY <3>1, <6>1 DEF LastOnly
        <5> QED
          BY <5>1, <5>2
      <4> QED
        BY <4>3 DEF LastOnly
    <3>3. Len(v) \in Nat
      BY <1>6, LenProperties
    <3>4. /\ s = <<a>> \o v /\ <<a>> \in Seq(Tasks) /\ Len(<<a>>) = 1 /\ <<a>>[1] = a
      BY <1>2 DEF s
    <3>5. /\ Len(s) = 1 + Len(v)
          /\ \A i \in 1..1 + Len(v) : s[i] = IF i <= 1 THEN <<a>>[i] ELSE v[i - 1]
      BY <1>6, <3>4, ConcatProperties
    <3>6. ASSUME NEW i \in 1..Len(s) - 1 PROVE s[i] \notin Lights
      <4>1. CASE i = 1
        BY <1>2, <3>3, <3>4, <3>5, <4>1
      <4>2. CASE i # 1
        <5>1. i - 1 \in 1..Len(v) - 1 /\ s[i] = v[i - 1]
          BY <3>3, <3>5, <4>2
        <5> QED
          BY <3>2, <5>1 DEF LastOnly
      <4> QED
        BY <4>1, <4>2
    <3> QED
      BY <3>6 DEF LastOnly
  <2>3. ASSUME NEW t \in Threads \ {Core}
        PROVE  Later(job[t]) = {} /\ LastOnly(job[t], Lights) /\ All(job[t]) = {}
    <3>1. LastOnly(<<>>, Lights)
      BY DEF LastOnly
    <3> QED
      BY <1>5, <2>3, <3>1, Listed
  <2>4. phase = "probing"
    BY DEF Init
  <2> QED
    BY <1>4, <2>1, <2>2, <2>3, <2>4 DEF JobsInv
<1>13. InitPending
  BY <1>2, <1>4, <1>9 DEF InitPending
<1>14. BootInv
  <2>1. Booting(job[Core], p)
    BY <1>4, <1>6, <1>8 DEF Booting, InitFirst, a, b
  <2> QED
    BY <2>1 DEF BootInv, Init
<1>15. HeadInv
  <2>1. Head(job[Core]).do = "probe"
    BY <1>4, <1>8 DEF a
  <2> QED
    BY <1>5, <2>1 DEF HeadInv, HeadOK
<1>16. CacheInv /\ RestoredInv
  BY <1>13 DEF CacheInv, RestoredInv, Init
<1> QED
  BY <1>10, <1>11, <1>12, <1>14, <1>15, <1>16 DEF SerialInv

\* Every step keeps it.
LEMMA SerialNext == SerialInv /\ [Next /\ Serial']_vars => SerialInv'
<1> SUFFICES ASSUME SerialInv, [Next /\ Serial']_vars PROVE SerialInv'
  OBVIOUS
<1>1. TypeInv'
  BY TypeNext DEF SerialInv
<1>2. CASE UNCHANGED vars
  BY <1>1, <1>2 DEF vars, SerialInv, Serial, JobsInv, BootInv, Task, HeadInv, HeadOK, CacheInv, Agrees,
                    RestoredInv, InitPending, Visible, Pending, Serves
<1>3. CASE Next /\ Serial'
  <2>0. Serial'
    BY <1>3
  <2>1. CASE \E t \in Threads : Load(t) \/ Call(t) \/ CallFails(t) \/ Store(t)
    BY <1>1, <2>0, <2>1, LoadSerial, CallSerial, FailSerial, StoreSerial
  <2>2. CASE ProbeExtra
    BY <1>1, <2>0, <2>2, ProbeSerial
  <2>3. CASE InitState
    BY <1>1, <2>0, <2>3, InitSerial
  <2>4. CASE \E w \in Writers : \/ WriteBrightness(w) \/ WriteEnabled(w)
                                \/ WriteMode(w) \/ WriteColor(w)
    <3>1. PICK w \in Writers : \/ WriteBrightness(w) \/ WriteEnabled(w)
                               \/ WriteMode(w) \/ WriteColor(w)
      BY <2>4
    <3>2. w \in Threads \ {Core} /\ TypeInv
      BY ThreadFacts DEF SerialInv
    <3>3. \/ \E f \in Settings \ {"pattern"} : \E v \in Values(f) : Start(w, <<Keep(f, v)>>)
          \/ \E p \in Values("pattern") : Start(w, SetPattern(p))
      BY <3>1, <3>2, Written
    <3> QED
      BY <1>1, <2>0, <3>2, <3>3, KeepSerial, ModeSerial
  <2>5. CASE Dim \/ Brighten \/ Toggle \/ NextColor
    <3>1. Event \in Threads \ {Core} /\ TypeInv
      BY ThreadFacts DEF SerialInv
    <3>2. \/ \E f \in Settings \ {"pattern"} : \E v \in Values(f) : Start(Event, <<Keep(f, v)>>)
          \/ \E c \in Nat, n \in 0..Len(Palette) - 1 : Start(Event, Strokes(c, n))
      BY <2>5, <3>1, Pressed
    <3> QED
      BY <1>1, <2>0, <3>1, <3>2, KeepSerial, StrokesSerial
  <2>6. CASE ProbeDone \/ Suspend \/ Sleep \/ Resume \/ ResumeDone
    BY <1>1, <2>0, <2>6, PowerSerial
  <2> QED
    BY <1>3, <2>1, <2>2, <2>3, <2>4, <2>5, <2>6 DEF Next
<1> QED
  BY <1>2, <1>3

\* It is an invariant.
LEMMA SerialCorrect == SerialSpec => []SerialInv
BY SerialInit, SerialNext, PTL DEF SerialSpec

\* While operations follow one another, the cached brightness, mode, colors and
\* light are those the firmware was last told, if it still knows them: a call
\* that fails does not change the cache, and the setting it was about is out
\* if it acted all the same, until a call for it succeeds (set_brightness and
\* its like).
THEOREM CacheCorrect == SerialSpec => []CacheTracksFirmware
<1>1. SerialInv => CacheTracksFirmware
  BY DEF SerialInv, CacheInv, CacheTracksFirmware, Quiet
<1> QED
  BY <1>1, SerialCorrect, PTL

\* Once probe or resume is over and no call has failed, the firmware has been
\* told every visible setting (the callbacks of probe and resume).
THEOREM Restored == SerialSpec => []RestoredWhenQuiet
<1>1. SerialInv => RestoredWhenQuiet
  <2> SUFFICES ASSUME SerialInv, Quiet, phase = "up", ~failed, NEW f \in Visible
               PROVE  Agrees(f)
    BY DEF RestoredWhenQuiet
  <2>1. \A t \in Threads : All(job[t]) = {}
    BY Listed DEF Quiet
  <2>2. ~InitPending /\ ~Pending(f)
    BY <2>1, ThreadFacts DEF InitPending, Pending
  <2>3. f \in sure
    BY <2>2 DEF SerialInv, RestoredInv
  <2> QED
    BY <2>3 DEF SerialInv, CacheInv, Quiet
<1> QED
  BY <1>1, SerialCorrect, PTL

\* When the resume turns the light on, the light is the last of its list: no
\* other visible setting is pending, so all of them are back.
LEMMA LightStep ==
  ASSUME SerialInv, [Next /\ Serial']_vars
  PROVE  phase = "resuming" /\ fw["enabled"] = 0 /\ fw'["enabled"] = 1 /\ ~failed
           => \A f \in Visible \ {"enabled"} : Agrees(f)
<1> SUFFICES ASSUME phase = "resuming", fw["enabled"] = 0, fw'["enabled"] = 1, ~failed,
                    NEW f \in Visible, f # "enabled"
             PROVE  Agrees(f)
  OBVIOUS
<1>0. fw \in [Settings -> Nat] /\ "enabled" \in Settings /\ "extra" # "enabled"
  BY DEF SerialInv, TypeInv, Settings
<1>1. fw' # fw
  OBVIOUS
<1>2. PICK t \in Threads : Call(t) \/ CallFails(t)
  <2>1. Next
    BY <1>1 DEF vars
  <2>2. ~ProbeExtra
    BY <1>0 DEF ProbeExtra
  <2>3. ~Sleep
    BY DEF Sleep
  <2>4. \A t \in Threads : Load(t) \/ Store(t) => fw' = fw
    BY DEF Load, Store
  <2>5. ~InitState /\ ~ProbeDone /\ ~Suspend /\ ~Resume /\ ~ResumeDone
    BY <1>1 DEF InitState, ProbeDone, Suspend, Resume, ResumeDone
  <2>6. \A t, u : ~Start(t, u)
    BY <1>1 DEF Start
  <2>7. ~Dim /\ ~Brighten /\ ~Toggle /\ ~NextColor
    BY <2>6 DEF Dim, Brighten, Toggle, NextColor
  <2>8. \A w \in Writers : ~WriteBrightness(w) /\ ~WriteEnabled(w) /\ ~WriteMode(w) /\ ~WriteColor(w)
    BY <2>6 DEF WriteBrightness, WriteEnabled, WriteMode, WriteColor
  <2> QED
    BY <1>1, <2>1, <2>2, <2>3, <2>4, <2>5, <2>7, <2>8 DEF Next
<1> DEFINE h == Head(job[t])
<1>3. /\ job[t] # <<>> /\ h.do \in {"keep", "show"} /\ h.value # Cached
      /\ fw' = [fw EXCEPT ![h.field] = Shown(h.field, h.value)]
  BY <1>1, <1>2 DEF Call, CallFails, Takes, Task
<1>4. h.field = "enabled"
  BY <1>0, <1>3
<1>5. job[t] \in Seq(Tasks) /\ h \in Tasks
  BY <1>3, Heads DEF SerialInv
<1>6. h \in Lights
  BY <1>3, <1>4, <1>5 DEF Lights
<1>7. Later(job[t]) = {}
  <2>1. LastOnly(job[t], Lights)
    BY DEF SerialInv, JobsInv
  <2>2. Len(job[t]) \in Nat \ {0} /\ h = job[t][1]
    BY <1>3, <1>5
  <2>3. 1 \notin 1..Len(job[t]) - 1
    BY <1>6, <2>1, <2>2 DEF LastOnly
  <2>4. 2..Len(job[t]) = {}
    BY <2>2, <2>3
  <2> QED
    BY <2>4 DEF Later
<1>8. ~InitPending
  <2>1. \A x \in Threads : All(job[x]) \cap Probes # {} => phase = "probing"
    BY DEF SerialInv, JobsInv
  <2> QED
    BY <2>1, ThreadFacts DEF InitPending
<1>9. ~Pending(f)
  <2>1. ~Serves(h, f)
    BY <1>3, <1>4 DEF Serves, Keep
  <2> QED
    BY <1>3, <1>7, <2>1, Busy
<1>10. f \in sure
  BY <1>8, <1>9 DEF SerialInv, RestoredInv
<1> QED
  BY <1>3, <1>10, Busy DEF SerialInv

\* The resume turns the keyboard on only once the colors, pattern and
\* brightness it shows are the user's again (clevo_keyboard_resume).
THEOREM LightsOnLast == SerialSpec => LightsOnWhenRestored
BY SerialCorrect, LightStep, PTL DEF SerialSpec, LightsOnWhenRestored

\* After the probe the driver core only sends what is cached, so noting what
\* it sent changes nothing.
LEMMA SleepStep ==
  ASSUME SerialInv, [Next /\ Serial']_vars
  PROVE  phase # "probing" /\ job'[Core] # job[Core] => led' = led
<1> SUFFICES ASSUME phase # "probing", job'[Core] # job[Core], led' # led PROVE FALSE
  OBVIOUS
<1>0. Core \in Threads /\ led \in [Fields -> Nat] /\ TypeInv
  BY ThreadFacts DEF SerialInv, TypeInv
<1>1. ~InitPending
  BY <1>0 DEF SerialInv, JobsInv, InitPending
<1>2. ~Task(Core, {"probe", "init"})
  <2> SUFFICES ASSUME job[Core] # <<>>, Head(job[Core]).do \in {"probe", "init"} PROVE FALSE
    BY DEF Task
  <2>1. Head(job[Core]) \in Tasks /\ Head(job[Core]) \in All(job[Core])
    BY <1>0, Heads
  <2>2. Head(job[Core]) \in Probes
    BY <2>1, TaskFacts
  <2> QED
    BY <1>1, <2>1, <2>2 DEF InitPending
<1>3. PICK t \in Threads : Store(t)
  <2>1. Next
    BY DEF vars
  <2>2. ~ProbeExtra /\ ~InitState
    BY <1>2 DEF ProbeExtra, InitState, Task
  <2>3. ~Sleep /\ ~ProbeDone /\ ~Suspend /\ ~Resume /\ ~ResumeDone
    BY DEF Sleep, ProbeDone, Suspend, Resume, ResumeDone
  <2>4. \A t \in Threads : Load(t) \/ Call(t) \/ CallFails(t) => led' = led
    BY DEF Load, Call, CallFails
  <2>6. \A t, u : ~Start(t, u)
    BY DEF Start
  <2>7. ~Dim /\ ~Brighten /\ ~Toggle /\ ~NextColor
    BY <2>6 DEF Dim, Brighten, Toggle, NextColor
  <2>8. \A w \in Writers : ~WriteBrightness(w) /\ ~WriteEnabled(w) /\ ~WriteMode(w) /\ ~WriteColor(w)
    BY <2>6 DEF WriteBrightness, WriteEnabled, WriteMode, WriteColor
  <2> QED
    BY <2>1, <2>2, <2>3, <2>4, <2>7, <2>8 DEF Next
<1>4. t = Core
  <2>1. job[t] # <<>> /\ Becomes(t, <<>>) /\ <<>> \in Seq(Tasks)
    BY <1>3, Listed DEF Store, Task
  <2>2. \A x \in Threads \ {t} : job'[x] = job[x]
    BY <1>0, <2>1, BecomesFacts
  <2> QED
    BY <1>0, <2>2
<1> DEFINE h == Head(job[Core])
<1>5. /\ job[Core] # <<>> /\ h.do = "put" /\ led' = [led EXCEPT ![h.field] = h.value]
      /\ h \in Tasks /\ h.value \in Nat /\ h.field \in Settings \cup {"whole"}
  <2>1. job[Core] # <<>> /\ h.do = "put" /\ led' = [led EXCEPT ![h.field] = h.value]
    BY <1>3, <1>4 DEF Store, Task
  <2>2. h \in Tasks
    BY <1>0, <2>1, Heads
  <2> QED
    BY <2>1, <2>2, TaskFacts
<1>6. h.value = led[h.field]
  <2>1. HeadOK(Core, h)
    BY <1>0, <1>5 DEF SerialInv, HeadInv
  <2> QED
    BY <1>5, <2>1, FieldFacts DEF HeadOK
<1> HIDE DEF h
<1> QED
  BY <1>0, <1>5, <1>6

\* Neither the suspend nor the resume changes the cached settings, though the
\* suspend turns the light off (clevo_keyboard_suspend).
THEOREM SleepKeeps == SerialSpec => SleepKeepsSettings
BY SerialCorrect, SleepStep, PTL DEF SerialSpec, SleepKeepsSettings

=============================================================================
