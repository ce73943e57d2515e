--------------------------- MODULE UniwillIoProofs ---------------------------
(***************************************************************************)
(* Proofs about the Uniwill side of TuxedoIo: the lightbar is there as a   *)
(* whole or not at all, it shows what was asked of it, and no fan is left  *)
(* at what the EC ramps it up to.  For any callers, arguments, brightness  *)
(* levels, number of rounds and number of operations.  Each argument       *)
(* starts from what the threads' lists of tasks may look like.             *)
(***************************************************************************)
EXTENDS TuxedoIoProofs, TaskLists

-----------------------------------------------------------------------------
(***************************************************************************)
(* What the threads' lists look like.                                      *)
(***************************************************************************)

\* The k-th task of a take-down,
TakeDownTask(k) ==
  Task(IF k % 2 = 1 THEN "unregister" ELSE "flush", LedOrder[(k + 1) \div 2], 0)

\* and what is left from there on of one of n LEDs that ends with e.
Ending(n, p, e) ==
  [i \in 1..(2 * n + 2 - p) |-> IF i = 2 * n + 2 - p THEN Do(e) ELSE TakeDownTask(p - 1 + i)]

\* The LEDs still registered then.
Standing(n, p) == {LedOrder[j] : j \in {m \in 1..n : 2 * m - 1 >= p}}

\* What is left of a probe from the r-th LED on.
Registering(r) ==
  [i \in 1..(6 - r) |-> IF i = 6 - r THEN Do("probed")
                        ELSE Task("register", LedOrder[r - 1 + i], r - 1 + i)]

\* A probe sets the mode.
FanSet == Write("mode", 0)

\* A probe takes down those before the one that failed, a remove all or none.
TakesDown(n, e) ==
  \/ phase = "probing" /\ n \in 0..3 /\ e = "probed_without"
  \/ phase = "removing" /\ n \in {0, 4} /\ e = "removed"

\* Where probe or remove is, and the LEDs that are registered then.
CoreInv ==
  \/ phase = "out" /\ job[Core] = <<>> /\ leds = {}
  \/ phase = "bound" /\ job[Core] = <<>> /\ leds = (IF loaded THEN Leds ELSE {})
  \/ /\ phase = "probing" /\ leds = {}
     /\ \/ hasLightbar /\ job[Core] = <<FanSet>> \o Registering(1)
        \/ ~hasLightbar /\ job[Core] \in {<<FanSet, Do("probed")>>, <<Do("probed")>>}
  \/ /\ phase = "probing" /\ hasLightbar
     /\ \E r \in 1..5 : job[Core] = Registering(r) /\ leds = Standing(r - 1, 1)
  \/ \E n \in 0..4, e \in {"probed_without", "removed"} : \E p \in 1..(2 * n + 1) :
       TakesDown(n, e) /\ job[Core] = Ending(n, p, e) /\ leds = Standing(n, p)

\* An LED that is not registered has nothing left to do, but for the one
\* whose last work is being waited for.
GoneInv ==
  \A l \in Leds \ leds :
    \/ Idle(l) /\ l \notin queued
    \/ Has1(Core, {"flush"}) /\ Next1(Core).reg = l

\* How the animation is turned on or off, as every color does after its own write.
ReadA  == Read("animation")
SetA   == Set("animation", AnimationOn)
ClearA == Clear("animation", AnimationOn)

ColorJob(c, b) == <<Write(c, b), ReadA, ClearA>>

\* What an LED's work item may have left to do.
LedJob(l, q) ==
  \/ /\ l \in ColorLeds
     /\ q \in {<<>>, <<ClearA>>, <<ReadA, ClearA>>} \/ \E b \in 0..36 : q = ColorJob(l, b)
  \/ /\ l = "animation"
     /\ q = <<>> \/ \E x \in {SetA, ClearA} : q \in {<<x>>, <<ReadA, x>>}

\* The speeds that may be written.
CutSpeeds == {Cut(s) : s \in Speeds}

\* What a caller does to a fan; whatever else it does is to the mode.
FanTasks ==
  {k \in SoundTasks :
     \/ k.reg = "mode" /\ k.do \in {"read", "sleep", "write", "set", "clear"}
     \/ k.reg \in Fans /\ k.do \in {"choose", "write"} /\ k.value \in CutSpeeds}

\* With this a caller decides, and it comes last.
Choosing == {k \in SoundTasks : k.do = "choose"}

\* Both fans are still to be written after the pauses.
EndsWell(q) ==
  /\ Len(q) >= 3
  /\ q[Len(q) - 2].do = "sleep"
  /\ q[Len(q) - 1].do = "write" /\ q[Len(q) - 1].reg = "fan0"
  /\ q[Len(q)].do = "write" /\ q[Len(q)].reg = "fan1"

\* What a caller may have left to do.  If it will switch full fan mode on, it
\* writes both fans at the end.
CallerJob(q) ==
  /\ All(q) \subseteq FanTasks
  /\ LastOnly(q, Choosing)
  /\ (\E k \in All(q) : k.do = "set") => EndsWell(q)

\* Probe and remove access nothing but the mode.
CoreJob(q) == \A k \in All(q) : k.do \in Writing => k = FanSet

\* Everybody's list is of its kind.
JobsInv ==
  /\ \A l \in Leds : LedJob(l, job[l])
  /\ \A c \in Callers : CallerJob(job[c])
  /\ CoreJob(job[Core])

\* A color is on its way to what was asked, or there.
ColorsInv ==
  \A c \in ColorLeds :
    \/ asked[c] = Unasked \/ c \in queued \/ job[c] = ColorJob(c, asked[c])
    \/ /\ job[c] \in {<<>>, <<ClearA>>, <<ReadA, ClearA>>}
       /\ c \in missed \/ ram[c] = asked[c]

\* An animation that was switched off is on its way to be, or is.
AnimationInv ==
  asked["animation"] = 0 =>
    \/ "animation" \in queued
    \/ job["animation"] \in {<<ClearA>>, <<ReadA, ClearA>>}
    \/ job["animation"] = <<>> /\ ("animation" \in missed \/ ~Has(ram["animation"], AnimationOn))

\* Who has read the animation's register, and did not fail to, holds its bits.
BitsInv ==
  "animation" \notin spoilt =>
    /\ Without(ram["animation"], AnimationOn) = AnimationBits
    /\ \A l \in sure \cap Leds :
         job[l] \in {<<SetA>>, <<ClearA>>} => Without(got[l], AnimationOn) = AnimationBits

\* Together these make the lightbar show what it should.
ShowInv == ColorsInv /\ AnimationInv /\ BitsInv

\* An LED's work item is about to turn the animation on.
TurnsOn(l) == job[l] \in {<<SetA>>, <<ReadA, SetA>>}

\* Whatever is still to be done to the animation, somebody wants it so; and at
\* rest somebody wanted what was done to it last.
WishInv ==
  /\ \A l \in queued : (l = "animation" /\ asked[l] = 1) \in animated
  /\ \A l \in Leds : job[l] # <<>> => TurnsOn(l) \in animated
  /\ AtRest => "animation" \in missed \/ Has(ram["animation"], AnimationOn) \in animated

\* While the fans ramp up after a fan call, whoever switched full fan mode on
\* has yet to write both of them.
RampInv ==
  by = "fan" /\ ramp # NoThread => ramp \in Callers /\ EndsWell(job[ramp])

\* And these the fans.
FanInv == RampInv /\ NoFanLeftBehind
-----------------------------------------------------------------------------
(***************************************************************************)
(* The lists of probe and remove, and what a step makes of a list.         *)
(***************************************************************************)
LEMMA LedFacts ==
  /\ LedOrder[1] = "red" /\ LedOrder[2] = "green" /\ LedOrder[3] = "blue" /\ LedOrder[4] = "animation"
  /\ \A i, j \in 1..4 : LedOrder[i] = LedOrder[j] => i = j
  /\ \A i \in 1..4 : LedOrder[i] \in Leds
  /\ \A l \in Leds : \E i \in 1..4 : LedOrder[i] = l
<1>1. LedOrder[1] = "red" /\ LedOrder[2] = "green" /\ LedOrder[3] = "blue" /\ LedOrder[4] = "animation"
  BY DEF LedOrder
<1>2. 1..4 = {1, 2, 3, 4}
  OBVIOUS
<1> QED
  BY <1>1, <1>2 DEF Leds

\* A probe's list loses its first task to become the next one.
LEMMA RegisteringFacts ==
  ASSUME NEW r \in 1..5
  PROVE  /\ Registering(r) \in Seq(SoundTasks) /\ Registering(r) # <<>>
         /\ r = 5 => Head(Registering(r)) = Do("probed") /\ Tail(Registering(r)) = <<>>
         /\ r # 5 => /\ Head(Registering(r)) = Task("register", LedOrder[r], r)
                     /\ Tail(Registering(r)) = Registering(r + 1)
<1>1. ASSUME NEW m \in 1..5
      PROVE  /\ Registering(m) \in Seq(SoundTasks) /\ Len(Registering(m)) = 6 - m
             /\ \A i \in 1..(6 - m) : Registering(m)[i] = IF i = 6 - m THEN Do("probed")
                                       ELSE Task("register", LedOrder[m - 1 + i], m - 1 + i)
  <2>1. ASSUME NEW i \in 1..(6 - m), i # 6 - m
        PROVE  Task("register", LedOrder[m - 1 + i], m - 1 + i) \in SoundTasks
    <3>1. m - 1 + i \in 1..4
      BY <2>1
    <3> QED
      BY <3>1, LedFacts, TaskFacts
  <2>2. Do("probed") \in SoundTasks
    BY TaskFacts
  <2>3. Registering(m) \in [1..(6 - m) -> SoundTasks]
    BY <2>1, <2>2 DEF Registering
  <2>4. 6 - m \in Nat
    OBVIOUS
  <2> QED
    BY <2>3, <2>4 DEF Registering
<1> DEFINE s == Registering(r)
           v == Registering(r + 1)
<1>2. s \in Seq(SoundTasks) /\ s # <<>> /\ Len(s) = 6 - r /\ Head(s) = s[1]
  BY <1>1
<1>3. /\ Tail(s) \in Seq(SoundTasks) /\ Len(Tail(s)) = 5 - r
      /\ \A i \in 1..(5 - r) : Tail(s)[i] = s[i + 1]
  BY <1>2, HeadTailProperties
<1>4. r # 5 => Head(s) = Task("register", LedOrder[r], r)
  BY <1>1, <1>2
<1>5. r = 5 => Head(s) = Do("probed") /\ Tail(s) = <<>>
  <2>1. r = 5 => Len(Tail(s)) = 0
    BY <1>3
  <2> QED
    BY <1>1, <1>2, <1>3, <2>1, EmptySeq
<1>6. ASSUME r # 5 PROVE Tail(s) = v
  <2>1. /\ v \in Seq(SoundTasks) /\ Len(v) = 5 - r
        /\ \A i \in 1..(5 - r) : v[i] = IF i = 5 - r THEN Do("probed")
                                  ELSE Task("register", LedOrder[r + i], r + i)
    <3>1. r + 1 \in 1..5 /\ 6 - (r + 1) = 5 - r /\ \A i \in Int : (r + 1) - 1 + i = r + i
      BY <1>6
    <3> QED
      BY <1>1, <3>1
  <2>2. ASSUME NEW i \in 1..(5 - r) PROVE s[i + 1] = v[i]
    <3>1. i + 1 \in 1..(6 - r) /\ (i + 1 = 6 - r <=> i = 5 - r) /\ r - 1 + (i + 1) = r + i
      OBVIOUS
    <3>2. s[i + 1] = IF i + 1 = 6 - r THEN Do("probed")
                     ELSE Task("register", LedOrder[r - 1 + (i + 1)], r - 1 + (i + 1))
      BY <1>1, <3>1
    <3>3. v[i] = IF i = 5 - r THEN Do("probed") ELSE Task("register", LedOrder[r + i], r + i)
      BY <2>1
    <3> HIDE DEF s, v
    <3> QED
      BY <3>1, <3>2, <3>3
  <2> HIDE DEF s, v
  <2> QED
    BY <1>3, <2>1, <2>2, SeqEqual
<1> QED
  BY <1>2, <1>4, <1>5, <1>6

\* So does that of a take-down.
LEMMA EndingFacts ==
  ASSUME NEW n \in 0..4, NEW p \in 1..(2 * n + 1), NEW e \in {"probed_without", "removed"}
  PROVE  /\ Ending(n, p, e) \in Seq(SoundTasks) /\ Ending(n, p, e) # <<>>
         /\ p = 2 * n + 1 => Head(Ending(n, p, e)) = Do(e) /\ Tail(Ending(n, p, e)) = <<>>
         /\ p # 2 * n + 1 => /\ Head(Ending(n, p, e)) = TakeDownTask(p)
                             /\ Tail(Ending(n, p, e)) = Ending(n, p + 1, e)
<1>1. ASSUME NEW m \in 1..(2 * n + 1)
      PROVE  /\ Ending(n, m, e) \in Seq(SoundTasks) /\ Len(Ending(n, m, e)) = 2 * n + 2 - m
             /\ \A i \in 1..(2 * n + 2 - m) :
                  Ending(n, m, e)[i] = IF i = 2 * n + 2 - m THEN Do(e) ELSE TakeDownTask(m - 1 + i)
  <2>1. ASSUME NEW i \in 1..(2 * n + 2 - m), i # 2 * n + 2 - m
        PROVE  TakeDownTask(m - 1 + i) \in SoundTasks
    <3>1. ((m - 1 + i) + 1) \div 2 \in 1..4
      BY <2>1
    <3>2. LedOrder[((m - 1 + i) + 1) \div 2] \in Leds
      BY <3>1, LedFacts
    <3> QED
      BY <3>2, TaskFacts DEF TakeDownTask
  <2>2. Do(e) \in SoundTasks
    BY TaskFacts
  <2> DEFINE N == 2 * n + 2 - m
             q == Ending(n, m, e)
  <2>3. q = [i \in 1..N |-> IF i = N THEN Do(e) ELSE TakeDownTask(m - 1 + i)] /\ N \in Nat
    BY DEF Ending
  <2>6. \A i \in 1..N : (IF i = N THEN Do(e) ELSE TakeDownTask(m - 1 + i)) \in SoundTasks
    BY <2>1, <2>2
  <2> HIDE DEF N
  <2>8. q \in Seq(SoundTasks)
    BY <2>3, <2>6
  <2> HIDE DEF q
  <2>4. \A i \in 1..N : q[i] = IF i = N THEN Do(e) ELSE TakeDownTask(m - 1 + i)
    BY <2>3
  <2>7. q \in [1..N -> SoundTasks]
    BY <2>3, <2>6
  <2>5. q \in Seq(SoundTasks) /\ Len(q) = N
    <3>1. DOMAIN q = 1..Len(q) /\ Len(q) \in Nat /\ DOMAIN q = 1..N
      BY <2>7, <2>8
    <3> QED
      BY <2>3, <2>8, <3>1
  <2> QED
    BY <2>4, <2>5 DEF N, q
<1> DEFINE s == Ending(n, p, e)
           v == Ending(n, p + 1, e)
           L == 2 * n + 2 - p
<1>0. /\ s \in Seq(SoundTasks) /\ Len(s) = L
      /\ \A i \in 1..L : s[i] = IF i = L THEN Do(e) ELSE TakeDownTask(p - 1 + i)
  BY <1>1
<1>9. L \in Nat \ {0} /\ (L = 1 <=> p = 2 * n + 1) /\ 2 * n + 1 - p = L - 1 /\ p - 1 + 1 = p
  OBVIOUS
<1>11. 1 \in 1..L
  BY <1>9
<1> HIDE DEF s, L
<1>2. s # <<>> /\ Head(s) = s[1]
  BY <1>0, <1>9
<1>3. /\ Tail(s) \in Seq(SoundTasks) /\ Len(Tail(s)) = L - 1
      /\ \A i \in 1..(L - 1) : Tail(s)[i] = s[i + 1]
  BY <1>0, <1>2, HeadTailProperties
<1>4. p # 2 * n + 1 => Head(s) = TakeDownTask(p)
  BY <1>0, <1>2, <1>9, <1>11
<1>5. p = 2 * n + 1 => Head(s) = Do(e) /\ Tail(s) = <<>>
  <2>1. p = 2 * n + 1 => Len(Tail(s)) = 0
    BY <1>3, <1>9
  <2> QED
    BY <1>0, <1>2, <1>3, <1>9, <1>11, <2>1, EmptySeq
<1>6. ASSUME p # 2 * n + 1 PROVE Tail(s) = v
  <2>1. /\ v \in Seq(SoundTasks) /\ Len(v) = L - 1
        /\ \A i \in 1..(L - 1) : v[i] = IF i = L - 1 THEN Do(e) ELSE TakeDownTask(p + i)
    <3>1. /\ p + 1 \in 1..(2 * n + 1) /\ 2 * n + 2 - (p + 1) = L - 1
          /\ \A i \in Int : (p + 1) - 1 + i = p + i
      BY <1>6 DEF L
    <3> DEFINE m == p + 1
    <3>2. m \in 1..(2 * n + 1) /\ 2 * n + 2 - m = L - 1 /\ \A i \in Int : m - 1 + i = p + i
      BY <3>1
    <3>3. \A i \in 1..(L - 1) : i \in Int
      OBVIOUS
    <3> HIDE DEF m
    <3>4. /\ Ending(n, m, e) \in Seq(SoundTasks) /\ Len(Ending(n, m, e)) = L - 1
          /\ \A i \in 1..(L - 1) :
               Ending(n, m, e)[i] = IF i = L - 1 THEN Do(e) ELSE TakeDownTask(m - 1 + i)
      BY <1>1, <3>2
    <3> QED
      BY <3>2, <3>3, <3>4 DEF m
  <2> HIDE DEF v
  <2>2. ASSUME NEW i \in 1..(L - 1) PROVE s[i + 1] = v[i]
    <3>1. i + 1 \in 1..L /\ (i + 1 = L <=> i = L - 1) /\ p - 1 + (i + 1) = p + i
      BY <1>9
    <3> QED
      BY <1>0, <2>1, <3>1
  <2> QED
    BY <1>3, <2>1, <2>2, SeqEqual
<1> QED
  BY <1>0, <1>2, <1>4, <1>5, <1>6 DEF s

\* The lists the code begins with are these.
LEMMA FirstLists ==
  /\ RegisterAll \o <<Do("probed")>> = Registering(1)
  /\ \A n \in 0..4, e \in {"probed_without", "removed"} : TakeDown(n) \o <<Do(e)>> = Ending(n, 1, e)
<1>1. RegisterAll \o <<Do("probed")>> = Registering(1)
  <2> DEFINE u == RegisterAll
             w == <<Do("probed")>>
             v == Registering(1)
  <2>1. u \in Seq(SoundTasks) /\ Len(u) = 4 /\ \A i \in 1..4 : u[i] = Task("register", LedOrder[i], i)
    BY LedLists DEF RegisterAll
  <2>2. w \in Seq(SoundTasks) /\ Len(w) = 1 /\ w[1] = Do("probed")
    BY TaskFacts
  <2>3. /\ v \in Seq(SoundTasks) /\ Len(v) = 5
        /\ \A i \in 1..5 : v[i] = IF i = 5 THEN Do("probed") ELSE Task("register", LedOrder[i], i)
    <3>1. 6 - 1 = 5 /\ \A i \in Int : 1 - 1 + i = i
      OBVIOUS
    <3> QED
      BY <3>1, RegisteringFacts DEF Registering
  <2> HIDE DEF u, w, v
  <2>4. u \o w \in Seq(SoundTasks) /\ Len(u \o w) = 5
        /\ \A i \in 1..5 : (u \o w)[i] = IF i <= 4 THEN u[i] ELSE w[i - 4]
    <3>1. /\ u \o w \in Seq(SoundTasks) /\ Len(u \o w) = Len(u) + Len(w)
          /\ \A i \in 1..(Len(u) + Len(w)) :
               (u \o w)[i] = IF i <= Len(u) THEN u[i] ELSE w[i - Len(u)]
      BY <2>1, <2>2, ConcatProperties
    <3>2. Len(u) = 4 /\ Len(u) + Len(w) = 5
      BY <2>1, <2>2
    <3> QED
      BY <3>1, <3>2
  <2>5. \A i \in 1..5 : (u \o w)[i] = v[i]
    BY <2>1, <2>2, <2>3, <2>4
  <2>6. u \o w = v
    <3>1. u \o w \in Seq(SoundTasks) /\ v \in Seq(SoundTasks) /\ Len(u \o w) = Len(v)
      BY <2>3, <2>4
    <3>2. \A i \in 1..Len(u \o w) : (u \o w)[i] = v[i]
      BY <2>4, <2>5
    <3> QED
      BY ONLY <3>1, <3>2, SeqEqual
  <2> QED
    BY <2>6 DEF u, w, v
<1>2. ASSUME NEW n \in 0..4, NEW e \in {"probed_without", "removed"}
      PROVE  TakeDown(n) \o <<Do(e)>> = Ending(n, 1, e)
  <2> DEFINE u == TakeDown(n)
             w == <<Do(e)>>
             v == Ending(n, 1, e)
  <2>1. u \in Seq(SoundTasks) /\ Len(u) = 2 * n /\ \A i \in 1..(2 * n) : u[i] = TakeDownTask(i)
    BY LedLists DEF TakeDown, TakeDownTask
  <2>2. w \in Seq(SoundTasks) /\ Len(w) = 1 /\ w[1] = Do(e)
    BY TaskFacts
  <2>3. /\ v \in Seq(SoundTasks) /\ Len(v) = 2 * n + 1
        /\ \A i \in 1..(2 * n + 1) : v[i] = IF i = 2 * n + 1 THEN Do(e) ELSE TakeDownTask(i)
    <3> DEFINE N == 2 * n + 1
    <3>1. 1 \in 1..N /\ 2 * n + 2 - 1 = N /\ N \in Nat /\ \A i \in Int : 1 - 1 + i = i
      OBVIOUS
    <3>2. v \in Seq(SoundTasks)
      BY <3>1, EndingFacts
    <3>3. v = [i \in 1..N |-> IF i = N THEN Do(e) ELSE TakeDownTask(i)]
      BY <3>1 DEF Ending
    <3> HIDE DEF N, v
    <3>4. Len(v) = N /\ \A i \in 1..N : v[i] = IF i = N THEN Do(e) ELSE TakeDownTask(i)
      BY <3>1, <3>3
    <3> QED
      BY <3>2, <3>4 DEF N
  <2> HIDE DEF u, w, v
  <2>4. u \o w \in Seq(SoundTasks) /\ Len(u \o w) = 2 * n + 1
        /\ \A i \in 1..(2 * n + 1) : (u \o w)[i] = IF i <= 2 * n THEN u[i] ELSE w[i - 2 * n]
    <3>1. /\ u \o w \in Seq(SoundTasks) /\ Len(u \o w) = Len(u) + Len(w)
          /\ \A i \in 1..(Len(u) + Len(w)) :
               (u \o w)[i] = IF i <= Len(u) THEN u[i] ELSE w[i - Len(u)]
      BY <2>1, <2>2, ConcatProperties
    <3>2. Len(u) = 2 * n /\ Len(u) + Len(w) = 2 * n + 1
      BY <2>1, <2>2
    <3> QED
      BY <3>1, <3>2
  <2>5. \A i \in 1..(2 * n + 1) : (u \o w)[i] = v[i]
    BY <2>1, <2>2, <2>3, <2>4
  <2>6. u \o w = v
    BY <2>3, <2>4, <2>5, SeqEqual
  <2> QED
    BY <2>6 DEF u, w, v
<1> QED
  BY <1>1, <1>2

\* The LEDs standing, as one more is registered, or turned off and flushed.
LEMMA StandingFacts ==
  /\ Standing(0, 1) = {}
  /\ Standing(4, 1) = Leds
  /\ \A r \in 1..4 : Standing(r, 1) = Standing(r - 1, 1) \cup {LedOrder[r]}
  /\ \A n \in 0..4 : Standing(n, 2 * n + 1) = {}
  /\ \A n \in 0..4 : \A p \in 1..(2 * n) :
       /\ p % 2 = 1 => Standing(n, p + 1) = Standing(n, p) \ {LedOrder[(p + 1) \div 2]}
       /\ p % 2 = 0 => Standing(n, p + 1) = Standing(n, p)
<1>1. \A n \in 0..4 : Standing(n, 2 * n + 1) = {}
  BY DEF Standing
<1>2. Standing(4, 1) = Leds
  <2>1. \A m \in 1..4 : 2 * m - 1 >= 1
    OBVIOUS
  <2>2. Standing(4, 1) = {LedOrder[j] : j \in 1..4}
    BY <2>1 DEF Standing
  <2> QED
    BY <2>2, LedFacts
<1>3. ASSUME NEW r \in 1..4 PROVE Standing(r, 1) = Standing(r - 1, 1) \cup {LedOrder[r]}
  <2>1. {m \in 1..r : 2 * m - 1 >= 1} = {m \in 1..(r - 1) : 2 * m - 1 >= 1} \cup {r}
    OBVIOUS
  <2> QED
    BY <2>1 DEF Standing
<1>4. ASSUME NEW n \in 0..4, NEW p \in 1..(2 * n), p % 2 = 1
      PROVE  Standing(n, p + 1) = Standing(n, p) \ {LedOrder[(p + 1) \div 2]}
  <2> DEFINE h == (p + 1) \div 2
             P == {m \in 1..n : 2 * m - 1 >= p}
             Q == {m \in 1..n : 2 * m - 1 >= p + 1}
  <2>1. h \in 1..n /\ 2 * h = p + 1
    BY <1>4
  <2>2. Q = P \ {h}
    BY <2>1
  <2>3. P \subseteq 1..4 /\ h \in 1..4
    BY <2>1
  <2>4. Standing(n, p) = {LedOrder[j] : j \in P} /\ Standing(n, p + 1) = {LedOrder[j] : j \in Q}
    BY DEF Standing
  <2> HIDE DEF h, P, Q
  <2>5. \A j \in P : LedOrder[j] = LedOrder[h] <=> j = h
    BY <2>3, LedFacts
  <2>6. Standing(n, p + 1) = Standing(n, p) \ {LedOrder[h]}
    BY <2>2, <2>4, <2>5
  <2> QED
    BY <2>6 DEF h
<1>5. ASSUME NEW n \in 0..4, NEW p \in 1..(2 * n), p % 2 = 0
      PROVE  Standing(n, p + 1) = Standing(n, p)
  <2>1. \A m \in 1..n : 2 * m - 1 >= p + 1 <=> 2 * m - 1 >= p
    BY <1>5
  <2> QED
    BY <2>1 DEF Standing
<1>6. Standing(0, 1) = {}
  BY DEF Standing
<1> QED
  BY <1>1, <1>2, <1>3, <1>4, <1>5, <1>6

\* The first task of t is done, and nothing comes in its place.
LEMMA PassOn ==
  ASSUME JobInv, NEW t \in Threads, ~Idle(t), Becomes(t, <<>>)
  PROVE  job'[t] = Tail(job[t]) /\ \A u \in Threads : u # t => job'[u] = job[u]
<1>1. Tail(job[t]) \in Seq(SoundTasks)
  BY NextTask
<1>2. <<>> \o Tail(job[t]) = Tail(job[t])
  BY <1>1, ConcatEmptySeq
<1> QED
  BY <1>2 DEF Becomes, JobInv

-----------------------------------------------------------------------------
(***************************************************************************)
(* The lightbar is there as a whole or not at all.                         *)
(***************************************************************************)

\* What the next task of probe or remove says of where it is.
LEMMA CoreNext ==
  ASSUME CoreInv, ~Idle(Core)
  PROVE  \/ /\ phase = "probing" /\ leds = {} /\ Next1(Core) = FanSet
            /\ \/ hasLightbar /\ Tail(job[Core]) = Registering(1)
               \/ ~hasLightbar /\ Tail(job[Core]) = <<Do("probed")>>
         \/ /\ phase = "probing" /\ hasLightbar
            /\ \E r \in 1..4 : /\ Next1(Core) = Task("register", LedOrder[r], r)
                               /\ Tail(job[Core]) = Registering(r + 1)
                               /\ leds = Standing(r - 1, 1)
         \/ /\ phase = "probing" /\ Next1(Core) = Do("probed") /\ Tail(job[Core]) = <<>>
            /\ leds = IF hasLightbar THEN Leds ELSE {}
         \/ \E n \in 0..4, e \in {"probed_without", "removed"} : \E p \in 1..(2 * n) :
              /\ TakesDown(n, e) /\ Next1(Core) = TakeDownTask(p)
              /\ Tail(job[Core]) = Ending(n, p + 1, e) /\ leds = Standing(n, p)
         \/ \E n \in 0..4, e \in {"probed_without", "removed"} :
              TakesDown(n, e) /\ Next1(Core) = Do(e) /\ Tail(job[Core]) = <<>> /\ leds = {}
<1>1. CASE phase = "probing" /\ leds = {} /\ hasLightbar /\ job[Core] = <<FanSet>> \o Registering(1)
  <2>1. FanSet \in SoundTasks /\ Registering(1) \in Seq(SoundTasks)
    BY TaskFacts, RegisterFacts, RegisteringFacts DEF FanSet
  <2>2. Head(job[Core]) = FanSet /\ Tail(job[Core]) = Registering(1)
    BY <1>1, <2>1, TailJoined
  <2> QED
    BY <1>1, <2>2 DEF Next1
<1>2. CASE /\ phase = "probing" /\ leds = {} /\ ~hasLightbar
           /\ job[Core] \in {<<FanSet, Do("probed")>>, <<Do("probed")>>}
  <2>1. CASE job[Core] = <<FanSet, Do("probed")>>
    <3>1. Head(job[Core]) = FanSet /\ Tail(job[Core]) = <<Do("probed")>>
      BY <2>1
    <3> QED
      BY <1>2, <3>1 DEF Next1
  <2>2. CASE job[Core] = <<Do("probed")>>
    <3>1. Head(job[Core]) = Do("probed") /\ Tail(job[Core]) = <<>>
      BY <2>2
    <3> QED
      BY <1>2, <3>1 DEF Next1
  <2> QED
    BY <1>2, <2>1, <2>2
<1>3. ASSUME phase = "probing", hasLightbar,
             NEW r \in 1..5, job[Core] = Registering(r), leds = Standing(r - 1, 1)
      PROVE  \/ /\ r \in 1..4
                /\ Next1(Core) = Task("register", LedOrder[r], r)
                /\ Tail(job[Core]) = Registering(r + 1)
             \/ /\ Next1(Core) = Do("probed") /\ Tail(job[Core]) = <<>>
                /\ leds = IF hasLightbar THEN Leds ELSE {}
  <2>1. CASE r = 5
    <3>1. Head(job[Core]) = Do("probed") /\ Tail(job[Core]) = <<>>
      BY <1>3, <2>1, RegisteringFacts
    <3>2. leds = Standing(4, 1)
      BY <1>3, <2>1
    <3> QED
      BY <1>3, <3>1, <3>2, StandingFacts DEF Next1
  <2>2. CASE r # 5
    <3>1. r \in 1..4
      BY <2>2
    <3> QED
      BY <1>3, <2>2, <3>1, RegisteringFacts DEF Next1
  <2> QED
    BY <2>1, <2>2
<1>4. ASSUME NEW n \in 0..4, NEW e \in {"probed_without", "removed"}, NEW p \in 1..(2 * n + 1),
             job[Core] = Ending(n, p, e), leds = Standing(n, p)
      PROVE  \/ /\ p \in 1..(2 * n) /\ Next1(Core) = TakeDownTask(p)
                /\ Tail(job[Core]) = Ending(n, p + 1, e)
             \/ Next1(Core) = Do(e) /\ Tail(job[Core]) = <<>> /\ leds = {}
  <2>1. CASE p = 2 * n + 1
    <3>1. Head(Ending(n, p, e)) = Do(e) /\ Tail(Ending(n, p, e)) = <<>>
      BY <2>1, EndingFacts
    <3>3. Head(job[Core]) = Do(e) /\ Tail(job[Core]) = <<>>
      BY <1>4, <3>1
    <3>2. leds = {}
      BY <1>4, <2>1, StandingFacts
    <3> QED
      BY <3>3, <3>2 DEF Next1
  <2>2. CASE p # 2 * n + 1
    <3>1. p \in 1..(2 * n)
      BY <2>2
    <3> QED
      BY <1>4, <2>2, <3>1, EndingFacts DEF Next1
  <2> QED
    BY <2>1, <2>2
<1>5. CASE \E r \in 1..5 : /\ phase = "probing" /\ hasLightbar
                           /\ job[Core] = Registering(r) /\ leds = Standing(r - 1, 1)
  BY <1>3, <1>5
<1>6. CASE \E n \in 0..4, e \in {"probed_without", "removed"} : \E p \in 1..(2 * n + 1) :
             TakesDown(n, e) /\ job[Core] = Ending(n, p, e) /\ leds = Standing(n, p)
  <2>1. PICK n \in 0..4, e \in {"probed_without", "removed"} : \E p \in 1..(2 * n + 1) :
             TakesDown(n, e) /\ job[Core] = Ending(n, p, e) /\ leds = Standing(n, p)
    BY <1>6
  <2> QED
    BY <1>4, <2>1
<1> QED
  BY <1>1, <1>2, <1>5, <1>6 DEF CoreInv, Idle

\* What kind of task it is tells which of these it is.
LEMMA CoreKinds ==
  ASSUME CoreInv, ~Idle(Core)
  PROVE  /\ Has1(Core, Writing \cup {"read"}) =>
              /\ phase = "probing" /\ leds = {} /\ Next1(Core) = FanSet
              /\ \/ hasLightbar /\ Tail(job[Core]) = Registering(1)
                 \/ ~hasLightbar /\ Tail(job[Core]) = <<Do("probed")>>
         /\ Has1(Core, {"register"}) =>
              /\ phase = "probing" /\ hasLightbar
              /\ \E r \in 1..4 : /\ Next1(Core) = Task("register", LedOrder[r], r)
                                 /\ Tail(job[Core]) = Registering(r + 1)
                                 /\ leds = Standing(r - 1, 1)
         /\ Has1(Core, {"probed"}) =>
              /\ phase = "probing" /\ Tail(job[Core]) = <<>>
              /\ leds = IF hasLightbar THEN Leds ELSE {}
         /\ Has1(Core, {"unregister", "flush"}) =>
              \E n \in 0..4, e \in {"probed_without", "removed"} : \E p \in 1..(2 * n) :
                /\ TakesDown(n, e) /\ Next1(Core) = TakeDownTask(p)
                /\ Tail(job[Core]) = Ending(n, p + 1, e) /\ leds = Standing(n, p)
         /\ Has1(Core, {"probed_without"}) =>
              phase = "probing" /\ Tail(job[Core]) = <<>> /\ leds = {}
         /\ Has1(Core, {"removed"}) =>
              phase = "removing" /\ Tail(job[Core]) = <<>> /\ leds = {}
<1>1. /\ FanSet.do = "write"
      /\ \A l, n : Task("register", l, n).do = "register"
      /\ \A e : Do(e).do = e
      /\ \A p : TakeDownTask(p).do \in {"unregister", "flush"}
  BY DEF FanSet, Write, Task, Do, TakeDownTask
<1> DEFINE k == Next1(Core).do
<1>2. CASE k = "write"
  BY <1>1, <1>2, CoreNext DEF Has1, Writing
<1>3. CASE k = "register"
  BY <1>1, <1>3, CoreNext DEF Has1, Writing
<1>4. CASE k = "probed"
  BY <1>1, <1>4, CoreNext DEF Has1, Writing
<1>5. CASE k \in {"unregister", "flush"}
  BY <1>1, <1>5, CoreNext DEF Has1, Writing
<1>6. CASE k \in {"probed_without", "removed"}
  BY <1>1, <1>6, CoreNext DEF Has1, Writing, TakesDown
<1>7. k \in {"write", "register", "probed", "unregister", "flush", "probed_without", "removed"}
  <2>1. \/ Next1(Core) = FanSet \/ Next1(Core) = Do("probed")
        \/ \E r \in 1..4 : Next1(Core) = Task("register", LedOrder[r], r)
        \/ \E p : Next1(Core) = TakeDownTask(p)
        \/ \E e \in {"probed_without", "removed"} : Next1(Core) = Do(e)
    BY CoreNext
  <2> QED
    BY ONLY <1>1, <2>1
<1> HIDE DEF k
<1> QED
  BY <1>2, <1>3, <1>4, <1>5, <1>6, <1>7

\* What decides both of them.
LEMMA WholeUnchanged ==
  ASSUME CoreInv, GoneInv, UNCHANGED <<job, lightbar>>
  PROVE  CoreInv' /\ GoneInv'
BY DEF CoreInv, GoneInv, TakesDown, Idle, Has1, Next1, lightbar

\* A step of an LED's or a caller's own leaves probe and remove where they are.
LEMMA CoreKept ==
  ASSUME CoreInv, UNCHANGED <<hasLightbar, phase, leds, loaded>>, job'[Core] = job[Core]
  PROVE  CoreInv'
BY DEF CoreInv, TakesDown

\* Nor does it leave anything to an LED that has gone.
LEMMA GoneKept ==
  ASSUME GoneInv, leds' = leds, job'[Core] = job[Core],
         \A l \in Leds \ leds : (Idle(l) => Idle(l)') /\ (l \in queued' => l \in queued)
  PROVE  GoneInv'
BY DEF GoneInv, Has1, Next1, Idle

\* An access.
LEMMA WholeAccess ==
  ASSUME UniwillInv, CoreInv, GoneInv, NEW t \in Threads, Access(t), UNCHANGED lightbar
  PROVE  CoreInv' /\ GoneInv'
<1>1. ~Idle(t) /\ Becomes(t, <<>>) /\ Has1(t, Writing \cup {"read"})
  BY DEF Access, ReadEc, WriteEc, Has1
<1>2. job'[t] = Tail(job[t]) /\ \A u \in Threads : u # t => job'[u] = job[u]
  BY <1>1, PassOn DEF UniwillInv
<1>3. CASE t # Core
  <2>1. job'[Core] = job[Core]
    BY <1>2, <1>3, RegisterFacts
  <2>2. \A l \in Leds : Idle(l) => Idle(l)'
    BY <1>1, <1>2, RegisterFacts DEF Idle
  <2> QED
    BY <2>1, <2>2, CoreKept, GoneKept DEF lightbar
<1>4. CASE t = Core
  <2>1. /\ phase = "probing" /\ leds = {}
        /\ \/ hasLightbar /\ job'[Core] = Registering(1)
           \/ ~hasLightbar /\ job'[Core] = <<Do("probed")>>
    BY <1>1, <1>2, <1>4, CoreKinds
  <2>2. Standing(0, 1) = {} /\ 1 \in 1..5 /\ 1 - 1 = 0
    BY StandingFacts
  <2>3. CoreInv'
    BY <2>1, <2>2 DEF CoreInv, lightbar
  <2>4. \A l \in Leds : job'[l] = job[l]
    BY <1>2, <1>4, ThreadsAssumption, RegisterFacts DEF Leds, Core
  <2>5. ~Has1(Core, {"flush"})
    BY <1>1, <1>4 DEF Has1, Writing
  <2>6. GoneInv'
    BY <2>4, <2>5 DEF GoneInv, Idle, lightbar
  <2> QED
    BY <2>3, <2>6
<1> QED
  BY <1>3, <1>4

\* A caller's step in its ioctl, and the fans' own.
LEMMA WholeFans ==
  ASSUME UniwillInv, CoreInv, GoneInv, UNCHANGED lightbar,
         \/ \E c \in Callers : Ioctl(c) \/ Choose(c) \/ Sleep(c)
         \/ \E f \in Fans : RampUp(f)
         \/ RampEnds
  PROVE  CoreInv' /\ GoneInv'
<1>1. CASE \E c \in Callers : Ioctl(c) \/ Choose(c) \/ Sleep(c)
  <2>1. PICK c \in Callers : Ioctl(c) \/ Choose(c) \/ Sleep(c)
    BY <1>1
  <2>2. \E q : job' = [job EXCEPT ![c] = q]
    BY <2>1 DEF Ioctl, SetFan, FanAuto, SetMode, Choose, Sleep, Starts, Passes, Becomes
  <2>3. \A u \in Threads : u # c => job'[u] = job[u]
    BY <2>2 DEF UniwillInv, JobInv
  <2>4. c # Core /\ c \notin Leds
    BY ThreadsAssumption
  <2>5. job'[Core] = job[Core] /\ \A l \in Leds : job'[l] = job[l]
    BY <2>3, <2>4, RegisterFacts
  <2> QED
    BY <2>5, CoreKept, GoneKept DEF lightbar, Idle
<1>2. CASE (\E f \in Fans : RampUp(f)) \/ RampEnds
  <2>1. job' = job
    BY <1>2 DEF RampUp, RampEnds, ec
  <2> QED
    BY <2>1, WholeUnchanged
<1> QED
  BY <1>1, <1>2

\* The steps of the lightbar.
LEMMA WholeLightbar ==
  ASSUME UniwillInv, CoreInv, GoneInv,
         \/ \E l \in Leds : SetLed(l) \/ LedWork(l)
         \/ Bind \/ RegisterLed \/ RegisterFails \/ Probed
         \/ Unbind \/ UnregisterLed \/ FlushLed \/ Removed
  PROVE  CoreInv' /\ GoneInv'
<1>0. /\ job \in [Threads -> Seq(SoundTasks)] /\ Core \in Threads /\ Leds \subseteq Threads
      /\ Core \notin Leds
  BY RegisterFacts, ThreadsAssumption DEF UniwillInv, JobInv, Leds, Core
<1>1. ASSUME NEW l \in Leds, SetLed(l) PROVE CoreInv' /\ GoneInv'
  <2>1. job' = job /\ queued' = queued \cup {l} /\ l \in leds
    BY <1>1 DEF SetLed, Asks, ec
  <2>2. \A m \in Leds \ leds : m \in queued' => m \in queued
    BY <2>1
  <2> QED
    BY <1>1, <2>1, <2>2, CoreKept, GoneKept DEF SetLed, Idle
<1>2. ASSUME NEW l \in Leds, LedWork(l) PROVE CoreInv' /\ GoneInv'
  <2>1. /\ \A u \in Threads : u # l => job'[u] = job[u]
        /\ UNCHANGED <<hasLightbar, phase, leds, loaded>> /\ queued' = queued \ {l} /\ l \in queued
    BY <1>0, <1>2 DEF LedWork, Starts
  <2>2. job'[Core] = job[Core]
    BY <1>0, <2>1
  <2>3. CoreInv'
    BY <2>1, <2>2, CoreKept
  <2>4. GoneInv'
    BY <1>0, <2>1, <2>2 DEF GoneInv, Idle, Has1, Next1
  <2> QED
    BY <2>3, <2>4
<1>3. CASE Bind
  <2>1. phase = "out" /\ leds = {} /\ job[Core] = <<>>
    BY <1>3 DEF Bind, CoreInv, TakesDown, Idle
  <2>2. /\ phase' = "probing" /\ UNCHANGED <<hasLightbar, leds, loaded, queued>>
        /\ \A l \in Leds : job'[l] = job[l]
        /\ job'[Core] = FanSetup \o (IF hasLightbar THEN RegisterAll ELSE <<>>) \o <<Do("probed")>>
    BY <1>0, <1>3 DEF Bind
  <2>3. /\ hasLightbar => job'[Core] = <<FanSet>> \o Registering(1)
        /\ ~hasLightbar => job'[Core] = <<FanSet, Do("probed")>>
    <3>1. FanSetup = <<FanSet>> /\ <<FanSet>> \in Seq(SoundTasks) /\ <<Do("probed")>> \in Seq(SoundTasks)
      BY LedLists DEF FanSetup, FanSet
    <3>2. CASE hasLightbar
      <4>1. job'[Core] = (<<FanSet>> \o RegisterAll) \o <<Do("probed")>>
        BY <2>2, <3>1, <3>2
      <4>2. (<<FanSet>> \o RegisterAll) \o <<Do("probed")>> = <<FanSet>> \o (RegisterAll \o <<Do("probed")>>)
        <5>1. RegisterAll \in Seq(SoundTasks)
          BY LedLists
        <5> QED
          BY <3>1, <5>1, ConcatAssociative
      <4> QED
        BY <3>2, <4>1, <4>2, FirstLists
    <3>3. CASE ~hasLightbar
      <4>1. job'[Core] = (<<FanSet>> \o <<>>) \o <<Do("probed")>>
        BY <2>2, <3>1, <3>3
      <4>2. <<FanSet>> \o <<>> = <<FanSet>>
        BY <3>1, ConcatEmptySeq
      <4> QED
        BY <3>3, <4>1, <4>2, CoupleJoined
    <3> QED
      BY <3>2, <3>3
  <2>4. CoreInv'
    BY <2>1, <2>2, <2>3 DEF CoreInv
  <2>5. GoneInv'
    BY <2>1, <2>2 DEF GoneInv, Idle, Has1
  <2> QED
    BY <2>4, <2>5
<1>4. ASSUME NEW kinds, Has1(Core, kinds), Passes(Core, <<>>)
      PROVE  /\ ~Idle(Core) /\ job'[Core] = Tail(job[Core])
             /\ \A l \in Leds : job'[l] = job[l]
  BY <1>0, <1>4, PassOn DEF Has1, Passes, UniwillInv
<1>5. CASE RegisterLed
  <2>1. /\ ~Idle(Core) /\ job'[Core] = Tail(job[Core]) /\ \A l \in Leds : job'[l] = job[l]
        /\ leds' = leds \cup {Next1(Core).reg} /\ Has1(Core, {"register"})
        /\ UNCHANGED <<hasLightbar, phase, loaded, asked, queued>>
    BY <1>4, <1>5 DEF RegisterLed
  <2>2. phase = "probing" /\ hasLightbar
    BY <2>1, CoreKinds
  <2>3. PICK r \in 1..4 : /\ Next1(Core) = Task("register", LedOrder[r], r)
                          /\ Tail(job[Core]) = Registering(r + 1) /\ leds = Standing(r - 1, 1)
    BY <2>1, CoreKinds
  <2>4. leds' = Standing(r, 1)
    BY <2>1, <2>3, StandingFacts DEF Task
  <2>5. r + 1 \in 1..5 /\ (r + 1) - 1 = r
    OBVIOUS
  <2>6. CoreInv'
    BY <2>1, <2>2, <2>3, <2>4, <2>5 DEF CoreInv
  <2>7. GoneInv'
    BY <2>1 DEF GoneInv, Idle, Has1
  <2> QED
    BY <2>6, <2>7
<1>6. CASE RegisterFails
  <2>1. /\ ~Idle(Core) /\ \A l \in Leds : job'[l] = job[l]
        /\ job'[Core] = TakeDown(Next1(Core).value - 1) \o <<Do("probed_without")>>
        /\ Has1(Core, {"register"}) /\ UNCHANGED lightbar
    BY <1>0, <1>6 DEF RegisterFails, Has1
  <2>2. PICK r \in 1..4 : Next1(Core) = Task("register", LedOrder[r], r) /\ leds = Standing(r - 1, 1)
    BY <2>1, CoreKinds
  <2>3. phase = "probing"
    BY <2>1, CoreKinds
  <2>4. r - 1 \in 0..3 /\ r - 1 \in 0..4 /\ 1 \in 1..(2 * (r - 1) + 1)
    OBVIOUS
  <2>5. job'[Core] = Ending(r - 1, 1, "probed_without")
    <3> DEFINE n == r - 1
    <3>1. Next1(Core).value - 1 = n /\ n \in 0..4
      BY <2>2, <2>4 DEF Task
    <3>2. job'[Core] = TakeDown(n) \o <<Do("probed_without")>>
      BY <2>1, <3>1
    <3> HIDE DEF n
    <3>3. TakeDown(n) \o <<Do("probed_without")>> = Ending(n, 1, "probed_without")
      BY <3>1, FirstLists
    <3> QED
      BY <3>2, <3>3 DEF n
  <2>6. CoreInv'
    <3> DEFINE n == r - 1
    <3>1. n \in 0..4 /\ 1 \in 1..(2 * n + 1) /\ TakesDown(n, "probed_without")'
      BY <2>1, <2>3, <2>4 DEF TakesDown, lightbar
    <3>2. job'[Core] = Ending(n, 1, "probed_without") /\ leds' = Standing(n, 1)
      BY <2>1, <2>2, <2>5 DEF lightbar
    <3> HIDE DEF n
    <3> QED
      BY <3>1, <3>2 DEF CoreInv
  <2>7. GoneInv'
    BY <2>1 DEF GoneInv, Idle, Has1, lightbar
  <2> QED
    BY <2>6, <2>7
<1>7. CASE Probed
  <2>1. /\ ~Idle(Core) /\ job'[Core] = Tail(job[Core]) /\ \A l \in Leds : job'[l] = job[l]
        /\ Has1(Core, {"probed", "probed_without"})
        /\ loaded' = (hasLightbar /\ Next1(Core).do = "probed") /\ phase' = "bound"
        /\ UNCHANGED <<hasLightbar, leds, asked, queued>>
    BY <1>4, <1>7 DEF Probed
  <2>2. CASE Next1(Core).do = "probed"
    <3>1. Has1(Core, {"probed"})
      BY <2>1, <2>2 DEF Has1
    <3>2. Tail(job[Core]) = <<>> /\ leds = IF hasLightbar THEN Leds ELSE {}
      BY <2>1, <3>1, CoreKinds
    <3> QED
      BY <2>1, <2>2, <3>2 DEF CoreInv, GoneInv, Idle, Has1
  <2>3. CASE Next1(Core).do = "probed_without"
    <3>1. Has1(Core, {"probed_without"})
      BY <2>1, <2>3 DEF Has1
    <3>2. Tail(job[Core]) = <<>> /\ leds = {}
      BY <2>1, <3>1, CoreKinds
    <3> QED
      BY <2>1, <2>3, <3>2 DEF CoreInv, GoneInv, Idle, Has1
  <2> QED
    BY <2>1, <2>2, <2>3 DEF Has1
<1>8. CASE Unbind
  <2>1. /\ phase = "bound" /\ phase' = "removing" /\ UNCHANGED <<hasLightbar, leds, loaded, queued>>
        /\ \A l \in Leds : job'[l] = job[l]
        /\ job'[Core] = (IF loaded THEN TakeDown(4) ELSE <<>>) \o <<Do("removed")>>
    BY <1>0, <1>8 DEF Unbind, Starts
  <2>2. leds = IF loaded THEN Leds ELSE {}
    BY <2>1 DEF CoreInv, TakesDown
  <2> DEFINE n == IF loaded THEN 4 ELSE 0
  <2>3. n \in 0..4 /\ n \in {0, 4} /\ 1 \in 1..(2 * n + 1)
    OBVIOUS
  <2>4. leds' = Standing(n, 1)
    <3>1. CASE loaded
      BY <2>1, <2>2, <3>1, StandingFacts
    <3>2. CASE ~loaded
      BY <2>1, <2>2, <3>2, StandingFacts
    <3> QED
      BY <3>1, <3>2
  <2>5. job'[Core] = Ending(n, 1, "removed")
    <3>1. TakeDown(n) \o <<Do("removed")>> = Ending(n, 1, "removed")
      <4> HIDE DEF n
      <4> QED
        BY <2>3, FirstLists
    <3>3. TakeDown(0) = <<>>
      <4>1. TakeDown(0) \in Seq(SoundTasks) /\ Len(TakeDown(0)) = 0
        BY LedLists DEF TakeDown
      <4> QED
        BY <4>1, EmptySeq
    <3> QED
      BY <2>1, <3>1, <3>3
  <2> HIDE DEF n
  <2>6. CoreInv'
    <3>1. "removed" \in {"probed_without", "removed"}
      OBVIOUS
    <3> QED
      BY <2>1, <2>3, <2>4, <2>5, <3>1 DEF CoreInv, TakesDown
  <2>7. GoneInv'
    BY <1>8, <2>1 DEF Unbind, Starts, GoneInv, Idle, Has1
  <2> QED
    BY <2>6, <2>7
<1>9. CASE UnregisterLed
  <2>1. /\ ~Idle(Core) /\ job'[Core] = Tail(job[Core]) /\ \A l \in Leds : job'[l] = job[l]
        /\ Has1(Core, {"unregister"})
        /\ leds' = leds \ {Next1(Core).reg} /\ queued' = queued \cup {Next1(Core).reg}
        /\ UNCHANGED <<hasLightbar, phase, loaded>>
    BY <1>4, <1>9 DEF UnregisterLed, Asks
  <2>2. Has1(Core, {"unregister", "flush"}) /\ ~Has1(Core, {"flush"})
    BY <2>1 DEF Has1
  <2>3. PICK n \in 0..4, e \in {"probed_without", "removed"} : \E p \in 1..(2 * n) :
             /\ TakesDown(n, e) /\ Next1(Core) = TakeDownTask(p)
             /\ Tail(job[Core]) = Ending(n, p + 1, e) /\ leds = Standing(n, p)
    BY <2>1, <2>2, CoreKinds
  <2>4. PICK p \in 1..(2 * n) :
             /\ TakesDown(n, e) /\ Next1(Core) = TakeDownTask(p)
             /\ Tail(job[Core]) = Ending(n, p + 1, e) /\ leds = Standing(n, p)
    BY <2>3
  <2>5. p % 2 = 1 /\ Next1(Core).reg = LedOrder[(p + 1) \div 2]
    BY <2>1, <2>4 DEF TakeDownTask, Task, Has1
  <2> DEFINE m == p + 1
  <2>6. m \in 1..(2 * n + 1) /\ m # 2 * n + 1 /\ m % 2 = 0 /\ (m + 1) \div 2 = (p + 1) \div 2
    BY <2>5
  <2>7. leds' = Standing(n, m)
    BY <2>1, <2>4, <2>5, StandingFacts
  <2>8. job'[Core] = Ending(n, m, e) /\ TakesDown(n, e)'
    BY <2>1, <2>4 DEF TakesDown
  <2>9. Has1(Core, {"flush"})' /\ Next1(Core)'.reg = Next1(Core).reg
    <3>1. LedOrder[(m + 1) \div 2] = LedOrder[(p + 1) \div 2]
      BY <2>6
    <3>2. TakeDownTask(m).do = "flush" /\ TakeDownTask(m).reg = LedOrder[(p + 1) \div 2]
      BY <2>6, <3>1 DEF TakeDownTask, Task
    <3> HIDE DEF m
    <3>3. Head(Ending(n, m, e)) = TakeDownTask(m) /\ Ending(n, m, e) # <<>>
      BY <2>6, EndingFacts
    <3> QED
      BY <2>5, <2>8, <3>2, <3>3 DEF Has1, Idle, Next1
  <2> HIDE DEF m
  <2>10. CoreInv'
    BY <2>6, <2>7, <2>8 DEF CoreInv
  <2>11. GoneInv'
    BY <2>1, <2>2, <2>9 DEF GoneInv, Idle
  <2> QED
    BY <2>10, <2>11
<1>10. CASE FlushLed
  <2>1. /\ ~Idle(Core) /\ job'[Core] = Tail(job[Core]) /\ \A l \in Leds : job'[l] = job[l]
        /\ Has1(Core, {"flush"}) /\ UNCHANGED lightbar
        /\ Next1(Core).reg \notin queued /\ Idle(Next1(Core).reg)
    BY <1>4, <1>10 DEF FlushLed
  <2>2. Has1(Core, {"unregister", "flush"})
    BY <2>1 DEF Has1
  <2>3. PICK n \in 0..4, e \in {"probed_without", "removed"} : \E p \in 1..(2 * n) :
             /\ TakesDown(n, e) /\ Next1(Core) = TakeDownTask(p)
             /\ Tail(job[Core]) = Ending(n, p + 1, e) /\ leds = Standing(n, p)
    BY <2>1, <2>2, CoreKinds
  <2>4. PICK p \in 1..(2 * n) :
             /\ TakesDown(n, e) /\ Next1(Core) = TakeDownTask(p)
             /\ Tail(job[Core]) = Ending(n, p + 1, e) /\ leds = Standing(n, p)
    BY <2>3
  <2>5. p % 2 = 0
    BY <2>1, <2>4 DEF TakeDownTask, Task, Has1
  <2> DEFINE m == p + 1
  <2>6. m \in 1..(2 * n + 1)
    OBVIOUS
  <2>7. leds' = Standing(n, m)
    BY <2>1, <2>4, <2>5, StandingFacts DEF lightbar
  <2>8. job'[Core] = Ending(n, m, e) /\ TakesDown(n, e)'
    BY <2>1, <2>4 DEF TakesDown, lightbar
  <2> HIDE DEF m
  <2>9. CoreInv'
    BY <2>6, <2>7, <2>8 DEF CoreInv
  <2>10. GoneInv'
    BY <2>1 DEF GoneInv, Idle, lightbar
  <2> QED
    BY <2>9, <2>10
<1>11. CASE Removed
  <2>1. /\ ~Idle(Core) /\ job'[Core] = Tail(job[Core]) /\ \A l \in Leds : job'[l] = job[l]
        /\ Has1(Core, {"removed"}) /\ phase' = "out"
        /\ UNCHANGED <<hasLightbar, leds, loaded, asked, queued>>
    BY <1>0, <1>11, PassOn DEF Removed, Has1, UniwillInv
  <2>2. Tail(job[Core]) = <<>> /\ leds = {}
    BY <2>1, CoreKinds
  <2> QED
    BY <2>1, <2>2 DEF CoreInv, GoneInv, Idle, Has1
<1> QED
  BY <1>1, <1>2, <1>3, <1>5, <1>6, <1>7, <1>8, <1>9, <1>10, <1>11

\* Whichever step the Uniwill machine takes.
LEMMA WholeStep ==
  ASSUME UniwillInv, CoreInv, GoneInv, UniwillOp \/ UniwillStep
  PROVE  CoreInv' /\ GoneInv'
<1>1. ASSUME NEW t \in Threads, Access(t), UNCHANGED lightbar PROVE CoreInv' /\ GoneInv'
  BY <1>1, WholeAccess
<1>2. ASSUME \/ \E c \in Callers : Choose(c) \/ Sleep(c)
             \/ \E c \in Callers : Ioctl(c)
             \/ \E f \in Fans : RampUp(f)
             \/ RampEnds,
             UNCHANGED lightbar
      PROVE  CoreInv' /\ GoneInv'
  BY <1>2, WholeFans
<1>3. ASSUME \/ \E l \in Leds : SetLed(l)
             \/ \E l \in Leds : LedWork(l)
             \/ Bind \/ RegisterLed \/ RegisterFails \/ Probed
             \/ Unbind \/ UnregisterLed \/ FlushLed \/ Removed
      PROVE  CoreInv' /\ GoneInv'
  BY <1>3, WholeLightbar
<1> QED
  BY <1>1, <1>2, <1>3 DEF UniwillOp, UniwillStep, Ioctl

\* A machine's other side does not touch any of this.
LEMMA OnlyUniwill ==
  ASSUME [Next]_vars
  PROVE  UNCHANGED uniwill \/ UniwillOp \/ UniwillStep
BY DEF Next, vars, IoInit, IoExit, OtherDriver

\* After a probe there is all of the lightbar or nothing, after a removal
\* nothing, and no work of an LED that has gone is left to run.
THEOREM LightbarWhole == Spec => []LightbarAllOrNone
<1>1. Init => CoreInv /\ GoneInv
  BY ThreadsAssumption, RegisterFacts
  DEF Init, EcInit, LightbarInit, CoreInv, GoneInv, Idle
<1>2. IInv /\ CoreInv /\ GoneInv /\ [Next]_vars => CoreInv' /\ GoneInv'
  <2> SUFFICES ASSUME IInv, CoreInv, GoneInv, [Next]_vars PROVE CoreInv' /\ GoneInv'
    OBVIOUS
  <2>1. CASE UNCHANGED uniwill
    BY <2>1, WholeUnchanged DEF uniwill, ec
  <2>2. CASE UniwillOp \/ UniwillStep
    BY <2>2, WholeStep DEF IInv
  <2> QED
    BY <2>1, <2>2, OnlyUniwill
<1>3. CoreInv /\ GoneInv => LightbarAllOrNone
  <2> SUFFICES ASSUME CoreInv, GoneInv, Idle(Core)
               PROVE  /\ leds = (IF phase = "bound" /\ loaded THEN Leds ELSE {})
                      /\ \A l \in Leds \ leds : Idle(l) /\ l \notin queued
    BY DEF LightbarAllOrNone
  <2>1. /\ \A r \in 1..5 : Registering(r) # <<>>
        /\ \A n \in 0..4, e \in {"probed_without", "removed"} : \A p \in 1..(2 * n + 1) :
             Ending(n, p, e) # <<>>
        /\ <<FanSet>> \o Registering(1) # <<>>
    <3>1. FanSet \in SoundTasks /\ Registering(1) \in Seq(SoundTasks)
      BY TaskFacts, RegisterFacts, RegisteringFacts DEF FanSet
    <3> QED
      BY <3>1, RegisteringFacts, EndingFacts, TailJoined
  <2>2. leds = (IF phase = "bound" /\ loaded THEN Leds ELSE {})
    BY <2>1 DEF CoreInv, Idle
  <2> QED
    BY <2>2 DEF GoneInv, Has1
<1> QED
  BY InitIInv, Invariance, <1>1, <1>2, <1>3, PTL DEF Spec

-----------------------------------------------------------------------------
(***************************************************************************)
(* The lists of the lightbar's work items and of the callers.              *)
(***************************************************************************)

\* Three tasks, one after the other.
LEMMA OneAndTwo ==
  ASSUME NEW S, NEW a \in S, NEW b \in S, NEW c \in S
  PROVE  <<a>> \o <<b, c>> = <<a, b, c>>
<1> DEFINE u == <<a>>
           v == <<b, c>>
           q == <<a, b, c>>
<1>1. /\ u \in Seq(S) /\ Len(u) = 1 /\ u[1] = a
      /\ v \in Seq(S) /\ Len(v) = 2 /\ v[1] = b /\ v[2] = c
      /\ q \in Seq(S) /\ Len(q) = 3 /\ q[1] = a /\ q[2] = b /\ q[3] = c
  OBVIOUS
<1> HIDE DEF u, v, q
<1>2. /\ u \o v \in Seq(S) /\ Len(u \o v) = 3
      /\ \A i \in 1..3 : (u \o v)[i] = IF i <= 1 THEN u[i] ELSE v[i - 1]
  <2>1. /\ u \o v \in Seq(S) /\ Len(u \o v) = Len(u) + Len(v)
        /\ \A i \in 1..(Len(u) + Len(v)) :
             (u \o v)[i] = IF i <= Len(u) THEN u[i] ELSE v[i - Len(u)]
    BY <1>1, ConcatProperties
  <2>2. Len(u) = 1 /\ Len(u) + Len(v) = 3
    BY <1>1
  <2> QED
    BY <2>1, <2>2
<1>3. \A i \in 1..3 : (u \o v)[i] = q[i]
  BY <1>1, <1>2
<1>4. u \o v = q
  BY <1>1, <1>2, <1>3, SeqEqual
<1> QED
  BY <1>4 DEF u, v, q

\* What lightbar_set_blocking does for each LED.
LEMMA BlockingLists ==
  /\ \A b : SetBlocking("animation", b) = <<ReadA, IF b = 1 THEN SetA ELSE ClearA>>
  /\ \A c \in ColorLeds : \A b \in 0..36 : SetBlocking(c, b) = ColorJob(c, b)
  /\ \A c \in ColorLeds : SetBlocking(c, Unasked) = <<ReadA, ClearA>>
<1>1. \A on \in BOOLEAN : WriteAnimation(on) = <<ReadA, IF on THEN SetA ELSE ClearA>>
  BY DEF WriteAnimation, ReadA, SetA, ClearA
<1>2. ASSUME NEW b PROVE SetBlocking("animation", b) = <<ReadA, IF b = 1 THEN SetA ELSE ClearA>>
  BY <1>1 DEF SetBlocking
<1>3. /\ ReadA \in SoundTasks /\ ClearA \in SoundTasks
      /\ \A c \in ColorLeds, b \in 0..36 : Write(c, b) \in SoundTasks
  <2>1. AnimationOn = BitOf("animation") /\ "animation" \in Registers
    BY RegisterFacts DEF BitOf, Leds
  <2>2. \A c \in ColorLeds : c \in Registers
    BY RegisterFacts DEF ColorLeds
  <2>3. \A b \in 0..36 : b \in 0..255
    OBVIOUS
  <2> QED
    BY <2>1, <2>2, <2>3, TaskFacts DEF ReadA, ClearA
<1> DEFINE turned == <<ReadA, ClearA>>
           Rgb(c, b) == [d \in ColorLeds |-> IF d = c THEN b ELSE Untouched]
<1>4. turned \in Seq(SoundTasks) /\ WriteAnimation(FALSE) = turned
  <2>1. turned \in Seq(SoundTasks)
    BY <1>3, Pair
  <2>2. WriteAnimation(FALSE) = <<ReadA, IF FALSE THEN SetA ELSE ClearA>>
    BY <1>1
  <2> QED
    BY <2>1, <2>2
<1>5. /\ \A d : WriteColor(d, Untouched) = <<>>
      /\ \A d, b : d \in ColorLeds /\ b \in 0..36 => WriteColor(d, b) = <<Write(d, b)>>
  <2>1. \A d : ~(Untouched <= MaxBrightness(d))
    BY DEF MaxBrightness, Untouched
  <2>2. \A d \in ColorLeds : MaxBrightness(d) = 36
    BY DEF MaxBrightness, ColorLeds, Leds
  <2>3. \A b \in 0..36 : b <= 36
    OBVIOUS
  <2> QED
    BY <2>1, <2>2, <2>3 DEF WriteColor
<1>6. ColorLeds = {"red", "green", "blue"}
  BY DEF ColorLeds, Leds
<1>7. ASSUME NEW c \in ColorLeds, NEW b
      PROVE  SetBlocking(c, b) = WriteRgb(Rgb(c, b)) \o turned
  BY <1>4, <1>6, <1>7 DEF SetBlocking
<1>8. ASSUME NEW c \in ColorLeds, NEW b \in 0..36
      PROVE  SetBlocking(c, b) = ColorJob(c, b)
  <2> DEFINE w == <<Write(c, b)>>
  <2>1. w \in Seq(SoundTasks) /\ WriteColor(c, b) = w
    <3>1. Write(c, b) \in SoundTasks
      BY <1>3
    <3>2. w \in Seq(SoundTasks)
      BY <3>1
    <3>3. WriteColor(c, b) = w
      BY <1>5
    <3> QED
      BY <3>2, <3>3
  <2>2. \A d \in ColorLeds : WriteColor(d, Rgb(c, b)[d]) = IF d = c THEN w ELSE <<>>
    BY <1>5, <2>1
  <2> HIDE DEF w, Rgb, turned
  <2>3. <<>> \o w = w /\ w \o <<>> = w /\ <<>> \o <<>> = <<>>
    BY <2>1, ConcatEmptySeq
  <2>4. WriteRgb(Rgb(c, b)) = w
    BY <1>6, <2>2, <2>3 DEF WriteRgb
  <2>5. w \o turned = ColorJob(c, b)
    BY <1>3, OneAndTwo DEF w, turned, ColorJob
  <2> QED
    BY <1>7, <2>4, <2>5
<1>9. ASSUME NEW c \in ColorLeds PROVE SetBlocking(c, Unasked) = turned
  <2>1. \A d \in ColorLeds : WriteColor(d, Rgb(c, Unasked)[d]) = <<>>
    BY <1>5 DEF Unasked, Untouched
  <2> HIDE DEF Rgb, turned
  <2>2. <<>> \o <<>> = <<>> /\ <<>> \o turned = turned
    BY <1>4, EmptyList, ConcatEmptySeq
  <2>3. WriteRgb(Rgb(c, Unasked)) = <<>>
    BY <1>6, <2>1, <2>2 DEF WriteRgb
  <2> QED
    BY <1>7, <2>2, <2>3
<1> QED
  BY <1>2, <1>8, <1>9

\* What an LED's work item does next, and what it has left then.
LEMMA LedNext ==
  ASSUME NEW l \in Leds, NEW q, LedJob(l, q), q # <<>>
  PROVE  \/ /\ l \in ColorLeds /\ Tail(q) = <<ReadA, ClearA>>
            /\ \E b \in 0..36 : q = ColorJob(l, b) /\ Head(q) = Write(l, b)
         \/ /\ Head(q) = ReadA
            /\ \E x \in {SetA, ClearA} : q = <<ReadA, x>> /\ Tail(q) = <<x>>
            /\ l \in ColorLeds => Tail(q) = <<ClearA>>
         \/ /\ \E x \in {SetA, ClearA} : q = <<x>> /\ Head(q) = x
            /\ Tail(q) = <<>> /\ (l \in ColorLeds => q = <<ClearA>>)
<1>1. ASSUME NEW a, NEW b, NEW c
      PROVE  /\ Head(<<a>>) = a /\ Tail(<<a>>) = <<>>
             /\ Head(<<a, b>>) = a /\ Tail(<<a, b>>) = <<b>>
             /\ Head(<<a, b, c>>) = a /\ Tail(<<a, b, c>>) = <<b, c>>
  OBVIOUS
<1>2. CASE l \in ColorLeds /\ \E b \in 0..36 : q = ColorJob(l, b)
  BY <1>1, <1>2 DEF ColorJob
<1>3. CASE q = <<ReadA, ClearA>>
  BY <1>1, <1>3
<1>4. CASE q = <<ClearA>>
  BY <1>1, <1>4
<1>5. ASSUME l = "animation", NEW x \in {SetA, ClearA}, q \in {<<x>>, <<ReadA, x>>}
      PROVE  \/ Head(q) = ReadA /\ q = <<ReadA, x>> /\ Tail(q) = <<x>>
             \/ q = <<x>> /\ Head(q) = x /\ Tail(q) = <<>>
  <2>1. CASE q = <<x>>
    BY <1>1, <2>1
  <2>2. CASE q = <<ReadA, x>>
    BY <1>1, <2>2
  <2> QED
    BY <1>5, <2>1, <2>2
<1>6. CASE l = "animation" /\ \E x \in {SetA, ClearA} : q \in {<<x>>, <<ReadA, x>>}
  BY <1>5, <1>6 DEF ColorLeds
<1> QED
  BY <1>2, <1>3, <1>4, <1>6 DEF LedJob

\* The kinds of these tasks, and what they are about.
LEMMA LedKinds ==
  /\ ReadA.do = "read" /\ ReadA.reg = "animation"
  /\ SetA.do = "set" /\ SetA.reg = "animation" /\ SetA.value = 128
  /\ ClearA.do = "clear" /\ ClearA.reg = "animation" /\ ClearA.value = 128
  /\ \A c, b : Write(c, b).do = "write" /\ Write(c, b).reg = c /\ Write(c, b).value = b
BY DEF ReadA, SetA, ClearA, Read, Set, Clear, Write, Task, AnimationOn

\* The lists an LED's work item goes through are told apart by their lengths.
LEMMA LedLengths ==
  /\ Len(<<>>) = 0 /\ Len(<<SetA>>) = 1 /\ Len(<<ClearA>>) = 1
  /\ \A x : Len(<<ReadA, x>>) = 2
  /\ \A c, b : Len(ColorJob(c, b)) = 3
  /\ <<SetA>> # <<ClearA>> /\ <<ReadA, SetA>> # <<ReadA, ClearA>>
  /\ \A c, b, d : ColorJob(c, b) = ColorJob(c, d) => b = d
<1>1. SetA # ClearA
  BY LedKinds
<1>2. \A a, b : <<a>> = <<b>> => a = b
  OBVIOUS
<1>3. \A a, b, c : <<a, b>> = <<a, c>> => b = c
  OBVIOUS
<1>4. ASSUME NEW c, NEW b, NEW d, ColorJob(c, b) = ColorJob(c, d)
      PROVE  b = d
  <2>1. ColorJob(c, b)[1] = Write(c, b) /\ ColorJob(c, d)[1] = Write(c, d)
    BY DEF ColorJob
  <2>2. Write(c, b) = Write(c, d)
    BY <1>4, <2>1
  <2> QED
    BY <2>2, LedKinds
<1>5. /\ Len(<<>>) = 0 /\ Len(<<SetA>>) = 1 /\ Len(<<ClearA>>) = 1
      /\ \A x : Len(<<ReadA, x>>) = 2
      /\ \A c, b : Len(ColorJob(c, b)) = 3
  BY DEF ColorJob
<1> QED
  BY <1>1, <1>2, <1>3, <1>4, <1>5

\* A list that ends with the fans' writes still does without its first task,
\* unless that is the pause before them; and whatever precedes it.
LEMMA EndingWell ==
  ASSUME NEW q \in Seq(SoundTasks), EndsWell(q)
  PROVE  /\ q # <<>>
         /\ Head(q).do # "sleep" => EndsWell(Tail(q))
         /\ (\E k \in All(Tail(q)) : k.do = "set") => EndsWell(Tail(q))
         /\ \A u \in Seq(SoundTasks) : EndsWell(u \o q)
<1> DEFINE n == Len(q)
           v == Tail(q)
<1>1. /\ n \in Nat /\ n >= 3 /\ q # <<>> /\ Head(q) = q[1]
      /\ v \in Seq(SoundTasks) /\ Len(v) = n - 1
      /\ \A i \in 1..(n - 1) : v[i] = q[i + 1]
  BY HeadTailProperties DEF EndsWell
<1>2. /\ q[n - 2].do = "sleep"
      /\ q[n - 1].do = "write" /\ q[n - 1].reg = "fan0"
      /\ q[n].do = "write" /\ q[n].reg = "fan1"
  BY DEF EndsWell
<1> HIDE DEF n, v
<1>3. n > 3 => EndsWell(v)
  <2> SUFFICES ASSUME n > 3 PROVE EndsWell(v)
    OBVIOUS
  <2>1. /\ n - 3 \in 1..(n - 1) /\ (n - 3) + 1 = n - 2 /\ (n - 1) - 2 = n - 3
        /\ n - 2 \in 1..(n - 1) /\ (n - 2) + 1 = n - 1 /\ (n - 1) - 1 = n - 2
        /\ n - 1 \in 1..(n - 1) /\ (n - 1) + 1 = n /\ n - 1 >= 3
    BY <1>1
  <2>2. v[n - 3] = q[n - 2] /\ v[n - 2] = q[n - 1] /\ v[n - 1] = q[n]
    BY <1>1, <2>1
  <2> QED
    BY <1>1, <1>2, <2>1, <2>2 DEF EndsWell
<1>4. ASSUME n = 3 PROVE Head(q).do = "sleep" /\ \A k \in All(v) : k.do = "write"
  <2>1. Len(v) = 2 /\ v[1] = q[2] /\ v[2] = q[3] /\ 1..2 = {1, 2} /\ n - 2 = 1 /\ n - 1 = 2
    BY <1>1, <1>4
  <2>2. q[1].do = "sleep" /\ q[2].do = "write" /\ q[3].do = "write"
    BY <1>2, <1>4, <2>1
  <2> QED
    BY <1>1, <2>1, <2>2 DEF All
<1>5. ASSUME NEW u \in Seq(SoundTasks) PROVE EndsWell(u \o q)
  <2> DEFINE m == Len(u)
             r == u \o q
  <2>1. /\ m \in Nat /\ Len(r) = m + n
        /\ \A i \in 1..(m + n) : r[i] = IF i <= m THEN u[i] ELSE q[i - m]
    BY ConcatProperties DEF n
  <2> HIDE DEF m, r
  <2>2. /\ m + n - 2 \in 1..(m + n) /\ ~(m + n - 2 <= m) /\ (m + n - 2) - m = n - 2
        /\ m + n - 1 \in 1..(m + n) /\ ~(m + n - 1 <= m) /\ (m + n - 1) - m = n - 1
        /\ m + n \in 1..(m + n) /\ ~(m + n <= m) /\ (m + n) - m = n /\ m + n >= 3
    BY <1>1, <2>1
  <2>3. r[m + n - 2] = q[n - 2] /\ r[m + n - 1] = q[n - 1] /\ r[m + n] = q[n]
    BY <2>1, <2>2
  <2>4. Len(r) >= 3 /\ r[Len(r) - 2] = q[n - 2] /\ r[Len(r) - 1] = q[n - 1] /\ r[Len(r)] = q[n]
    <3>1. Len(r) = m + n /\ Len(r) - 2 = m + n - 2 /\ Len(r) - 1 = m + n - 1
      <4>1. m \in Nat /\ n \in Nat /\ Len(r) = m + n
        BY <1>1, <2>1
      <4> QED
        BY ONLY <4>1
    <3>2. m + n >= 3
      BY <2>2
    <3> QED
      BY ONLY <2>3, <3>1, <3>2
  <2>5. EndsWell(r)
    BY <1>2, <2>4 DEF EndsWell
  <2> QED
    BY <2>5 DEF r
<1>6. n = 3 \/ n > 3
  BY <1>1
<1>7. /\ Head(q).do # "sleep" => EndsWell(v)
      /\ (\E k \in All(v) : k.do = "set") => EndsWell(v)
  <2>1. "set" # "write"
    OBVIOUS
  <2> QED
    BY <1>3, <1>4, <1>6, <2>1
<1> QED
  BY <1>1, <1>5, <1>7 DEF v

\* A caller's list without its first task.
LEMMA CallerTail ==
  ASSUME NEW q \in Seq(SoundTasks), q # <<>>, CallerJob(q)
  PROVE  /\ CallerJob(Tail(q))
         /\ Head(q) \in FanTasks
         /\ Head(q).do = "choose" => Tail(q) = <<>>
         /\ Head(q).do = "set" => EndsWell(Tail(q))
<1>1. /\ Head(q) \in SoundTasks /\ Tail(q) \in Seq(SoundTasks) /\ Head(q) \in All(q)
      /\ All(Tail(q)) = Later(q) /\ All(q) = {Head(q)} \cup Later(q)
      /\ Len(q) \in Nat \ {0} /\ Len(Tail(q)) = Len(q) - 1 /\ Head(q) = q[1]
  BY ListParts
<1>2. All(Tail(q)) \subseteq FanTasks /\ Head(q) \in FanTasks
  BY <1>1 DEF CallerJob
<1>3. LastOnly(Tail(q), Choosing)
  <2>1. All(<<>>) \cap Choosing = {} /\ <<>> \in Seq(SoundTasks)
    BY Listed
  <2>2. <<>> \o Tail(q) = Tail(q)
    BY <1>1, ConcatEmptySeq
  <2>3. LastOnly(<<>> \o Tail(q), Choosing)
    BY <2>1, LastOnlyReplaced DEF CallerJob
  <2> QED
    BY <2>2, <2>3
<1>4. (\E k \in All(Tail(q)) : k.do = "set") => EndsWell(Tail(q))
  BY <1>1, EndingWell DEF CallerJob
<1>5. Head(q).do = "choose" => Tail(q) = <<>>
  <2> SUFFICES ASSUME Head(q).do = "choose" PROVE Tail(q) = <<>>
    OBVIOUS
  <2>1. q[1] \in Choosing
    BY <1>1 DEF Choosing
  <2>2. ~(1 \in 1..(Len(q) - 1))
    BY <2>1 DEF CallerJob, LastOnly
  <2>3. Len(Tail(q)) = 0
    BY <1>1, <2>2
  <2> QED
    BY <1>1, <2>3, EmptySeq
<1>6. Head(q).do = "set" => EndsWell(Tail(q))
  <2>1. "set" # "sleep"
    OBVIOUS
  <2> QED
    BY <1>1, <2>1, EndingWell DEF CallerJob
<1> QED
  BY <1>2, <1>3, <1>4, <1>5, <1>6 DEF CallerJob

\* What the callers' calls begin with.
LEMMA CallLists ==
  /\ \A f \in Fans, s \in Speeds : CallerJob(<<Read("mode"), Task("choose", f, Cut(s))>>)
  /\ CallerJob(<<Read("mode"), Clear("mode", FullMode)>>)
  /\ \A m \in Modes : CallerJob(<<Write("mode", Cut(m))>>)
<1>1. ASSUME NEW a \in FanTasks, NEW b \in FanTasks, a.do # "set", b.do # "set", a.do # "choose"
      PROVE  CallerJob(<<a, b>>)
  <2>1. a \in SoundTasks /\ b \in SoundTasks /\ a \notin Choosing
    BY <1>1 DEF FanTasks, Choosing
  <2>2. All(<<a, b>>) = {a, b}
    BY Twos DEF Couple
  <2>3. Len(<<a, b>>) - 1 = 1 /\ <<a, b>>[1] = a
    OBVIOUS
  <2>4. LastOnly(<<a, b>>, Choosing)
    BY <2>1, <2>3 DEF LastOnly
  <2> QED
    BY <1>1, <2>2, <2>4 DEF CallerJob
<1>2. ASSUME NEW a \in FanTasks, a.do # "set"
      PROVE  CallerJob(<<a>>)
  <2>1. a \in SoundTasks
    BY <1>2 DEF FanTasks
  <2>2. All(<<a>>) = {a}
    BY <2>1, Listed
  <2>3. Len(<<a>>) - 1 = 0
    OBVIOUS
  <2>4. LastOnly(<<a>>, Choosing)
    BY <2>3 DEF LastOnly
  <2> QED
    BY <1>2, <2>2, <2>4 DEF CallerJob
<1> DEFINE R == Read("mode")
           K == Clear("mode", FullMode)
<1>3. /\ R \in FanTasks /\ R.do = "read"
      /\ K \in FanTasks /\ K.do = "clear"
  <2>1. FullMode = BitOf("mode") /\ "mode" \in Registers
    BY RegisterFacts DEF BitOf
  <2>2. R \in SoundTasks /\ K \in SoundTasks
    BY <2>1, TaskFacts
  <2> QED
    BY <2>2 DEF FanTasks, Read, Clear, Task
<1>4. ASSUME NEW f \in Fans, NEW s \in Speeds
      PROVE  Task("choose", f, Cut(s)) \in FanTasks /\ Task("choose", f, Cut(s)).do = "choose"
  <2>1. Cut(s) \in CutSpeeds /\ Cut(s) \in 0..255 /\ f \in Registers
    BY CutIsByte, FansAssumption, RegisterFacts DEF CutSpeeds
  <2>2. Task("choose", f, Cut(s)) \in SoundTasks
    BY <2>1, TaskFacts
  <2> QED
    BY <2>1, <2>2 DEF FanTasks, Task
<1>5. ASSUME NEW m \in Modes
      PROVE  Write("mode", Cut(m)) \in FanTasks /\ Write("mode", Cut(m)).do = "write"
  <2>1. Cut(m) \in 0..255 /\ "mode" \in Registers
    BY CutIsByte, FansAssumption, RegisterFacts
  <2>2. Write("mode", Cut(m)) \in SoundTasks
    BY <2>1, TaskFacts
  <2> QED
    BY <2>2 DEF FanTasks, Write, Task
<1> HIDE DEF R, K
<1>6. CallerJob(<<R, K>>)
  BY <1>1, <1>3
<1>7. ASSUME NEW f \in Fans, NEW s \in Speeds
      PROVE  CallerJob(<<R, Task("choose", f, Cut(s))>>)
  BY <1>1, <1>3, <1>4
<1>8. ASSUME NEW m \in Modes PROVE CallerJob(<<Write("mode", Cut(m))>>)
  BY <1>2, <1>5
<1> QED
  BY <1>6, <1>7, <1>8 DEF R, K

\* What they go on with once the mode has been read.
LEMMA ChosenLists ==
  ASSUME NEW f \in Fans, NEW s \in 0..255, s \in CutSpeeds
  PROVE  CallerJob(<<Write(f, s)>>) /\ CallerJob(Switch(f, s))
<1>1. /\ Write(f, s) \in SoundTasks /\ Write("fan0", s) \in SoundTasks
      /\ Write("fan1", s) \in SoundTasks /\ Do("sleep") \in SoundTasks
      /\ Set("mode", FullMode) \in SoundTasks
  <2>1. FullMode = BitOf("mode") /\ Fans \subseteq Registers /\ "mode" \in Registers
    BY RegisterFacts DEF BitOf
  <2> QED
    BY <2>1, TaskFacts DEF Fans
<1>2. /\ \A g \in Fans : /\ Write(g, s).reg = g /\ Write(g, s).do = "write"
                         /\ Write(g, s).value = s
      /\ Do("sleep").reg = "mode" /\ Do("sleep").do = "sleep"
      /\ Set("mode", FullMode).reg = "mode" /\ Set("mode", FullMode).do = "set"
  BY DEF Write, Do, Set, Task
<1> DEFINE T == {Write(f, s), Write("fan0", s), Write("fan1", s), Do("sleep"), Set("mode", FullMode)}
<1>3. T \subseteq FanTasks /\ T \cap Choosing = {}
  BY <1>1, <1>2 DEF FanTasks, Choosing, Fans
<1>4. CallerJob(<<Write(f, s)>>)
  <2>1. All(<<Write(f, s)>>) = {Write(f, s)} /\ <<Write(f, s)>> \in Seq(SoundTasks)
    BY <1>1, Listed
  <2>2. LastOnly(<<Write(f, s)>>, Choosing)
    BY <1>3, <2>1, NoneOf
  <2> QED
    BY <1>2, <1>3, <2>1, <2>2 DEF CallerJob
<1> DEFINE on == <<Set("mode", FullMode)>>
           n == 2 * (Rounds - 1)
           rounds == [k \in 1..n |-> Both(s)[((k + 1) % 2) + 1]]
           pause == <<Do("sleep")>>
<1>5. Both(s) \in Seq(T) /\ Both(s)[1] \in T /\ Both(s)[2] \in T
  BY DEF Both
<1>6. rounds \in Seq(T)
  <2>1. n \in Nat
    BY FansAssumption
  <2>2. ASSUME NEW k \in 1..n PROVE Both(s)[((k + 1) % 2) + 1] \in T
    <3>1. ((k + 1) % 2) + 1 \in {1, 2}
      BY <2>1
    <3> HIDE DEF T
    <3> QED
      BY <1>5, <3>1
  <2> HIDE DEF n, T
  <2>3. rounds \in [1..n -> T]
    BY <2>2
  <2> QED
    BY <2>1, <2>3
<1>7. on \in Seq(T) /\ pause \in Seq(T)
  OBVIOUS
<1>8. EndsWell(pause \o Both(s))
  <2> DEFINE q == <<Do("sleep"), Write("fan0", s), Write("fan1", s)>>
  <2>1. pause \o Both(s) = q
    BY <1>1, OneAndTwo DEF Both
  <2>2. Len(q) = 3 /\ q[1] = Do("sleep") /\ q[2] = Write("fan0", s) /\ q[3] = Write("fan1", s)
    OBVIOUS
  <2> HIDE DEF q
  <2>3. EndsWell(q)
    BY <1>2, <2>2 DEF EndsWell, Fans
  <2> QED
    BY <2>1, <2>3
<1> HIDE DEF T, on, rounds, pause
<1>9. Switch(f, s) = on \o rounds \o pause \o Both(s)
  BY DEF Switch, on, rounds, pause
<1>10. Switch(f, s) = (on \o rounds) \o (pause \o Both(s))
  <2>1. on \o rounds \in Seq(T)
    BY <1>6, <1>7, ConcatProperties
  <2> DEFINE a == on \o rounds
             b == Both(s)
  <2>2. a \in Seq(T) /\ b \in Seq(T) /\ pause \in Seq(T)
    BY <1>5, <1>7, <2>1
  <2>3. Switch(f, s) = (a \o pause) \o b
    BY <1>9
  <2> HIDE DEF a, b
  <2>4. (a \o pause) \o b = a \o (pause \o b)
    BY ONLY <2>2, ConcatAssociative
  <2>5. Switch(f, s) = a \o (pause \o b)
    BY <2>3, <2>4
  <2> QED
    BY <2>5 DEF a, b
<1>11. Switch(f, s) \in Seq(T) /\ All(Switch(f, s)) \subseteq T
  <2>1. on \o rounds \in Seq(T) /\ pause \o Both(s) \in Seq(T)
    BY <1>5, <1>6, <1>7, ConcatProperties
  <2>2. Switch(f, s) \in Seq(T)
    BY <1>10, <2>1, ConcatProperties
  <2> QED
    BY <2>2 DEF All
<1>12. EndsWell(Switch(f, s))
  <2>1. T \subseteq SoundTasks
    BY <1>3 DEF FanTasks
  <2>2. on \o rounds \in Seq(SoundTasks) /\ pause \o Both(s) \in Seq(SoundTasks)
    <3>1. on \o rounds \in Seq(T) /\ pause \o Both(s) \in Seq(T)
      BY <1>5, <1>6, <1>7, ConcatProperties
    <3> QED
      BY <2>1, <3>1
  <2> QED
    BY <1>8, <1>10, <2>2, EndingWell
<1>13. LastOnly(Switch(f, s), Choosing)
  BY <1>3, <1>11, NoneOf
<1> QED
  BY <1>3, <1>4, <1>11, <1>12, <1>13 DEF CallerJob

\* What probe and remove begin with.
LEMMA CoreLists ==
  /\ \A u, v \in Seq(SoundTasks) : CoreJob(u) /\ CoreJob(v) => CoreJob(u \o v)
  /\ CoreJob(<<>>) /\ CoreJob(FanSetup) /\ CoreJob(RegisterAll)
  /\ \A n \in 0..4 : CoreJob(TakeDown(n))
  /\ \A e \in {"probed", "probed_without", "removed"} : CoreJob(<<Do(e)>>)
<1>1. ASSUME NEW u \in Seq(SoundTasks), NEW v \in Seq(SoundTasks), CoreJob(u), CoreJob(v)
      PROVE  CoreJob(u \o v)
  BY <1>1, Joined DEF CoreJob
<1>2. CoreJob(<<>>)
  BY Listed DEF CoreJob
<1>3. CoreJob(FanSetup)
  <2>1. FanSet \in SoundTasks /\ FanSetup = <<FanSet>>
    BY TaskFacts, RegisterFacts DEF FanSetup, FanSet
  <2>2. All(<<FanSet>>) = {FanSet}
    BY <2>1, Listed
  <2> QED
    BY <2>1, <2>2 DEF CoreJob
<1>4. CoreJob(RegisterAll)
  <2>1. \A i \in 1..4 : RegisterAll[i].do = "register"
    BY DEF RegisterAll, Task
  <2>2. RegisterAll \in Seq(SoundTasks) /\ Len(RegisterAll) = 4
    BY LedLists DEF RegisterAll
  <2> QED
    BY <2>1, <2>2 DEF CoreJob, All, Writing
<1>5. ASSUME NEW n \in 0..4 PROVE CoreJob(TakeDown(n))
  <2>1. \A i \in 1..(2 * n) : TakeDown(n)[i].do \in {"unregister", "flush"}
    BY DEF TakeDown, Task
  <2>2. TakeDown(n) \in Seq(SoundTasks) /\ Len(TakeDown(n)) = 2 * n
    BY LedLists DEF TakeDown
  <2> QED
    BY <2>1, <2>2 DEF CoreJob, All, Writing
<1>6. ASSUME NEW e \in {"probed", "probed_without", "removed"} PROVE CoreJob(<<Do(e)>>)
  <2>1. Do(e) \in SoundTasks /\ Do(e).do = e
    BY TaskFacts DEF Do, Task
  <2>2. All(<<Do(e)>>) = {Do(e)}
    BY <2>1, Listed
  <2> QED
    BY <2>1, <2>2 DEF CoreJob, Writing
<1> QED
  BY <1>1, <1>2, <1>3, <1>4, <1>5, <1>6

\* Each of these lists stays one of its kind without its first task.
LEMMA JobTails ==
  ASSUME NEW q \in Seq(SoundTasks), q # <<>>
  PROVE  /\ \A l \in Leds : LedJob(l, q) => LedJob(l, Tail(q))
         /\ CallerJob(q) => CallerJob(Tail(q))
         /\ CoreJob(q) => CoreJob(Tail(q))
<1>1. ASSUME NEW l \in Leds, LedJob(l, q) PROVE LedJob(l, Tail(q))
  <2>1. l \in ColorLeds \/ l = "animation"
    BY DEF ColorLeds
  <2> QED
    BY <1>1, <2>1, LedNext DEF LedJob
<1>2. CoreJob(q) => CoreJob(Tail(q))
  BY ListParts DEF CoreJob
<1> QED
  BY <1>1, <1>2, CallerTail

\* The list of t changes, and stays one of its kind.
LEMMA OneJob ==
  ASSUME JobsInv, NEW t \in Threads, \A u \in Threads : u # t => job'[u] = job[u],
         t \in Leds => LedJob(t, job'[t]),
         t \in Callers => CallerJob(job'[t]),
         t = Core => CoreJob(job'[t])
  PROVE  JobsInv'
<1>1. Leds \subseteq Threads /\ Callers \subseteq Threads /\ Core \in Threads
  BY RegisterFacts
<1>2. /\ \A l \in Leds : LedJob(l, job'[l])
      /\ \A c \in Callers : CallerJob(job'[c])
      /\ CoreJob(job'[Core])
  BY <1>1 DEF JobsInv
<1> QED
  BY <1>2 DEF JobsInv

\* Those who only pass on to their next task.
LEMMA PassingJob ==
  ASSUME UniwillInv, JobsInv, NEW t \in Threads, ~Idle(t), Becomes(t, <<>>)
  PROVE  JobsInv'
<1>1. job'[t] = Tail(job[t]) /\ \A u \in Threads : u # t => job'[u] = job[u]
  BY PassOn DEF UniwillInv
<1>2. job[t] \in Seq(SoundTasks) /\ job[t] # <<>>
  BY DEF UniwillInv, JobInv, Idle
<1>3. /\ t \in Leds => LedJob(t, job'[t])
      /\ t \in Callers => CallerJob(job'[t])
      /\ t = Core => CoreJob(job'[t])
  BY <1>1, <1>2, JobTails DEF JobsInv
<1> QED
  BY <1>1, <1>3, OneJob

\* Whatever a step does, each thread's list stays one of its kind.
LEMMA JobsKept ==
  ASSUME UniwillInv, JobsInv, UniwillOp \/ UniwillStep
  PROVE  JobsInv'
<1>0. /\ job \in [Threads -> Seq(SoundTasks)] /\ Core \in Threads /\ Leds \subseteq Threads
      /\ Callers \subseteq Threads /\ Core \notin Leds /\ Core \notin Callers
      /\ Leds \cap Callers = {}
  BY RegisterFacts, ThreadsAssumption DEF UniwillInv, JobInv, Leds, Core
<1>1. ASSUME NEW c \in Callers, NEW q, CallerJob(q), job' = [job EXCEPT ![c] = q]
      PROVE  JobsInv'
  BY <1>0, <1>1, OneJob
<1>2. ASSUME NEW q, CoreJob(q), job' = [job EXCEPT ![Core] = q] PROVE JobsInv'
  BY <1>0, <1>2, OneJob
<1>3. CASE \E t \in Threads : Access(t)
  BY <1>3, PassingJob DEF Access, ReadEc, WriteEc, Has1
<1>4. ASSUME NEW c \in Callers, Ioctl(c) PROVE JobsInv'
  <2>1. ASSUME NEW f \in Fans, SetFan(c, f) PROVE JobsInv'
    <3>1. PICK s \in Speeds :
            job' = [job EXCEPT ![c] = <<Read("mode"), Task("choose", f, Cut(s))>>]
      BY <2>1 DEF SetFan, Starts
    <3> QED
      BY <1>1, <3>1, CallLists
  <2>2. CASE FanAuto(c)
    BY <1>1, <2>2, CallLists DEF FanAuto, Starts
  <2>3. CASE SetMode(c)
    <3>1. PICK m \in Modes : job' = [job EXCEPT ![c] = <<Write("mode", Cut(m))>>]
      BY <2>3 DEF SetMode, Starts
    <3> QED
      BY <1>1, <3>1, CallLists
  <2> QED
    BY <1>4, <2>1, <2>2, <2>3 DEF Ioctl, Fans
<1>5. ASSUME NEW c \in Callers, Choose(c) PROVE JobsInv'
  <2>1. /\ ~Idle(c) /\ Next1(c).do = "choose"
        /\ \E list \in {<<Write(Next1(c).reg, Next1(c).value)>>, Switch(Next1(c).reg, Next1(c).value)} :
             Becomes(c, list)
    BY <1>5 DEF Choose, Passes, Has1
  <2>2. /\ job[c] \in Seq(SoundTasks) /\ job[c] # <<>> /\ CallerJob(job[c])
        /\ Head(job[c]).do = "choose"
    BY <1>0, <2>1 DEF Idle, Next1, JobsInv
  <2>3. Tail(job[c]) = <<>> /\ Head(job[c]) \in FanTasks
    BY <2>2, CallerTail
  <2>4. Next1(c).reg \in Fans /\ Next1(c).value \in CutSpeeds /\ Next1(c).value \in 0..255
    <3>1. Next1(c).value \in 0..255
      BY <1>0, <2>1, NextTaskFacts DEF UniwillInv
    <3> QED
      BY <2>2, <2>3, <3>1 DEF FanTasks, Next1
  <2>5. PICK list \in {<<Write(Next1(c).reg, Next1(c).value)>>, Switch(Next1(c).reg, Next1(c).value)} :
             Becomes(c, list)
    BY <2>1
  <2>6. CallerJob(list) /\ list \in Seq(SoundTasks)
    <3> DEFINE f == Next1(c).reg
               s == Next1(c).value
    <3>1. f \in Fans /\ s \in 0..255 /\ s \in CutSpeeds /\ list \in {<<Write(f, s)>>, Switch(f, s)}
      BY <2>4
    <3> HIDE DEF f, s
    <3>2. CallerJob(<<Write(f, s)>>) /\ CallerJob(Switch(f, s))
      BY <3>1, ChosenLists
    <3>3. <<Write(f, s)>> \in Seq(SoundTasks) /\ Switch(f, s) \in Seq(SoundTasks)
      BY <3>1, FanLists
    <3> QED
      BY <3>1, <3>2, <3>3
  <2>7. list \o Tail(job[c]) = list
    BY <2>3, <2>6, ConcatEmptySeq
  <2>8. job' = [job EXCEPT ![c] = list]
    BY <2>5, <2>7 DEF Becomes
  <2> QED
    BY <1>1, <2>6, <2>8
<1>6. ASSUME NEW c \in Callers, Sleep(c) PROVE JobsInv'
  BY <1>0, <1>6, PassingJob DEF Sleep, Passes, Has1
<1>7. CASE (\E f \in Fans : RampUp(f)) \/ RampEnds
  BY <1>7 DEF RampUp, RampEnds, ec, JobsInv
<1>8. ASSUME NEW l \in Leds, SetLed(l) PROVE JobsInv'
  BY <1>8 DEF SetLed, ec, JobsInv
<1>9. ASSUME NEW l \in Leds, LedWork(l) PROVE JobsInv'
  <2>1. job' = [job EXCEPT ![l] = SetBlocking(l, asked[l])]
    BY <1>9 DEF LedWork, Starts
  <2>2. asked[l] \in 0..36 \cup {Unasked}
    BY DEF UniwillInv, LightbarTypeOK
  <2>3. LedJob(l, SetBlocking(l, asked[l]))
    <3>1. CASE l = "animation"
      <4>1. SetBlocking("animation", asked[l]) = <<ReadA, IF asked[l] = 1 THEN SetA ELSE ClearA>>
        BY BlockingLists
      <4> QED
        BY <3>1, <4>1 DEF LedJob
    <3>2. CASE l \in ColorLeds
      BY <2>2, <3>2, BlockingLists DEF LedJob
    <3> QED
      BY <3>1, <3>2 DEF ColorLeds
  <2> QED
    BY <1>0, <2>1, <2>3, OneJob
<1>10. CASE Bind
  <2> DEFINE u == FanSetup
             v == IF hasLightbar THEN RegisterAll ELSE <<>>
             w == <<Do("probed")>>
  <2>1. /\ u \in Seq(SoundTasks) /\ v \in Seq(SoundTasks) /\ w \in Seq(SoundTasks)
        /\ CoreJob(u) /\ CoreJob(v) /\ CoreJob(w)
    BY LedLists, CoreLists, EmptyList
  <2>2. job' = [job EXCEPT ![Core] = u \o v \o w]
    BY <1>10 DEF Bind
  <2> HIDE DEF u, v, w
  <2>3. u \o v \in Seq(SoundTasks) /\ CoreJob(u \o v)
    BY <2>1, CoreLists, ConcatProperties
  <2>4. CoreJob(u \o v \o w)
    BY <2>1, <2>3, CoreLists
  <2> QED
    BY <1>2, <2>2, <2>4
<1>11. CASE RegisterLed \/ Probed \/ UnregisterLed \/ FlushLed \/ Removed
  <2>1. ~Idle(Core) /\ Becomes(Core, <<>>)
    BY <1>11 DEF RegisterLed, Probed, UnregisterLed, FlushLed, Removed, Passes, Has1
  <2> QED
    BY <1>0, <2>1, PassingJob
<1>12. CASE RegisterFails
  <2> DEFINE n == Next1(Core).value - 1
             w == <<Do("probed_without")>>
  <2>1. n \in 0..4
    BY <1>0, <1>12, NextTaskFacts DEF RegisterFails, Has1, UniwillInv
  <2>2. job' = [job EXCEPT ![Core] = TakeDown(n) \o w]
    BY <1>12 DEF RegisterFails
  <2> HIDE DEF n
  <2>3. CoreJob(TakeDown(n) \o w)
    BY <2>1, LedLists, CoreLists
  <2> QED
    BY <1>2, <2>2, <2>3
<1>13. CASE Unbind
  <2> DEFINE u == IF loaded THEN TakeDown(4) ELSE <<>>
             w == <<Do("removed")>>
  <2>1. /\ u \in Seq(SoundTasks) /\ w \in Seq(SoundTasks) /\ CoreJob(u) /\ CoreJob(w)
    BY LedLists, CoreLists, EmptyList
  <2>2. job' = [job EXCEPT ![Core] = u \o w]
    BY <1>13 DEF Unbind, Starts
  <2> HIDE DEF u, w
  <2> QED
    BY <1>2, <2>1, <2>2, CoreLists
<1> QED
  BY <1>3, <1>4, <1>5, <1>6, <1>7, <1>8, <1>9, <1>10, <1>11, <1>12, <1>13
  DEF UniwillOp, UniwillStep

\* Who accesses what: a work item its own registers and the animation's, a
\* caller the mode and the fans, probe and remove the mode.
LEMMA WhoWrites ==
  ASSUME UniwillInv, JobsInv, NEW t \in Threads, Has1(t, Writing)
  PROVE  /\ t \in Leds <=> Next1(t).reg \in Leds
         /\ Next1(t).reg \in Fans =>
              t \in Callers /\ Next1(t).do = "write" /\ Next1(t).value \in CutSpeeds
         /\ Next1(t).do = "set" /\ Next1(t).reg = "mode" =>
              t \in Callers /\ EndsWell(Tail(job[t]))
<1>1. /\ job[t] \in Seq(SoundTasks) /\ job[t] # <<>> /\ Next1(t) = Head(job[t])
      /\ Next1(t).do \in {"write", "set", "clear"}
      /\ Head(job[t]) \in All(job[t])
  BY ListParts DEF UniwillInv, JobInv, Has1, Idle, Next1, Writing
<1>2. CASE t \in Leds
  <2>1. LedJob(t, job[t]) /\ t \notin Callers
    BY <1>2, ThreadsAssumption DEF JobsInv
  <2>2. Next1(t).reg \in Leds
    <3>1. "animation" \in Leds
      BY DEF Leds
    <3>2. \/ \E b \in 0..36 : Head(job[t]) = Write(t, b)
          \/ Head(job[t]) \in {ReadA, SetA, ClearA}
      BY <1>1, <1>2, <2>1, LedNext
    <3>3. CASE \E b \in 0..36 : Head(job[t]) = Write(t, b)
      BY <1>1, <1>2, <3>3, LedKinds
    <3>4. CASE Head(job[t]) \in {ReadA, SetA, ClearA}
      BY <1>1, <3>1, <3>4, LedKinds
    <3> QED
      BY <3>2, <3>3, <3>4
  <2> QED
    BY <1>2, <2>2, RegisterFacts
<1>3. CASE t \in Callers
  <2>1. CallerJob(job[t]) /\ t \notin Leds
    BY <1>3, ThreadsAssumption DEF JobsInv
  <2>2. /\ Head(job[t]) \in FanTasks
        /\ Head(job[t]).do = "set" => EndsWell(Tail(job[t]))
    BY <1>1, <2>1, CallerTail
  <2>3. /\ Next1(t).reg \in Fans => Next1(t).do = "write" /\ Next1(t).value \in CutSpeeds
        /\ Next1(t).reg = "mode" \/ Next1(t).reg \in Fans
    BY <1>1, <2>2, RegisterFacts DEF FanTasks
  <2> QED
    BY <1>1, <1>3, <2>1, <2>2, <2>3, RegisterFacts
<1>4. CASE t = Core
  <2>1. Next1(t) = FanSet /\ t \notin Leds
    BY <1>1, <1>4, ThreadsAssumption DEF JobsInv, CoreJob, Writing, Leds, Core
  <2>2. Next1(t).reg = "mode" /\ Next1(t).do = "write"
    BY <2>1, LedKinds DEF FanSet
  <2> QED
    BY <2>1, <2>2, RegisterFacts
<1> QED
  BY <1>2, <1>3, <1>4 DEF Threads

-----------------------------------------------------------------------------
(***************************************************************************)
(* The lightbar shows what was asked of it.                                *)
(***************************************************************************)

\* What the invariant depends on.
LEMMA ShowUnchanged ==
  ASSUME ShowInv, UNCHANGED <<asked, queued, missed, spoilt>>,
         \A l \in Leds :
           job'[l] = job[l] /\ got'[l] = got[l] /\ ram'[l] = ram[l] /\ (l \in sure' <=> l \in sure)
  PROVE  ShowInv'
<1>1. "animation" \in Leds /\ ColorLeds \subseteq Leds
  BY DEF Leds, ColorLeds
<1>2. ColorsInv' /\ AnimationInv'
  BY <1>1 DEF ShowInv, ColorsInv, AnimationInv
<1>3. BitsInv'
  BY <1>1 DEF ShowInv, BitsInv
<1> QED
  BY <1>2, <1>3 DEF ShowInv

\* Bits of a byte.
LEMMA AnimationByte ==
  ASSUME NEW b \in 0..255
  PROVE  /\ Without(With(b, 128), 128) = Without(b, 128)
         /\ Without(Without(b, 128), 128) = Without(b, 128)
         /\ ~Has(Without(b, 128), 128) /\ Has(With(b, 128), 128)
BY DEF With, Without, Has

\* What a work item writes that is about to write the animation's register.
LEMMA AnimationTask ==
  ASSUME NEW l \in Leds, NEW x \in {SetA, ClearA}, Next1(l) = x
  PROVE  /\ Next1(l).reg = "animation" /\ Next1(l).do \in {"set", "clear"}
         /\ x = SetA => Byte(l) = With(got[l], 128)
         /\ x = ClearA => Byte(l) = Without(got[l], 128)
<1>1. CASE x = SetA
  <2>1. Next1(l).reg = "animation" /\ Next1(l).do = "set" /\ Next1(l).value = 128
    BY <1>1, LedKinds
  <2> QED
    BY <1>1, <2>1, LedKinds DEF Byte
<1>2. CASE x = ClearA
  <2>1. Next1(l).reg = "animation" /\ Next1(l).do = "clear" /\ Next1(l).value = 128
    BY <1>2, LedKinds
  <2> QED
    BY <1>2, <2>1, LedKinds DEF Byte
<1> QED
  BY <1>1, <1>2

\* An access of somebody who is not a work item.
LEMMA ShowOthersAccess ==
  ASSUME UniwillInv, JobsInv, ShowInv, NEW t \in Threads \ Leds, Access(t), UNCHANGED lightbar
  PROVE  ShowInv'
<1>1. ~Idle(t) /\ Becomes(t, <<>>) /\ (ReadEc(t) \/ WriteEc(t))
  BY DEF Access, ReadEc, WriteEc, Has1
<1>2. \A l \in Leds : l \in Threads /\ l # t /\ job'[l] = job[l]
  BY <1>1, PassOn, RegisterFacts DEF UniwillInv
<1>3. UNCHANGED <<asked, queued>>
  BY DEF lightbar
<1>4. \A l \in Leds : got'[l] = got[l] /\ (l \in sure' <=> l \in sure)
  BY <1>1, <1>2 DEF ReadEc, WriteEc, UniwillInv, EcTypeOK
<1>5. CASE ReadEc(t)
  BY <1>2, <1>3, <1>4, <1>5, ShowUnchanged DEF ReadEc
<1>6. CASE WriteEc(t)
  <2> DEFINE r == Next1(t).reg
  <2>1. r \notin Leds
    BY <1>6, WhoWrites DEF WriteEc
  <2>2. \A l \in Leds : ram'[l] = ram[l]
    BY <1>6, <2>1, RegisterFacts DEF WriteEc, UniwillInv, EcTypeOK
  <2>3. \A l \in Leds : (l \in missed' <=> l \in missed) /\ (l \in spoilt' <=> l \in spoilt)
    <3>1. /\ missed' = missed \ {r} \/ missed' = missed \cup {r}
          /\ spoilt' \in {spoilt, spoilt \ {r}, spoilt \cup {r}}
      BY <1>6 DEF WriteEc
    <3> QED
      BY <2>1, <3>1
  <2>4. "animation" \in Leds /\ ColorLeds \subseteq Leds
    BY DEF Leds, ColorLeds
  <2>5. ColorsInv' /\ AnimationInv'
    BY <1>2, <1>3, <2>2, <2>3, <2>4 DEF ShowInv, ColorsInv, AnimationInv
  <2>6. BitsInv'
    BY <1>2, <1>4, <2>2, <2>3, <2>4 DEF ShowInv, BitsInv
  <2> QED
    BY <2>5, <2>6 DEF ShowInv
<1> QED
  BY <1>1, <1>5, <1>6

\* What a read of a work item leaves it with.
LEMMA ShowRead ==
  ASSUME UniwillInv, JobsInv, ShowInv, NEW l \in Leds, ReadEc(l), UNCHANGED lightbar
  PROVE  ShowInv'
<1>1. /\ ~Idle(l) /\ Becomes(l, <<>>) /\ l \in Threads /\ Next1(l).do = "read"
      /\ UNCHANGED <<ram, missed, spoilt>>
  BY RegisterFacts DEF ReadEc, Has1
<1>2. job'[l] = Tail(job[l]) /\ \A u \in Leds : u # l => job'[u] = job[u]
  BY <1>1, PassOn, RegisterFacts DEF UniwillInv
<1>3. /\ Head(job[l]) = ReadA
      /\ \E x \in {SetA, ClearA} : job[l] = <<ReadA, x>> /\ job'[l] = <<x>>
      /\ l \in ColorLeds => job'[l] = <<ClearA>>
  <2>1. LedJob(l, job[l]) /\ job[l] # <<>> /\ Head(job[l]).do = "read"
    BY <1>1 DEF JobsInv, Idle, Next1
  <2>2. \A x \in {SetA, ClearA} : x.do # "read"
    BY LedKinds
  <2>3. \A b : Write(l, b).do # "read"
    BY LedKinds
  <2>4. /\ Head(job[l]) = ReadA
        /\ \E x \in {SetA, ClearA} : job[l] = <<ReadA, x>> /\ Tail(job[l]) = <<x>>
        /\ l \in ColorLeds => Tail(job[l]) = <<ClearA>>
    BY <2>1, <2>2, <2>3, LedNext
  <2> QED
    BY <1>2, <2>4
<1>4. UNCHANGED <<asked, queued>>
  BY DEF lightbar
<1>5. ColorsInv'
  <2> SUFFICES ASSUME NEW c \in ColorLeds, asked[c] # Unasked, c \notin queued
               PROVE  \/ job'[c] = ColorJob(c, asked[c])
                      \/ /\ job'[c] \in {<<>>, <<ClearA>>, <<ReadA, ClearA>>}
                         /\ c \in missed \/ ram[c] = asked[c]
    BY <1>1, <1>4 DEF ColorsInv
  <2> QED
    BY <1>2, <1>3, LedLengths DEF ShowInv, ColorsInv, ColorLeds
<1>6. AnimationInv'
  <2>1. "animation" \in Leds /\ "animation" \notin ColorLeds
    BY DEF Leds, ColorLeds
  <2>2. CASE l # "animation"
    BY <1>1, <1>2, <1>4, <2>1, <2>2 DEF ShowInv, AnimationInv
  <2>3. CASE l = "animation"
    <3>1. job[l] = <<ReadA, ClearA>> => job'[l] = <<ClearA>>
      BY <1>3, LedLengths
    <3>2. job[l] # <<>> /\ job[l] # <<ClearA>>
      BY <1>3, LedLengths
    <3> QED
      BY <1>4, <2>3, <3>1, <3>2 DEF ShowInv, AnimationInv
  <2> QED
    BY <2>2, <2>3
<1>7. BitsInv'
  <2>1. /\ \A u \in Leds : u # l => got'[u] = got[u] /\ (u \in sure' <=> u \in sure)
        /\ l \in sure' => got'[l] = ram["animation"]
    BY <1>1, <1>3, LedKinds, RegisterFacts DEF ReadEc, Next1, UniwillInv, EcTypeOK
  <2> QED
    BY <1>1, <1>2, <2>1 DEF ShowInv, BitsInv
<1> QED
  BY <1>5, <1>6, <1>7 DEF ShowInv

\* What a write of a work item leaves it with.
LEMMA ShowWrite ==
  ASSUME UniwillInv, JobsInv, ShowInv, NEW l \in Leds, WriteEc(l), UNCHANGED lightbar
  PROVE  ShowInv'
<1> DEFINE r == Next1(l).reg
<1>1. /\ ~Idle(l) /\ Becomes(l, <<>>) /\ l \in Threads /\ job[l] # <<>>
      /\ Next1(l) = Head(job[l]) /\ Next1(l).do # "read"
  BY RegisterFacts DEF WriteEc, Has1, Writing, Idle, Next1
<1>2. job'[l] = Tail(job[l]) /\ \A u \in Leds : u # l => job'[u] = job[u]
  BY <1>1, PassOn, RegisterFacts DEF UniwillInv
<1>3. UNCHANGED <<asked, queued>>
  BY DEF lightbar
<1>4. /\ ram \in [Registers -> 0..255] /\ r \in Registers
      /\ ram' = ram \/ ram' = [ram EXCEPT ![r] = Byte(l)]
      /\ missed' = IF Happens(l) THEN missed \ {r} ELSE missed \cup {r}
      /\ spoilt' = IF ~Happens(l) THEN spoilt
                   ELSE IF Next1(l).do = "write" THEN spoilt \ {r}
                   ELSE IF l \in sure THEN spoilt ELSE spoilt \cup {r}
      /\ Happens(l) <=> ram'[r] = Byte(l)
  BY <1>1, NextTaskFacts DEF WriteEc, UniwillInv, EcTypeOK, Happens
<1>5. /\ got[l] \in 0..255
      /\ \A u \in Leds : u # l => got'[u] = got[u] /\ (u \in sure' <=> u \in sure)
      /\ l \notin sure'
  BY RegisterFacts DEF WriteEc, UniwillInv, EcTypeOK
<1>6. "animation" \in Leds /\ "animation" \notin ColorLeds /\ ColorLeds \subseteq Leds
      /\ Leds \subseteq Registers
  BY RegisterFacts DEF Leds, ColorLeds
\* A color's own register.
<1>7. ASSUME l \in ColorLeds, NEW b \in 0..36, job[l] = ColorJob(l, b), Head(job[l]) = Write(l, b),
             job'[l] = <<ReadA, ClearA>>
      PROVE  ShowInv'
  <2>1. r = l /\ Next1(l).do = "write" /\ Byte(l) = b
    <3>1. Next1(l).reg = l /\ Next1(l).do = "write" /\ Next1(l).value = b
      BY <1>1, <1>7, LedKinds
    <3> QED
      BY <3>1 DEF Byte
  <2>2. ram'[l] = b \/ l \in missed'
    BY <1>4, <2>1
  <2>3. /\ \A u \in Leds : u # l => ram'[u] = ram[u] /\ (u \in missed' <=> u \in missed)
        /\ "animation" \in spoilt' <=> "animation" \in spoilt
    BY <1>4, <1>6, <1>7, <2>1
  <2>4. ColorsInv'
    <3>1. asked[l] = Unasked \/ l \in queued \/ asked[l] = b
      <4>1. job[l] \notin {<<>>, <<ClearA>>, <<ReadA, ClearA>>}
        <5>1. /\ Len(job[l]) = 3
              /\ Len(<<>>) = 0 /\ Len(<<ClearA>>) = 1 /\ Len(<<ReadA, ClearA>>) = 2
          BY <1>7, LedLengths
        <5> QED
          BY ONLY <5>1
      <4>2. asked[l] = Unasked \/ l \in queued \/ job[l] = ColorJob(l, asked[l])
        BY <1>7, <4>1 DEF ShowInv, ColorsInv
      <4>3. job[l] = ColorJob(l, asked[l]) => asked[l] = b
        BY <1>7, LedLengths
      <4> QED
        BY <4>2, <4>3
    <3> QED
      BY <1>2, <1>3, <1>6, <1>7, <2>2, <2>3, <3>1 DEF ShowInv, ColorsInv
  <2>5. AnimationInv'
    BY <1>2, <1>3, <1>6, <1>7, <2>3 DEF ShowInv, AnimationInv
  <2>6. BitsInv'
    BY <1>2, <1>5, <1>6, <1>7, <2>3 DEF ShowInv, BitsInv
  <2> QED
    BY <2>4, <2>5, <2>6 DEF ShowInv
\* The animation's register.
<1>8. ASSUME NEW x \in {SetA, ClearA}, job[l] = <<x>>, Head(job[l]) = x, job'[l] = <<>>,
             l \in ColorLeds => job[l] = <<ClearA>>
      PROVE  ShowInv'
  <2>1. /\ r = "animation" /\ Next1(l).do \in {"set", "clear"}
        /\ x = SetA => Byte(l) = With(got[l], 128)
        /\ x = ClearA => Byte(l) = Without(got[l], 128)
    BY <1>1, <1>8, AnimationTask
  <2>2. /\ ram'["animation"] = Byte(l) \/ (ram'["animation"] = ram["animation"] /\ "animation" \in missed')
        /\ \A c \in ColorLeds : ram'[c] = ram[c] /\ (c \in missed' <=> c \in missed)
    BY <1>4, <1>6, <2>1
  <2>3. ColorsInv'
    <3>1. l \in ColorLeds => job[l] \notin {ColorJob(l, asked[l]), <<ReadA, ClearA>>, <<>>}
      BY <1>8, LedLengths
    <3> QED
      BY <1>2, <1>3, <1>6, <1>8, <2>2, <3>1 DEF ShowInv, ColorsInv
  <2>4. AnimationInv'
    <3> SUFFICES ASSUME asked["animation"] = 0, "animation" \notin queued
                 PROVE  \/ job'["animation"] \in {<<ClearA>>, <<ReadA, ClearA>>}
                        \/ /\ job'["animation"] = <<>>
                           /\ "animation" \in missed' \/ ~Has(ram'["animation"], AnimationOn)
      BY <1>3 DEF AnimationInv
    <3>1. CASE x = ClearA
      <4>1. "animation" \in missed' \/ ~Has(ram'["animation"], 128)
        <5>1. ASSUME ram'["animation"] = Byte(l) PROVE ~Has(ram'["animation"], 128)
          <6>1. ram'["animation"] = Without(got[l], 128)
            BY <2>1, <3>1, <5>1
          <6>2. ~Has(Without(got[l], 128), 128)
            BY <1>5, AnimationByte
          <6> QED
            BY <6>1, <6>2
        <5> QED
          BY <2>2, <5>1
      <4>2. job["animation"] \in {<<>>, <<ClearA>>, <<ReadA, ClearA>>}
        BY DEF ShowInv, AnimationInv
      <4>3. job'["animation"] \in {<<>>, <<ClearA>>, <<ReadA, ClearA>>}
        BY <1>2, <1>6, <1>8, <4>2
      <4> QED
        BY <4>1, <4>3 DEF AnimationOn
    <3>2. CASE x = SetA
      <4>1. job[l] # <<ClearA>> /\ job[l] # <<>> /\ job[l] # <<ReadA, ClearA>>
        BY <1>8, <3>2, LedLengths
      <4>2. l = "animation"
        BY <1>8, <4>1 DEF ColorLeds
      <4> QED
        BY <4>1, <4>2 DEF ShowInv, AnimationInv
    <3> QED
      BY <3>1, <3>2
  <2>5. BitsInv'
    <3> SUFFICES ASSUME "animation" \notin spoilt'
                 PROVE  /\ Without(ram'["animation"], AnimationOn) = AnimationBits
                        /\ \A u \in sure' \cap Leds : job'[u] \in {<<SetA>>, <<ClearA>>} =>
                             Without(got'[u], AnimationOn) = AnimationBits
      BY DEF BitsInv
    <3>1. "animation" \notin spoilt /\ (Happens(l) => l \in sure)
      BY <1>4, <2>1
    <3>2. Without(ram["animation"], 128) = AnimationBits
      BY <3>1 DEF ShowInv, BitsInv, AnimationOn
    <3>3. Without(ram'["animation"], 128) = AnimationBits
      <4>1. CASE Happens(l)
        <5>1. Without(got[l], 128) = AnimationBits
          BY <1>8, <3>1, <4>1 DEF ShowInv, BitsInv, AnimationOn
        <5>2. Without(Byte(l), 128) = Without(got[l], 128)
          <6>1. /\ Without(With(got[l], 128), 128) = Without(got[l], 128)
                /\ Without(Without(got[l], 128), 128) = Without(got[l], 128)
            BY <1>5, AnimationByte
          <6> QED
            BY <1>8, <2>1, <6>1
        <5>3. ram'["animation"] = Byte(l)
          BY <1>4, <2>1, <4>1
        <5> QED
          BY <5>1, <5>2, <5>3
      <4>2. CASE ~Happens(l)
        <5>1. ram'["animation"] = ram["animation"]
          BY <1>4, <1>6, <2>1, <4>2
        <5> QED
          BY <3>2, <5>1
      <4> QED
        BY <4>1, <4>2
    <3>4. \A u \in sure' \cap Leds : job'[u] \in {<<SetA>>, <<ClearA>>} =>
            Without(got'[u], 128) = AnimationBits
      BY <1>2, <1>5, <3>1 DEF ShowInv, BitsInv, AnimationOn
    <3> QED
      BY <3>3, <3>4 DEF AnimationOn
  <2> QED
    BY <2>3, <2>4, <2>5 DEF ShowInv
<1>9. Head(job[l]) # ReadA
  BY <1>1, LedKinds
<1> QED
  <2>1. LedJob(l, job[l])
    BY DEF JobsInv
  <2> QED
    BY <1>1, <1>2, <1>7, <1>8, <1>9, <2>1, LedNext

\* What the driver's other steps leave it with.
LEMMA ShowLightbar ==
  ASSUME UniwillInv, JobsInv, ShowInv,
         \/ \E l \in Leds : SetLed(l) \/ LedWork(l)
         \/ Bind \/ RegisterLed \/ RegisterFails \/ Probed
         \/ Unbind \/ UnregisterLed \/ FlushLed \/ Removed
  PROVE  ShowInv'
<1>0. /\ job \in [Threads -> Seq(SoundTasks)] /\ Core \in Threads /\ Leds \subseteq Threads
      /\ Core \notin Leds /\ "animation" \in Leds /\ "animation" \notin ColorLeds
      /\ ColorLeds \subseteq Leds
  BY RegisterFacts, ThreadsAssumption DEF UniwillInv, JobInv, Leds, Core, ColorLeds
<1>1. asked \in [Leds -> 0..36 \cup {Unasked}]
  BY DEF UniwillInv, LightbarTypeOK
\* An LED is asked for something.
<1>2. ASSUME NEW l \in Leds, NEW b, asked' = [asked EXCEPT ![l] = b], queued' = queued \cup {l},
             \A u \in Leds : job'[u] = job[u], UNCHANGED <<ram, got, sure, missed, spoilt>>
      PROVE  ShowInv'
  <2>1. l \in queued' /\ \A u \in Leds : u # l => asked'[u] = asked[u] /\ (u \in queued' <=> u \in queued)
    BY <1>1, <1>2
  <2>2. ColorsInv'
    BY <1>0, <1>2, <2>1 DEF ShowInv, ColorsInv
  <2>3. AnimationInv'
    BY <1>0, <1>2, <2>1 DEF ShowInv, AnimationInv
  <2>4. BitsInv'
    BY <1>0, <1>2 DEF ShowInv, BitsInv
  <2> QED
    BY <2>2, <2>3, <2>4 DEF ShowInv
<1>3. ASSUME NEW l \in Leds, SetLed(l) PROVE ShowInv'
  BY <1>2, <1>3 DEF SetLed, Asks, ec
<1>4. ASSUME NEW l \in Leds, LedWork(l) PROVE ShowInv'
  <2>1. /\ queued' = queued \ {l} /\ job[l] = <<>>
        /\ job'[l] = SetBlocking(l, asked[l]) /\ \A u \in Leds : u # l => job'[u] = job[u]
        /\ UNCHANGED <<ram, got, sure, missed, spoilt, asked>>
    BY <1>0, <1>4 DEF LedWork, Starts, Idle
  <2>2. \A u \in Leds : u # l => (u \in queued' <=> u \in queued)
    BY <2>1
  <2>3. ColorsInv'
    <3>1. l \in ColorLeds => asked[l] = Unasked \/ job'[l] = ColorJob(l, asked[l])
      BY <1>1, <2>1, BlockingLists
    <3> QED
      BY <1>0, <2>1, <2>2, <3>1 DEF ShowInv, ColorsInv
  <2>4. AnimationInv'
    <3>1. l = "animation" /\ asked[l] = 0 => job'[l] = <<ReadA, ClearA>>
      BY <2>1, BlockingLists
    <3> QED
      BY <1>0, <2>1, <2>2, <3>1 DEF ShowInv, AnimationInv
  <2>5. BitsInv'
    <3>1. Len(job'[l]) # 1
      <4>1. CASE l = "animation"
        <5>1. job'[l] = <<ReadA, IF asked[l] = 1 THEN SetA ELSE ClearA>>
          BY <2>1, <4>1, BlockingLists
        <5>2. Len(<<ReadA, IF asked[l] = 1 THEN SetA ELSE ClearA>>) = 2
          BY LedLengths
        <5> QED
          BY <5>1, <5>2
      <4>2. CASE l \in ColorLeds
        <5>1. \/ job'[l] = ColorJob(l, asked[l]) \/ job'[l] = <<ReadA, ClearA>>
          BY <1>1, <2>1, <4>2, BlockingLists
        <5>2. Len(ColorJob(l, asked[l])) = 3 /\ Len(<<ReadA, ClearA>>) = 2
          BY LedLengths
        <5> QED
          BY <5>1, <5>2
      <4> QED
        BY <4>1, <4>2 DEF ColorLeds
    <3>2. job'[l] \notin {<<SetA>>, <<ClearA>>}
      BY <3>1, LedLengths
    <3> QED
      BY <1>0, <2>1, <3>2 DEF ShowInv, BitsInv
  <2> QED
    BY <2>3, <2>4, <2>5 DEF ShowInv
<1>5. CASE Bind \/ RegisterLed \/ RegisterFails \/ Probed \/ Unbind \/ FlushLed \/ Removed
  <2>1. /\ \E q : job' = [job EXCEPT ![Core] = q]
        /\ UNCHANGED <<ram, got, sure, missed, spoilt, asked, queued>>
    BY <1>5 DEF Bind, RegisterLed, RegisterFails, Probed, Unbind, FlushLed, Removed,
                Passes, Becomes, Starts, lightbar
  <2>2. \A l \in Leds : job'[l] = job[l]
    BY <1>0, <2>1
  <2> QED
    BY <2>1, <2>2, ShowUnchanged
<1>6. CASE UnregisterLed
  <2>1. /\ ~Idle(Core) /\ Next1(Core).do = "unregister"
        /\ asked' = [asked EXCEPT ![Next1(Core).reg] = 0]
        /\ queued' = queued \cup {Next1(Core).reg}
        /\ UNCHANGED <<ram, got, sure, missed, spoilt>>
    BY <1>6 DEF UnregisterLed, Asks, Passes, Has1
  <2>2. \A l \in Leds : job'[l] = job[l]
    BY <1>0, <1>6 DEF UnregisterLed, Passes, Becomes
  <2>3. Next1(Core).reg \in Leds
    BY <1>0, <2>1, NextTaskFacts DEF UniwillInv
  <2> QED
    BY <1>2, <2>1, <2>2, <2>3
<1> QED
  BY <1>3, <1>4, <1>5, <1>6

\* Whichever step the Uniwill machine takes.
LEMMA ShowStep ==
  ASSUME UniwillInv, JobsInv, ShowInv, UniwillOp \/ UniwillStep
  PROVE  ShowInv'
<1>0. /\ Leds \subseteq Threads /\ Leds \subseteq Registers /\ Fans \cap Leds = {}
      /\ Leds \cap Callers = {} /\ Callers \subseteq Threads
  BY RegisterFacts, ThreadsAssumption
<1>1. ASSUME NEW t \in Threads, Access(t), UNCHANGED lightbar PROVE ShowInv'
  <2>1. CASE t \in Leds
    BY <1>1, <2>1, ShowRead, ShowWrite DEF Access
  <2>2. CASE t \notin Leds
    BY <1>1, <2>2, ShowOthersAccess
  <2> QED
    BY <2>1, <2>2
<1>2. ASSUME NEW c \in Callers, Ioctl(c) \/ Choose(c) \/ Sleep(c), UNCHANGED lightbar
      PROVE  ShowInv'
  <2>1. \E q : job' = [job EXCEPT ![c] = q]
    BY <1>2 DEF Ioctl, SetFan, FanAuto, SetMode, Choose, Sleep, Starts, Passes, Becomes
  <2>2. UNCHANGED <<ram, got, sure, missed, spoilt>>
    BY <1>2 DEF Ioctl, SetFan, FanAuto, SetMode, Choose, Sleep, Starts, Passes
  <2>3. \A l \in Leds : job'[l] = job[l]
    BY <1>0, <2>1 DEF UniwillInv, JobInv
  <2> QED
    BY <1>2, <2>2, <2>3, ShowUnchanged DEF lightbar
<1>3. ASSUME NEW f \in Fans, RampUp(f), UNCHANGED lightbar PROVE ShowInv'
  <2>1. \A l \in Leds : ram'[l] = ram[l]
    BY <1>0, <1>3 DEF RampUp, UniwillInv, EcTypeOK
  <2> QED
    BY <1>3, <2>1, ShowUnchanged DEF RampUp, lightbar
<1>4. ASSUME RampEnds, UNCHANGED lightbar PROVE ShowInv'
  BY <1>4, ShowUnchanged DEF RampEnds, ec, lightbar
<1>5. ASSUME \/ \E l \in Leds : SetLed(l)
             \/ \E l \in Leds : LedWork(l)
             \/ Bind \/ RegisterLed \/ RegisterFails \/ Probed
             \/ Unbind \/ UnregisterLed \/ FlushLed \/ Removed
      PROVE  ShowInv'
  BY <1>5, ShowLightbar
<1> QED
  BY <1>1, <1>2, <1>3, <1>4, <1>5 DEF UniwillOp, UniwillStep, Ioctl

\* The wishes about the animation depend on these.
LEMMA WishUnchanged ==
  ASSUME WishInv, UNCHANGED <<asked, queued, animated>>,
         "animation" \in missed' <=> "animation" \in missed, ram'["animation"] = ram["animation"],
         \A l \in Leds : job'[l] = job[l]
  PROVE  WishInv'
BY DEF WishInv, TurnsOn, AtRest, Idle

\* What an access of a work item makes of its list and of the animation.
LEMMA LedAccess ==
  ASSUME UniwillInv, JobsInv, NEW l \in Leds, Access(l)
  PROVE  /\ \A u \in Leds : u # l => job'[u] = job[u]
         /\ \/ \E x \in {SetA, ClearA} : job[l] = <<ReadA, x>> /\ job'[l] = <<x>>
            \/ \E b : job[l] = ColorJob(l, b) /\ job'[l] = <<ReadA, ClearA>>
            \/ \E x \in {SetA, ClearA} :
                 /\ job[l] = <<x>> /\ job'[l] = <<>>
                 /\ "animation" \in missed' \/ (Has(ram'["animation"], 128) <=> x = SetA)
<1>1. /\ job[l] # <<>> /\ Becomes(l, <<>>) /\ l \in Threads /\ (ReadEc(l) \/ WriteEc(l))
      /\ Next1(l) = Head(job[l]) /\ got[l] \in 0..255
  BY RegisterFacts DEF Access, ReadEc, WriteEc, Has1, Idle, Next1, UniwillInv, EcTypeOK
<1>2. job'[l] = Tail(job[l]) /\ \A u \in Leds : u # l => job'[u] = job[u]
  BY <1>1, PassOn, RegisterFacts DEF UniwillInv, Idle
<1>3. \/ \E b : job[l] = ColorJob(l, b) /\ job'[l] = <<ReadA, ClearA>>
      \/ \E x \in {SetA, ClearA} : job[l] = <<ReadA, x>> /\ job'[l] = <<x>>
      \/ \E x \in {SetA, ClearA} : job[l] = <<x>> /\ Head(job[l]) = x /\ job'[l] = <<>>
  <2>1. LedJob(l, job[l])
    BY DEF JobsInv
  <2>2. CASE l \in ColorLeds /\ Tail(job[l]) = <<ReadA, ClearA>> /\ \E b \in 0..36 : job[l] = ColorJob(l, b)
    BY <1>2, <2>2
  <2>3. CASE \E x \in {SetA, ClearA} : job[l] = <<ReadA, x>> /\ Tail(job[l]) = <<x>>
    BY <1>2, <2>3
  <2>4. CASE (\E x \in {SetA, ClearA} : job[l] = <<x>> /\ Head(job[l]) = x) /\ Tail(job[l]) = <<>>
    BY <1>2, <2>4
  <2>5. \/ l \in ColorLeds /\ Tail(job[l]) = <<ReadA, ClearA>> /\ \E b \in 0..36 : job[l] = ColorJob(l, b)
        \/ \E x \in {SetA, ClearA} : job[l] = <<ReadA, x>> /\ Tail(job[l]) = <<x>>
        \/ (\E x \in {SetA, ClearA} : job[l] = <<x>> /\ Head(job[l]) = x) /\ Tail(job[l]) = <<>>
    <3> HIDE DEF ReadA, SetA, ClearA, ColorJob
    <3>1. job[l] # <<>>
      BY <1>1
    <3>2. \/ /\ l \in ColorLeds /\ Tail(job[l]) = <<ReadA, ClearA>>
             /\ \E b \in 0..36 : job[l] = ColorJob(l, b) /\ Head(job[l]) = Write(l, b)
          \/ /\ Head(job[l]) = ReadA
             /\ \E x \in {SetA, ClearA} : job[l] = <<ReadA, x>> /\ Tail(job[l]) = <<x>>
             /\ l \in ColorLeds => Tail(job[l]) = <<ClearA>>
          \/ /\ \E x \in {SetA, ClearA} : job[l] = <<x>> /\ Head(job[l]) = x
             /\ Tail(job[l]) = <<>> /\ (l \in ColorLeds => job[l] = <<ClearA>>)
      BY <2>1, <3>1, LedNext
    <3> QED
      BY <3>2
  <2> QED
    BY <2>2, <2>3, <2>4, <2>5
<1>4. ASSUME NEW x \in {SetA, ClearA}, Head(job[l]) = x
      PROVE  "animation" \in missed' \/ (Has(ram'["animation"], 128) <=> x = SetA)
  <2>1. /\ Next1(l).reg = "animation" /\ Next1(l).do \in {"set", "clear"}
        /\ x = SetA => Byte(l) = With(got[l], 128)
        /\ x = ClearA => Byte(l) = Without(got[l], 128)
    BY <1>1, <1>4, AnimationTask
  <2>2. WriteEc(l)
    BY <1>1, <2>1 DEF ReadEc, Has1
  <2>3. ram'["animation"] = Byte(l) \/ "animation" \in missed'
    BY <2>1, <2>2 DEF WriteEc, Happens
  <2>4. SetA # ClearA /\ ~Has(Without(got[l], 128), 128) /\ Has(With(got[l], 128), 128)
    BY <1>1, LedKinds, AnimationByte
  <2> QED
    BY <1>4, <2>1, <2>3, <2>4
<1> QED
  BY <1>2, <1>3, <1>4

LEMMA WishAccess ==
  ASSUME UniwillInv, JobsInv, WishInv, NEW l \in Leds, Access(l), UNCHANGED lightbar
  PROVE  WishInv'
<1>1. UNCHANGED <<asked, queued, animated>> /\ \A u \in Leds : u # l => job'[u] = job[u]
  BY LedAccess DEF lightbar
<1>2. job[l] # <<>> /\ (job'[l] # <<>> => (TurnsOn(l)' <=> TurnsOn(l)))
  <2>1. ASSUME NEW x \in {SetA, ClearA}, job[l] = <<ReadA, x>>, job'[l] = <<x>>
        PROVE  TurnsOn(l)' <=> TurnsOn(l)
    <3>1. TurnsOn(l) <=> x = SetA
      BY <2>1, LedLengths DEF TurnsOn
    <3>2. TurnsOn(l)' <=> x = SetA
      BY <2>1, LedLengths DEF TurnsOn
    <3> QED
      BY <3>1, <3>2
  <2>2. ASSUME NEW b, job[l] = ColorJob(l, b), job'[l] = <<ReadA, ClearA>>
        PROVE  TurnsOn(l)' <=> TurnsOn(l)
    BY <2>2, LedLengths DEF TurnsOn
  <2> QED
    BY <2>1, <2>2, LedAccess, LedLengths
<1>3. \A u \in Leds : job'[u] # <<>> => TurnsOn(u)' \in animated'
  <2>1. ASSUME NEW u \in Leds, u # l, job'[u] # <<>> PROVE TurnsOn(u)' \in animated'
    BY <1>1, <2>1 DEF WishInv, TurnsOn
  <2>2. ASSUME job'[l] # <<>> PROVE TurnsOn(l)' \in animated'
    <3>1. TurnsOn(l) \in animated
      BY <1>2 DEF WishInv
    <3>2. TurnsOn(l) \in BOOLEAN /\ TurnsOn(l)' \in BOOLEAN
      BY DEF TurnsOn
    <3>3. TurnsOn(l)' = TurnsOn(l)
      BY <1>2, <2>2, <3>2
    <3> QED
      BY <1>1, <3>1, <3>3
  <2> QED
    BY <2>1, <2>2
<1>4. ASSUME AtRest' PROVE "animation" \in missed' \/ Has(ram'["animation"], AnimationOn) \in animated'
  <2>1. job'[l] = <<>>
    BY <1>4 DEF AtRest, Idle
  <2>2. PICK x \in {SetA, ClearA} :
          /\ job[l] = <<x>>
          /\ "animation" \in missed' \/ (Has(ram'["animation"], 128) <=> x = SetA)
    <3>1. /\ \A x \in {SetA, ClearA} : job'[l] # <<x>>
          /\ job'[l] # <<ReadA, ClearA>>
      BY <2>1, LedLengths
    <3> QED
      BY <3>1, LedAccess
  <2>3. TurnsOn(l) \in animated
    BY <1>2 DEF WishInv
  <2>4. TurnsOn(l) <=> x = SetA
    BY <2>2, LedLengths DEF TurnsOn
  <2>5. TurnsOn(l) \in BOOLEAN /\ Has(ram'["animation"], 128) \in BOOLEAN
    BY DEF TurnsOn, Has
  <2>6. "animation" \in missed' \/ Has(ram'["animation"], 128) = TurnsOn(l)
    BY <2>2, <2>4, <2>5
  <2> QED
    BY <1>1, <2>3, <2>6 DEF AnimationOn
<1>5. \A u \in queued' : (u = "animation" /\ asked'[u] = 1) \in animated'
  BY <1>1 DEF WishInv
<1> QED
  BY <1>3, <1>4, <1>5 DEF WishInv

\* Somebody asks something of an LED.
LEMMA WishAsks ==
  ASSUME UniwillInv, WishInv, NEW l \in Leds, NEW b, Asks(l, b), \A u \in Leds : job'[u] = job[u]
  PROVE  WishInv'
<1> DEFINE w == (l = "animation" /\ b = 1)
<1>1. /\ asked \in [Leds -> 0..36 \cup {Unasked}] /\ asked' = [asked EXCEPT ![l] = b]
      /\ queued' = queued \cup {l} /\ queued \subseteq Leds
      /\ animated' = {w} \cup (IF AtRest THEN {} ELSE animated)
  BY DEF Asks, UniwillInv, LightbarTypeOK
<1> HIDE DEF w
<1>2. w \in animated' /\ (~AtRest => animated \subseteq animated')
  BY <1>1
<1>3. \A u \in queued' : (u = "animation" /\ asked'[u] = 1) \in animated'
  <2>1. asked'[l] = b
    BY <1>1
  <2>2. (l = "animation" /\ asked'[l] = 1) \in animated'
    BY <1>2, <2>1 DEF w
  <2>3. ASSUME NEW u \in queued', u # l PROVE (u = "animation" /\ asked'[u] = 1) \in animated'
    <3>1. u \in queued /\ u \in Leds
      BY <1>1, <2>3
    <3>2. asked'[u] = asked[u] /\ ~AtRest
      BY <1>1, <2>3, <3>1 DEF AtRest
    <3>3. (u = "animation" /\ asked[u] = 1) \in animated
      BY <3>1 DEF WishInv
    <3> QED
      BY <1>2, <3>2, <3>3
  <2> QED
    BY <2>2, <2>3
<1>4. \A u \in Leds : job'[u] # <<>> => TurnsOn(u)' \in animated'
  <2> SUFFICES ASSUME NEW u \in Leds, job[u] # <<>> PROVE TurnsOn(u)' \in animated'
    OBVIOUS
  <2>1. ~AtRest /\ TurnsOn(u) \in animated
    BY DEF AtRest, Idle, WishInv
  <2> QED
    BY <1>2, <2>1 DEF TurnsOn
<1>5. ~AtRest'
  BY <1>1 DEF AtRest
<1> QED
  BY <1>3, <1>4, <1>5 DEF WishInv

\* Whichever step the Uniwill machine takes.
LEMMA WishStep ==
  ASSUME UniwillInv, JobsInv, WishInv, UniwillOp \/ UniwillStep
  PROVE  WishInv'
<1>0. /\ Leds \subseteq Threads /\ Leds \subseteq Registers /\ Fans \cap Leds = {}
      /\ Leds \cap Callers = {} /\ Callers \subseteq Threads /\ Core \in Threads /\ Core \notin Leds
      /\ "animation" \in Leds /\ job \in [Threads -> Seq(SoundTasks)]
      /\ asked \in [Leds -> 0..36 \cup {Unasked}]
  BY RegisterFacts, ThreadsAssumption DEF UniwillInv, JobInv, Leds, Core, LightbarTypeOK
<1>1. ASSUME NEW t \in Threads, Access(t), UNCHANGED lightbar PROVE WishInv'
  <2>1. CASE t \in Leds
    BY <1>1, <2>1, WishAccess
  <2>2. CASE t \notin Leds
    <3>1. ~Idle(t) /\ Becomes(t, <<>>) /\ (ReadEc(t) \/ WriteEc(t))
      BY <1>1 DEF Access, ReadEc, WriteEc, Has1
    <3>2. \A l \in Leds : job'[l] = job[l]
      BY <1>0, <2>2, <3>1 DEF Becomes
    <3>3. ("animation" \in missed' <=> "animation" \in missed) /\ ram'["animation"] = ram["animation"]
      <4>1. CASE ReadEc(t)
        BY <4>1 DEF ReadEc
      <4>2. CASE WriteEc(t)
        <5>1. Next1(t).reg \notin Leds
          BY <2>2, <4>2, WhoWrites DEF WriteEc
        <5>2. Next1(t).reg # "animation" /\ ram \in [Registers -> 0..255]
          BY <1>0, <5>1 DEF UniwillInv, EcTypeOK
        <5> QED
          BY <1>0, <4>2, <5>2 DEF WriteEc
      <4> QED
        BY <3>1, <4>1, <4>2
    <3> QED
      BY <1>1, <3>2, <3>3, WishUnchanged DEF lightbar
  <2> QED
    BY <2>1, <2>2
<1>2. ASSUME NEW c \in Callers, Ioctl(c) \/ Choose(c) \/ Sleep(c), UNCHANGED lightbar
      PROVE  WishInv'
  <2>1. \E q : job' = [job EXCEPT ![c] = q]
    BY <1>2 DEF Ioctl, SetFan, FanAuto, SetMode, Choose, Sleep, Starts, Passes, Becomes
  <2>2. UNCHANGED <<ram, missed>>
    BY <1>2 DEF Ioctl, SetFan, FanAuto, SetMode, Choose, Sleep, Starts, Passes
  <2>3. \A l \in Leds : job'[l] = job[l]
    BY <1>0, <2>1
  <2> QED
    BY <1>2, <2>2, <2>3, WishUnchanged DEF lightbar
<1>3. ASSUME NEW f \in Fans, RampUp(f), UNCHANGED lightbar PROVE WishInv'
  <2>1. ram'["animation"] = ram["animation"]
    BY <1>0, <1>3 DEF RampUp, UniwillInv, EcTypeOK
  <2> QED
    BY <1>3, <2>1, WishUnchanged DEF RampUp, lightbar
<1>4. ASSUME RampEnds, UNCHANGED lightbar PROVE WishInv'
  BY <1>4, WishUnchanged DEF RampEnds, ec, lightbar
<1>5. ASSUME NEW l \in Leds, SetLed(l) PROVE WishInv'
  BY <1>5, WishAsks DEF SetLed, ec
<1>6. CASE UnregisterLed
  <2>1. ~Idle(Core) /\ Next1(Core).do = "unregister" /\ Asks(Next1(Core).reg, 0)
    BY <1>6 DEF UnregisterLed, Has1
  <2>2. \A l \in Leds : job'[l] = job[l]
    BY <1>0, <1>6 DEF UnregisterLed, Passes, Becomes
  <2>3. Next1(Core).reg \in Leds
    BY <1>0, <2>1, NextTaskFacts DEF UniwillInv
  <2> QED
    BY <2>1, <2>2, <2>3, WishAsks
<1>7. ASSUME NEW l \in Leds, LedWork(l) PROVE WishInv'
  <2>1. /\ queued' = queued \ {l} /\ l \in queued
        /\ job'[l] = SetBlocking(l, asked[l]) /\ \A u \in Leds : u # l => job'[u] = job[u]
        /\ UNCHANGED <<asked, animated>>
    BY <1>0, <1>7 DEF LedWork, Starts
  <2>2. job'[l] # <<>> /\ (TurnsOn(l)' <=> l = "animation" /\ asked[l] = 1)
    <3>1. CASE l = "animation"
      <4>1. job'[l] = <<ReadA, IF asked[l] = 1 THEN SetA ELSE ClearA>>
        BY <2>1, <3>1, BlockingLists
      <4> QED
        BY <3>1, <4>1, LedLengths DEF TurnsOn
    <3>2. CASE l # "animation"
      <4>1. l \in ColorLeds
        BY <3>2 DEF ColorLeds
      <4>2. job'[l] = ColorJob(l, asked[l]) \/ job'[l] = <<ReadA, ClearA>>
        BY <1>0, <2>1, <4>1, BlockingLists
      <4>3. Len(job'[l]) = 3 \/ job'[l] = <<ReadA, ClearA>>
        BY <4>2, LedLengths
      <4>4. job'[l] # <<>> /\ job'[l] # <<SetA>> /\ job'[l] # <<ReadA, SetA>>
        <5>1. /\ Len(<<>>) = 0 /\ Len(<<SetA>>) = 1 /\ Len(<<ReadA, SetA>>) = 2
              /\ Len(<<ReadA, ClearA>>) = 2 /\ <<ReadA, SetA>> # <<ReadA, ClearA>>
          BY LedLengths
        <5>2. CASE Len(job'[l]) = 3
          <6>1. ASSUME NEW q, Len(q) = 3
                PROVE  q # <<>> /\ q # <<SetA>> /\ q # <<ReadA, SetA>>
            <7>1. ASSUME q = <<>> PROVE FALSE
              BY <6>1, <7>1
            <7>2. ASSUME q = <<SetA>> PROVE FALSE
              <8>1. Len(q) = 1
                BY <5>1, <7>2, Zenon
              <8> QED
                BY <6>1, <8>1
            <7>3. ASSUME q = <<ReadA, SetA>> PROVE FALSE
              <8>1. Len(q) = 2
                BY <5>1, <7>3, Zenon
              <8> QED
                BY <6>1, <8>1
            <7> QED
              BY <7>1, <7>2, <7>3
          <6> QED
            BY <5>2, <6>1
        <5>3. CASE job'[l] = <<ReadA, ClearA>>
          <6>1. ASSUME NEW q, q = <<ReadA, ClearA>>
                PROVE  q # <<>> /\ q # <<SetA>> /\ q # <<ReadA, SetA>>
            BY <5>1, <6>1
          <6> QED
            BY <5>3, <6>1
        <5> QED
          BY <4>3, <5>2, <5>3
      <4> QED
        BY <3>2, <4>4 DEF TurnsOn
    <3> QED
      BY <3>1, <3>2
  <2>3. TurnsOn(l)' \in animated'
    <3>1. (l = "animation" /\ asked[l] = 1) \in animated
      BY <2>1 DEF WishInv
    <3>2. TurnsOn(l)' \in BOOLEAN
      BY DEF TurnsOn
    <3>3. TurnsOn(l)' = (l = "animation" /\ asked[l] = 1)
      BY <2>2, <3>2
    <3> QED
      BY <2>1, <3>1, <3>3
  <2>4. \A u \in Leds : job'[u] # <<>> => TurnsOn(u)' \in animated'
    BY <2>1, <2>3 DEF WishInv, TurnsOn
  <2>5. \A u \in queued' : (u = "animation" /\ asked'[u] = 1) \in animated'
    BY <2>1 DEF WishInv
  <2>6. ~AtRest'
    BY <2>2 DEF AtRest, Idle
  <2> QED
    BY <2>4, <2>5, <2>6 DEF WishInv
<1>8. CASE Bind \/ RegisterLed \/ RegisterFails \/ Probed \/ Unbind \/ FlushLed \/ Removed
  <2>1. /\ \E q : job' = [job EXCEPT ![Core] = q]
        /\ UNCHANGED <<ram, missed, asked, queued, animated>>
    BY <1>8 DEF Bind, RegisterLed, RegisterFails, Probed, Unbind, FlushLed, Removed,
                Passes, Becomes, Starts, lightbar
  <2>2. \A l \in Leds : job'[l] = job[l]
    BY <1>0, <2>1
  <2> QED
    BY <2>1, <2>2, WishUnchanged
<1> QED
  BY <1>1, <1>2, <1>3, <1>4, <1>5, <1>6, <1>7, <1>8 DEF UniwillOp, UniwillStep, Ioctl

\* Everybody's list is of its kind from the start on.
LEMMA InitJobs == Init => JobsInv
<1> SUFFICES ASSUME Init PROVE JobsInv
  OBVIOUS
<1>1. \A t \in Threads : job[t] = <<>>
  BY DEF Init, EcInit
<1>2. \A l \in Leds : LedJob(l, <<>>)
  BY DEF LedJob, ColorLeds
<1>3. CallerJob(<<>>) /\ CoreJob(<<>>)
  <2>1. All(<<>>) = {} /\ <<>> \in Seq(SoundTasks)
    BY Listed
  <2>2. LastOnly(<<>>, Choosing)
    BY <2>1, NoneOf
  <2> QED
    BY <2>1, <2>2, CoreLists DEF CallerJob
<1> QED
  BY <1>1, <1>2, <1>3, RegisterFacts DEF JobsInv

\* It stays so whichever machine it is.
LEMMA JobsStay == IInv /\ JobsInv /\ [Next]_vars => JobsInv'
<1> SUFFICES ASSUME IInv, JobsInv, [Next]_vars PROVE JobsInv'
  OBVIOUS
<1>1. CASE UNCHANGED uniwill
  BY <1>1 DEF uniwill, ec, JobsInv
<1>2. CASE UniwillOp \/ UniwillStep
  BY <1>2, JobsKept DEF IInv
<1> QED
  BY <1>1, <1>2, OnlyUniwill

\* With no work left each color shows what was asked of it, the animation is as
\* one of the calls since the last rest wanted it, and the rest of its register
\* is as it was, but for what accesses that failed were about.
THEOREM LightbarShown == Spec => []LightbarShows
<1>1. Init => ShowInv
  <2> SUFFICES ASSUME Init PROVE ShowInv
    OBVIOUS
  <2>1. /\ \A l \in Leds : asked[l] = Unasked /\ job[l] = <<>>
        /\ sure = {} /\ ram["animation"] = AnimationBits + 128
    BY RegisterFacts DEF Init, EcInit, LightbarInit, AnimationOn, Leds
  <2>2. Without(AnimationBits + 128, 128) = AnimationBits
    BY LightbarAssumption DEF Without, Has
  <2>3. Unasked # 0 /\ "animation" \in Leds /\ ColorLeds \subseteq Leds
    BY DEF Unasked, Leds, ColorLeds
  <2> QED
    BY <2>1, <2>2, <2>3 DEF ShowInv, ColorsInv, AnimationInv, BitsInv, AnimationOn
<1>2. IInv /\ JobsInv /\ ShowInv /\ [Next]_vars => ShowInv'
  <2> SUFFICES ASSUME IInv, JobsInv, ShowInv, [Next]_vars PROVE ShowInv'
    OBVIOUS
  <2>1. CASE UNCHANGED uniwill
    BY <2>1, ShowUnchanged DEF uniwill, ec, lightbar
  <2>2. CASE UniwillOp \/ UniwillStep
    BY <2>2, ShowStep DEF IInv
  <2> QED
    BY <2>1, <2>2, OnlyUniwill
<1>3. ShowInv /\ WishInv => LightbarShows
  <2> SUFFICES ASSUME ShowInv, WishInv, AtRest
               PROVE  /\ \A c \in ColorLeds : asked[c] = Unasked \/ c \in missed \/ ram[c] = asked[c]
                      /\ "animation" \notin missed =>
                           /\ Has(ram["animation"], AnimationOn) \in animated
                           /\ asked["animation"] = 0 => ~Has(ram["animation"], AnimationOn)
                      /\ "animation" \notin spoilt =>
                           Without(ram["animation"], AnimationOn) = AnimationBits
    BY DEF LightbarShows
  <2>1. queued = {} /\ \A l \in Leds : job[l] = <<>>
    BY DEF AtRest, Idle
  <2>2. "animation" \in Leds /\ ColorLeds \subseteq Leds
    BY DEF Leds, ColorLeds
  <2>3. \A c \in ColorLeds : asked[c] = Unasked \/ c \in missed \/ ram[c] = asked[c]
    <3>1. \A c, b : ColorJob(c, b) # <<>>
      BY LedLengths
    <3> QED
      BY <2>1, <2>2, <3>1 DEF ShowInv, ColorsInv
  <2>4. asked["animation"] = 0 /\ "animation" \notin missed => ~Has(ram["animation"], AnimationOn)
    <3>1. <<ClearA>> # <<>> /\ <<ReadA, ClearA>> # <<>>
      BY LedLengths
    <3> QED
      BY <2>1, <2>2, <3>1 DEF ShowInv, AnimationInv
  <2>5. "animation" \notin missed => Has(ram["animation"], AnimationOn) \in animated
    BY DEF WishInv
  <2> QED
    BY <2>3, <2>4, <2>5 DEF ShowInv, BitsInv
<1>4. Init => WishInv
  <2> SUFFICES ASSUME Init PROVE WishInv
    OBVIOUS
  <2>1. /\ queued = {} /\ animated = {TRUE} /\ \A l \in Leds : job[l] = <<>>
        /\ ram["animation"] = AnimationBits + 128
    BY RegisterFacts DEF Init, EcInit, LightbarInit, AnimationOn, Leds
  <2>2. Has(AnimationBits + 128, 128) = TRUE
    BY LightbarAssumption DEF Has
  <2> QED
    BY <2>1, <2>2 DEF WishInv, AnimationOn
<1>5. IInv /\ JobsInv /\ WishInv /\ [Next]_vars => WishInv'
  <2> SUFFICES ASSUME IInv, JobsInv, WishInv, [Next]_vars PROVE WishInv'
    OBVIOUS
  <2>1. CASE UNCHANGED uniwill
    BY <2>1, WishUnchanged DEF uniwill, ec, lightbar
  <2>2. CASE UniwillOp \/ UniwillStep
    BY <2>2, WishStep DEF IInv
  <2> QED
    BY <2>1, <2>2, OnlyUniwill
<1> QED
  BY InitIInv, Invariance, InitJobs, JobsStay, <1>1, <1>2, <1>3, <1>4, <1>5, PTL DEF Spec

-----------------------------------------------------------------------------
(***************************************************************************)
(* No fan is left at what the EC ramps it up to.                           *)
(***************************************************************************)

\* A fan that a list still writes.
Writes(q, f) == \E k \in All(q) : k.reg = f /\ k.do = "write"

\* Only callers write fans, so that it is enough to look at them.
LEMMA PendingFacts ==
  ASSUME UniwillInv, JobsInv, NEW f \in Fans
  PROVE  Pending(f) <=> \E c \in Callers : Writes(job[c], f)
<1>1. \A t \in Threads : job[t] \in Seq(SoundTasks) /\ DOMAIN job[t] = 1..Len(job[t])
  BY DEF UniwillInv, JobInv
<1>2. Pending(f) <=> \E t \in Threads : Writes(job[t], f)
  BY <1>1 DEF Pending, Writes, All
<1>3. ASSUME NEW l \in Leds, NEW k \in All(job[l]) PROVE k.reg \in Leds
  <2>1. All(<<>>) = {}
    BY Listed
  <2>2. \A c, b : All(ColorJob(c, b)) = {Write(c, b), ReadA, ClearA}
    BY Threes DEF ColorJob, Triple
  <2>3. ASSUME NEW x PROVE All(<<x>>) = {x} /\ All(<<ReadA, x>>) = {ReadA, x}
    <3>1. \A S : x \in S => All(<<x>>) = {x}
      BY Listed
    <3>2. x \in {x}
      OBVIOUS
    <3> QED
      BY <3>1, <3>2, Twos DEF Couple
  <2>4. LedJob(l, job[l]) /\ "animation" \in Leds
    BY DEF JobsInv, Leds
  <2>5. CASE \E b \in 0..36 : job[l] = ColorJob(l, b)
    BY <1>3, <2>2, <2>4, <2>5, LedKinds
  <2>6. CASE \E x \in {SetA, ClearA} : job[l] \in {<<x>>, <<ReadA, x>>}
    <3>1. PICK x \in {SetA, ClearA} : job[l] \in {<<x>>, <<ReadA, x>>}
      BY <2>6
    <3>2. k \in {ReadA, SetA, ClearA}
      <4>1. All(<<x>>) = {x} /\ All(<<ReadA, x>>) = {ReadA, x}
        BY <2>3
      <4>2. CASE job[l] = <<x>>
        BY <1>3, <4>1, <4>2
      <4>3. CASE job[l] = <<ReadA, x>>
        BY <1>3, <4>1, <4>3
      <4> QED
        BY <3>1, <4>2, <4>3
    <3> QED
      BY <2>4, <3>2, LedKinds
  <2>7. job[l] # <<>>
    BY <1>3, <2>1
  <2> QED
    BY <2>4, <2>5, <2>6, <2>7 DEF LedJob
<1>4. ASSUME NEW k \in All(job[Core]), k.do = "write" PROVE k.reg = "mode"
  BY <1>4, LedKinds DEF JobsInv, CoreJob, Writing, FanSet
<1> QED
  BY <1>2, <1>3, <1>4, RegisterFacts DEF Threads, Writes

\* A list loses a write with its first task only, and one that ends well has
\* both fans' still to come.
LEMMA WritesFacts ==
  ASSUME NEW q \in Seq(SoundTasks), NEW f \in Fans
  PROVE  /\ q # <<>> /\ ~(Head(q).reg = f /\ Head(q).do = "write") =>
              (Writes(q, f) <=> Writes(Tail(q), f))
         /\ \A u \in Seq(SoundTasks) : Writes(q, f) => Writes(u \o q, f)
         /\ EndsWell(q) => Writes(q, f)
<1>1. q # <<>> => All(q) = {Head(q)} \cup All(Tail(q))
  BY ListParts
<1>2. \A u \in Seq(SoundTasks) : All(u \o q) = All(u) \cup All(q)
  BY Joined
<1>3. ASSUME EndsWell(q) PROVE Writes(q, f)
  <2>1. Len(q) \in Nat /\ Len(q) - 1 \in 1..Len(q) /\ Len(q) \in 1..Len(q)
    BY <1>3 DEF EndsWell
  <2>2. q[Len(q) - 1] \in All(q) /\ q[Len(q)] \in All(q)
    BY <2>1 DEF All
  <2> QED
    BY <1>3, <2>2 DEF EndsWell, Writes, Fans
<1> QED
  BY <1>1, <1>2, <1>3 DEF Writes

\* A fan that awaits a write keeps doing so while no caller does it.
LEMMA PendingKept ==
  ASSUME UniwillInv, JobsInv, JobInv', JobsInv', UniwillInv', NEW f \in Fans, Pending(f),
         \A c \in Callers : Writes(job[c], f) => Writes(job'[c], f)
  PROVE  Pending(f)'
<1>1. \E c \in Callers : Writes(job'[c], f)
  BY PendingFacts
<1>2. \A t \in Threads : job'[t] \in Seq(SoundTasks) /\ DOMAIN job'[t] = 1..Len(job'[t])
  BY DEF JobInv
<1> QED
  BY <1>1, <1>2, RegisterFacts DEF Pending, Writes, All

\* What the invariant depends on.
LEMMA FanUnchanged ==
  ASSUME FanInv, UNCHANGED <<ramp, by, missed>>,
         ram'["mode"] = ram["mode"], \A f \in Fans : ram'[f] = ram[f],
         by = "fan" /\ ramp # NoThread => EndsWell(job'[ramp]),
         \A f \in Fans : Pending(f) => Pending(f)'
  PROVE  FanInv'
<1>1. RampInv'
  BY DEF FanInv, RampInv
<1>2. NoFanLeftBehind'
  BY DEF FanInv, NoFanLeftBehind, Full, Has
<1> QED
  BY <1>1, <1>2 DEF FanInv

\* A step of probe, remove or a work item.
LEMMA FanOthers ==
  ASSUME UniwillInv, UniwillInv', JobsInv, JobsInv', FanInv,
         UNCHANGED <<ramp, by, missed, ram>>, \A c \in Callers : job'[c] = job[c]
  PROVE  FanInv'
<1>1. \A f \in Fans : Pending(f) => Pending(f)'
  BY PendingKept DEF UniwillInv
<1>2. by = "fan" /\ ramp # NoThread => EndsWell(job'[ramp])
  BY DEF FanInv, RampInv
<1> QED
  BY <1>1, <1>2, FanUnchanged

\* A step of a caller's in which it accesses nothing: its list changes, but it
\* still writes what it was going to, and it is not the one that the fans'
\* ramp-up waits for, or still ends well.
LEMMA FanCaller ==
  ASSUME UniwillInv, UniwillInv', JobsInv, JobsInv', FanInv, NEW c \in Callers,
         UNCHANGED <<ramp, by, missed, ram>>,
         \A u \in Threads : u # c => job'[u] = job[u],
         \A f \in Fans : Writes(job[c], f) => Writes(job'[c], f),
         ramp = c => ~EndsWell(job[c])
  PROVE  FanInv'
<1>1. Callers \subseteq Threads
  BY RegisterFacts
<1>2. \A f \in Fans : Pending(f) => Pending(f)'
  BY <1>1, PendingKept DEF UniwillInv
<1>3. by = "fan" /\ ramp # NoThread => EndsWell(job'[ramp])
  BY <1>1 DEF FanInv, RampInv
<1> QED
  BY <1>2, <1>3, FanUnchanged

\* What a caller does to its list in between its accesses.
LEMMA FanCalls ==
  ASSUME UniwillInv, UniwillInv', JobsInv, JobsInv', FanInv,
         NEW c \in Callers, Ioctl(c) \/ Choose(c) \/ Sleep(c)
  PROVE  FanInv'
<1>0. /\ job \in [Threads -> Seq(SoundTasks)] /\ c \in Threads /\ CallerJob(job[c])
      /\ job' \in [Threads -> Seq(SoundTasks)]
  BY RegisterFacts DEF UniwillInv, JobInv, JobsInv
<1>1. UNCHANGED <<ramp, by, missed, ram>>
  BY DEF Ioctl, SetFan, FanAuto, SetMode, Choose, Sleep, Starts, Passes, fans
<1>2. \A u \in Threads : u # c => job'[u] = job[u]
  BY <1>0 DEF Ioctl, SetFan, FanAuto, SetMode, Choose, Sleep, Starts, Passes, Becomes
<1>3. CASE Ioctl(c)
  <2>1. job[c] = <<>>
    BY <1>3 DEF Ioctl, SetFan, FanAuto, SetMode, Starts, Idle
  <2>2. All(<<>>) = {} /\ Len(<<>>) = 0
    BY Listed
  <2>3. ~EndsWell(job[c]) /\ \A f \in Fans : ~Writes(job[c], f)
    BY <2>1, <2>2 DEF EndsWell, Writes
  <2> QED
    BY <1>1, <1>2, <2>3, FanCaller
<1>4. ASSUME ~Idle(c), Next1(c).do \in {"choose", "sleep"}
      PROVE  /\ job[c] # <<>> /\ Head(job[c]).do \in {"choose", "sleep"}
             /\ \A f \in Fans : Writes(job[c], f) => Writes(Tail(job[c]), f)
  BY <1>0, <1>4, WritesFacts DEF Idle, Next1
<1>5. CASE Choose(c)
  <2>1. ~Idle(c) /\ Next1(c).do = "choose"
    BY <1>5 DEF Choose, Has1
  <2>2. Tail(job[c]) = <<>> /\ job[c] # <<>>
    BY <1>0, <1>4, <2>1, CallerTail DEF Next1
  <2>3. ~EndsWell(job[c])
    <3> SUFFICES ASSUME EndsWell(job[c]) PROVE FALSE
      OBVIOUS
    <3> DEFINE v == Tail(job[c])
               n == Len(job[c])
    <3>1. Len(v) = n - 1 /\ n \in Nat /\ n >= 3
      BY <1>0, <2>2, ListParts DEF EndsWell
    <3>2. v = <<>>
      BY <2>2
    <3> HIDE DEF v, n
    <3>3. Len(v) = 0
      BY <3>2
    <3> QED
      BY <3>1, <3>3
  <2>4. \A f \in Fans : ~Writes(job[c], f)
    <3>1. All(<<>>) = {}
      BY Listed
    <3>2. \A f : ~Writes(<<>>, f)
      BY <3>1 DEF Writes
    <3> QED
      BY <1>4, <2>1, <2>2, <3>2
  <2> QED
    BY <1>1, <1>2, <2>3, <2>4, FanCaller
<1>6. CASE Sleep(c)
  <2>1. ~Idle(c) /\ Next1(c).do = "sleep" /\ ramp # c /\ Becomes(c, <<>>)
    BY <1>6 DEF Sleep, Passes, Has1
  <2>2. job'[c] = Tail(job[c])
    BY <1>0, <2>1, PassOn DEF UniwillInv
  <2> QED
    BY <1>1, <1>2, <1>4, <2>1, <2>2, FanCaller
<1> QED
  BY <1>3, <1>5, <1>6

\* An access.
LEMMA FanAccess ==
  ASSUME UniwillInv, UniwillInv', JobsInv, JobsInv', FanInv, NEW t \in Threads, Access(t)
  PROVE  FanInv'
<1> DEFINE k == Next1(t)
           r == k.reg
<1>0. /\ ~Idle(t) /\ Becomes(t, <<>>) /\ job[t] \in Seq(SoundTasks) /\ job[t] # <<>>
      /\ k = Head(job[t]) /\ k.do \in {"read", "write", "set", "clear"} /\ r \in Registers
      /\ ReadEc(t) \/ (WriteEc(t) /\ Has1(t, Writing))
  <2>1. /\ ~Idle(t) /\ Becomes(t, <<>>) /\ k.do \in {"read", "write", "set", "clear"}
        /\ ReadEc(t) \/ (WriteEc(t) /\ Has1(t, Writing))
    BY DEF Access, ReadEc, WriteEc, Has1, Writing
  <2>2. job[t] \in Seq(SoundTasks) /\ job[t] # <<>> /\ k = Head(job[t])
    BY <2>1 DEF Idle, Next1, UniwillInv, JobInv
  <2>3. r \in Registers
    BY <2>1, NextTaskFacts DEF UniwillInv
  <2> QED
    BY <2>1, <2>2, <2>3
<1>1. job'[t] = Tail(job[t]) /\ \A u \in Threads : u # t => job'[u] = job[u]
  BY <1>0, PassOn DEF UniwillInv
<1>2. Callers \subseteq Threads /\ "mode" \in Registers /\ Fans \subseteq Registers
      /\ "mode" \notin Fans
  BY RegisterFacts
\* Whoever has fans to write, or ends well, does so still.
<1>3. ASSUME NEW u \in Threads, EndsWell(job[u]) PROVE EndsWell(job'[u])
  <2>1. CASE u = t
    BY <1>0, <1>1, <1>3, <2>1, EndingWell
  <2> QED
    BY <1>1, <1>3, <2>1
<1>4. ASSUME NEW f \in Fans, Pending(f), ~(r = f /\ k.do = "write") PROVE Pending(f)'
  <2>1. Writes(job[t], f) => Writes(job'[t], f)
    BY <1>0, <1>1, <1>4, WritesFacts
  <2> QED
    BY <1>1, <1>2, <1>4, <2>1, PendingKept DEF UniwillInv
<1>5. ram \in [Registers -> 0..255]
  BY DEF UniwillInv, EcTypeOK
<1>6. /\ by' = IF ~Full(ram["mode"]) /\ Full(ram'["mode"]) THEN (IF k.do = "set" THEN "fan" ELSE "other")
               ELSE IF Full(ram'["mode"]) THEN by ELSE "other"
      /\ ramp' = IF ~Full(ram["mode"]) /\ Full(ram'["mode"]) THEN t
                 ELSE IF Full(ram'["mode"]) THEN ramp ELSE NoThread
  BY DEF Access, ModeFollows
\* Full fan mode was on before, or is off.
<1>7. ASSUME Full(ram["mode"]) \/ ~Full(ram'["mode"]),
             \A f \in Fans : ~Pending(f)' /\ f \notin missed' =>
               \/ ~Pending(f) /\ f \notin missed /\ ram'[f] = ram[f]
               \/ ram'[f] \in CutSpeeds
      PROVE  FanInv'
  <2>1. RampInv'
    BY <1>2, <1>3, <1>6, <1>7 DEF FanInv, RampInv
  <2>2. NoFanLeftBehind'
    BY <1>6, <1>7 DEF FanInv, NoFanLeftBehind, CutSpeeds, Full, Has
  <2> QED
    BY <2>1, <2>2 DEF FanInv
<1>8. CASE ReadEc(t)
  <2>1. ram' = ram /\ missed' = missed /\ k.do = "read"
    BY <1>8 DEF ReadEc, Has1
  <2>2. Full(ram["mode"]) \/ ~Full(ram'["mode"])
    BY <2>1 DEF Full, Has
  <2> QED
    BY <1>4, <1>7, <2>1, <2>2
<1>9. CASE WriteEc(t) /\ Has1(t, Writing) /\ r # "mode"
  <2>1. ram'["mode"] = ram["mode"]
    BY <1>2, <1>5, <1>9 DEF WriteEc
  <2>2. ASSUME NEW f \in Fans, r # f
        PROVE  ram'[f] = ram[f] /\ (f \in missed' <=> f \in missed) /\ (Pending(f) => Pending(f)')
    BY <1>2, <1>4, <1>5, <1>9, <2>2 DEF WriteEc
  <2>3. ASSUME NEW f \in Fans, r = f
        PROVE  f \in missed' \/ ram'[f] \in CutSpeeds
    <3>1. k.do = "write" /\ k.value \in CutSpeeds
      BY <1>9, <2>3, WhoWrites
    <3>2. Byte(t) = k.value
      BY <3>1 DEF Byte
    <3> QED
      BY <1>9, <2>3, <3>1, <3>2 DEF WriteEc, Happens
  <2>4. Full(ram["mode"]) \/ ~Full(ram'["mode"])
    BY <2>1 DEF Full, Has
  <2> QED
    BY <1>7, <2>2, <2>3, <2>4
<1>10. CASE WriteEc(t) /\ Has1(t, Writing) /\ r = "mode"
  <2>1. \A f \in Fans : ram'[f] = ram[f] /\ (f \in missed' <=> f \in missed) /\ (Pending(f) => Pending(f)')
    BY <1>2, <1>4, <1>5, <1>10 DEF WriteEc
  <2>2. CASE Full(ram["mode"]) \/ ~Full(ram'["mode"])
    BY <1>7, <2>1, <2>2
  <2>3. CASE ~Full(ram["mode"]) /\ Full(ram'["mode"]) /\ k.do # "set"
    BY <1>6, <2>3 DEF FanInv, RampInv, NoFanLeftBehind
  <2>4. CASE ~Full(ram["mode"]) /\ Full(ram'["mode"]) /\ k.do = "set"
    <3>1. t \in Callers /\ EndsWell(job'[t]) /\ ramp' = t
      BY <1>1, <1>6, <1>10, <2>4, WhoWrites
    <3>2. job'[t] \in Seq(SoundTasks)
      BY DEF UniwillInv, JobInv
    <3>3. \A f \in Fans : Pending(f)'
      <4>1. ASSUME NEW f \in Fans PROVE \E i \in DOMAIN job'[t] : job'[t][i].reg = f /\ job'[t][i].do = "write"
        <5>1. Writes(job'[t], f) /\ DOMAIN job'[t] = 1..Len(job'[t])
          BY <3>1, <3>2, <4>1, WritesFacts
        <5> QED
          BY <5>1 DEF Writes, All
      <4> QED
        BY <4>1 DEF Pending
    <3>4. RampInv'
      BY <3>1 DEF RampInv
    <3> QED
      BY <3>3, <3>4 DEF FanInv, NoFanLeftBehind
  <2> QED
    BY <2>2, <2>3, <2>4
<1> QED
  BY <1>0, <1>8, <1>9, <1>10

\* The fans ramp up, or are done with it.
LEMMA FanRamps ==
  ASSUME UniwillInv, UniwillInv', JobsInv, JobsInv', FanInv,
         (\E f \in Fans : RampUp(f)) \/ RampEnds
  PROVE  FanInv'
<1>1. CASE \E f \in Fans : RampUp(f)
  <2>1. PICK g \in Fans : RampUp(g)
    BY <1>1
  <2>2. /\ ramp # NoThread /\ UNCHANGED <<job, missed, ramp, by>>
        /\ \E s \in EcSpeeds : ram' = [ram EXCEPT ![g] = s]
    BY <2>1 DEF RampUp, fans
  <2>3. ram'["mode"] = ram["mode"]
    BY <2>2, RegisterFacts DEF UniwillInv, EcTypeOK
  <2>4. RampInv'
    BY <2>2 DEF FanInv, RampInv
  <2>5. by = "fan" => \A f \in Fans : Pending(f)
    <3> SUFFICES ASSUME by = "fan", NEW f \in Fans PROVE Pending(f)
      OBVIOUS
    <3>1. ramp \in Callers /\ EndsWell(job[ramp])
      BY <2>2 DEF FanInv, RampInv
    <3>2. job[ramp] \in Seq(SoundTasks)
      BY <3>1, RegisterFacts DEF UniwillInv, JobInv
    <3> QED
      BY <3>1, <3>2, WritesFacts, PendingFacts
  <2>6. \A f \in Fans : Pending(f) => Pending(f)'
    BY <2>2 DEF Pending
  <2>7. NoFanLeftBehind'
    BY <2>2, <2>5, <2>6 DEF NoFanLeftBehind
  <2> QED
    BY <2>4, <2>7 DEF FanInv
<1>2. CASE RampEnds
  <2>1. UNCHANGED <<job, missed, ram, by>> /\ ramp' = NoThread
    BY <1>2 DEF RampEnds, ec
  <2>2. RampInv'
    BY <2>1 DEF RampInv
  <2>3. NoFanLeftBehind'
    BY <2>1 DEF FanInv, NoFanLeftBehind, Pending, Full, Has
  <2> QED
    BY <2>2, <2>3 DEF FanInv
<1> QED
  BY <1>1, <1>2

\* Whichever step the Uniwill machine takes.
LEMMA FanStep ==
  ASSUME UniwillInv, UniwillInv', JobsInv, JobsInv', FanInv, UniwillOp \/ UniwillStep
  PROVE  FanInv'
<1>0. /\ job \in [Threads -> Seq(SoundTasks)] /\ Core \in Threads /\ Core \notin Callers
      /\ Callers \subseteq Threads /\ Leds \cap Callers = {} /\ Leds \subseteq Threads
  BY RegisterFacts, ThreadsAssumption DEF UniwillInv, JobInv
<1>1. ASSUME NEW t \in Threads, Access(t) PROVE FanInv'
  BY <1>1, FanAccess
<1>2. ASSUME NEW c \in Callers, Ioctl(c) \/ Choose(c) \/ Sleep(c) PROVE FanInv'
  BY <1>2, FanCalls
<1>3. CASE (\E f \in Fans : RampUp(f)) \/ RampEnds
  BY <1>3, FanRamps
<1>4. ASSUME NEW l \in Leds, SetLed(l) \/ LedWork(l), UNCHANGED fans PROVE FanInv'
  <2>1. UNCHANGED <<ramp, by, missed, ram>>
    BY <1>4 DEF SetLed, LedWork, Starts, ec, fans
  <2>2. \A c \in Callers : job'[c] = job[c]
    BY <1>0, <1>4 DEF SetLed, LedWork, Starts, ec
  <2> QED
    BY <2>1, <2>2, FanOthers
<1>5. ASSUME Bind \/ RegisterLed \/ RegisterFails \/ Probed \/ Unbind \/ UnregisterLed
               \/ FlushLed \/ Removed,
             UNCHANGED fans
      PROVE  FanInv'
  <2>1. /\ \E q : job' = [job EXCEPT ![Core] = q]
        /\ UNCHANGED <<ramp, by, missed, ram>>
    BY <1>5 DEF Bind, RegisterLed, RegisterFails, Probed, Unbind, UnregisterLed, FlushLed,
                Removed, Passes, Becomes, Starts, fans
  <2>2. \A c \in Callers : job'[c] = job[c]
    BY <1>0, <2>1
  <2> QED
    BY <2>1, <2>2, FanOthers
<1> QED
  BY <1>1, <1>2, <1>3, <1>4, <1>5 DEF UniwillOp, UniwillStep

\* While full fan mode is on and a fan call was what switched it on, no fan is
\* left at what the EC ramps it up to, but by a write that failed (uw_set_fan).
\* Nothing is said of full fan mode switched on by W_UW_MODE.
THEOREM FansAsAsked == Spec => []NoFanLeftBehind
<1>1. Init => FanInv
  BY DEF Init, FansInit, FanInv, RampInv, NoFanLeftBehind
<1>2. IInv /\ IInv' /\ JobsInv /\ JobsInv' /\ FanInv /\ [Next]_vars => FanInv'
  <2> SUFFICES ASSUME IInv, IInv', JobsInv, JobsInv', FanInv, [Next]_vars PROVE FanInv'
    OBVIOUS
  <2>1. CASE UNCHANGED uniwill
    <3>1. UNCHANGED <<ramp, by, missed, ram, job>>
      BY <2>1 DEF uniwill, ec, fans
    <3> QED
      BY <3>1 DEF FanInv, RampInv, NoFanLeftBehind, Pending, Full, Has
  <2>2. CASE UniwillOp \/ UniwillStep
    BY <2>2, FanStep DEF IInv
  <2> QED
    BY <2>1, <2>2, OnlyUniwill
<1>3. FanInv => NoFanLeftBehind
  BY DEF FanInv
<1> QED
  BY InitIInv, Invariance, InitJobs, JobsStay, <1>1, <1>2, <1>3, PTL DEF Spec
=============================================================================
