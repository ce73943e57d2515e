------------------------------ MODULE EcTasks ------------------------------
(***************************************************************************)
(* Threads that work on the EC RAM of a Uniwill machine.  A thread's       *)
(* remaining work is a list of tasks; those on the RAM are single reads    *)
(* and writes, atomic as EcRam promises, that may fail.  No caller looks   *)
(* at the status: a failed read hands out garbage that is used, and a      *)
(* failed write that happened after all is like one that succeeded.        *)
(***************************************************************************)
EXTENDS Integers, Sequences

CONSTANTS
  Callers,   \* processes inside an ioctl of tuxedo_io
  Garbage    \* what a failed read hands out

Leds    == {"red", "green", "blue", "animation"}   \* each with a work item of its own
Core    == "core"      \* probe and remove
Threads == Callers \cup Leds \cup {Core}

ASSUME ThreadsAssumption ==
  /\ Callers \cap (Leds \cup {Core}) = {}
  /\ Garbage \subseteq 0..255

Fans == {"fan0", "fan1"}

\* 0x0751; 0x1804 and 0x1809; 0x0749 .. 0x074b and 0x0748 of the lightbar.
Registers == {"mode"} \cup Fans \cup Leds

VARIABLES
  wmi,      \* uniwill_interfaces.wmi is set
  ram,      \* the registers
  job,      \* for each thread, the tasks left of its current operation
  got,      \* for each thread, the byte it read last
  sure,     \* observer: threads whose last read did not fail
  missed,   \* observer: registers whose last write did not happen
  spoilt    \* observer: registers that hold what a failed read handed out

ec == <<wmi, ram, job, got, sure, missed, spoilt>>

\* The accesses, and what else a thread does in between.
Writing == {"write", "set", "clear"}
Kinds   == {"read", "choose", "sleep", "register", "unregister", "flush",
            "probed", "probed_without", "removed"} \cup Writing
Tasks   == [do : Kinds, reg : Registers, value : 0..255]

Task(what, r, v) == [do |-> what, reg |-> r, value |-> v]
Read(r)     == Task("read", r, 0)
Write(r, v) == Task("write", r, v)
Set(r, b)   == Task("set", r, b)     \* the byte read last, with bit b
Clear(r, b) == Task("clear", r, b)   \* and without it
Do(what)    == Task(what, "mode", 0)

Has(byte, b)     == (byte \div b) % 2 = 1
Without(byte, b) == IF Has(byte, b) THEN byte - b ELSE byte

\* Mutated form: the other bits are lost.
WithAlone(byte, b) == b

With(byte, b) == Without(byte, b) + b

EcTypeOK ==
  /\ wmi \in BOOLEAN
  /\ ram \in [Registers -> 0..255]
  /\ job \in [Threads -> Seq(Tasks)]
  /\ got \in [Threads -> 0..255]
  /\ sure \subseteq Threads
  /\ missed \subseteq Registers /\ spoilt \subseteq Registers

Idle(t) == job[t] = <<>>
Next1(t) == Head(job[t])
Has1(t, kinds) == ~Idle(t) /\ Next1(t).do \in kinds

Starts(t, tasks) ==
  /\ Idle(t)
  /\ job' = [job EXCEPT ![t] = tasks]
  /\ UNCHANGED <<wmi, ram, got, sure, missed, spoilt>>

\* The next task is done, and these come in its place.
Becomes(t, tasks) ==
  job' = [job EXCEPT ![t] = tasks \o Tail(@)]

Passes(t, tasks) ==
  /\ Becomes(t, tasks)
  /\ UNCHANGED <<wmi, ram, got, sure, missed, spoilt>>

\* uniwill_read_ec_ram, of any register.
ReadEc(t) ==
  /\ Has1(t, {"read"})
  /\ \/ wmi /\ got' = [got EXCEPT ![t] = ram[Next1(t).reg]] /\ sure' = sure \cup {t}
     \/ sure' = sure \ {t} /\ \E b \in Garbage : got' = [got EXCEPT ![t] = b]
  /\ Becomes(t, <<>>)
  /\ UNCHANGED <<wmi, ram, missed, spoilt>>

\* The byte a writing task writes.
Byte(t) ==
  LET k == Next1(t) IN
  CASE k.do = "write" -> k.value
    [] k.do = "set"   -> With(got[t], k.value)
    [] k.do = "clear" -> Without(got[t], k.value)

Happens(t) == ram'[Next1(t).reg] = Byte(t)

\* uniwill_write_ec_ram.  A byte read before is not used again after that.
WriteEc(t) ==
  /\ Has1(t, Writing)
  /\ LET r == Next1(t).reg IN
     /\ \/ wmi /\ ram' = [ram EXCEPT ![r] = Byte(t)]
        \/ UNCHANGED ram
     /\ missed' = IF Happens(t) THEN missed \ {r} ELSE missed \cup {r}
     /\ spoilt' =
          IF ~Happens(t) THEN spoilt
          ELSE IF Next1(t).do = "write" THEN spoilt \ {r}
          ELSE IF t \in sure THEN spoilt ELSE spoilt \cup {r}
  /\ Becomes(t, <<>>)
  /\ got' = [got EXCEPT ![t] = 0]
  /\ sure' = sure \ {t}
  /\ UNCHANGED wmi

=============================================================================
