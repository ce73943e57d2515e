------------------------------ MODULE UniwillEc ------------------------------
(***************************************************************************)
(* uniwill_wmi: access to the EC RAM.  In direct mode a call drives the    *)
(* EC's mailbox register by register: the two address bytes, the data, the *)
(* request flag, then it polls the ready flag for a bounded number of      *)
(* times and clears the flags.  In WMI mode the firmware does all this in  *)
(* one method call.  Both take uniwill_ec_lock, and the mode is a module   *)
(* parameter anybody may flip between two calls.                           *)
(*                                                                         *)
(* Each ec_read or ec_write is a step (two where nobody can tell them from *)
(* one), as the EC runs beside the driver and may answer between any two   *)
(* of them, or never.  Assumed of what is not in this repository: accesses *)
(* to the registers succeed, the EC looks at the address and data when it  *)
(* serves a request whose flag is up, and a WMI method that succeeds       *)
(* returns the byte.                                                       *)
(***************************************************************************)
EXTENDS Integers

CONSTANTS
  Threads,       \* who calls: sysfs, event, timer work, ioctl, ...
  Addrs,         \* the addresses they use, as pairs of a high and a low byte
  Bytes,         \* what they store
  WaitCycles,    \* UW_EC_WAIT_CYCLES
  None           \* no thread

ASSUME AddrsAssumption == Addrs \subseteq (0..255) \X (0..255)
ASSUME BytesAssumption == Bytes \subseteq 0..255 /\ 0 \in Bytes
ASSUME WaitAssumption == WaitCycles \in Nat
ASSUME NoneAssumption == None \notin Threads

TimeoutByte == 254               \* the low byte of 0xfefefefe
Garbage     == Bytes \cup {TimeoutByte}

\* Every address that can be put together from bytes of those in use.
Highs   == {a[1] : a \in Addrs}
Lows    == {a[2] : a \in Addrs}
Address == Highs \X Lows

Requests == [op : {"read"}, addr : Addrs, data : {0}]
              \cup [op : {"write"}, addr : Addrs, data : Bytes]

NoRequest == [op |-> "none", addr |-> <<0, 0>>, data |-> 0]

VARIABLES
  direct,  \* uniwill_ec_direct
  lock,    \* holder of uniwill_ec_lock
  pc,      \* where each thread is
  req,     \* the arguments of each thread's running call
  out,     \* output and return value, for the holder of the lock
  reply,   \* the same as the last call has returned them, until the next call
  count,   \* the polls the holder of the lock has left
  ldat, hdat, cmdl,  \* the EC's registers for low and high address and data
  flag,    \* the FLAGS register: "read", "write" or "none" is requested ..
  ready,   \* .. and its ready bit
  ram,     \* the EC's RAM
  seen,    \* the byte a running call has read or written (observes the model)
  acted    \* whether a running call has acted on the RAM (observes the model)

regs == <<ldat, hdat, cmdl>>
vars == <<direct, lock, pc, req, out, reply, count, regs, flag, ready, ram, seen, acted>>

NoOutput == [status |-> "none", byte |-> 0]
NoReply  == [to |-> None, status |-> "none", byte |-> 0]

Init ==
  /\ direct = TRUE
  /\ lock = None
  /\ pc = [t \in Threads |-> "idle"]
  /\ req = [t \in Threads |-> NoRequest]
  /\ out = NoOutput
  /\ reply = NoReply
  /\ count = 0
  /\ ldat = 0 /\ hdat = 0 /\ cmdl = 0
  /\ flag = "none" /\ ready = FALSE
  /\ ram \in [Address -> Bytes]
  /\ seen = [t \in Threads |-> 0]
  /\ acted = [t \in Threads |-> FALSE]

At(t, from, to) == pc[t] = from /\ pc' = [pc EXCEPT ![t] = to]

-----------------------------------------------------------------------------
(***************************************************************************)
(* uw_wmi_read_ec_ram and uw_wmi_write_ec_ram: split the address, look at  *)
(* the mode and wait for the mutex.                                        *)
(***************************************************************************)
Call(t) ==
  /\ At(t, "idle", IF direct THEN "lock" ELSE "evaluate")
  /\ \E r \in Requests : req' = [req EXCEPT ![t] = r]
  /\ reply' = NoReply
  /\ UNCHANGED <<direct, lock, out, count, regs, flag, ready, ram, seen, acted>>

\* A write to the parameter ec_direct_io.
SetMode ==
  /\ direct' = ~direct
  /\ UNCHANGED <<lock, pc, req, out, reply, count, regs, flag, ready, ram, seen, acted>>

\* Mutated form: nobody else is kept out.
LockNotTaken(t) ==
  /\ At(t, "lock", "low")
  /\ UNCHANGED <<direct, lock, req, out, reply, count, regs, flag, ready, ram, seen, acted>>

Lock(t) ==
  /\ lock = None
  /\ At(t, "lock", "low")
  /\ lock' = t
  /\ UNCHANGED <<direct, req, out, reply, count, regs, flag, ready, ram, seen, acted>>

\* Mutated form: the bytes of the address are swapped.
AddressLowSwapped(t) ==
  /\ At(t, "low", "high")
  /\ ldat' = req[t].addr[1]
  /\ UNCHANGED <<direct, lock, req, out, reply, count, hdat, cmdl, flag, ready, ram, seen, acted>>

AddressLow(t) ==
  /\ At(t, "low", "high")
  /\ ldat' = req[t].addr[2]
  /\ UNCHANGED <<direct, lock, req, out, reply, count, hdat, cmdl, flag, ready, ram, seen, acted>>

AddressHigh(t) ==
  /\ At(t, "high", "data")
  /\ hdat' = req[t].addr[1]
  /\ UNCHANGED <<direct, lock, req, out, reply, count, ldat, cmdl, flag, ready, ram, seen, acted>>

\* Data and request flag.  (A write also sets CMDH to zero, a read also
\* fetches it; nobody looks at it.)
Start(t) ==
  /\ At(t, "data", "poll")
  /\ cmdl' = IF req[t].op = "write" THEN req[t].data ELSE cmdl
  /\ flag' = req[t].op
  /\ ready' = FALSE
  /\ count' = WaitCycles
  /\ UNCHANGED <<direct, lock, req, out, reply, ldat, hdat, ram, seen, acted>>

Success(b) == out' = [status |-> "ok", byte |-> b]
Failure(b) == out' = [status |-> "eio", byte |-> b]

\* Mutated form: the polls are not counted.
PollForever(t) ==
  /\ pc[t] = "poll"
  /\ \/ /\ ~ready /\ count # 0
        /\ UNCHANGED <<pc, count, out>>
     \/ /\ ready /\ count # 0
        /\ At(t, "poll", "clear")
        /\ Success(cmdl)
        /\ UNCHANGED count
     \/ /\ count = 0
        /\ At(t, "poll", "clear")
        /\ Failure(TimeoutByte)
        /\ UNCHANGED count
  /\ UNCHANGED <<direct, lock, req, reply, regs, flag, ready, ram, seen, acted>>

\* Mutated form: a timeout is not told apart from an answer.
PollIgnoresTimeout(t) ==
  /\ pc[t] = "poll"
  /\ \/ /\ ~ready /\ count # 0
        /\ count' = count - 1
        /\ UNCHANGED <<pc, out>>
     \/ /\ ready \/ count = 0
        /\ At(t, "poll", "clear")
        /\ Success(cmdl)
        /\ UNCHANGED count
  /\ UNCHANGED <<direct, lock, req, reply, regs, flag, ready, ram, seen, acted>>

\* One read of the ready flag.  The loop also ends when no polls are left,
\* and that alone makes it a failure, whatever this last read has returned.
Poll(t) ==
  /\ pc[t] = "poll"
  /\ \/ /\ ~ready /\ count # 0
        /\ count' = count - 1
        /\ UNCHANGED <<pc, out>>
     \/ /\ ready /\ count # 0
        /\ At(t, "poll", "clear")
        /\ Success(cmdl)
        /\ UNCHANGED count
     \/ /\ count = 0
        /\ At(t, "poll", "clear")
        /\ Failure(TimeoutByte)
        /\ UNCHANGED count
  /\ UNCHANGED <<direct, lock, req, reply, regs, flag, ready, ram, seen, acted>>

\* The mutex is released and the locals are gone.
Return(t) ==
  /\ lock' = None
  /\ reply' = [to |-> t, status |-> out.status, byte |-> out.byte]
  /\ req' = [req EXCEPT ![t] = NoRequest]
  /\ seen' = [seen EXCEPT ![t] = 0]
  /\ acted' = [acted EXCEPT ![t] = FALSE]
  /\ out' = NoOutput
  /\ count' = 0

\* Mutated form: a timed out request is left standing.
ClearOnSuccess(t) ==
  /\ At(t, "clear", "idle")
  /\ IF out.status = "ok" THEN flag' = "none" /\ ready' = FALSE
                                ELSE UNCHANGED <<flag, ready>>
  /\ Return(t)
  /\ UNCHANGED <<direct, regs, ram>>

\* The flags are cleared, which also withdraws a request that was not served,
\* and the mutex is released.
Clear(t) ==
  /\ At(t, "clear", "idle")
  /\ flag' = "none" /\ ready' = FALSE
  /\ Return(t)
  /\ UNCHANGED <<direct, regs, ram>>

-----------------------------------------------------------------------------
\* What a request does: to the RAM, and to who watches.
Effect(t, addr, data) ==
  /\ ram' = IF req[t].op = "write" THEN [ram EXCEPT ![addr] = data] ELSE ram
  /\ seen' = [seen EXCEPT ![t] = ram'[addr]]
  /\ acted' = [acted EXCEPT ![t] = TRUE]

(***************************************************************************)
(* uw_wmi_ec_evaluate.  If the method fails the buffer may be left as it   *)
(* was on the stack, and whether a write has acted is unknown.             *)
(***************************************************************************)
Evaluate(t) ==
  /\ lock = None
  /\ At(t, "evaluate", "unlock")
  /\ lock' = t
  /\ \/ /\ Effect(t, req[t].addr, req[t].data)
        /\ \/ Success(seen'[t])
           \/ \E b \in Garbage : Failure(b)
     \/ /\ \E b \in Garbage : Failure(b)
        /\ UNCHANGED <<ram, seen, acted>>
  /\ UNCHANGED <<direct, req, reply, count, regs, flag, ready>>

Unlock(t) ==
  /\ At(t, "unlock", "idle")
  /\ Return(t)
  /\ UNCHANGED <<direct, regs, flag, ready, ram>>

-----------------------------------------------------------------------------
\* The EC serves a standing request, with what is in its registers now.
EcServes ==
  /\ flag # "none" /\ ~ready
  /\ ready' = TRUE
  /\ \/ /\ flag = "read"
        /\ cmdl' = ram[<<hdat, ldat>>]
        /\ UNCHANGED ram
     \/ /\ flag = "write"
        /\ ram' = [ram EXCEPT ![<<hdat, ldat>>] = cmdl]
        /\ UNCHANGED cmdl
  /\ IF lock = None THEN UNCHANGED <<seen, acted>>
     ELSE /\ seen' = [seen EXCEPT ![lock] = ram'[<<hdat, ldat>>]]
          /\ acted' = [acted EXCEPT ![lock] = TRUE]
  /\ UNCHANGED <<direct, lock, pc, req, out, reply, count, ldat, hdat, flag>>

Driver(t) ==
  \/ Lock(t) \/ AddressLow(t) \/ AddressHigh(t) \/ Start(t) \/ Poll(t) \/ Clear(t)
  \/ Evaluate(t) \/ Unlock(t)

Next ==
  \/ \E t \in Threads : Call(t) \/ Driver(t)
  \/ SetMode
  \/ EcServes

(***************************************************************************)
(* A thread in the driver keeps going; mutex_lock is fair to its waiters   *)
(* (the kernel hands a mutex over to the first waiter).  Nothing is        *)
(* assumed of the EC.                                                      *)
(***************************************************************************)
Fairness ==
  \A t \in Threads : /\ WF_vars(Driver(t))
                     /\ SF_vars(Lock(t)) /\ SF_vars(Evaluate(t))

Spec == Init /\ [][Next]_vars /\ Fairness

-----------------------------------------------------------------------------
Inside == {"low", "high", "data", "poll", "clear", "unlock"}

Output == [status : {"none", "ok", "eio"}, byte : Garbage]

\* The registers hold the bytes of an address in their own places, and the RAM
\* is only ever addressed where some request points.
TypeOK ==
  /\ direct \in BOOLEAN
  /\ lock \in Threads \cup {None}
  /\ pc \in [Threads -> {"idle", "lock", "evaluate"} \cup Inside]
  /\ req \in [Threads -> Requests \cup {NoRequest}]
  /\ out \in Output
  /\ reply \in [to : Threads \cup {None}, status : {"none", "ok", "eio"}, byte : Garbage]
  /\ count \in 0..WaitCycles
  /\ ldat \in Lows \cup {0} /\ hdat \in Highs \cup {0} /\ cmdl \in Bytes
  /\ flag \in {"none", "read", "write"} /\ ready \in BOOLEAN
  /\ ram \in [Address -> Bytes]
  /\ seen \in [Threads -> Bytes]
  /\ acted \in [Threads -> BOOLEAN]

\* The EC never sees a request that is not complete and its owner's: while
\* the flag is up, the registers hold the address (and for a write the data)
\* of the one thread that holds the mutex, and no other thread is inside.
RequestIsOwners ==
  flag # "none" =>
    /\ lock # None
    /\ flag = req[lock].op /\ <<hdat, ldat>> = req[lock].addr
    /\ flag = "write" => cmdl = req[lock].data
    /\ \A t \in Threads : pc[t] \in Inside => t = lock

\* With its mutex free the mailbox is quiet: no call that timed out leaves a
\* request behind for the EC to carry out later.
QuietWhenUnlocked == lock = None => flag = "none" /\ ~ready

\* Every access to the EC RAM is atomic, and one that reports success has
\* happened, in either mode and across changes of mode.
Ram ==
  INSTANCE EcRam
    WITH stage <- [t \in Threads |->
                     IF pc[t] = "idle" THEN "idle"
                     ELSE IF acted[t] THEN "acted" ELSE "called"]

\* The same, as a property: the calls implement EcRam.
RamSpec == Ram!Spec

\* Every call returns, even if the EC never answers.
CallsReturn == \A t \in Threads : pc[t] # "idle" ~> pc[t] = "idle"

\* "Replicate wmi output depending on success": a request whose ready flag
\* the driver has seen is not reported as failed.
SeenReadyIsSuccess ==
  [][\A t \in Threads :
       pc[t] = "poll" /\ pc'[t] = "clear" /\ ready => out'.status = "ok"]_vars

=============================================================================
