-------------------------------- MODULE EcRam --------------------------------
(***************************************************************************)
(* What uniwill_wmi promises to those who use the EC RAM through it: every *)
(* read and every write acts on the RAM at one moment between its call and *)
(* its return, and "ok" means that it did.  A call may also fail.  A       *)
(* failed write may or may not have acted; whoever calls cannot tell.      *)
(***************************************************************************)
CONSTANTS
  Threads, None,
  Address, Bytes,   \* the RAM is a function from addresses to bytes
  Requests,         \* what a thread may ask for: op, addr and data
  NoRequest,
  Garbage           \* the bytes a failed call may hand out

VARIABLES
  ram,     \* the RAM: address to byte
  stage,   \* of each thread's call: "idle", "called" or "acted"
  req,     \* what the running call of each thread asks for
  seen,    \* the byte the running call of each thread has read or written
  reply    \* what the last call has returned, and to whom, until the next call

vars == <<ram, stage, req, seen, reply>>

NoReply == [to |-> None, status |-> "none", byte |-> 0]

Init ==
  /\ ram \in [Address -> Bytes]
  /\ stage = [t \in Threads |-> "idle"]
  /\ req = [t \in Threads |-> NoRequest]
  /\ seen = [t \in Threads |-> 0]
  /\ reply = NoReply

Call(t) ==
  /\ stage[t] = "idle"
  /\ stage' = [stage EXCEPT ![t] = "called"]
  /\ \E r \in Requests : req' = [req EXCEPT ![t] = r]
  /\ reply' = NoReply
  /\ UNCHANGED <<ram, seen>>

\* The moment at which the call acts on the RAM.
Act(t) ==
  LET a == req[t].addr IN
  /\ stage[t] = "called"
  /\ stage' = [stage EXCEPT ![t] = "acted"]
  /\ \/ req[t].op = "read" /\ UNCHANGED ram
     \/ req[t].op = "write" /\ ram' = [ram EXCEPT ![a] = req[t].data]
  /\ seen' = [seen EXCEPT ![t] = ram'[a]]
  /\ UNCHANGED <<req, reply>>

Return(t) ==
  /\ stage' = [stage EXCEPT ![t] = "idle"]
  /\ req' = [req EXCEPT ![t] = NoRequest]
  /\ seen' = [seen EXCEPT ![t] = 0]

Succeed(t) ==
  /\ stage[t] = "acted"
  /\ Return(t)
  /\ reply' = [to |-> t, status |-> "ok", byte |-> seen[t]]
  /\ UNCHANGED ram

\* A failed read hands out a byte that means nothing.
Fail(t) ==
  /\ stage[t] # "idle"
  /\ Return(t)
  /\ \E b \in Garbage : reply' = [to |-> t, status |-> "eio", byte |-> b]
  /\ UNCHANGED ram

Next == \E t \in Threads : Call(t) \/ Act(t) \/ Succeed(t) \/ Fail(t)

Spec == Init /\ [][Next]_vars

=============================================================================
