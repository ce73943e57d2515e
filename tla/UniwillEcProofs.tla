--------------------------- MODULE UniwillEcProofs ---------------------------
(***************************************************************************)
(* Proofs about UniwillEc, for any callers, addresses, bytes and number of *)
(* polls: its types, that the mailbox only holds complete requests of the  *)
(* one who holds the mutex and none when it is free, and that every access *)
(* is an atomic one of EcRam or fails.                                     *)
(***************************************************************************)
EXTENDS UniwillEc, TLAPS

\* A thread has the mutex exactly while it is inside.
MutexInv == \A t \in Threads : pc[t] \in Inside <=> lock = t

\* A thread has a request exactly during its call, and acts on the RAM only
\* between the start and the end of what it does with the mutex.
CallInv ==
  \A t \in Threads :
    /\ pc[t] = "idle" <=> req[t] = NoRequest
    /\ pc[t] \notin {"poll", "clear", "unlock"} => ~acted[t]

\* How much of its request the holder of the mutex has put into the mailbox.
MailboxInv ==
  /\ lock = None => flag = "none" /\ ~ready
  /\ \A t \in Threads :
       /\ pc[t] \in {"high", "data", "poll", "clear"} => ldat = req[t].addr[2]
       /\ pc[t] \in {"data", "poll", "clear"} => hdat = req[t].addr[1]
       /\ pc[t] \in {"poll", "clear"} => flag = req[t].op
       /\ pc[t] \in {"poll", "clear"} /\ req[t].op = "write" => cmdl = req[t].data
       /\ pc[t] \in {"low", "high", "data", "unlock"} => flag = "none" /\ ~ready

\* What the holder knows of the EC's answer is true.
AnswerInv ==
  \A t \in Threads :
    /\ pc[t] \in {"poll", "clear"} => (acted[t] <=> ready)
    /\ pc[t] \in {"poll", "clear"} /\ ready => seen[t] = cmdl
    /\ pc[t] \in {"clear", "unlock"} => out.status \in {"ok", "eio"}
    /\ pc[t] \in {"clear", "unlock"} /\ out.status = "ok" => acted[t] /\ out.byte = seen[t]

\* The inductive invariant.
IInv == TypeOK /\ MutexInv /\ CallInv /\ MailboxInv /\ AnswerInv

\* What is known of a request and its address.
LEMMA RequestFacts ==
  /\ \A r \in Requests :
       /\ r.op \in {"read", "write"} /\ r.addr \in Addrs /\ r.data \in Bytes
       /\ r.addr[1] \in Highs /\ r.addr[2] \in Lows
       /\ r.addr = <<r.addr[1], r.addr[2]>>
       /\ r # NoRequest
  /\ Addrs \subseteq Address
  /\ NoRequest.addr = <<0, 0>> /\ NoRequest.op = "none"
<1>1. ASSUME NEW a \in Addrs
      PROVE  a[1] \in Highs /\ a[2] \in Lows /\ a = <<a[1], a[2]>> /\ a \in Address
  BY AddrsAssumption DEF Highs, Lows, Address
<1>2. ASSUME NEW r \in Requests
      PROVE  r.op \in {"read", "write"} /\ r.addr \in Addrs /\ r.data \in Bytes
  BY BytesAssumption DEF Requests
<1>3. ASSUME NEW r \in Requests PROVE r # NoRequest
  BY <1>2 DEF NoRequest
<1>4. NoRequest.addr = <<0, 0>> /\ NoRequest.op = "none"
  BY DEF NoRequest
<1> QED
  BY <1>1, <1>2, <1>3, <1>4

\* The step of some thread, or of the EC, as one disjunction over the actions.
LEMMA NextCases ==
  ASSUME Next
  PROVE  \/ \E t \in Threads :
              \/ Call(t) \/ Lock(t) \/ AddressLow(t) \/ AddressHigh(t) \/ Start(t)
              \/ Poll(t) \/ Clear(t) \/ Evaluate(t) \/ Unlock(t)
         \/ SetMode
         \/ EcServes
BY DEF Next, Driver

\* While the flag is up its owner is inside and the registers point into the
\* RAM.
LEMMA ServedRequest ==
  ASSUME IInv, flag # "none"
  PROVE  /\ lock \in Threads /\ pc[lock] \in {"poll", "clear"}
         /\ req[lock] \in Requests
         /\ flag = req[lock].op /\ <<hdat, ldat>> = req[lock].addr
         /\ <<hdat, ldat>> \in Address
<1>1. lock \in Threads
  BY DEF IInv, TypeOK, MailboxInv
<1>2. pc[lock] \in Inside
  BY <1>1 DEF IInv, MutexInv
<1>3. pc[lock] \in {"poll", "clear"}
  BY <1>1, <1>2 DEF IInv, MailboxInv, Inside
<1>4. req[lock] \in Requests
  BY <1>1, <1>3 DEF IInv, CallInv, TypeOK
<1>5. flag = req[lock].op /\ hdat = req[lock].addr[1] /\ ldat = req[lock].addr[2]
  BY <1>1, <1>3 DEF IInv, MailboxInv
<1> QED
  BY <1>1, <1>3, <1>4, <1>5, RequestFacts

\* What the return from a call sets has its type.
LEMMA ReturnTypes ==
  ASSUME TypeOK, NEW t \in Threads, Return(t)
  PROVE  /\ lock' \in Threads \cup {None}
         /\ reply' \in [to : Threads \cup {None}, status : {"none", "ok", "eio"}, byte : Garbage]
         /\ req' \in [Threads -> Requests \cup {NoRequest}]
         /\ seen' \in [Threads -> Bytes] /\ acted' \in [Threads -> BOOLEAN]
         /\ out' \in Output /\ count' \in 0..WaitCycles
<1>1. 0 \in Bytes /\ 0 \in Garbage
  BY BytesAssumption DEF Garbage
<1>2. out' \in Output /\ count' \in 0..WaitCycles
  BY <1>1, WaitAssumption DEF Return, NoOutput, Output
<1>3. reply' \in [to : Threads \cup {None}, status : {"none", "ok", "eio"}, byte : Garbage]
  BY DEF Return, TypeOK, Output
<1> QED
  BY <1>1, <1>2, <1>3 DEF Return, TypeOK

\* Types, one case for each action.
LEMMA TypeStep == IInv /\ [Next]_vars => TypeOK'
<1> SUFFICES ASSUME IInv, [Next]_vars PROVE TypeOK'
  OBVIOUS
<1>0. TypeOK /\ 0 \in Bytes /\ TimeoutByte \in Garbage /\ Bytes \subseteq Garbage
  BY BytesAssumption DEF IInv, Garbage
<1> USE <1>0, NoneAssumption DEF TypeOK, At, Inside, Output
<1>1. CASE UNCHANGED vars
  BY <1>1 DEF vars, regs
<1>2. ASSUME NEW t \in Threads, Call(t) PROVE TypeOK'
  BY <1>2 DEF Call, regs, NoReply, Garbage
<1>3. ASSUME NEW t \in Threads, Lock(t) PROVE TypeOK'
  BY <1>3 DEF Lock, regs
<1>4. ASSUME NEW t \in Threads, AddressLow(t) PROVE TypeOK'
  BY <1>4, RequestFacts DEF AddressLow
<1>5. ASSUME NEW t \in Threads, AddressHigh(t) PROVE TypeOK'
  BY <1>5, RequestFacts DEF AddressHigh
<1>6. ASSUME NEW t \in Threads, Start(t) PROVE TypeOK'
  <2>1. req[t] \in Requests
    BY <1>6 DEF Start, IInv, CallInv
  <2>2. req[t].op \in {"read", "write"} /\ req[t].data \in Bytes
    BY <2>1, RequestFacts
  <2>3. flag' \in {"none", "read", "write"} /\ cmdl' \in Bytes
    BY <1>6, <2>2 DEF Start
  <2>4. count' \in 0..WaitCycles
    BY <1>6, WaitAssumption DEF Start
  <2>5. pc' \in [Threads -> {"idle", "lock", "evaluate"} \cup Inside]
    BY <1>6 DEF Start
  <2> QED
    BY <1>6, <2>3, <2>4, <2>5 DEF Start
<1>7. ASSUME NEW t \in Threads, Poll(t) PROVE TypeOK'
  <2>1. count' \in 0..WaitCycles
    BY <1>7, WaitAssumption DEF Poll
  <2>2. out' \in Output
    <3>1. cmdl \in Garbage
      BY DEF Garbage
    <3> QED
      BY <1>7, <3>1 DEF Poll, Success, Failure
  <2>3. pc' \in [Threads -> {"idle", "lock", "evaluate"} \cup Inside]
    BY <1>7 DEF Poll
  <2> QED
    BY <1>7, <2>1, <2>2, <2>3 DEF Poll, regs
<1>8. ASSUME NEW t \in Threads, Clear(t) PROVE TypeOK'
  BY <1>8, ReturnTypes DEF Clear, regs
<1>9. ASSUME NEW t \in Threads, Unlock(t) PROVE TypeOK'
  BY <1>9, ReturnTypes DEF Unlock, regs
<1>10. ASSUME NEW t \in Threads, Evaluate(t) PROVE TypeOK'
  <2>1. req[t] \in Requests
    BY <1>10 DEF Evaluate, IInv, CallInv
  <2>2. req[t].addr \in Address /\ req[t].data \in Bytes
    BY <2>1, RequestFacts
  <2>3. ram' \in [Address -> Bytes]
    BY <1>10, <2>2 DEF Evaluate, Effect
  <2>4. seen' \in [Threads -> Bytes] /\ acted' \in [Threads -> BOOLEAN]
    BY <1>10, <2>2, <2>3 DEF Evaluate, Effect
  <2>5. out' \in Output
    <3>1. seen'[t] \in Garbage
      BY <2>4
    <3> QED
      BY <1>10, <3>1 DEF Evaluate, Success, Failure
  <2> QED
    BY <1>10, <2>3, <2>4, <2>5 DEF Evaluate, regs
<1>11. CASE SetMode
  BY <1>11 DEF SetMode, regs
<1>12. CASE EcServes
  <2>1. lock \in Threads /\ <<hdat, ldat>> \in Address
    BY <1>12, ServedRequest DEF EcServes
  <2>2. ram' \in [Address -> Bytes] /\ cmdl' \in Bytes
    BY <1>12, <2>1 DEF EcServes
  <2>3. seen' \in [Threads -> Bytes] /\ acted' \in [Threads -> BOOLEAN]
    BY <1>12, <2>1, <2>2 DEF EcServes
  <2> QED
    BY <1>12, <2>2, <2>3 DEF EcServes, regs
<1> QED
  BY <1>1, <1>2, <1>3, <1>4, <1>5, <1>6, <1>7, <1>8, <1>9, <1>10, <1>11, <1>12, NextCases


\* Who is inside has the mutex, and has it alone.
LEMMA MutexStep == IInv /\ [Next]_vars => MutexInv'
<1> SUFFICES ASSUME IInv, [Next]_vars PROVE MutexInv'
  OBVIOUS
<1> USE NoneAssumption DEF IInv, TypeOK, MutexInv, At, Inside
<1>1. CASE UNCHANGED vars
  BY <1>1 DEF vars, regs
<1>2. ASSUME NEW t \in Threads, Call(t) PROVE MutexInv'
  BY <1>2 DEF Call
<1>3. ASSUME NEW t \in Threads, Lock(t) PROVE MutexInv'
  BY <1>3 DEF Lock
<1>4. ASSUME NEW t \in Threads, AddressLow(t) PROVE MutexInv'
  BY <1>4 DEF AddressLow
<1>5. ASSUME NEW t \in Threads, AddressHigh(t) PROVE MutexInv'
  BY <1>5 DEF AddressHigh
<1>6. ASSUME NEW t \in Threads, Start(t) PROVE MutexInv'
  BY <1>6 DEF Start
<1>7. ASSUME NEW t \in Threads, Poll(t) PROVE MutexInv'
  BY <1>7 DEF Poll
<1>8. ASSUME NEW t \in Threads, Clear(t) PROVE MutexInv'
  BY <1>8 DEF Clear, Return
<1>9. ASSUME NEW t \in Threads, Evaluate(t) PROVE MutexInv'
  BY <1>9 DEF Evaluate
<1>10. ASSUME NEW t \in Threads, Unlock(t) PROVE MutexInv'
  BY <1>10 DEF Unlock, Return
<1>11. CASE SetMode
  BY <1>11 DEF SetMode
<1>12. CASE EcServes
  BY <1>12 DEF EcServes
<1> QED
  BY <1>1, <1>2, <1>3, <1>4, <1>5, <1>6, <1>7, <1>8, <1>9, <1>10, <1>11, <1>12, NextCases

\* A call keeps its request to its end and acts once it has been started.
LEMMA CallStep == IInv /\ [Next]_vars => CallInv'
<1> SUFFICES ASSUME IInv, [Next]_vars PROVE CallInv'
  OBVIOUS
<1> USE RequestFacts, NoneAssumption DEF IInv, TypeOK, MutexInv, CallInv, At, Inside
<1>1. CASE UNCHANGED vars
  BY <1>1 DEF vars, regs
<1>2. ASSUME NEW t \in Threads, Call(t) PROVE CallInv'
  BY <1>2 DEF Call
<1>3. ASSUME NEW t \in Threads, Lock(t) PROVE CallInv'
  BY <1>3 DEF Lock
<1>4. ASSUME NEW t \in Threads, AddressLow(t) PROVE CallInv'
  BY <1>4 DEF AddressLow
<1>5. ASSUME NEW t \in Threads, AddressHigh(t) PROVE CallInv'
  BY <1>5 DEF AddressHigh
<1>6. ASSUME NEW t \in Threads, Start(t) PROVE CallInv'
  BY <1>6 DEF Start
<1>7. ASSUME NEW t \in Threads, Poll(t) PROVE CallInv'
  BY <1>7 DEF Poll
<1>8. ASSUME NEW t \in Threads, Clear(t) PROVE CallInv'
  BY <1>8 DEF Clear, Return
<1>9. ASSUME NEW t \in Threads, Evaluate(t) PROVE CallInv'
  BY <1>9 DEF Evaluate, Effect
<1>10. ASSUME NEW t \in Threads, Unlock(t) PROVE CallInv'
  BY <1>10 DEF Unlock, Return
<1>11. CASE SetMode
  BY <1>11 DEF SetMode
<1>12. CASE EcServes
  BY <1>12, ServedRequest DEF EcServes
<1> QED
  BY <1>1, <1>2, <1>3, <1>4, <1>5, <1>6, <1>7, <1>8, <1>9, <1>10, <1>11, <1>12, NextCases

\* Only the holder of the mutex touches the mailbox, in the order of its code.
LEMMA MailboxStep == IInv /\ [Next]_vars => MailboxInv'
<1> SUFFICES ASSUME IInv, [Next]_vars PROVE MailboxInv'
  OBVIOUS
<1> USE NoneAssumption DEF IInv, TypeOK, MutexInv, MailboxInv, At, Inside
<1>1. CASE UNCHANGED vars
  BY <1>1 DEF vars, regs
<1>2. ASSUME NEW t \in Threads, Call(t) PROVE MailboxInv'
  BY <1>2 DEF Call, regs
<1>3. ASSUME NEW t \in Threads, Lock(t) PROVE MailboxInv'
  BY <1>3 DEF Lock, regs
<1>4. ASSUME NEW t \in Threads, AddressLow(t) PROVE MailboxInv'
  BY <1>4 DEF AddressLow
<1>5. ASSUME NEW t \in Threads, AddressHigh(t) PROVE MailboxInv'
  BY <1>5 DEF AddressHigh
<1>6. ASSUME NEW t \in Threads, Start(t) PROVE MailboxInv'
  BY <1>6 DEF Start
<1>7. ASSUME NEW t \in Threads, Poll(t) PROVE MailboxInv'
  BY <1>7 DEF Poll, regs
<1>8. ASSUME NEW t \in Threads, Clear(t) PROVE MailboxInv'
  BY <1>8 DEF Clear, Return, regs
<1>9. ASSUME NEW t \in Threads, Evaluate(t) PROVE MailboxInv'
  BY <1>9 DEF Evaluate, regs
<1>10. ASSUME NEW t \in Threads, Unlock(t) PROVE MailboxInv'
  BY <1>10 DEF Unlock, Return, regs
<1>11. CASE SetMode
  BY <1>11 DEF SetMode, regs
<1>12. CASE EcServes
  BY <1>12, ServedRequest DEF EcServes
<1> QED
  BY <1>1, <1>2, <1>3, <1>4, <1>5, <1>6, <1>7, <1>8, <1>9, <1>10, <1>11, <1>12, NextCases

\* What the holder has polled, and what the EC has done, agree.
LEMMA AnswerStep == IInv /\ [Next]_vars => AnswerInv'
<1> SUFFICES ASSUME IInv, [Next]_vars PROVE AnswerInv'
  OBVIOUS
<1> USE RequestFacts, NoneAssumption DEF IInv, TypeOK, MutexInv, CallInv, MailboxInv, AnswerInv, At, Inside
<1>1. CASE UNCHANGED vars
  BY <1>1 DEF vars, regs
<1>2. ASSUME NEW t \in Threads, Call(t) PROVE AnswerInv'
  BY <1>2 DEF Call, regs
<1>3. ASSUME NEW t \in Threads, Lock(t) PROVE AnswerInv'
  BY <1>3 DEF Lock, regs
<1>4. ASSUME NEW t \in Threads, AddressLow(t) PROVE AnswerInv'
  BY <1>4 DEF AddressLow
<1>5. ASSUME NEW t \in Threads, AddressHigh(t) PROVE AnswerInv'
  BY <1>5 DEF AddressHigh
<1>6. ASSUME NEW t \in Threads, Start(t) PROVE AnswerInv'
  BY <1>6 DEF Start
<1>7. ASSUME NEW t \in Threads, Poll(t) PROVE AnswerInv'
  BY <1>7 DEF Poll, Success, Failure, regs
<1>8. ASSUME NEW t \in Threads, Clear(t) PROVE AnswerInv'
  BY <1>8 DEF Clear, Return, regs
<1>9. ASSUME NEW t \in Threads, Evaluate(t) PROVE AnswerInv'
  BY <1>9 DEF Evaluate, Effect, Success, Failure, regs
<1>10. ASSUME NEW t \in Threads, Unlock(t) PROVE AnswerInv'
  BY <1>10 DEF Unlock, Return, regs
<1>11. CASE SetMode
  BY <1>11 DEF SetMode, regs
<1>12. CASE EcServes
  BY <1>12, ServedRequest DEF EcServes
<1> QED
  BY <1>1, <1>2, <1>3, <1>4, <1>5, <1>6, <1>7, <1>8, <1>9, <1>10, <1>11, <1>12, NextCases

\* The initial states.
LEMMA InitInv == Init => IInv
<1> SUFFICES ASSUME Init PROVE IInv
  OBVIOUS
<1> USE BytesAssumption, WaitAssumption, NoneAssumption, RequestFacts DEF Init, Inside
<1>1. TypeOK
  <2>1. out \in Output
    BY DEF Output, NoOutput, Garbage
  <2>2. reply \in [to : Threads \cup {None}, status : {"none", "ok", "eio"}, byte : Garbage]
    BY DEF NoReply, Garbage
  <2>3. count \in 0..WaitCycles
    OBVIOUS
  <2>4. req \in [Threads -> Requests \cup {NoRequest}]
    OBVIOUS
  <2>5. ram \in [Address -> Bytes] /\ 0 \in Bytes
    OBVIOUS
  <2> QED
    BY <2>1, <2>2, <2>3, <2>4, <2>5 DEF TypeOK
<1>2. MutexInv /\ CallInv /\ MailboxInv /\ AnswerInv
  BY DEF MutexInv, CallInv, MailboxInv, AnswerInv
<1> QED
  BY <1>1, <1>2 DEF IInv

\* The inductive invariant holds in every state.
LEMMA Invariance == Spec => []IInv
<1>1. IInv /\ [Next]_vars => IInv'
  BY TypeStep, MutexStep, CallStep, MailboxStep, AnswerStep DEF IInv
<1> QED
  BY InitInv, <1>1, PTL DEF Spec

\* Every variable keeps its type; in particular the bytes of an address stay
\* in their own registers.
THEOREM TypeCorrect == Spec => []TypeOK
<1>1. IInv => TypeOK
  BY DEF IInv
<1> QED
  BY Invariance, <1>1, PTL

\* The EC only ever sees a complete request, of the thread that holds the
\* mutex, which is alone inside.
THEOREM RequestBelongsToOwner == Spec => []RequestIsOwners
<1>1. ASSUME IInv PROVE RequestIsOwners
  <2> SUFFICES ASSUME flag # "none"
               PROVE  /\ lock # None
                      /\ flag = req[lock].op /\ <<hdat, ldat>> = req[lock].addr
                      /\ flag = "write" => cmdl = req[lock].data
                      /\ \A t \in Threads : pc[t] \in Inside => t = lock
    BY DEF RequestIsOwners
  <2>1. flag = "write" => cmdl = req[lock].data
    BY <1>1, ServedRequest DEF IInv, MailboxInv
  <2>2. \A t \in Threads : pc[t] \in Inside => t = lock
    BY <1>1 DEF IInv, MutexInv
  <2> QED
    BY <1>1, <2>1, <2>2, ServedRequest, NoneAssumption
<1> QED
  BY Invariance, <1>1, PTL

\* With the mutex free no request stands in the mailbox, however the calls
\* before have ended.
THEOREM MailboxQuiet == Spec => []QuietWhenUnlocked
<1>1. IInv => QuietWhenUnlocked
  BY DEF IInv, MailboxInv, QuietWhenUnlocked
<1> QED
  BY Invariance, <1>1, PTL

-----------------------------------------------------------------------------
\* Of the abstract call of each thread: where it is.
Stage == [t \in Threads |-> IF pc[t] = "idle" THEN "idle"
                            ELSE IF acted[t] THEN "acted" ELSE "called"]

\* Who moves on without coming from or to idle, and without acting, stays
\* where it is.
LEMMA SameStage ==
  ASSUME TypeOK, NEW t \in Threads, NEW a, NEW b, At(t, a, b),
         a # "idle", b # "idle", UNCHANGED acted
  PROVE  Stage' = Stage
BY DEF Stage, At, TypeOK

\* A return with success returns what the call has seen, and every other
\* return is a failure.
LEMMA ReturnIsAbstract ==
  ASSUME IInv, NEW t \in Threads, pc[t] \in {"clear", "unlock"},
         At(t, pc[t], "idle"), Return(t), UNCHANGED ram
  PROVE  Ram!Succeed(t) \/ Ram!Fail(t)
<1> USE DEF IInv, TypeOK
<1>1. Stage' = [Stage EXCEPT ![t] = "idle"]
  BY DEF Stage, At, Return
<1>2. Stage[t] # "idle"
  BY DEF Stage
<1>3. Ram!Return(t)
  BY <1>1 DEF Return, Ram!Return, Stage
<1>4. CASE out.status = "ok"
  <2>1. acted[t] /\ out.byte = seen[t]
    BY <1>4 DEF AnswerInv
  <2>2. Stage[t] = "acted"
    BY <2>1 DEF Stage
  <2> QED
    BY <1>3, <1>4, <2>1, <2>2 DEF Ram!Succeed, Return, Stage
<1>5. CASE out.status = "eio"
  <2>1. out.byte \in Garbage
    BY DEF Output
  <2>2. reply' = [to |-> t, status |-> "eio", byte |-> out.byte]
    BY <1>5 DEF Return
  <2> QED
    BY <1>2, <1>3, <2>1, <2>2 DEF Ram!Fail, Stage
<1> QED
  BY <1>4, <1>5 DEF AnswerInv

\* The EC's step is the moment at which the call of the holder acts.
LEMMA ServingIsAbstract ==
  ASSUME IInv, EcServes, NEW t \in Threads, t = lock
  PROVE  Ram!Act(t)
<1> USE DEF IInv, TypeOK
<1>1. /\ pc[t] \in {"poll", "clear"} /\ req[t] \in Requests
      /\ flag = req[t].op /\ <<hdat, ldat>> = req[t].addr
      /\ <<hdat, ldat>> \in Address
  BY ServedRequest DEF EcServes
<1>2. ~acted[t] /\ lock # None
  BY <1>1, NoneAssumption DEF EcServes, AnswerInv
<1>3. Stage[t] = "called" /\ Stage' = [Stage EXCEPT ![t] = "acted"]
  BY <1>1, <1>2 DEF Stage, EcServes
<1>4. req[t].op = "write" => cmdl = req[t].data
  BY <1>1 DEF MailboxInv
<1>5. \/ req[t].op = "read" /\ UNCHANGED ram
      \/ /\ req[t].op = "write"
         /\ ram' = [ram EXCEPT ![req[t].addr] = req[t].data]
  BY <1>1, <1>4 DEF EcServes
<1>6. seen' = [seen EXCEPT ![t] = ram'[req[t].addr]] /\ UNCHANGED <<req, reply>>
  BY <1>1, <1>2 DEF EcServes
<1> QED
  BY <1>1, <1>3, <1>5, <1>6 DEF Ram!Act, Stage

\* In WMI mode a call acts inside the firmware's method, or not at all.
LEMMA EvaluateIsAbstract ==
  ASSUME IInv, NEW t \in Threads, Evaluate(t)
  PROVE  Ram!Act(t) \/ UNCHANGED <<ram, Stage, req, seen, reply>>
<1> USE DEF IInv, TypeOK
<1>1. req[t] \in Requests /\ ~acted[t] /\ pc[t] = "evaluate"
  BY DEF Evaluate, At, CallInv
<1>2. Stage[t] = "called"
  BY <1>1 DEF Stage
<1>3. CASE Effect(t, req[t].addr, req[t].data)
  <2>1. Stage' = [Stage EXCEPT ![t] = "acted"]
    BY <1>1, <1>3 DEF Stage, Evaluate, At, Effect
  <2>2. \/ req[t].op = "read" /\ UNCHANGED ram
        \/ req[t].op = "write" /\ ram' = [ram EXCEPT ![req[t].addr] = req[t].data]
    BY <1>1, <1>3, RequestFacts DEF Effect
  <2> QED
    BY <1>2, <1>3, <2>1, <2>2 DEF Ram!Act, Stage, Evaluate, Effect
<1>4. CASE UNCHANGED <<ram, seen, acted>>
  BY <1>1, <1>4, SameStage DEF Evaluate, At
<1> QED
  BY <1>3, <1>4 DEF Evaluate

\* Every step is a step of EcRam or leaves it as it is.
LEMMA RamStep == IInv /\ [Next]_vars => [Ram!Next]_(Ram!vars)
<1> SUFFICES ASSUME IInv, [Next]_vars
             PROVE  Ram!Next \/ UNCHANGED <<ram, Stage, req, seen, reply>>
  BY DEF Ram!vars, Stage
<1> USE DEF IInv, TypeOK
<1>1. CASE UNCHANGED vars
  BY <1>1 DEF vars, Stage
<1>2. ASSUME NEW t \in Threads, Call(t) PROVE Ram!Call(t)
  <2>1. ~acted[t]
    BY <1>2 DEF Call, At, CallInv
  <2>2. Stage[t] = "idle" /\ Stage' = [Stage EXCEPT ![t] = "called"]
    BY <1>2, <2>1 DEF Call, At, Stage
  <2> QED
    BY <1>2, <2>2 DEF Call, Ram!Call, Stage, NoReply, Ram!NoReply
<1>3. ASSUME NEW t \in Threads,
             Lock(t) \/ AddressLow(t) \/ AddressHigh(t) \/ Start(t) \/ Poll(t)
      PROVE  UNCHANGED <<ram, Stage, req, seen, reply>>
  <2>1. UNCHANGED <<ram, req, seen, reply, acted>>
    BY <1>3 DEF Lock, AddressLow, AddressHigh, Start, Poll
  <2>2. CASE UNCHANGED pc
    BY <2>1, <2>2 DEF Stage
  <2>3. CASE Lock(t) \/ AddressLow(t) \/ AddressHigh(t) \/ Start(t)
    BY <2>1, <2>3, SameStage DEF Lock, AddressLow, AddressHigh, Start
  <2>4. CASE Poll(t) /\ ~UNCHANGED pc
    BY <2>1, <2>4, SameStage DEF Poll
  <2> QED
    BY <1>3, <2>1, <2>2, <2>3, <2>4
<1>4. ASSUME NEW t \in Threads, Clear(t) \/ Unlock(t)
      PROVE  Ram!Succeed(t) \/ Ram!Fail(t)
  BY <1>4, ReturnIsAbstract DEF Clear, Unlock, At
<1>5. CASE SetMode
  BY <1>5 DEF SetMode, Stage
<1>6. ASSUME EcServes PROVE Ram!Next
  <2>1. PICK t \in Threads : t = lock
    BY <1>6, ServedRequest DEF EcServes
  <2>2. Ram!Act(t)
    BY <1>6, <2>1, ServingIsAbstract
  <2> QED
    BY <2>2 DEF Ram!Next
<1> QED
  BY <1>1, <1>2, <1>3, <1>4, <1>5, <1>6, EvaluateIsAbstract, NextCases DEF Ram!Next

\* In either mode and across changes of mode, the driver offers its callers a
\* RAM whose accesses are atomic or fail.
THEOREM ImplementsEcRam == Spec => RamSpec
<1>1. Init => Ram!Init
  BY DEF Init, Ram!Init, NoReply, Ram!NoReply
<1> QED
  BY Invariance, <1>1, RamStep, PTL DEF Spec, RamSpec, Ram!Spec

=============================================================================
