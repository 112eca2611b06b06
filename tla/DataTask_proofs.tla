-------------------------- MODULE DataTask_proofs --------------------------
(***************************************************************************)
(* Proofs about the client node of the message bus, for every set of       *)
(* services, every heartbeat period and timeout, and queues of any length. *)
(*                                                                         *)
(* AgeNeverWraps says what holds between two steps of the check thread     *)
(* while the poll thread may store an answer.  It is not inductive: which  *)
(* answers can come depends on what is on the way.  ClockInv adds that no  *)
(* heartbeat on the way, in any of the three queues it passes through, is  *)
(* later than the horizon of its service: the check thread's sample of the *)
(* clock while that sample is in use, the clock itself otherwise.          *)
(* OrderInv says that the heartbeats on the way are in the order of their  *)
(* times, which is why an answer never replaces a later one.               *)
(***************************************************************************)
EXTENDS DataTask, SequenceTheorems, TLAPS

(* The fields of a message are those its type announces. *)
LEMMA MessageFields ==
  ASSUME NEW m \in Message
  PROVE  /\ m.type = "register" => m.ts \in Nat
         /\ m.type = "app" => m.peer \in Tasks
  BY DEF Message, Query, Garbled

(* A message has one of four types, and only the first two carry a time.   *)
LEMMA MessageTypes ==
  ASSUME NEW ts \in Nat, NEW c \in Tasks
  PROVE  /\ Register(ts) \in Message /\ App(c) \in Message
         /\ Query \in Message /\ Garbled \in Message
  BY DEF Message, Register, App, Query, Garbled

(* The state before any service has run is well typed. *)
LEMMA InitTypeOK == Init => TypeOK
<1> SUFFICES ASSUME Init
             PROVE  TypeOK
  OBVIOUS
<1>1. now \in Nat /\ crashes \in 0 .. MaxCrash
  BY TaskAssumption DEF Init
<1>2. registerRepTickout \in [Tasks -> Nat] /\ curTickcount \in [Tasks -> Nat]
      /\ lastTickcount \in [Tasks -> Nat] /\ capacity \in [Tasks -> Nat]
  BY <1>1 DEF Init
<1>3. alive \in [Tasks -> BOOLEAN] /\ online \in [Tasks -> BOOLEAN]
      /\ told \in [Tasks -> BOOLEAN] /\ pollArg \in [Tasks -> BOOLEAN]
      /\ checkArg \in [Tasks -> BOOLEAN] /\ watched \in [Tasks -> BOOLEAN]
  BY DEF Init
<1>4. <<>> \in Seq(Message)
  OBVIOUS
<1>5. vecSendBuff \in [Tasks -> Seq(Message)] /\ up \in [Tasks -> Seq(Message)]
      /\ down \in [Tasks -> Seq(Message)]
  BY <1>4 DEF Init
<1>6. /\ pollPc \in [Tasks -> PollPlaces]
      /\ checkPc \in [Tasks -> {"sample", "age", "verdict", "status", "callback"}]
  BY DEF Init, PollPlaces
<1>7. QED
  BY <1>1, <1>2, <1>3, <1>5, <1>6 DEF TypeOK

(* A queued message keeps the types of the send buffer. *)
LEMMA SendType ==
  ASSUME TypeOK, NEW c \in Tasks, NEW m \in Message, send(c, m)
  PROVE  vecSendBuff' \in [Tasks -> Seq(Message)] /\ capacity' \in [Tasks -> Nat]
  BY DEF TypeOK, send, Grows

(* A message is added to the buffer of its sender and to no other. *)
LEMMA SendAppends ==
  ASSUME TypeOK, NEW c \in Tasks, NEW m \in Message, send(c, m)
  PROVE  /\ vecSendBuff'[c] # <<>>
         /\ \A d \in Tasks : d # c => vecSendBuff'[d] = vecSendBuff[d]
<1>1. vecSendBuff[c] \in Seq(Message)
  BY DEF TypeOK
<1>2. Append(vecSendBuff[c], m) # <<>>
  BY <1>1, AppendProperties
<1>3. vecSendBuff' = [vecSendBuff EXCEPT ![c] = Append(@, m)]
  BY DEF send
<1>4. QED
  BY <1>2, <1>3 DEF TypeOK

(* What is delivered keeps the type of the connections. *)
LEMMA DeliverType ==
  ASSUME TypeOK, NEW c \in Tasks, NEW m \in Message, Deliver(c, m)
  PROVE  down' \in [Tasks -> Seq(Message)]
  BY DEF TypeOK, Deliver

(* The element the poll thread has copied without the lock is still there  *)
(* when it comes to erase it: no other thread erases.                      *)
CopiedIsThere ==
  \A c \in Tasks : pollPc[c] \in {"copy", "torn"} => vecSendBuff[c] # <<>>

(* The types depend on it: without it PollSend would take the head of an   *)
(* empty buffer.                                                           *)
TypeInv == TypeOK /\ CopiedIsThere

(* No step of either thread, of the process or of the broker takes a       *)
(* variable out of its type.                                               *)
LEMMA StepTypeOK == TypeInv /\ [Next]_vars => TypeOK'
<1>1. TypeInv /\ [Next]_vars => TypeOK'
  <2> SUFFICES ASSUME TypeOK, CopiedIsThere, [Next]_vars
               PROVE  TypeOK'
    BY DEF TypeInv
  <2> USE DEF sharedVars, buffVars, pollVars, checkVars, netVars
  <2>1. ASSUME NEW c \in Tasks, PollThread(c)
        PROVE  TypeOK'
    <3>1. CASE PollRegister(c)
      <4>1. Head(down[c]) \in Message
        BY <3>1 DEF PollRegister, Answered, Receive, TypeOK
      <4>2. Head(down[c]).ts \in Nat
        BY <3>1, <4>1, MessageFields DEF PollRegister, Answered
      <4>3. down' \in [Tasks -> Seq(Message)]
        BY <3>1 DEF PollRegister, Answered, Receive, TypeOK
      <4>4. QED
        BY <3>1, <4>2, <4>3 DEF PollRegister, Answered, TypeOK, PollPlaces
    <3>9. CASE PollAge(c) \/ PollFlag(c) \/ PollOnline(c)
      BY <3>9 DEF PollAge, PollFlag, PollOnline, TypeOK, PollPlaces
    <3>2. CASE PollOther(c)
      BY <3>2 DEF PollOther, Receive, TypeOK
    <3>3. CASE PollStatus(c)
      BY <3>3 DEF PollStatus, TypeOK, PollPlaces
    <3>4. CASE PollCallback(c)
      BY <3>4 DEF PollCallback, TypeOK, PollPlaces
    <3>5. CASE PollQuery(c)
      <4>1. vecSendBuff' \in [Tasks -> Seq(Message)] /\ capacity' \in [Tasks -> Nat]
        BY <3>5, SendType, Query \in Message DEF PollQuery, TypeOK, Message
      <4>2. QED
        BY <3>5, <4>1 DEF PollQuery, TypeOK, PollPlaces
    <3>6. CASE PollCopy(c)
      BY <3>6 DEF PollCopy, TypeOK, PollPlaces
    <3>7. CASE PollSend(c)
      <4>1. vecSendBuff[c] \in Seq(Message) /\ up[c] \in Seq(Message)
        BY DEF TypeOK
      <4>2. vecSendBuff[c] # <<>> => Head(vecSendBuff[c]) \in Message
        BY <4>1
      <4>3. vecSendBuff[c] # <<>>
        BY <3>7 DEF PollSend, CopiedIsThere
      <4>4. up' \in [Tasks -> Seq(Message)]
        <5>1. PICK m : /\ m \in {Head(vecSendBuff[c])} \cup {Garbled}
                       /\ up' = [up EXCEPT ![c] = Append(@, m)]
          BY <3>7 DEF PollSend
        <5>2. m \in Message
          BY <4>2, <4>3, <5>1 DEF Message
        <5>3. Append(up[c], m) \in Seq(Message)
          BY <4>1, <5>2, AppendProperties
        <5>4. QED
          BY <5>1, <5>3 DEF TypeOK
      <4>5. vecSendBuff' \in [Tasks -> Seq(Message)]
        BY <3>7, <4>3 DEF PollSend, TypeOK
      <4>6. QED
        BY <3>7, <4>4, <4>5 DEF PollSend, TypeOK, PollPlaces
    <3>8. QED
      BY <2>1, <3>1, <3>2, <3>3, <3>4, <3>5, <3>6, <3>7, <3>9 DEF PollThread
  <2>2. ASSUME NEW c \in Tasks, CheckThread(c)
        PROVE  TypeOK'
    <3>1. CASE CheckSample(c)
      <4>1. Register(now) \in Message
        BY DEF TypeOK, Message, Register
      <4>2. vecSendBuff' \in [Tasks -> Seq(Message)] /\ capacity' \in [Tasks -> Nat]
        BY <3>1, <4>1, SendType DEF CheckSample, BeginRound, TypeOK
      <4>3. pollPc' \in [Tasks -> PollPlaces]
        <5>1. \/ UNCHANGED pollPc
              \/ pollPc' = [pollPc EXCEPT ![c] = "torn"]
              \/ pollPc' = [pollPc EXCEPT ![c] = @]
          BY <3>1 DEF CheckSample, BeginRound
        <5>2. QED
          BY <5>1 DEF TypeOK, PollPlaces
      <4>4. curTickcount' \in [Tasks -> Nat] /\ lastTickcount' \in [Tasks -> Nat]
            /\ checkPc' \in [Tasks -> {"sample", "age", "verdict", "status", "callback"}]
        <5>1. curTickcount' = [curTickcount EXCEPT ![c] = now]
              /\ checkPc' = [checkPc EXCEPT ![c] = "age"]
          BY <3>1 DEF CheckSample, BeginRound
        <5>2. UNCHANGED lastTickcount \/ lastTickcount' = [lastTickcount EXCEPT ![c] = now]
          BY <3>1 DEF CheckSample, BeginRound
        <5>3. QED
          BY <5>1, <5>2 DEF TypeOK
      <4>5. /\ UNCHANGED <<now, alive, registerRepTickout, online, told, pollArg, checkArg,
                           netVars, crashes>>
            /\ watched' = [watched EXCEPT ![c] = online[c]]
        BY <3>1 DEF CheckSample, BeginRound
      <4>6. QED
        BY <4>2, <4>3, <4>4, <4>5 DEF TypeOK
    <3>2. CASE CheckAge(c)
      BY <3>2 DEF CheckAge, CompareAge, TypeOK
    <3>3. CASE CheckVerdict(c)
      BY <3>3 DEF CheckVerdict, TypeOK
    <3>4. CASE CheckStatus(c)
      BY <3>4 DEF CheckStatus, TypeOK
    <3>5. CASE CheckCallback(c)
      BY <3>5 DEF CheckCallback, TypeOK
    <3>6. QED
      BY <2>2, <3>1, <3>2, <3>3, <3>4, <3>5 DEF CheckThread
  <2>3. ASSUME NEW c \in Tasks, NEW peer \in Tasks, AppSend(c, peer)
        PROVE  TypeOK'
    <3>1. vecSendBuff' \in [Tasks -> Seq(Message)] /\ capacity' \in [Tasks -> Nat]
      BY <2>3, SendType DEF AppSend, Message, App
    <3>2. QED
      BY <2>3, <3>1 DEF AppSend, TypeOK, PollPlaces
  <2>4. ASSUME NEW c \in Tasks, Crash(c)
        PROVE  TypeOK'
    <3>1. up' \in [Tasks -> Seq(Message)] /\ down' \in [Tasks -> Seq(Message)]
          /\ vecSendBuff' \in [Tasks -> Seq(Message)]
      <4>1. PICK rest \in {<<>>, up[c]} : up' = [up EXCEPT ![c] = rest]
        BY <2>4 DEF Crash
      <4>2. up \in [Tasks -> Seq(Message)] /\ <<>> \in Seq(Message)
        BY DEF TypeOK
      <4>3. rest \in Seq(Message)
        BY <4>1, <4>2
      <4>4. up' \in [Tasks -> Seq(Message)]
        BY <4>1, <4>2, <4>3
      <4>5. QED
        BY <2>4, <4>2, <4>4 DEF Crash, TypeOK
    <3>2. crashes' \in 0 .. MaxCrash
      BY <2>4, TaskAssumption DEF Crash, TypeOK
    <3>3. alive' \in [Tasks -> BOOLEAN] /\ online' \in [Tasks -> BOOLEAN]
          /\ told' \in [Tasks -> BOOLEAN] /\ pollArg' \in [Tasks -> BOOLEAN]
          /\ watched' \in [Tasks -> BOOLEAN]
          /\ checkArg' \in [Tasks -> BOOLEAN]
      BY <2>4 DEF Crash, TypeOK
    <3>4. capacity' \in [Tasks -> Nat] /\ curTickcount' \in [Tasks -> Nat]
          /\ lastTickcount' \in [Tasks -> Nat]
      BY <2>4 DEF Crash, TypeOK
    <3>5. /\ pollPc' \in [Tasks -> PollPlaces]
          /\ checkPc' \in [Tasks -> {"sample", "age", "verdict", "status", "callback"}]
      BY <2>4 DEF Crash, TypeOK, PollPlaces
    <3>6. UNCHANGED <<now, registerRepTickout>>
      BY <2>4 DEF Crash
    <3>7. QED
      BY <3>1, <3>2, <3>3, <3>4, <3>5, <3>6 DEF TypeOK
  <2>5. ASSUME NEW c \in Tasks, Restart(c)
        PROVE  TypeOK'
    BY <2>5 DEF Restart, TypeOK
  <2>6. ASSUME NEW c \in Tasks, BrokerTake(c)
        PROVE  TypeOK'
    <3>1. Head(up[c]) \in Message
      BY <2>6 DEF BrokerTake, TypeOK
    <3>2. Head(up[c]).type = "app" => Head(up[c]).peer \in Tasks
      BY <3>1, MessageFields
    <3>3. App(c) \in Message
      BY MessageTypes, 0 \in Nat
    <3>4. down' \in [Tasks -> Seq(Message)]
      BY <2>6, <3>1, <3>2, <3>3, DeliverType DEF BrokerTake, TypeOK
    <3>5. up' \in [Tasks -> Seq(Message)]
      BY <2>6 DEF BrokerTake, TypeOK
    <3>6. UNCHANGED <<now, alive, sharedVars, buffVars, pollVars, checkVars, crashes>>
      BY <2>6 DEF BrokerTake
    <3>7. QED
      BY <3>4, <3>5, <3>6 DEF TypeOK
  <2>7. ASSUME NEW c \in Tasks, Disconnect(c)
        PROVE  TypeOK'
    <3>1. up' \in [Tasks -> Seq(Message)] /\ down' \in [Tasks -> Seq(Message)]
      <4>1. PICK rest \in {<<>>, up[c]} : up' = [up EXCEPT ![c] = rest]
        BY <2>7 DEF Disconnect
      <4>2. up \in [Tasks -> Seq(Message)] /\ <<>> \in Seq(Message)
        BY DEF TypeOK
      <4>3. rest \in Seq(Message)
        BY <4>1, <4>2
      <4>4. up' \in [Tasks -> Seq(Message)]
        BY <4>1, <4>2, <4>3
      <4>5. QED
        BY <2>7, <4>2, <4>4 DEF Disconnect, TypeOK
    <3>2. crashes' \in 0 .. MaxCrash
      BY <2>7, TaskAssumption DEF Disconnect, TypeOK
    <3>3. UNCHANGED <<now, alive, sharedVars, buffVars, pollVars, checkVars>>
      BY <2>7 DEF Disconnect
    <3>4. QED
      BY <3>1, <3>2, <3>3 DEF TypeOK
  <2>8. CASE Tick
    BY <2>8 DEF Tick, TypeOK
  <2>9. CASE UNCHANGED vars
    BY <2>9 DEF vars, TypeOK
  <2>10. QED
    BY <2>1, <2>2, <2>3, <2>4, <2>5, <2>6, <2>7, <2>8, <2>9 DEF Next
<1>2. QED
  BY <1>1

(* No step takes the element the poll thread has copied off the send       *)
(* buffer: the other threads only add to its end.                          *)
LEMMA StepCopied == TypeInv /\ [Next]_vars => CopiedIsThere'
<1> SUFFICES ASSUME TypeInv, [Next]_vars
             PROVE  CopiedIsThere'
  OBVIOUS
<1> USE DEF TypeInv, TypeOK, CopiedIsThere, sharedVars, buffVars, pollVars, checkVars, netVars
<1>1. ASSUME NEW c \in Tasks, PollThread(c)
      PROVE  CopiedIsThere'
  <2>1. CASE PollSend(c)
    BY <2>1 DEF PollSend
  <2>2. CASE PollQuery(c)
    BY <2>2 DEF PollQuery, send
  <2>3. CASE PollCopy(c)
    BY <2>3 DEF PollCopy
  <2>4. CASE \/ PollRegister(c) \/ PollAge(c) \/ PollFlag(c) \/ PollOnline(c)
             \/ PollOther(c) \/ PollStatus(c) \/ PollCallback(c)
    BY <2>4 DEF PollRegister, Answered, PollAge, PollFlag, PollOnline, PollOther, PollStatus,
                PollCallback
  <2>5. QED
    BY <1>1, <2>1, <2>2, <2>3, <2>4 DEF PollThread
<1>2. ASSUME NEW c \in Tasks, CheckThread(c)
      PROVE  CopiedIsThere'
  <2>1. CASE CheckSample(c)
    <3>1. CASE UNCHANGED <<buffVars, pollPc>>
      BY <3>1
    <3>2. CASE send(c, Register(now)) /\ pollPc' = [pollPc EXCEPT ![c] = IF Tears(c) THEN "torn" ELSE @]
      <4>1. Register(now) \in Message
        BY DEF Register, Message
      <4>2. QED
        BY <3>2, <4>1, SendAppends
    <3>3. QED
      BY <2>1, <3>1, <3>2 DEF CheckSample, BeginRound
  <2>2. CASE CheckAge(c) \/ CheckVerdict(c) \/ CheckStatus(c) \/ CheckCallback(c)
    BY <2>2 DEF CheckAge, CompareAge, CheckVerdict, CheckStatus, CheckCallback
  <2>3. QED
    BY <1>2, <2>1, <2>2 DEF CheckThread
<1>3. ASSUME NEW c \in Tasks, NEW peer \in Tasks, AppSend(c, peer)
      PROVE  CopiedIsThere'
  <2>1. send(c, App(peer)) /\ App(peer) \in Message
    BY <1>3 DEF AppSend, App, Message
  <2>2. pollPc' = [pollPc EXCEPT ![c] = IF Tears(c) THEN "torn" ELSE @]
    BY <1>3 DEF AppSend
  <2>3. QED
    BY <2>1, <2>2, SendAppends
<1>4. ASSUME NEW c \in Tasks, Crash(c)
      PROVE  CopiedIsThere'
  BY <1>4 DEF Crash
<1>5. ASSUME NEW c \in Tasks, Restart(c) \/ BrokerTake(c) \/ Disconnect(c)
      PROVE  CopiedIsThere'
  BY <1>5 DEF Restart, BrokerTake, Disconnect
<1>6. CASE Tick \/ UNCHANGED vars
  BY <1>6 DEF Tick, vars
<1>7. QED
  BY <1>1, <1>2, <1>3, <1>4, <1>5, <1>6 DEF Next

(* Every reachable state of the node has its variables in their types, and *)
(* the poll thread erases only an element that is there.                   *)
THEOREM TaskTypeCorrect == Spec => [](TypeOK /\ CopiedIsThere)
<1>1. Init => TypeInv
  BY InitTypeOK DEF Init, TypeInv, CopiedIsThere
<1>2. TypeInv /\ [Next]_vars => TypeInv'
  BY StepTypeOK, StepCopied DEF TypeInv
<1>3. QED
  BY <1>1, <1>2, PTL DEF Spec, TypeInv

-----------------------------------------------------------------------------
(* The heartbeats in a queue carry timestamps no later than t. *)
Stamped(q, t) == \A i \in 1 .. Len(q) : q[i].type = "register" => q[i].ts <= t

(* The latest timestamp an answer to c may carry. *)
Horizon(c) == IF checkPc[c] = "age" THEN curTickcount[c] ELSE now

ClockOf(c) ==
  /\ Horizon(c) <= now
  /\ registerRepTickout[c] <= Horizon(c)
  /\ Stamped(vecSendBuff[c], Horizon(c))
  /\ Stamped(up[c], Horizon(c))
  /\ Stamped(down[c], Horizon(c))

ClockInv == \A c \in Tasks : ClockOf(c)

(* A later bound is a weaker one. *)
LEMMA StampedWeaken ==
  ASSUME NEW q \in Seq(Message), NEW t \in Nat, NEW u \in Nat, t <= u, Stamped(q, t)
  PROVE  Stamped(q, u)
<1> SUFFICES ASSUME NEW i \in 1 .. Len(q), q[i].type = "register"
             PROVE  q[i].ts <= u
  BY DEF Stamped
<1>1. q[i] \in Message
  BY ElementOfSeq
<1>2. q[i].ts \in Nat /\ q[i].ts <= t
  BY <1>1, MessageFields DEF Stamped
<1>3. QED
  BY <1>2

(* Appending a message that meets the bound, *)
LEMMA StampedAppend ==
  ASSUME NEW q \in Seq(Message), NEW t \in Nat, Stamped(q, t),
         NEW m \in Message, m.type = "register" => m.ts <= t
  PROVE  Stamped(Append(q, m), t)
<1> SUFFICES ASSUME NEW i \in 1 .. Len(Append(q, m)), Append(q, m)[i].type = "register"
             PROVE  Append(q, m)[i].ts <= t
  BY DEF Stamped
<1>1. /\ Len(Append(q, m)) = Len(q) + 1 /\ Append(q, m)[Len(q) + 1] = m
      /\ \A j \in 1 .. Len(q) : Append(q, m)[j] = q[j]
  BY AppendProperties
<1>2. i \in 1 .. Len(q) \/ i = Len(q) + 1
  BY <1>1, LenProperties
<1>3. QED
  BY <1>1, <1>2 DEF Stamped

(* and taking the first message off, keep it; that message meets it.       *)
LEMMA StampedTake ==
  ASSUME NEW q \in Seq(Message), NEW t \in Nat, Stamped(q, t), q # <<>>
  PROVE  /\ Head(q) \in Message
         /\ Head(q).type = "register" => Head(q).ts <= t
         /\ Stamped(Tail(q), t)
<1>1. /\ Head(q) \in Message /\ Head(q) = q[1] /\ Tail(q) \in Seq(Message)
      /\ Len(Tail(q)) = Len(q) - 1 /\ \A i \in 1 .. Len(Tail(q)) : Tail(q)[i] = q[i + 1]
      /\ Len(q) \in Nat \ {0}
  BY HeadTailProperties, LenProperties, EmptySeq
<1>2. Head(q).type = "register" => Head(q).ts <= t
  BY <1>1 DEF Stamped
<1>3. ASSUME NEW i \in 1 .. Len(Tail(q))
      PROVE  Tail(q)[i] = q[i + 1] /\ i + 1 \in 1 .. Len(q)
  BY <1>1, <1>3
<1>4. Stamped(Tail(q), t)
  BY <1>3 DEF Stamped
<1>5. QED
  BY <1>1, <1>2, <1>4

(* An empty queue meets every bound. *)
LEMMA StampedEmpty == \A t : Stamped(<<>>, t)
  BY DEF Stamped

(* What the lemmas below need of TypeOK. *)
LEMMA ClockTypes ==
  ASSUME TypeOK, NEW c \in Tasks
  PROVE  /\ now \in Nat /\ Horizon(c) \in Nat /\ registerRepTickout[c] \in Nat
         /\ vecSendBuff[c] \in Seq(Message) /\ up[c] \in Seq(Message)
         /\ down[c] \in Seq(Message)
  BY DEF TypeOK, Horizon

(* What a service holds does not matter to it when its horizon moves on.   *)
LEMMA ClockMovesOn ==
  ASSUME TypeOK, TypeOK', NEW c \in Tasks, ClockOf(c), Horizon(c) <= Horizon(c)',
         Horizon(c)' <= now',
         UNCHANGED <<registerRepTickout[c], vecSendBuff[c], up[c], down[c]>>
  PROVE  ClockOf(c)'
<1>1. /\ Horizon(c) \in Nat /\ Horizon(c)' \in Nat /\ registerRepTickout[c] \in Nat
      /\ vecSendBuff[c] \in Seq(Message) /\ up[c] \in Seq(Message)
      /\ down[c] \in Seq(Message)
  <2>1. Horizon(c)' \in Nat
    BY DEF TypeOK, Horizon
  <2>2. QED
    BY <2>1, ClockTypes
<1>2. /\ Stamped(vecSendBuff[c], Horizon(c)') /\ Stamped(up[c], Horizon(c)')
      /\ Stamped(down[c], Horizon(c)')
  BY <1>1, StampedWeaken DEF ClockOf
<1>3. /\ Stamped(vecSendBuff[c]', Horizon(c)') /\ Stamped(up[c]', Horizon(c)')
      /\ Stamped(down[c]', Horizon(c)')
  BY <1>2
<1>4. registerRepTickout[c]' <= Horizon(c)'
  BY <1>1 DEF ClockOf
<1>5. QED
  BY <1>3, <1>4 DEF ClockOf, Stamped

(* A step that leaves c alone and does not change the clock. *)
LEMMA ClockUntouched ==
  ASSUME NEW c \in Tasks, ClockOf(c),
         UNCHANGED <<now, checkPc[c], curTickcount[c], registerRepTickout[c],
                     vecSendBuff[c], up[c], down[c]>>
  PROVE  ClockOf(c)'
  BY DEF ClockOf, Horizon, Stamped

(* The poll thread stores an answer, and moves messages that meet the      *)
(* bound from one queue to the next.                                       *)
LEMMA ClockPoll ==
  ASSUME TypeInv, ClockInv, NEW c \in Tasks, PollThread(c)
  PROVE  ClockInv'
<1> USE DEF sharedVars, buffVars, pollVars, checkVars, netVars
<1>1. TypeOK /\ CopiedIsThere /\ ClockOf(c)
  BY DEF TypeInv, ClockInv
<1>2. /\ now \in Nat /\ Horizon(c) \in Nat /\ vecSendBuff[c] \in Seq(Message)
      /\ up[c] \in Seq(Message) /\ down[c] \in Seq(Message)
  BY <1>1, ClockTypes
<1>3. UNCHANGED <<now, checkPc, curTickcount>>
  BY DEF PollThread, PollRegister, Answered, PollAge, PollFlag, PollOnline, PollOther, PollStatus, PollCallback, PollQuery,
         PollCopy, PollSend
<1>4. Horizon(c)' = Horizon(c)
  BY <1>3 DEF Horizon
<1>5. ASSUME NEW d \in Tasks, d # c
      PROVE  ClockOf(d)'
  <2>1. UNCHANGED <<registerRepTickout[d], vecSendBuff[d], up[d], down[d]>>
    <3>1. CASE PollRegister(c) \/ PollOther(c)
      BY <1>5, <1>1, <3>1 DEF PollRegister, Answered, PollOther, Receive, TypeOK
    <3>2. CASE \/ PollAge(c) \/ PollFlag(c) \/ PollOnline(c)
               \/ PollStatus(c) \/ PollCallback(c) \/ PollCopy(c)
      BY <3>2 DEF PollAge, PollFlag, PollOnline, PollStatus, PollCallback, PollCopy
    <3>3. CASE PollQuery(c)
      BY <1>5, <1>1, <3>3 DEF PollQuery, send, TypeOK
    <3>4. CASE PollSend(c)
      BY <1>5, <1>1, <3>4 DEF PollSend, TypeOK
    <3>5. QED
      BY <3>1, <3>2, <3>3, <3>4 DEF PollThread
  <2>2. QED
    BY <1>3, <2>1, ClockUntouched DEF ClockInv
<1>6. ClockOf(c)'
  <2>1. CASE PollRegister(c) \/ PollOther(c)
    <3>1. down[c] # <<>> /\ down'[c] = Tail(down[c])
      BY <1>1, <2>1 DEF PollRegister, Answered, PollOther, Receive, TypeOK
    <3>2. /\ Head(down[c]).type = "register" => Head(down[c]).ts <= Horizon(c)
          /\ Stamped(Tail(down[c]), Horizon(c))
      BY <1>1, <1>2, <3>1, StampedTake DEF ClockOf
    <3>3. registerRepTickout'[c] <= Horizon(c)
      BY <1>1, <2>1, <3>2 DEF PollRegister, Answered, PollOther, ClockOf, TypeOK
    <3>4. UNCHANGED <<vecSendBuff, up>>
      BY <2>1 DEF PollRegister, Answered, PollOther
    <3>5. QED
      BY <1>1, <1>3, <1>4, <3>1, <3>2, <3>3, <3>4 DEF ClockOf, Stamped
  <2>2. CASE \/ PollAge(c) \/ PollFlag(c) \/ PollOnline(c)
             \/ PollStatus(c) \/ PollCallback(c) \/ PollCopy(c)
    BY <1>1, <1>3, <2>2, ClockUntouched
    DEF PollAge, PollFlag, PollOnline, PollStatus, PollCallback, PollCopy
  <2>3. CASE PollQuery(c)
    <3>1. UNCHANGED <<registerRepTickout, up, down>>
      BY <2>3 DEF PollQuery
    <3>2. vecSendBuff'[c] = Append(vecSendBuff[c], Query) \/ UNCHANGED vecSendBuff[c]
      BY <1>1, <2>3 DEF PollQuery, send, TypeOK
    <3>3. Query \in Message /\ Query.type # "register"
      BY DEF Query, Message
    <3>4. Stamped(vecSendBuff'[c], Horizon(c))
      BY <1>1, <1>2, <3>2, <3>3, StampedAppend DEF ClockOf
    <3>5. QED
      BY <1>1, <1>3, <1>4, <3>1, <3>4 DEF ClockOf, Stamped
  <2>4. CASE PollSend(c)
    <3>1. vecSendBuff[c] # <<>>
      BY <1>1, <2>4 DEF PollSend, CopiedIsThere
    <3>2. /\ Head(vecSendBuff[c]) \in Message
          /\ Head(vecSendBuff[c]).type = "register" => Head(vecSendBuff[c]).ts <= Horizon(c)
          /\ Stamped(Tail(vecSendBuff[c]), Horizon(c))
      BY <1>1, <1>2, <3>1, StampedTake DEF ClockOf
    <3>3. PICK m : /\ m \in {Head(vecSendBuff[c])} \cup {Garbled}
                   /\ up' = [up EXCEPT ![c] = Append(@, m)]
      BY <2>4 DEF PollSend
    <3>4. m \in Message /\ (m.type = "register" => m.ts <= Horizon(c))
      BY <3>2, <3>3 DEF Garbled, Message
    <3>5. Stamped(Append(up[c], m), Horizon(c))
      BY <1>1, <1>2, <3>4, StampedAppend DEF ClockOf
    <3>6. /\ up'[c] = Append(up[c], m) /\ vecSendBuff'[c] = Tail(vecSendBuff[c])
          /\ UNCHANGED <<registerRepTickout, down>>
      BY <1>1, <2>4, <3>3 DEF PollSend, TypeOK
    <3>7. QED
      BY <1>1, <1>3, <1>4, <3>2, <3>5, <3>6 DEF ClockOf, Stamped
  <2>5. QED
    BY <2>1, <2>2, <2>3, <2>4 DEF PollThread
<1>7. QED
  BY <1>5, <1>6 DEF ClockInv

(* The check thread queues a heartbeat stamped with its sample, which      *)
(* becomes the horizon, and lets go of the sample after the comparison.    *)
LEMMA ClockCheck ==
  ASSUME TypeInv, TypeOK', ClockInv, NEW c \in Tasks, CheckThread(c)
  PROVE  ClockInv'
<1> USE DEF sharedVars, buffVars, pollVars, checkVars, netVars
<1>1. TypeOK /\ ClockOf(c) /\ now \in Nat /\ vecSendBuff[c] \in Seq(Message)
  BY ClockTypes DEF TypeInv, ClockInv
<1>2. UNCHANGED <<now, registerRepTickout, up, down>>
  BY DEF CheckThread, CheckSample, BeginRound, CheckAge, CompareAge, CheckVerdict,
         CheckStatus, CheckCallback
<1>3. ASSUME NEW d \in Tasks, d # c
      PROVE  ClockOf(d)'
  <2>1. UNCHANGED <<checkPc[d], curTickcount[d], vecSendBuff[d]>>
    <3>1. CASE CheckSample(c)
      <4>1. UNCHANGED <<checkPc[d], curTickcount[d]>>
        BY <1>1, <1>3, <3>1 DEF CheckSample, BeginRound, TypeOK
      <4>2. send(c, Register(now)) \/ UNCHANGED vecSendBuff
        BY <3>1 DEF CheckSample, BeginRound
      <4>3. UNCHANGED vecSendBuff[d]
        BY <1>1, <1>3, <4>2 DEF send, TypeOK
      <4>4. QED
        BY <4>1, <4>3
    <3>2. CASE CheckAge(c) \/ CheckVerdict(c) \/ CheckStatus(c) \/ CheckCallback(c)
      BY <1>1, <1>3, <3>2
      DEF CheckAge, CompareAge, CheckVerdict, CheckStatus, CheckCallback, TypeOK
    <3>3. QED
      BY <3>1, <3>2 DEF CheckThread
  <2>2. QED
    BY <1>2, <2>1, ClockUntouched DEF ClockInv
<1>4. ClockOf(c)'
  <2>1. CASE CheckSample(c)
    <3>1. checkPc[c] = "sample" /\ Horizon(c) = now
      BY <2>1 DEF CheckSample, BeginRound, Horizon
    <3>2. Horizon(c)' = now
      BY <1>1, <2>1 DEF CheckSample, BeginRound, Horizon, TypeOK
    <3>3. Register(now) \in Message /\ Register(now).ts = now
      BY <1>1 DEF Register, Message
    <3>4. vecSendBuff'[c] = Append(vecSendBuff[c], Register(now)) \/ UNCHANGED vecSendBuff[c]
      BY <1>1, <2>1 DEF CheckSample, BeginRound, send, TypeOK
    <3>5. Stamped(vecSendBuff'[c], now)
      BY <1>1, <3>1, <3>3, <3>4, StampedAppend DEF ClockOf
    <3>6. QED
      BY <1>1, <1>2, <3>1, <3>2, <3>5 DEF ClockOf, Stamped
  <2>2. CASE CheckAge(c) \/ CheckVerdict(c) \/ CheckStatus(c) \/ CheckCallback(c)
    <3>1. UNCHANGED vecSendBuff
      BY <2>2 DEF CheckAge, CompareAge, CheckVerdict, CheckStatus, CheckCallback
    <3>2. checkPc'[c] # "age"
      BY <1>1, <2>2
      DEF CheckAge, CompareAge, CheckVerdict, CheckStatus, CheckCallback, TypeOK
    <3>3. Horizon(c)' = now
      BY <1>2, <3>2 DEF Horizon
    <3>4. QED
      BY <1>1, <1>2, <3>1, <3>3, ClockMovesOn DEF ClockOf
  <2>3. QED
    BY <2>1, <2>2 DEF CheckThread
<1>5. QED
  BY <1>3, <1>4 DEF ClockInv

(* The service queues a message of its own. *)
LEMMA ClockAppSend ==
  ASSUME TypeInv, ClockInv, NEW c \in Tasks, NEW peer \in Tasks, AppSend(c, peer)
  PROVE  ClockInv'
<1>1. TypeOK /\ ClockOf(c) /\ Horizon(c) \in Nat /\ vecSendBuff[c] \in Seq(Message)
  BY ClockTypes DEF TypeInv, ClockInv
<1>2. UNCHANGED <<now, registerRepTickout, up, down, checkPc, curTickcount>>
  BY DEF AppSend, sharedVars, checkVars, netVars
<1>3. \A d \in Tasks : d # c => UNCHANGED vecSendBuff[d]
  BY <1>1 DEF AppSend, send, TypeOK
<1>4. vecSendBuff'[c] = Append(vecSendBuff[c], App(peer))
  BY <1>1 DEF AppSend, send, TypeOK
<1>5. Stamped(vecSendBuff'[c], Horizon(c))
  <2>1. App(peer) \in Message /\ App(peer).type # "register"
    BY DEF App, Message
  <2>2. QED
    BY <1>1, <1>4, <2>1, StampedAppend DEF ClockOf
<1>6. ClockOf(c)'
  BY <1>1, <1>2, <1>5 DEF ClockOf, Horizon, Stamped
<1>7. \A d \in Tasks : d # c => ClockOf(d)'
  BY <1>2, <1>3, ClockUntouched DEF ClockInv
<1>8. QED
  BY <1>6, <1>7 DEF ClockInv

(* The check thread of a service that is down is not in the middle of a    *)
(* round: the next life of the service begins with a new one.              *)
DeadIsIdle == \A c \in Tasks : ~alive[c] => checkPc[c] = "sample"

(* The check thread of a process that is not running holds no sample. *)
LEMMA StepDeadIsIdle == TypeOK /\ DeadIsIdle /\ [Next]_vars => DeadIsIdle'
<1> SUFFICES ASSUME TypeOK, DeadIsIdle, [Next]_vars
             PROVE  DeadIsIdle'
  OBVIOUS
<1> USE DEF TypeOK, DeadIsIdle, sharedVars, buffVars, pollVars, checkVars, netVars
<1>1. ASSUME NEW c \in Tasks, PollThread(c)
      PROVE  DeadIsIdle'
  BY <1>1 DEF PollThread, PollRegister, Answered, PollAge, PollFlag, PollOnline, PollOther, PollStatus, PollCallback, PollQuery,
              PollCopy, PollSend
<1>2. ASSUME NEW c \in Tasks, CheckThread(c)
      PROVE  DeadIsIdle'
  <2>1. alive[c] /\ UNCHANGED alive
    BY <1>2 DEF CheckThread, CheckSample, BeginRound, CheckAge, CompareAge, CheckVerdict,
                CheckStatus, CheckCallback
  <2>2. \A d \in Tasks : d # c => UNCHANGED checkPc[d]
    BY <1>2 DEF CheckThread, CheckSample, BeginRound, CheckAge, CompareAge, CheckVerdict,
                CheckStatus, CheckCallback
  <2>3. QED
    BY <2>1, <2>2
<1>3. ASSUME NEW c \in Tasks, Crash(c) \/ Restart(c)
      PROVE  DeadIsIdle'
  <2>1. CASE Crash(c)
    <3>1. /\ alive' = [alive EXCEPT ![c] = FALSE]
          /\ checkPc' = [checkPc EXCEPT ![c] = "sample"]
      BY <2>1 DEF Crash
    <3>2. QED
      BY <3>1
  <2>2. CASE Restart(c)
    <3>1. alive' = [alive EXCEPT ![c] = TRUE] /\ UNCHANGED checkPc
      BY <2>2 DEF Restart
    <3>2. QED
      BY <3>1
  <2>3. QED
    BY <1>3, <2>1, <2>2
<1>4. ASSUME NEW c \in Tasks, NEW peer \in Tasks,
             AppSend(c, peer) \/ BrokerTake(c) \/ Disconnect(c)
      PROVE  DeadIsIdle'
  <2>1. UNCHANGED <<alive, checkPc>>
    BY <1>4 DEF AppSend, BrokerTake, Disconnect
  <2>2. QED
    BY <2>1
<1>5. CASE Tick \/ UNCHANGED vars
  BY <1>5 DEF Tick, vars
<1>6. QED
  BY <1>1, <1>2, <1>3, <1>4, <1>5 DEF Next

(* Queues that are emptied or left as they are meet the bound, and so does *)
(* the time of the start that a restarted node takes for its last answer.  *)
LEMMA ClockProcess ==
  ASSUME TypeInv, TypeOK', ClockInv, DeadIsIdle, NEW c \in Tasks,
         Crash(c) \/ Restart(c) \/ Disconnect(c)
  PROVE  ClockInv'
<1> USE DEF sharedVars, buffVars, pollVars, checkVars, netVars
<1>1. TypeOK /\ ClockOf(c) /\ now \in Nat /\ registerRepTickout[c] \in Nat
      /\ Horizon(c) \in Nat
  BY ClockTypes DEF TypeInv, ClockInv
<1>2. ASSUME NEW d \in Tasks, d # c
      PROVE  ClockOf(d)'
  <2>1. UNCHANGED <<now, checkPc[d], curTickcount[d], registerRepTickout[d],
                    vecSendBuff[d], down[d]>>
    <3>1. CASE Crash(c)
      <4>1. /\ checkPc' = [checkPc EXCEPT ![c] = "sample"]
            /\ curTickcount' = [curTickcount EXCEPT ![c] = 0]
            /\ vecSendBuff' = [vecSendBuff EXCEPT ![c] = <<>>]
            /\ down' = [down EXCEPT ![c] = <<>>]
            /\ UNCHANGED <<now, registerRepTickout>>
        BY <3>1 DEF Crash
      <4>2. QED
        BY <1>1, <1>2, <4>1 DEF TypeOK
    <3>2. CASE Restart(c)
      BY <1>1, <1>2, <3>2 DEF Restart, TypeOK
    <3>3. CASE Disconnect(c)
      <4>1. /\ down' = [down EXCEPT ![c] = <<>>]
            /\ UNCHANGED <<now, registerRepTickout, vecSendBuff, checkPc, curTickcount>>
        BY <3>3 DEF Disconnect
      <4>2. QED
        BY <1>1, <1>2, <4>1 DEF TypeOK
    <3>4. QED
      BY <3>1, <3>2, <3>3
  <2>2. UNCHANGED up[d]
    <3>1. UNCHANGED up \/ \E rest \in {<<>>, up[c]} : up' = [up EXCEPT ![c] = rest]
      BY DEF Crash, Restart, Disconnect
    <3>2. QED
      BY <1>1, <1>2, <3>1 DEF TypeOK
  <2>3. QED
    BY <2>1, <2>2, ClockUntouched DEF ClockInv
<1>3. /\ vecSendBuff'[c] = <<>> \/ UNCHANGED vecSendBuff[c]
      /\ down'[c] = <<>> \/ UNCHANGED down[c]
      /\ registerRepTickout'[c] = now \/ UNCHANGED registerRepTickout[c]
      /\ UNCHANGED now
  BY <1>1 DEF Crash, Restart, Disconnect, TypeOK
<1>4. up'[c] = <<>> \/ UNCHANGED up[c]
  BY <1>1 DEF Crash, Restart, Disconnect, TypeOK
<1>5. CASE Crash(c)
  <2>1. Horizon(c)' = now /\ UNCHANGED registerRepTickout
    BY <1>1, <1>5 DEF Crash, Horizon, TypeOK
  <2>2. Horizon(c) <= now
    BY <1>1 DEF ClockOf
  <2>3. vecSendBuff[c] \in Seq(Message) /\ up[c] \in Seq(Message) /\ down[c] \in Seq(Message)
    BY <1>1, ClockTypes
  <2>4. /\ Stamped(vecSendBuff[c], now) /\ Stamped(up[c], now) /\ Stamped(down[c], now)
        /\ registerRepTickout[c] <= now
    BY <1>1, <2>2, <2>3, StampedWeaken DEF ClockOf
  <2>5. ClockOf(c)'
    BY <1>1, <1>3, <1>4, <2>1, <2>4 DEF ClockOf, Stamped
  <2>6. QED
    BY <1>2, <2>5 DEF ClockInv
<1>6. CASE Disconnect(c)
  <2>1. Horizon(c)' = Horizon(c) /\ UNCHANGED registerRepTickout
    BY <1>6 DEF Disconnect, Horizon
  <2>2. ClockOf(c)'
    BY <1>1, <1>3, <1>4, <2>1 DEF ClockOf, Stamped
  <2>3. QED
    BY <1>2, <2>2 DEF ClockInv
<1>7. CASE Restart(c)
  <2>1. registerRepTickout'[c] = now /\ UNCHANGED <<checkPc, curTickcount, vecSendBuff, up, down>>
    BY <1>1, <1>7 DEF Restart, TypeOK
  <2>2. checkPc[c] # "age" /\ Horizon(c)' = now
    BY <1>3, <1>7, <2>1 DEF Restart, DeadIsIdle, Horizon
  <2>3. Horizon(c) = now
    BY <2>2 DEF Horizon
  <2>4. ClockOf(c)'
    BY <1>1, <1>3, <2>1, <2>2, <2>3 DEF ClockOf, Stamped
  <2>5. QED
    BY <1>2, <2>4 DEF ClockInv
<1>8. QED
  BY <1>5, <1>6, <1>7

(* The broker sends back what it took, to the service it took it from, or  *)
(* a message that is no heartbeat to another.                              *)
LEMMA ClockBroker ==
  ASSUME TypeInv, ClockInv, NEW c \in Tasks, BrokerTake(c)
  PROVE  ClockInv'
<1>1. TypeOK /\ ClockOf(c) /\ Horizon(c) \in Nat /\ up[c] \in Seq(Message) /\ up[c] # <<>>
  BY ClockTypes DEF TypeInv, ClockInv, BrokerTake
<1>2. UNCHANGED <<now, registerRepTickout, vecSendBuff, checkPc, curTickcount>>
  BY DEF BrokerTake, sharedVars, buffVars, checkVars
<1>3. /\ Head(up[c]) \in Message
      /\ Head(up[c]).type = "register" => Head(up[c]).ts <= Horizon(c)
      /\ Stamped(Tail(up[c]), Horizon(c))
  BY <1>1, StampedTake DEF ClockOf
<1>4. up' = [up EXCEPT ![c] = Tail(@)]
  BY DEF BrokerTake
<1>5. ASSUME NEW d \in Tasks
      PROVE  Stamped(up'[d], Horizon(d))
  BY <1>1, <1>3, <1>4 DEF ClockInv, ClockOf, TypeOK
<1>6. ASSUME NEW d \in Tasks
      PROVE  Stamped(down'[d], Horizon(d))
  <2>1. down[d] \in Seq(Message) /\ Horizon(d) \in Nat /\ Stamped(down[d], Horizon(d))
    BY <1>1, ClockTypes DEF ClockInv, ClockOf
  <2>2. CASE Deliver(c, Head(up[c]))
    <3>1. down'[d] = down[d] \/ (d = c /\ down'[d] = Append(down[d], Head(up[c])))
      BY <1>1, <2>2 DEF Deliver, TypeOK
    <3>2. QED
      BY <1>3, <2>1, <3>1, StampedAppend
  <2>3. CASE Deliver(Head(up[c]).peer, App(c))
    <3>1. down'[d] = down[d] \/ down'[d] = Append(down[d], App(c))
      BY <1>1, <2>3 DEF Deliver, TypeOK
    <3>2. App(c) \in Message /\ App(c).type # "register"
      BY DEF App, Message
    <3>3. QED
      BY <2>1, <3>1, <3>2, StampedAppend
  <2>4. CASE UNCHANGED down
    BY <2>1, <2>4
  <2>5. QED
    BY <2>2, <2>3, <2>4 DEF BrokerTake
<1>7. QED
  BY <1>2, <1>5, <1>6 DEF ClockInv, ClockOf, Horizon, Stamped

(* Time moves the horizon of a service on, or leaves it where it is.       *)
LEMMA ClockTick ==
  ASSUME TypeInv, TypeOK', ClockInv, Tick
  PROVE  ClockInv'
<1> SUFFICES ASSUME NEW c \in Tasks
             PROVE  ClockOf(c)'
  BY DEF ClockInv
<1>1. TypeOK /\ ClockOf(c) /\ now \in Nat /\ Horizon(c) \in Nat
  BY ClockTypes DEF TypeInv, ClockInv
<1>2. /\ now' = now + 1
      /\ UNCHANGED <<registerRepTickout, vecSendBuff, up, down, checkPc, curTickcount>>
  BY DEF Tick, sharedVars, buffVars, checkVars, netVars
<1>3. Horizon(c) <= now
  BY <1>1 DEF ClockOf
<1>4. Horizon(c) <= Horizon(c)' /\ Horizon(c)' <= now'
  BY <1>1, <1>2, <1>3 DEF Horizon
<1>5. QED
  BY <1>1, <1>2, <1>4, ClockMovesOn

(* No heartbeat is later than the horizon of its service: at the start, *)
LEMMA InitClock == Init => ClockInv /\ DeadIsIdle
<1> SUFFICES ASSUME Init
             PROVE  ClockInv /\ DeadIsIdle
  OBVIOUS
<1>1. now \in Nat
  BY TaskAssumption DEF Init
<1>2. ASSUME NEW c \in Tasks
      PROVE  ClockOf(c)
  BY <1>1 DEF Init, ClockOf, Horizon, Stamped
<1>3. DeadIsIdle
  BY DEF Init, DeadIsIdle
<1>4. QED
  BY <1>2, <1>3 DEF ClockInv

(* after every step, *)
LEMMA StepClock == TypeInv /\ TypeOK' /\ ClockInv /\ DeadIsIdle /\ [Next]_vars => ClockInv'
<1> SUFFICES ASSUME TypeInv, TypeOK', ClockInv, DeadIsIdle, [Next]_vars
             PROVE  ClockInv'
  OBVIOUS
<1>1. CASE UNCHANGED vars
  BY <1>1 DEF ClockInv, ClockOf, Horizon, Stamped, vars, sharedVars, buffVars,
              checkVars, netVars
<1>2. QED
  BY <1>1, ClockPoll, ClockCheck, ClockAppSend, ClockProcess, ClockBroker, ClockTick
  DEF Next

(* and so always. *)
LEMMA ClockAlways == Spec => []ClockInv
<1>1. TypeInv /\ TypeOK' /\ ClockInv /\ DeadIsIdle /\ [Next]_vars => (ClockInv /\ DeadIsIdle)'
  BY StepClock, StepDeadIsIdle DEF TypeInv
<1>2. QED
  BY <1>1, InitClock, TaskTypeCorrect, PTL DEF Spec, TypeInv

(* The age the check thread computes from unsigned operands never wraps:   *)
(* the answer it subtracts is not later than its sample of the clock, even *)
(* when the poll thread stores one in between.                             *)
THEOREM AgeIsSafe == Spec => []AgeNeverWraps
<1>1. ClockInv => AgeNeverWraps
  BY DEF AgeNeverWraps, ClockInv, ClockOf, Horizon
<1>2. QED
  BY <1>1, ClockAlways, PTL

-----------------------------------------------------------------------------
(* The order of heartbeats.  A node stores the time of whatever answer it  *)
(* reads; that this time never goes back while the node is online is a     *)
(* property of the whole way.  The check thread stamps heartbeats in       *)
(* order, and the send buffer and both directions of the connection keep   *)
(* them so, though they lose some.  ClockInv gives the one fact about the  *)
(* clock this needs: that a new heartbeat is not earlier than those on the *)
(* way.                                                                    *)

(* The heartbeats of a queue are in the order of their times.              *)
Sorted(q) ==
  \A i, j \in 1 .. Len(q) :
    i < j /\ q[i].type = "register" /\ q[j].type = "register" => q[i].ts <= q[j].ts

(* The heartbeats of one queue are not later than those of another.        *)
Before(p, q) ==
  \A i \in 1 .. Len(p), j \in 1 .. Len(q) :
    p[i].type = "register" /\ q[j].type = "register" => p[i].ts <= q[j].ts

(* No heartbeat of a queue is earlier than t.                              *)
From(q, t) == \A i \in 1 .. Len(q) : q[i].type = "register" => t <= q[i].ts

(* The three queues a heartbeat passes through, the last one first.        *)
Chain(d, u, b) ==
  /\ Sorted(d) /\ Sorted(u) /\ Sorted(b)
  /\ Before(d, u) /\ Before(d, b) /\ Before(u, b)

Above(d, u, b, t) == From(d, t) /\ From(u, t) /\ From(b, t)

(* The poll thread has stored an answer and not decided yet what it means. *)
Judging(c) == pollPc[c] \in {"age", "flag", "online"}

(* What holds of a service: its heartbeats are in order on their whole way;*)
(* while it is online, or about to be, they are not older than the last    *)
(* answer; and a round that began with it online leaves it online only if  *)
(* this was recent.                                                        *)
OrderOf(c) ==
  /\ Chain(down[c], up[c], vecSendBuff[c])
  /\ online[c] \/ Judging(c)
       => Above(down[c], up[c], vecSendBuff[c], registerRepTickout[c])
  /\ curTickcount[c] <= now
  /\ watched[c] => online[c] /\ checkPc[c] \notin {"status", "callback"}
  /\ watched[c] /\ checkPc[c] = "sample" => curTickcount[c] < registerRepTickout[c] + Offline
  /\ ~alive[c] => ~online[c] /\ ~Judging(c)

OrderInv == \A c \in Tasks : OrderOf(c)

-----------------------------------------------------------------------------
(* Queues. *)

(* Taking the first message off a queue keeps all of this, and that        *)
(* message compares with the others as it did.                             *)
LEMMA TakeOrder ==
  ASSUME NEW q \in Seq(Message), q # <<>>
  PROVE  /\ Sorted(q) => Sorted(Tail(q))
         /\ Sorted(q) /\ Head(q).type = "register" => From(Tail(q), Head(q).ts)
         /\ \A r : Before(q, r) => Before(Tail(q), r)
         /\ \A r : Before(q, r) /\ Head(q).type = "register" => From(r, Head(q).ts)
         /\ \A p : Before(p, q) => Before(p, Tail(q))
         /\ \A p : Before(p, q) /\ Head(q).type = "register" => Stamped(p, Head(q).ts)
         /\ \A t : From(q, t) => From(Tail(q), t)
         /\ \A t : From(q, t) /\ Head(q).type = "register" => t <= Head(q).ts
<1>1. /\ Head(q) = q[1] /\ Tail(q) \in Seq(Message)
      /\ Len(Tail(q)) = Len(q) - 1 /\ \A i \in 1 .. Len(Tail(q)) : Tail(q)[i] = q[i + 1]
      /\ Len(q) \in Nat \ {0}
  BY HeadTailProperties, LenProperties, EmptySeq
<1> DEFINE w == Tail(q)
           n == Len(q)
<1>2. /\ Len(w) = n - 1 /\ n \in Nat \ {0} /\ Head(q) = q[1] /\ 1 \in 1 .. n
      /\ \A i \in 1 .. n - 1 : i + 1 \in 1 .. n /\ w[i] = q[i + 1]
  BY <1>1
<1> HIDE DEF w
<1>3. Sorted(q) => Sorted(w)
  BY <1>2 DEF Sorted
<1>4. Sorted(q) /\ Head(q).type = "register" => From(w, Head(q).ts)
  <2> SUFFICES ASSUME Sorted(q), Head(q).type = "register", NEW i \in 1 .. n - 1,
                      w[i].type = "register"
               PROVE  Head(q).ts <= w[i].ts
    BY <1>2 DEF From
  <2>1. 1 < i + 1 /\ i + 1 \in 1 .. n /\ w[i] = q[i + 1]
    BY <1>2
  <2>2. QED
    BY <1>2, <2>1 DEF Sorted
<1>5. \A r : Before(q, r) => Before(w, r)
  BY <1>2 DEF Before
<1>6. \A r : Before(q, r) /\ Head(q).type = "register" => From(r, Head(q).ts)
  BY <1>2 DEF Before, From
<1>7. \A p : Before(p, q) => Before(p, w)
  BY <1>2 DEF Before
<1>8. \A p : Before(p, q) /\ Head(q).type = "register" => Stamped(p, Head(q).ts)
  BY <1>2 DEF Before, Stamped
<1>9. \A t : From(q, t) => From(w, t)
  BY <1>2 DEF From
<1>10. \A t : From(q, t) /\ Head(q).type = "register" => t <= Head(q).ts
  BY <1>2 DEF From
<1>11. QED
  BY <1>3, <1>4, <1>5, <1>6, <1>7, <1>8, <1>9, <1>10 DEF w

(* So does adding a message that is no heartbeat, or one that compares     *)
(* with the others as the property wants.                                  *)
LEMMA AppendOrder ==
  ASSUME NEW q \in Seq(Message), NEW m \in Message
  PROVE  /\ Sorted(q) /\ (m.type = "register" => Stamped(q, m.ts)) => Sorted(Append(q, m))
         /\ \A r : Before(q, r) /\ (m.type = "register" => From(r, m.ts))
                     => Before(Append(q, m), r)
         /\ \A p : Before(p, q) /\ (m.type = "register" => Stamped(p, m.ts))
                     => Before(p, Append(q, m))
         /\ \A t : From(q, t) /\ (m.type = "register" => t <= m.ts) => From(Append(q, m), t)
<1> DEFINE w == Append(q, m)
           n == Len(q)
<1>1. /\ n \in Nat /\ Len(w) = n + 1 /\ w[n + 1] = m
      /\ \A i \in 1 .. n : w[i] = q[i]
  BY AppendProperties, LenProperties
<1>2. \A i \in 1 .. Len(w) : i = n + 1 \/ (i \in 1 .. n /\ i # n + 1)
  BY <1>1
<1> HIDE DEF w, n
<1>3. ASSUME Sorted(q), m.type = "register" => Stamped(q, m.ts)
      PROVE  Sorted(w)
  <2> SUFFICES ASSUME NEW i \in 1 .. Len(w), NEW j \in 1 .. Len(w), i < j,
                      w[i].type = "register", w[j].type = "register"
               PROVE  w[i].ts <= w[j].ts
    BY DEF Sorted
  <2>1. i \in 1 .. n /\ w[i] = q[i]
    BY <1>1, <1>2
  <2>2. CASE j = n + 1
    BY <1>1, <1>3, <2>1, <2>2 DEF Stamped, n
  <2>3. CASE j \in 1 .. n
    BY <1>1, <1>3, <2>1, <2>3 DEF Sorted, n
  <2>4. QED
    BY <1>2, <2>2, <2>3
<1>4. ASSUME NEW r, Before(q, r), m.type = "register" => From(r, m.ts)
      PROVE  Before(w, r)
  BY <1>1, <1>2, <1>4 DEF Before, From, n
<1>5. ASSUME NEW p, Before(p, q), m.type = "register" => Stamped(p, m.ts)
      PROVE  Before(p, w)
  BY <1>1, <1>2, <1>5 DEF Before, Stamped, n
<1>6. ASSUME NEW t, From(q, t), m.type = "register" => t <= m.ts
      PROVE  From(w, t)
  BY <1>1, <1>2, <1>6 DEF From, n
<1>7. QED
  BY <1>3, <1>4, <1>5, <1>6 DEF w

(* An empty queue has all of it. *)
LEMMA EmptyOrder ==
  /\ Sorted(<<>>)
  /\ \A q : Before(<<>>, q) /\ Before(q, <<>>)
  /\ \A t : From(<<>>, t)
  BY DEF Sorted, Before, From

-----------------------------------------------------------------------------
(* The way of a heartbeat. *)

(* The node reads an answer: nothing left on the way is older. *)
LEMMA ChainRead ==
  ASSUME NEW d \in Seq(Message), NEW u, NEW b, d # <<>>, Chain(d, u, b)
  PROVE  /\ Chain(Tail(d), u, b)
         /\ Head(d).type = "register" => Above(Tail(d), u, b, Head(d).ts)
         /\ \A t : Above(d, u, b, t) =>
              /\ Above(Tail(d), u, b, t)
              /\ Head(d).type = "register" => t <= Head(d).ts
<1>1. Sorted(d) /\ Before(d, u) /\ Before(d, b)
  BY DEF Chain
<1>2. /\ Sorted(Tail(d)) /\ Before(Tail(d), u) /\ Before(Tail(d), b)
      /\ Head(d).type = "register" =>
           From(Tail(d), Head(d).ts) /\ From(u, Head(d).ts) /\ From(b, Head(d).ts)
  BY <1>1, TakeOrder
<1>3. \A t : From(d, t) => From(Tail(d), t) /\ (Head(d).type = "register" => t <= Head(d).ts)
  BY TakeOrder
<1>4. QED
  BY <1>2, <1>3 DEF Chain, Above

(* The node writes its first message, or what it takes for that.           *)
LEMMA ChainWrite ==
  ASSUME NEW d, NEW u \in Seq(Message), NEW b \in Seq(Message), b # <<>>, Chain(d, u, b),
         NEW m \in Message, m.type = "register" => m = Head(b)
  PROVE  /\ Chain(d, Append(u, m), Tail(b))
         /\ \A t : Above(d, u, b, t) => Above(d, Append(u, m), Tail(b), t)
<1>1. Sorted(b) /\ Sorted(u) /\ Before(d, b) /\ Before(u, b) /\ Before(d, u) /\ Sorted(d)
  BY DEF Chain
<1>2. /\ Sorted(Tail(b)) /\ Before(d, Tail(b)) /\ Before(u, Tail(b))
      /\ m.type = "register" =>
           Stamped(u, m.ts) /\ Stamped(d, m.ts) /\ From(Tail(b), m.ts)
  BY <1>1, TakeOrder
<1>3. Sorted(Append(u, m)) /\ Before(d, Append(u, m)) /\ Before(Append(u, m), Tail(b))
  BY <1>1, <1>2, AppendOrder
<1>4. ASSUME NEW t, Above(d, u, b, t)
      PROVE  Above(d, Append(u, m), Tail(b), t)
  <2>1. From(Tail(b), t) /\ (m.type = "register" => t <= m.ts)
    BY <1>4, TakeOrder DEF Above
  <2>2. From(Append(u, m), t)
    BY <1>4, <2>1, AppendOrder DEF Above
  <2>3. QED
    BY <1>4, <2>1, <2>2 DEF Above
<1>5. QED
  BY <1>1, <1>2, <1>3, <1>4 DEF Chain

(* The broker takes a message, and sends it back or not. *)
LEMMA ChainTake ==
  ASSUME NEW d \in Seq(Message), NEW u \in Seq(Message), NEW b, u # <<>>, Chain(d, u, b)
  PROVE  /\ Chain(d, Tail(u), b) /\ Chain(Append(d, Head(u)), Tail(u), b)
         /\ \A t : Above(d, u, b, t) =>
              Above(d, Tail(u), b, t) /\ Above(Append(d, Head(u)), Tail(u), b, t)
<1>1. Sorted(d) /\ Sorted(u) /\ Sorted(b) /\ Before(d, u) /\ Before(u, b) /\ Before(d, b)
  BY DEF Chain
<1>2. Head(u) \in Message
  BY HeadTailProperties
<1>3. /\ Sorted(Tail(u)) /\ Before(d, Tail(u)) /\ Before(Tail(u), b)
      /\ Head(u).type = "register" =>
           Stamped(d, Head(u).ts) /\ From(Tail(u), Head(u).ts) /\ From(b, Head(u).ts)
  BY <1>1, TakeOrder
<1>4. /\ Sorted(Append(d, Head(u))) /\ Before(Append(d, Head(u)), Tail(u))
      /\ Before(Append(d, Head(u)), b)
  BY <1>1, <1>2, <1>3, AppendOrder
<1>5. ASSUME NEW t, Above(d, u, b, t)
      PROVE  Above(d, Tail(u), b, t) /\ Above(Append(d, Head(u)), Tail(u), b, t)
  <2>1. From(Tail(u), t) /\ (Head(u).type = "register" => t <= Head(u).ts)
    BY <1>5, TakeOrder DEF Above
  <2>2. From(Append(d, Head(u)), t)
    BY <1>2, <1>5, <2>1, AppendOrder DEF Above
  <2>3. QED
    BY <1>5, <2>1, <2>2 DEF Above
<1>6. QED
  BY <1>1, <1>3, <1>4, <1>5 DEF Chain

(* A message of another service comes down. *)
LEMMA ChainOther ==
  ASSUME NEW d \in Seq(Message), NEW u, NEW b, Chain(d, u, b),
         NEW m \in Message, m.type # "register"
  PROVE  /\ Chain(Append(d, m), u, b)
         /\ \A t : Above(d, u, b, t) => Above(Append(d, m), u, b, t)
<1>1. Sorted(Append(d, m)) /\ Before(Append(d, m), u) /\ Before(Append(d, m), b)
  BY AppendOrder DEF Chain
<1>2. \A t : From(d, t) => From(Append(d, m), t)
  BY AppendOrder
<1>3. QED
  BY <1>1, <1>2 DEF Chain, Above

(* A message is queued: a heartbeat is not earlier than any on the way.    *)
LEMMA ChainSend ==
  ASSUME NEW d, NEW u, NEW b \in Seq(Message), Chain(d, u, b), NEW m \in Message,
         m.type = "register" => Stamped(d, m.ts) /\ Stamped(u, m.ts) /\ Stamped(b, m.ts)
  PROVE  /\ Chain(d, u, Append(b, m))
         /\ \A t : Above(d, u, b, t) /\ (m.type = "register" => t <= m.ts)
                     => Above(d, u, Append(b, m), t)
<1>1. Sorted(Append(b, m)) /\ Before(d, Append(b, m)) /\ Before(u, Append(b, m))
  BY AppendOrder DEF Chain
<1>2. \A t : From(b, t) /\ (m.type = "register" => t <= m.ts) => From(Append(b, m), t)
  BY AppendOrder
<1>3. QED
  BY <1>1, <1>2 DEF Chain, Above

(* Queues are lost. *)
LEMMA ChainLoss ==
  ASSUME NEW d, NEW u, NEW b, Chain(d, u, b)
  PROVE  /\ Chain(<<>>, u, b) /\ Chain(<<>>, <<>>, b)
         /\ Chain(<<>>, u, <<>>) /\ Chain(<<>>, <<>>, <<>>)
         /\ \A t : Above(d, u, b, t) => Above(<<>>, u, b, t) /\ Above(<<>>, <<>>, b, t)
  BY EmptyOrder DEF Chain, Above

-----------------------------------------------------------------------------
(* Steps. *)

LEMMA OrderTypes ==
  ASSUME TypeOK, NEW c \in Tasks
  PROVE  /\ now \in Nat /\ registerRepTickout[c] \in Nat /\ curTickcount[c] \in Nat
         /\ vecSendBuff[c] \in Seq(Message) /\ up[c] \in Seq(Message)
         /\ down[c] \in Seq(Message) /\ Offline \in Nat
  BY TaskAssumption DEF TypeOK

(* A step that leaves c alone. *)
LEMMA OrderUntouched ==
  ASSUME TypeOK, TypeOK', NEW c \in Tasks, OrderOf(c), now' \in {now, now + 1},
         UNCHANGED <<down[c], up[c], vecSendBuff[c], online[c], registerRepTickout[c],
                     curTickcount[c], checkPc[c], alive[c], pollPc[c], watched[c]>>
  PROVE  OrderOf(c)'
<1>1. curTickcount[c] <= now'
  BY OrderTypes DEF OrderOf
<1>2. /\ Chain(down'[c], up'[c], vecSendBuff'[c])
      /\ online'[c] \/ Judging(c)'
           => Above(down'[c], up'[c], vecSendBuff'[c], registerRepTickout'[c])
  BY DEF OrderOf, Judging
<1>3. QED
  BY <1>1, <1>2 DEF OrderOf, Judging, Chain, Above, Sorted, Before, From

(* The steps of a service touch nothing of the others. *)
LEMMA OwnStep ==
  ASSUME TypeOK, NEW c \in Tasks, NEW d \in Tasks, d # c,
         \/ PollThread(c) \/ CheckThread(c) \/ (\E peer \in Tasks : AppSend(c, peer))
         \/ Crash(c) \/ Restart(c) \/ Disconnect(c)
  PROVE  /\ UNCHANGED <<down[d], up[d], vecSendBuff[d], online[d], registerRepTickout[d],
                        curTickcount[d], checkPc[d], alive[d], pollPc[d], watched[d]>>
         /\ now' = now
<1> USE DEF sharedVars, buffVars, pollVars, checkVars, netVars
<1>1. CASE PollThread(c)
  <2>1. CASE PollRegister(c) \/ PollOther(c)
    BY <2>1 DEF PollRegister, Answered, PollOther, Receive, TypeOK
  <2>2. CASE \/ PollAge(c) \/ PollFlag(c) \/ PollOnline(c)
             \/ PollStatus(c) \/ PollCallback(c) \/ PollCopy(c)
    BY <2>2 DEF PollAge, PollFlag, PollOnline, PollStatus, PollCallback, PollCopy, TypeOK
  <2>3. CASE PollQuery(c)
    BY <2>3 DEF PollQuery, send, TypeOK
  <2>4. CASE PollSend(c)
    BY <2>4 DEF PollSend, TypeOK
  <2>5. QED
    BY <1>1, <2>1, <2>2, <2>3, <2>4 DEF PollThread
<1>2. CASE CheckThread(c)
  <2>1. CASE CheckSample(c)
    <3>1. /\ curTickcount' = [curTickcount EXCEPT ![c] = now]
          /\ checkPc' = [checkPc EXCEPT ![c] = "age"]
          /\ watched' = [watched EXCEPT ![c] = online[c]]
          /\ UNCHANGED <<now, alive, online, registerRepTickout, up, down>>
          /\ send(c, Register(now)) \/ UNCHANGED vecSendBuff
      BY <2>1 DEF CheckSample, BeginRound
    <3>2. UNCHANGED vecSendBuff[d]
      BY <3>1 DEF send, TypeOK
    <3>3. UNCHANGED pollPc[d]
      BY <2>1 DEF CheckSample, BeginRound, TypeOK
    <3>4. QED
      BY <3>1, <3>2, <3>3 DEF TypeOK
  <2>2. CASE CheckAge(c) \/ CheckVerdict(c) \/ CheckStatus(c) \/ CheckCallback(c)
    BY <2>2 DEF CheckAge, CompareAge, CheckVerdict, CheckStatus, CheckCallback, TypeOK
  <2>3. QED
    BY <1>2, <2>1, <2>2 DEF CheckThread
<1>3. CASE \E peer \in Tasks : AppSend(c, peer)
  BY <1>3 DEF AppSend, send, TypeOK
<1>4. CASE Crash(c)
  <2>1. /\ alive' = [alive EXCEPT ![c] = FALSE] /\ online' = [online EXCEPT ![c] = FALSE]
        /\ watched' = [watched EXCEPT ![c] = FALSE]
        /\ pollPc' = [pollPc EXCEPT ![c] = "poll"]
        /\ checkPc' = [checkPc EXCEPT ![c] = "sample"]
        /\ curTickcount' = [curTickcount EXCEPT ![c] = 0]
        /\ vecSendBuff' = [vecSendBuff EXCEPT ![c] = <<>>]
        /\ down' = [down EXCEPT ![c] = <<>>]
        /\ UNCHANGED <<now, registerRepTickout>>
        /\ \E rest \in {<<>>, up[c]} : up' = [up EXCEPT ![c] = rest]
    BY <1>4 DEF Crash
  <2>2. QED
    BY <2>1 DEF TypeOK
<1>5. CASE Restart(c)
  BY <1>5 DEF Restart, TypeOK
<1>6. CASE Disconnect(c)
  <2>1. /\ down' = [down EXCEPT ![c] = <<>>]
        /\ \E rest \in {<<>>, up[c]} : up' = [up EXCEPT ![c] = rest]
        /\ UNCHANGED <<now, registerRepTickout, vecSendBuff, checkPc, curTickcount, alive, online,
                       pollPc, watched>>
    BY <1>6 DEF Disconnect
  <2>2. QED
    BY <2>1 DEF TypeOK
<1>7. QED
  BY <1>1, <1>2, <1>3, <1>4, <1>5, <1>6

(* The poll thread stores an answer: it is not older than the last one,    *)
(* and nothing that is left is older than it, which is still so when it    *)
(* comes to set online.                                                    *)
LEMMA OrderPoll ==
  ASSUME TypeInv, TypeOK', ClockInv, NEW c \in Tasks, OrderOf(c), PollThread(c)
  PROVE  OrderOf(c)' /\ (online[c] /\ online'[c] => registerRepTickout'[c] >= registerRepTickout[c])
<1> USE DEF sharedVars, buffVars, pollVars, checkVars, netVars
<1> DEFINE d == down[c]
           u == up[c]
           b == vecSendBuff[c]
<1>1. /\ TypeOK /\ CopiedIsThere /\ ClockOf(c) /\ Horizon(c) \in Nat /\ now \in Nat
      /\ d \in Seq(Message) /\ u \in Seq(Message) /\ b \in Seq(Message)
      /\ registerRepTickout[c] \in Nat /\ curTickcount[c] \in Nat /\ Offline \in Nat
  BY ClockTypes, OrderTypes DEF TypeInv, ClockInv
<1>2. /\ UNCHANGED <<now, alive, checkPc, curTickcount>> /\ alive[c]
  BY DEF PollThread, PollRegister, Answered, PollAge, PollFlag, PollOnline, PollOther,
         PollStatus, PollCallback, PollQuery, PollCopy, PollSend, Receive
<1>3. /\ Chain(d, u, b)
      /\ online[c] \/ Judging(c) => Above(d, u, b, registerRepTickout[c])
  BY DEF OrderOf
<1>4. CASE PollRegister(c)
  <2>1. /\ d # <<>> /\ down'[c] = Tail(d) /\ UNCHANGED <<up, vecSendBuff, online, watched>>
        /\ Head(d).type = "register" /\ registerRepTickout'[c] = Head(d).ts
    BY <1>1, <1>4 DEF PollRegister, Answered, Receive, TypeOK
  <2>2. Head(d) \in Message /\ Head(d).ts <= Horizon(c)
    BY <1>1, <2>1, StampedTake DEF ClockOf
  <2>3. Head(d).ts \in Nat
    BY <1>1, <2>1, <2>2, MessageFields
  <2> HIDE DEF d, u, b
  <2>4. /\ Chain(Tail(d), u, b) /\ Above(Tail(d), u, b, Head(d).ts)
        /\ online[c] => registerRepTickout[c] <= Head(d).ts
    BY <1>1, <1>3, <2>1, ChainRead
  <2>5. watched[c] => online[c] /\ checkPc[c] \notin {"status", "callback"}
    BY DEF OrderOf
  <2>6. watched[c] /\ checkPc[c] = "sample" => curTickcount[c] < Head(d).ts + Offline
    BY <1>1, <2>3, <2>4 DEF OrderOf
  <2>7. Chain(down'[c], up'[c], vecSendBuff'[c])
        /\ Above(down'[c], up'[c], vecSendBuff'[c], registerRepTickout'[c])
    BY <2>1, <2>4 DEF u, b
  <2>8. OrderOf(c)'
    BY <1>1, <1>2, <2>1, <2>5, <2>6, <2>7
    DEF OrderOf, Chain, Above, Sorted, Before, From
  <2>9. QED
    BY <1>1, <2>1, <2>3, <2>4, <2>8
<1>5. ASSUME UNCHANGED registerRepTickout, NEW x, NEW y, NEW z,
             down'[c] = x, up'[c] = y, vecSendBuff'[c] = z, Chain(x, y, z),
             \A t : Above(d, u, b, t) => Above(x, y, z, t),
             online'[c] \/ Judging(c)' => online[c] \/ Judging(c),
             ~watched'[c] \/ UNCHANGED <<watched[c], online[c]>>
      PROVE  OrderOf(c)' /\ registerRepTickout'[c] >= registerRepTickout[c]
  <2>1. /\ Chain(down'[c], up'[c], vecSendBuff'[c])
        /\ online'[c] \/ Judging(c)'
             => Above(down'[c], up'[c], vecSendBuff'[c], registerRepTickout'[c])
    BY <1>3, <1>5
  <2>2. /\ watched'[c] => online'[c] /\ checkPc'[c] \notin {"status", "callback"}
        /\ watched'[c] /\ checkPc'[c] = "sample"
             => curTickcount'[c] < registerRepTickout'[c] + Offline
    BY <1>2, <1>5 DEF OrderOf
  <2>3. curTickcount'[c] <= now' /\ alive'[c]
    BY <1>2 DEF OrderOf
  <2>4. OrderOf(c)'
    BY <2>1, <2>2, <2>3 DEF OrderOf, Chain, Above, Sorted, Before, From
  <2>5. QED
    BY <1>1, <1>5, <2>4
<1>6. CASE PollOther(c)
  <2>1. /\ d # <<>> /\ down'[c] = Tail(d) /\ up'[c] = u /\ vecSendBuff'[c] = b
        /\ UNCHANGED <<online, registerRepTickout, watched, pollPc>>
    BY <1>1, <1>6 DEF PollOther, Receive, TypeOK
  <2> HIDE DEF d, u, b
  <2>2. Chain(Tail(d), u, b) /\ \A t : Above(d, u, b, t) => Above(Tail(d), u, b, t)
    BY <1>1, <1>3, <2>1, ChainRead
  <2>3. Judging(c)' <=> Judging(c)
    BY <2>1 DEF Judging
  <2>4. QED
    BY <1>5, <2>1, <2>2, <2>3
<1>7. CASE PollAge(c) \/ PollFlag(c) \/ PollOnline(c) \/ PollStatus(c) \/ PollCallback(c) \/ PollCopy(c)
  <2>1. /\ down'[c] = d /\ up'[c] = u /\ vecSendBuff'[c] = b
        /\ UNCHANGED registerRepTickout
    BY <1>7 DEF PollAge, PollFlag, PollOnline, PollStatus, PollCallback, PollCopy
  <2>2. online'[c] \/ Judging(c)' => online[c] \/ Judging(c)
    BY <1>1, <1>7 DEF PollAge, PollFlag, PollOnline, PollStatus, PollCallback, PollCopy, Judging, TypeOK
  <2>3. ~watched'[c] \/ UNCHANGED <<watched[c], online[c]>>
    BY <1>1, <1>7 DEF PollAge, PollFlag, PollOnline, PollStatus, PollCallback, PollCopy, TypeOK
  <2>4. QED
    BY <1>3, <1>5, <2>1, <2>2, <2>3
<1>8. CASE PollQuery(c)
  <2>1. /\ down'[c] = d /\ up'[c] = u /\ UNCHANGED <<online, registerRepTickout, watched>>
        /\ vecSendBuff'[c] = b \/ vecSendBuff'[c] = Append(b, Query)
    BY <1>1, <1>8 DEF PollQuery, send, TypeOK
  <2>2. Query \in Message /\ Query.type # "register"
    BY DEF Query, Message
  <2>3. ~Judging(c)'
    BY <1>1, <1>8 DEF PollQuery, Judging, TypeOK
  <2> HIDE DEF d, u, b
  <2>4. Chain(d, u, Append(b, Query)) /\ \A t : Above(d, u, b, t) => Above(d, u, Append(b, Query), t)
    BY <1>1, <1>3, <2>2, ChainSend
  <2>5. QED
    BY <1>3, <1>5, <2>1, <2>3, <2>4
<1>9. CASE PollSend(c)
  <2>1. b # <<>>
    BY <1>1, <1>9 DEF PollSend, CopiedIsThere
  <2>2. PICK m : /\ m \in {Head(b)} \cup {Garbled}
                 /\ up' = [up EXCEPT ![c] = Append(@, m)]
    BY <1>9 DEF PollSend
  <2>3. m \in Message /\ (m.type = "register" => m = Head(b))
    BY <1>1, <2>1, <2>2 DEF Garbled, Message
  <2>4. /\ down'[c] = d /\ up'[c] = Append(u, m) /\ vecSendBuff'[c] = Tail(b)
        /\ UNCHANGED <<online, registerRepTickout, watched>>
    BY <1>1, <1>9, <2>2 DEF PollSend, TypeOK
  <2>5. ~Judging(c)'
    BY <1>1, <1>9 DEF PollSend, Judging, TypeOK
  <2> HIDE DEF d, u, b
  <2>6. /\ Chain(d, Append(u, m), Tail(b))
        /\ \A t : Above(d, u, b, t) => Above(d, Append(u, m), Tail(b), t)
    BY <1>1, <1>3, <2>1, <2>3, ChainWrite
  <2>7. QED
    BY <1>5, <2>4, <2>5, <2>6
<1>10. QED
  BY <1>4, <1>6, <1>7, <1>8, <1>9 DEF PollThread

(* The check thread stamps a heartbeat with the time, which nothing on the *)
(* way is later than, and lets an old answer pass only to take the service *)
(* offline.                                                                *)
LEMMA OrderCheck ==
  ASSUME TypeInv, TypeOK', ClockInv, NEW c \in Tasks, OrderOf(c), CheckThread(c)
  PROVE  OrderOf(c)' /\ UNCHANGED registerRepTickout
<1> USE DEF sharedVars, buffVars, pollVars, checkVars, netVars
<1> DEFINE d == down[c]
           u == up[c]
           b == vecSendBuff[c]
<1>1. /\ TypeOK /\ ClockOf(c) /\ now \in Nat
      /\ d \in Seq(Message) /\ u \in Seq(Message) /\ b \in Seq(Message)
      /\ registerRepTickout[c] \in Nat /\ curTickcount[c] \in Nat /\ Offline \in Nat
  BY OrderTypes DEF TypeInv, ClockInv
<1>2. /\ UNCHANGED <<now, alive, registerRepTickout, up, down>> /\ alive[c]
  BY DEF CheckThread, CheckSample, BeginRound, CheckAge, CompareAge, CheckVerdict,
         CheckStatus, CheckCallback
<1>3. /\ Chain(d, u, b)
      /\ online[c] \/ Judging(c) => Above(d, u, b, registerRepTickout[c])
  BY DEF OrderOf
<1>4. CASE CheckSample(c)
  <2>1. checkPc[c] = "sample" /\ Horizon(c) = now
    BY <1>4 DEF CheckSample, BeginRound, Horizon
  <2>2. /\ checkPc'[c] = "age" /\ curTickcount'[c] = now /\ UNCHANGED online
        /\ watched'[c] = online[c]
    BY <1>1, <1>4 DEF CheckSample, BeginRound, TypeOK
  <2>3. vecSendBuff'[c] = b \/ vecSendBuff'[c] = Append(b, Register(now))
    BY <1>1, <1>4 DEF CheckSample, BeginRound, send, TypeOK
  <2>4. Judging(c)' <=> Judging(c)
    <3>1. pollPc'[c] = pollPc[c] \/ (pollPc[c] = "copy" /\ pollPc'[c] = "torn")
      BY <1>1, <1>4 DEF CheckSample, BeginRound, Tears, TypeOK
    <3>2. QED
      BY <3>1 DEF Judging
  <2>5. Register(now) \in Message /\ Register(now).ts = now
    BY <1>1 DEF Register, Message
  <2>6. /\ Stamped(d, now) /\ Stamped(u, now) /\ Stamped(b, now)
        /\ registerRepTickout[c] <= now
    BY <1>1, <2>1 DEF ClockOf
  <2> HIDE DEF d, u, b
  <2>7. /\ Chain(d, u, Append(b, Register(now)))
        /\ Above(d, u, b, registerRepTickout[c])
             => Above(d, u, Append(b, Register(now)), registerRepTickout[c])
    BY <1>1, <1>3, <2>5, <2>6, ChainSend
  <2>8. /\ Chain(down'[c], up'[c], vecSendBuff'[c])
        /\ online'[c] \/ Judging(c)'
             => Above(down'[c], up'[c], vecSendBuff'[c], registerRepTickout'[c])
    BY <1>2, <1>3, <2>2, <2>3, <2>4, <2>7 DEF d, u
  <2>9. QED
    BY <1>1, <1>2, <2>2, <2>8 DEF OrderOf, Chain, Above, Sorted, Before, From
<1>5. CASE CheckAge(c) \/ CheckVerdict(c) \/ CheckStatus(c) \/ CheckCallback(c)
  <2>1. UNCHANGED <<vecSendBuff, curTickcount, pollPc>> /\ (online'[c] => online[c])
    BY <1>1, <1>5 DEF CheckAge, CompareAge, CheckVerdict, CheckStatus, CheckCallback, TypeOK
  <2>2. /\ Chain(down'[c], up'[c], vecSendBuff'[c])
        /\ online'[c] \/ Judging(c)'
             => Above(down'[c], up'[c], vecSendBuff'[c], registerRepTickout'[c])
    BY <1>2, <1>3, <2>1 DEF Judging
  <2>3. /\ watched'[c] => online'[c] /\ checkPc'[c] \notin {"status", "callback"}
        /\ watched'[c] /\ checkPc'[c] = "sample"
             => curTickcount'[c] < registerRepTickout'[c] + Offline
    <3>1. CASE CheckAge(c)
      <4>1. /\ UNCHANGED <<watched, online>>
            /\ \/ checkPc'[c] = "verdict"
               \/ /\ checkPc'[c] = "sample"
                  /\ ~(Minus(curTickcount[c], registerRepTickout[c]) >= Offline)
        BY <1>1, <3>1 DEF CheckAge, CompareAge, TypeOK
      <4>2. registerRepTickout[c] <= curTickcount[c]
        BY <1>1, <3>1 DEF CheckAge, CompareAge, ClockOf, Horizon
      <4>3. QED
        BY <1>1, <1>2, <2>1, <4>1, <4>2 DEF Minus, OrderOf
    <3>2. CASE CheckVerdict(c)
      BY <1>1, <3>2 DEF CheckVerdict, TypeOK
    <3>3. CASE CheckStatus(c) \/ CheckCallback(c)
      BY <1>1, <3>3 DEF CheckStatus, CheckCallback, OrderOf, TypeOK
    <3>4. QED
      BY <1>5, <3>1, <3>2, <3>3
  <2>4. QED
    BY <1>1, <1>2, <2>1, <2>2, <2>3 DEF OrderOf, Chain, Above, Sorted, Before, From
<1>6. QED
  BY <1>2, <1>4, <1>5 DEF CheckThread

(* The service queues a message of its own. *)
LEMMA OrderAppSend ==
  ASSUME TypeInv, NEW c \in Tasks, NEW peer \in Tasks, OrderOf(c), AppSend(c, peer)
  PROVE  OrderOf(c)' /\ UNCHANGED registerRepTickout
<1>1. /\ TypeOK /\ down[c] \in Seq(Message) /\ up[c] \in Seq(Message)
      /\ vecSendBuff[c] \in Seq(Message)
  BY OrderTypes DEF TypeInv
<1>2. /\ UNCHANGED <<now, alive, online, registerRepTickout, watched, up, down, checkPc,
                     curTickcount>>
      /\ vecSendBuff'[c] = Append(vecSendBuff[c], App(peer))
  BY <1>1 DEF AppSend, send, sharedVars, checkVars, netVars, TypeOK
<1>3. Judging(c)' <=> Judging(c)
  <2>1. pollPc'[c] = pollPc[c] \/ (pollPc[c] = "copy" /\ pollPc'[c] = "torn")
    BY <1>1 DEF AppSend, Tears, TypeOK
  <2>2. QED
    BY <2>1 DEF Judging
<1>4. App(peer) \in Message /\ App(peer).type # "register"
  BY DEF App, Message
<1>5. /\ Chain(down[c], up[c], Append(vecSendBuff[c], App(peer)))
      /\ \A t : Above(down[c], up[c], vecSendBuff[c], t)
           => Above(down[c], up[c], Append(vecSendBuff[c], App(peer)), t)
  BY <1>1, <1>4, ChainSend DEF OrderOf
<1>6. /\ Chain(down'[c], up'[c], vecSendBuff'[c])
      /\ online'[c] \/ Judging(c)'
           => Above(down'[c], up'[c], vecSendBuff'[c], registerRepTickout'[c])
  BY <1>2, <1>5, <1>3 DEF OrderOf
<1>7. /\ curTickcount'[c] <= now'
      /\ watched'[c] => online'[c] /\ checkPc'[c] \notin {"status", "callback"}
      /\ watched'[c] /\ checkPc'[c] = "sample"
           => curTickcount'[c] < registerRepTickout'[c] + Offline
      /\ ~alive'[c] => ~online'[c] /\ ~Judging(c)'
  BY <1>2, <1>3 DEF OrderOf
<1>8. QED
  BY <1>2, <1>6, <1>7 DEF OrderOf, Chain, Above, Sorted, Before, From

(* What a crash or a broken connection leaves on the way was in order, and *)
(* a service is started again offline.                                     *)
LEMMA OrderProcess ==
  ASSUME TypeInv, TypeOK', NEW c \in Tasks, OrderOf(c), Crash(c) \/ Restart(c) \/ Disconnect(c)
  PROVE  OrderOf(c)' /\ (online[c] => UNCHANGED registerRepTickout)
<1> USE DEF sharedVars, buffVars, pollVars, checkVars, netVars
<1>1. /\ TypeOK /\ now \in Nat /\ curTickcount[c] \in Nat
  BY OrderTypes DEF TypeInv
<1>2. Chain(down[c], up[c], vecSendBuff[c])
  BY DEF OrderOf
<1>3. CASE Crash(c)
  <2>1. /\ down'[c] = <<>> /\ vecSendBuff'[c] = <<>> /\ ~online'[c]
        /\ curTickcount'[c] = 0 /\ UNCHANGED <<now, registerRepTickout>>
        /\ ~watched'[c] /\ ~Judging(c)'
    BY <1>1, <1>3 DEF Crash, Judging, TypeOK
  <2>2. up'[c] = <<>> \/ up'[c] = up[c]
    BY <1>1, <1>3 DEF Crash, TypeOK
  <2>3. Chain(down'[c], up'[c], vecSendBuff'[c])
    BY <1>2, <2>1, <2>2, ChainLoss
  <2>4. QED
    BY <1>1, <2>1, <2>3 DEF OrderOf, Chain, Above, Sorted, Before, From
<1>4. CASE Restart(c)
  <2>1. /\ ~online[c] /\ ~Judging(c)' /\ ~watched[c]
        /\ UNCHANGED <<now, online, watched, curTickcount, vecSendBuff, up, down>>
    BY <1>4 DEF Restart, OrderOf, Judging
  <2>2. QED
    BY <1>2, <2>1 DEF OrderOf, Chain, Above, Sorted, Before, From
<1>5. CASE Disconnect(c)
  <2>1. /\ down'[c] = <<>>
        /\ UNCHANGED <<now, alive, online, registerRepTickout, watched, vecSendBuff, checkPc,
                       curTickcount, pollPc>>
    BY <1>1, <1>5 DEF Disconnect, TypeOK
  <2>2. up'[c] = <<>> \/ up'[c] = up[c]
    BY <1>1, <1>5 DEF Disconnect, TypeOK
  <2>3. /\ Chain(down'[c], up'[c], vecSendBuff'[c])
        /\ online'[c] \/ Judging(c)'
             => Above(down'[c], up'[c], vecSendBuff'[c], registerRepTickout'[c])
    <3>1. Chain(<<>>, up[c], vecSendBuff[c]) /\ Chain(<<>>, <<>>, vecSendBuff[c])
          /\ \A t : Above(down[c], up[c], vecSendBuff[c], t) =>
                Above(<<>>, up[c], vecSendBuff[c], t) /\ Above(<<>>, <<>>, vecSendBuff[c], t)
      BY <1>2, ChainLoss
    <3>2. QED
      BY <2>1, <2>2, <3>1 DEF OrderOf, Judging
  <2>4. QED
    BY <2>1, <2>3 DEF OrderOf, Judging, Chain, Above, Sorted, Before, From
<1>6. QED
  BY <1>3, <1>4, <1>5

(* The broker passes on a message of e, to e or to another. *)
LEMMA OrderBroker ==
  ASSUME TypeInv, NEW e \in Tasks, NEW c \in Tasks, OrderOf(c), BrokerTake(e)
  PROVE  OrderOf(c)' /\ UNCHANGED registerRepTickout
<1>1. /\ TypeOK /\ down[c] \in Seq(Message) /\ up[c] \in Seq(Message)
      /\ up[e] \in Seq(Message) /\ up[e] # <<>>
  BY OrderTypes DEF TypeInv, BrokerTake
<1>2. UNCHANGED <<now, alive, online, registerRepTickout, watched, vecSendBuff, checkPc,
                  curTickcount, pollPc>>
  BY DEF BrokerTake, sharedVars, buffVars, pollVars, checkVars
<1>3. up'[c] = IF c = e THEN Tail(up[c]) ELSE up[c]
  BY <1>1 DEF BrokerTake, TypeOK
<1>4. App(e) \in Message /\ App(e).type # "register"
  BY DEF App, Message
<1> DEFINE d == down[c]
           u == up[c]
           b == vecSendBuff[c]
<1>5. \/ down'[c] = d
      \/ down'[c] = Append(d, App(e))
      \/ c = e /\ down'[c] = Append(d, Head(u))
  <2>1. CASE Deliver(e, Head(up[e]))
    BY <1>1, <2>1 DEF Deliver, TypeOK
  <2>2. CASE Deliver(Head(up[e]).peer, App(e))
    BY <1>1, <2>2 DEF Deliver, TypeOK
  <2>3. CASE UNCHANGED down
    BY <2>3
  <2>4. QED
    BY <2>1, <2>2, <2>3 DEF BrokerTake
<1>6. /\ Chain(d, u, b)
      /\ online[c] \/ Judging(c) => Above(d, u, b, registerRepTickout[c])
  BY DEF OrderOf
<1> HIDE DEF d, b
<1>7. /\ Chain(d, up'[c], b)
      /\ \A t : Above(d, u, b, t) => Above(d, up'[c], b, t)
  BY <1>1, <1>3, <1>6, ChainTake DEF d
<1> HIDE DEF u
<1>8. /\ Chain(down'[c], up'[c], b)
      /\ \A t : Above(d, u, b, t) => Above(down'[c], up'[c], b, t)
  <2>1. CASE down'[c] = d
    BY <1>7, <2>1
  <2>2. CASE down'[c] = Append(d, App(e))
    <3>1. /\ Chain(Append(d, App(e)), up'[c], b)
          /\ \A t : Above(d, up'[c], b, t) => Above(Append(d, App(e)), up'[c], b, t)
      BY <1>1, <1>4, <1>7, ChainOther DEF d
    <3>2. QED
      BY <1>7, <2>2, <3>1
  <2>3. CASE c = e /\ down'[c] = Append(d, Head(u))
    <3>1. u # <<>> /\ up'[c] = Tail(u) /\ d \in Seq(Message) /\ u \in Seq(Message)
      BY <1>1, <1>3, <2>3 DEF d, u
    <3>2. QED
      BY <1>6, <2>3, <3>1, ChainTake
  <2>4. QED
    BY <1>5, <2>1, <2>2, <2>3
<1>9. /\ Chain(down'[c], up'[c], vecSendBuff'[c])
      /\ online'[c] \/ Judging(c)'
           => Above(down'[c], up'[c], vecSendBuff'[c], registerRepTickout'[c])
  BY <1>2, <1>6, <1>8 DEF b, Judging
<1>10. QED
  BY <1>2, <1>9 DEF OrderOf, Judging, Chain, Above, Sorted, Before, From

(* All steps together. *)
LEMMA OrderStep ==
  ASSUME TypeInv, TypeOK', ClockInv, OrderInv, [Next]_vars
  PROVE  OrderInv' /\ \A c \in Tasks : online[c] /\ online'[c]
                         => registerRepTickout'[c] >= registerRepTickout[c]
<1>1. TypeOK /\ \A c \in Tasks : registerRepTickout[c] \in Nat
  BY DEF TypeInv, TypeOK
<1> SUFFICES ASSUME NEW c \in Tasks
             PROVE  OrderOf(c)' /\ (online[c] /\ online'[c]
                         => registerRepTickout'[c] >= registerRepTickout[c])
  BY DEF OrderInv
<1>2. OrderOf(c)
  BY DEF OrderInv
<1>3. ASSUME NEW e \in Tasks,
             \/ PollThread(e) \/ CheckThread(e) \/ (\E peer \in Tasks : AppSend(e, peer))
             \/ Crash(e) \/ Restart(e) \/ Disconnect(e)
      PROVE  OrderOf(c)' /\ (online[c] /\ online'[c]
                         => registerRepTickout'[c] >= registerRepTickout[c])
  <2>1. CASE c = e
    BY <1>1, <1>2, <1>3, <2>1, OrderPoll, OrderCheck, OrderAppSend, OrderProcess
  <2>2. CASE c # e
    <3>1. /\ UNCHANGED <<down[c], up[c], vecSendBuff[c], online[c], registerRepTickout[c],
                         curTickcount[c], checkPc[c], alive[c], pollPc[c], watched[c]>>
          /\ now' = now
      BY <1>1, <1>3, <2>2, OwnStep
    <3>2. QED
      BY <1>1, <1>2, <3>1, OrderUntouched
  <2>3. QED
    BY <2>1, <2>2
<1>4. ASSUME NEW e \in Tasks, BrokerTake(e)
      PROVE  OrderOf(c)' /\ registerRepTickout'[c] >= registerRepTickout[c]
  BY <1>1, <1>2, <1>4, OrderBroker
<1>5. CASE Tick \/ UNCHANGED vars
  <2>1. /\ UNCHANGED <<down, up, vecSendBuff, online, registerRepTickout, curTickcount,
                       checkPc, alive, pollPc, watched>>
        /\ now' \in {now, now + 1}
    BY <1>5 DEF Tick, vars, sharedVars, buffVars, pollVars, checkVars, netVars
  <2>2. QED
    BY <1>1, <1>2, <2>1, OrderUntouched
<1>6. QED
  BY <1>3, <1>4, <1>5 DEF Next

(* It holds at the start, *)
LEMMA InitOrder == Init => OrderInv
<1> SUFFICES ASSUME Init, NEW c \in Tasks
             PROVE  OrderOf(c)
  BY DEF OrderInv
<1>1. /\ down[c] = <<>> /\ up[c] = <<>> /\ vecSendBuff[c] = <<>> /\ ~online[c]
      /\ curTickcount[c] = 0 /\ now \in Nat /\ ~watched[c] /\ ~Judging(c)
  BY TaskAssumption DEF Init, Judging
<1>2. Chain(<<>>, <<>>, <<>>)
  BY EmptyOrder DEF Chain
<1>3. QED
  BY <1>1, <1>2 DEF OrderOf

(* and so always. *)
LEMMA OrderAlways == Spec => [](TypeInv /\ ClockInv /\ OrderInv)
<1>1. TypeInv /\ TypeOK' /\ ClockInv /\ OrderInv /\ [Next]_vars => OrderInv'
  BY OrderStep
<1>2. QED
  BY <1>1, InitOrder, TaskTypeCorrect, ClockAlways, PTL DEF Spec, TypeInv

(* While a node is online the time of its last answer does not go back,    *)
(* however many answers are delayed or lost, and whatever crashes: the     *)
(* poll thread stores the time of every answer it reads.                   *)
THEOREM AnswersInOrder == Spec => AnswersNeverOlder
<1>1. TypeInv /\ TypeOK' /\ ClockInv /\ OrderInv /\ [Next]_vars
        => [\A c \in Tasks : online[c] /\ online'[c]
              => registerRepTickout'[c] >= registerRepTickout[c]]_vars
  BY OrderStep
<1>2. QED
  BY <1>1, OrderAlways, TaskTypeCorrect, PTL DEF Spec, AnswersNeverOlder

(* Once a whole round of the check thread has passed with a node online,   *)
(* its last answer is younger than the timeout by the clock of that round, *)
(* whatever the poll thread stores meanwhile: a node that went online on   *)
(* an answer grown old in the meantime is taken offline again.             *)
THEOREM OnlineByAnswer == Spec => []WatchedIsRecent
<1>1. OrderInv => WatchedIsRecent
  BY DEF OrderInv, OrderOf, WatchedIsRecent
<1>2. QED
  BY <1>1, OrderAlways, PTL

=============================================================================
