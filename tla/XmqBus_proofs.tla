--------------------------- MODULE XmqBus_proofs ---------------------------
(***************************************************************************)
(* Proofs about the message bus, for any number of services, links between *)
(* them, periods, queue lengths and crashes of services and of the broker. *)
(*                                                                         *)
(* A step of the bus is a step of the tasks for the broker DataTask leaves *)
(* abstract, or a crash of the broker, which DataTask does not know.  So   *)
(* what was proved of the tasks step by step holds on the bus too, once a  *)
(* crash of the broker is shown to keep it; and a bus whose broker does    *)
(* not crash implements the tasks.                                         *)
(*                                                                         *)
(* It implements the registry as well, which takes for granted that the    *)
(* heartbeats of a service are never too far apart.  Here that has to be   *)
(* proved, and "Heartbeats in time" does: TimelyInv and TokenInv say that  *)
(* a heartbeat is handled in the tick it is sent in, or lost; PaceInv that *)
(* one is queued every period; GapInv how many in a row may be lost.       *)
(***************************************************************************)
EXTENDS XmqBus, DataTask_proofs, FiniteSetTheorems

(* What the poll and the check thread, the queues and the clock keep.      *)
TasksInv == TypeInv /\ ClockInv /\ DeadIsIdle /\ OrderInv

(* The broker of xmq_host_server takes messages as the abstract one may.   *)
LEMMA ConsumeTakes ==
  ASSUME NEW c \in Tasks, Consume(c)
  PROVE  BrokerTake(c)
<1> DEFINE m == Head(up[c])
<1>1. /\ up[c] # <<>> /\ up' = [up EXCEPT ![c] = Tail(@)]
      /\ UNCHANGED <<now, alive, sharedVars, buffVars, pollVars, checkVars, crashes>>
      /\ ConsumeRegister(c, m) \/ ConsumeQuery(c, m) \/ ConsumeApp(c, m) \/ ConsumeGarbled(m)
  BY DEF Consume
<1>2. \/ m # Garbled /\ m.type # "app" /\ Deliver(c, m)
      \/ m.type = "app" /\ Deliver(m.peer, App(c))
      \/ UNCHANGED down
  <2>1. CASE ConsumeRegister(c, m) \/ ConsumeQuery(c, m)
    <3>1. m.type \in {"register", "query"} /\ Deliver(c, m)
      BY <2>1 DEF ConsumeRegister, ConsumeQuery
    <3>2. Garbled.type = "garbled"
      BY DEF Garbled
    <3>3. QED
      BY <3>1, <3>2
  <2>2. CASE ConsumeApp(c, m)
    BY <2>2 DEF ConsumeApp
  <2>3. CASE ConsumeGarbled(m)
    BY <2>3 DEF ConsumeGarbled
  <2>4. QED
    BY <1>1, <2>1, <2>2, <2>3
<1>3. QED
  BY <1>1, <1>2 DEF BrokerTake

(* The scan of the registry and a restart of the broker leave the services *)
(* and the connections alone.                                              *)
LEMMA BrokerSteps ==
  ASSUME BrokerScan \/ BrokerRestart
  PROVE  UNCHANGED vars /\ UNCHANGED asked
  BY DEF BrokerScan, BrokerRestart, taskVars

LEMMA BusStepIsTaskStep ==
  ASSUME [BusNext]_busVars
  PROVE  [Next]_vars \/ BrokerCrash
<1>1. CASE \E c \in Tasks : ServicePoll(c) \/ ServiceCheck(c)
  BY <1>1 DEF ServicePoll, ServiceCheck, Next
<1>2. CASE \E c, peer \in Tasks : Ask(c, peer)
  BY <1>2 DEF Ask, Next
<1>3. CASE \E c \in Tasks : ServiceCrash(c) \/ ServiceRestart(c)
  BY <1>3 DEF ServiceCrash, ServiceRestart, Next
<1>4. CASE \E c \in Tasks : Consume(c)
  BY <1>4, ConsumeTakes DEF Next
<1>5. CASE BrokerScan \/ BrokerRestart
  BY <1>5, BrokerSteps
<1>6. CASE BusTick
  BY <1>6 DEF BusTick, Next
<1>7. CASE UNCHANGED busVars
  BY <1>7 DEF busVars
<1>8. QED
  BY <1>1, <1>2, <1>3, <1>4, <1>5, <1>6, <1>7 DEF BusNext

(* A crash of the broker empties the way down and leaves the way up as it  *)
(* is or empties it; the services notice nothing yet.                      *)
LEMMA CrashLoses ==
  ASSUME TypeOK, BrokerCrash, NEW c \in Tasks
  PROVE  /\ UNCHANGED <<now, alive, sharedVars, buffVars, pollVars, checkVars, asked>>
         /\ down'[c] = <<>>
         /\ up'[c] = <<>> \/ up'[c] = up[c]
  BY DEF BrokerCrash

LEMMA CrashKeepsTasks ==
  ASSUME TasksInv, BrokerCrash
  PROVE  TasksInv'
<1> USE DEF sharedVars, buffVars, pollVars, checkVars
<1>1. TypeOK /\ CopiedIsThere /\ ClockInv /\ DeadIsIdle /\ OrderInv
  BY DEF TasksInv, TypeInv
<1>2. UNCHANGED <<now, alive, sharedVars, buffVars, pollVars, checkVars>>
  BY DEF BrokerCrash
<1>3. /\ down' \in [Tasks -> Seq(Message)] /\ up' \in [Tasks -> Seq(Message)]
      /\ crashes' \in 0 .. MaxCrash
  <2>1. down' = [c \in Tasks |-> <<>>] /\ crashes < MaxCrash /\ crashes' = crashes + 1
    BY DEF BrokerCrash
  <2>2. \E lost \in SUBSET Tasks : up' = [c \in Tasks |-> IF c \in lost THEN <<>> ELSE up[c]]
    BY DEF BrokerCrash
  <2>3. <<>> \in Seq(Message) /\ up \in [Tasks -> Seq(Message)] /\ crashes \in 0 .. MaxCrash
    BY <1>1 DEF TypeOK
  <2>4. MaxCrash \in Nat
    BY TaskAssumption
  <2>5. QED
    BY <2>1, <2>2, <2>3, <2>4
<1>4. TypeInv'
  <2>1. TypeOK'
    BY <1>1, <1>2, <1>3 DEF TypeOK
  <2>2. CopiedIsThere'
    BY <1>1, <1>2 DEF CopiedIsThere
  <2>3. QED
    BY <2>1, <2>2 DEF TypeInv
<1>5. ClockInv'
  <2> SUFFICES ASSUME NEW c \in Tasks
               PROVE  ClockOf(c)'
    BY DEF ClockInv
  <2>1. ClockOf(c) /\ down'[c] = <<>> /\ (up'[c] = <<>> \/ up'[c] = up[c])
    BY <1>1, CrashLoses DEF ClockInv
  <2>2. Horizon(c)' = Horizon(c)
    BY <1>2 DEF Horizon
  <2>3. Stamped(up'[c], Horizon(c)) /\ Stamped(down'[c], Horizon(c))
    BY <2>1, StampedEmpty DEF ClockOf
  <2>4. QED
    BY <1>2, <2>1, <2>2, <2>3 DEF ClockOf, Stamped
<1>6. OrderInv'
  <2> SUFFICES ASSUME NEW c \in Tasks
               PROVE  OrderOf(c)'
    BY DEF OrderInv
  <2>1. OrderOf(c) /\ down'[c] = <<>> /\ (up'[c] = <<>> \/ up'[c] = up[c])
    BY <1>1, CrashLoses DEF OrderInv
  <2>2. /\ Chain(<<>>, up[c], vecSendBuff[c]) /\ Chain(<<>>, <<>>, vecSendBuff[c])
        /\ \A t : Above(down[c], up[c], vecSendBuff[c], t) =>
              Above(<<>>, up[c], vecSendBuff[c], t) /\ Above(<<>>, <<>>, vecSendBuff[c], t)
    BY <2>1, ChainLoss DEF OrderOf
  <2>3. /\ Chain(down'[c], up'[c], vecSendBuff'[c])
        /\ online'[c] \/ Judging(c)'
             => Above(down'[c], up'[c], vecSendBuff'[c], registerRepTickout'[c])
    BY <1>2, <2>1, <2>2 DEF OrderOf, Judging
  <2>4. QED
    BY <1>2, <2>1, <2>3 DEF OrderOf, Judging, Chain, Above, Sorted, Before, From
<1>7. DeadIsIdle'
  BY <1>1, <1>2 DEF DeadIsIdle
<1>8. QED
  BY <1>4, <1>5, <1>6, <1>7 DEF TasksInv

(* Every step of the bus keeps it. *)
LEMMA BusKeepsTasks ==
  ASSUME TasksInv, [BusNext]_busVars
  PROVE  TasksInv'
<1>1. TypeInv /\ TypeOK /\ ClockInv /\ DeadIsIdle /\ OrderInv
  BY DEF TasksInv, TypeInv
<1>2. CASE [Next]_vars
  <2>1. TypeOK' /\ CopiedIsThere'
    BY <1>1, <1>2, StepTypeOK, StepCopied
  <2>2. ClockInv' /\ DeadIsIdle' /\ OrderInv'
    BY <1>1, <1>2, <2>1, StepClock, StepDeadIsIdle, OrderStep
  <2>3. QED
    BY <2>1, <2>2 DEF TasksInv, TypeInv
<1>3. QED
  BY <1>2, BusStepIsTaskStep, CrashKeepsTasks

LEMMA InitTasks == BusInit => TasksInv
<1>1. Init => TypeOK /\ CopiedIsThere
  <2>1. Init => CopiedIsThere
    BY DEF Init, CopiedIsThere
  <2>2. QED
    BY <2>1, InitTypeOK
<1>2. QED
  BY <1>1, InitClock, InitOrder DEF BusInit, TasksInv, TypeInv

-----------------------------------------------------------------------------
(* Who sent what. *)

(* The messages of services in a queue name a service of the set S. *)
PeersIn(q, S) == \A i \in 1 .. Len(q) : q[i].type = "app" => q[i].peer \in S

(* The services c has sent messages to, and those that have sent to it.    *)
AskedBy(c) == {d \in Tasks : <<c, d>> \in asked}
AskersOf(c) == {d \in Tasks : <<d, c>> \in asked}

(* Going up a message names its destination, coming down its source: both  *)
(* are known from the messages that were sent.                             *)
SourceOf(c) ==
  /\ PeersIn(vecSendBuff[c], AskedBy(c))
  /\ PeersIn(up[c], AskedBy(c))
  /\ PeersIn(down[c], AskersOf(c))

SourceInv == \A c \in Tasks : SourceOf(c)

LEMMA PeersTake ==
  ASSUME NEW q \in Seq(Message), q # <<>>, NEW S, PeersIn(q, S)
  PROVE  /\ PeersIn(Tail(q), S)
         /\ Head(q).type = "app" => Head(q).peer \in S
<1>1. /\ Head(q) = q[1] /\ Len(Tail(q)) = Len(q) - 1 /\ Len(q) \in Nat \ {0}
      /\ \A i \in 1 .. Len(Tail(q)) : Tail(q)[i] = q[i + 1]
  BY HeadTailProperties, LenProperties, EmptySeq
<1>2. \A i \in 1 .. Len(Tail(q)) : i + 1 \in 1 .. Len(q)
  BY <1>1
<1>3. 1 \in 1 .. Len(q)
  BY <1>1
<1>4. QED
  BY <1>1, <1>2, <1>3 DEF PeersIn

LEMMA PeersAppend ==
  ASSUME NEW q \in Seq(Message), NEW m \in Message, NEW S, PeersIn(q, S),
         m.type = "app" => m.peer \in S
  PROVE  PeersIn(Append(q, m), S)
<1>1. /\ Len(q) \in Nat /\ Len(Append(q, m)) = Len(q) + 1 /\ Append(q, m)[Len(q) + 1] = m
      /\ \A i \in 1 .. Len(q) : Append(q, m)[i] = q[i]
  BY AppendProperties, LenProperties
<1>2. \A i \in 1 .. Len(Append(q, m)) : i = Len(q) + 1 \/ i \in 1 .. Len(q)
  BY <1>1
<1>3. QED
  BY <1>1, <1>2 DEF PeersIn

LEMMA PeersMore ==
  ASSUME NEW q, NEW S, NEW T, S \subseteq T, PeersIn(q, S)
  PROVE  PeersIn(q, T)
  BY DEF PeersIn

LEMMA PeersNone == \A S : PeersIn(<<>>, S)
  BY DEF PeersIn

(* A service that has sent to another is never taken for one that has not. *)
LEMMA AskedGrows ==
  ASSUME [BusNext]_busVars, NEW c \in Tasks
  PROVE  AskedBy(c) \subseteq AskedBy(c)' /\ AskersOf(c) \subseteq AskersOf(c)'
<1>1. asked \subseteq asked'
  BY DEF BusNext, busVars, ServicePoll, ServiceCheck, Ask, ServiceCrash, ServiceRestart,
         Consume, BrokerScan, BrokerCrash, BrokerRestart, BusTick
<1>2. QED
  BY <1>1 DEF AskedBy, AskersOf

(* The steps of a service other than c. *)
LEMMA SourceUntouched ==
  ASSUME NEW c \in Tasks, SourceOf(c), [BusNext]_busVars,
         UNCHANGED <<vecSendBuff[c], up[c], down[c]>>
  PROVE  SourceOf(c)'
<1>1. /\ PeersIn(vecSendBuff[c], AskedBy(c)') /\ PeersIn(up[c], AskedBy(c)')
      /\ PeersIn(down[c], AskersOf(c)')
  BY AskedGrows, PeersMore DEF SourceOf
<1>2. QED
  BY <1>1 DEF SourceOf, PeersIn

(* The service reads a message or writes one. *)
LEMMA SourcePoll ==
  ASSUME TypeInv, NEW c \in Tasks, SourceOf(c), [BusNext]_busVars, PollThread(c)
  PROVE  SourceOf(c)'
<1> DEFINE d == down[c]
           u == up[c]
           b == vecSendBuff[c]
<1>1. /\ TypeOK /\ CopiedIsThere
      /\ d \in Seq(Message) /\ u \in Seq(Message) /\ b \in Seq(Message)
  BY OrderTypes DEF TypeInv
<1>2. PeersIn(b, AskedBy(c)) /\ PeersIn(u, AskedBy(c)) /\ PeersIn(d, AskersOf(c))
  BY DEF SourceOf
<1>3. SUFFICES /\ PeersIn(vecSendBuff'[c], AskedBy(c)) /\ PeersIn(up'[c], AskedBy(c))
               /\ PeersIn(down'[c], AskersOf(c))
  <2>1. ASSUME PeersIn(vecSendBuff'[c], AskedBy(c)), PeersIn(up'[c], AskedBy(c)),
               PeersIn(down'[c], AskersOf(c))
        PROVE  /\ PeersIn(vecSendBuff'[c], AskedBy(c)') /\ PeersIn(up'[c], AskedBy(c)')
               /\ PeersIn(down'[c], AskersOf(c)')
    BY <2>1, AskedGrows, PeersMore
  <2>2. QED
    BY <2>1 DEF SourceOf, PeersIn
<1> USE DEF sharedVars, buffVars, pollVars, checkVars, netVars
<1>4. CASE PollRegister(c) \/ PollOther(c)
  <2>1. d # <<>> /\ down'[c] = Tail(d) /\ UNCHANGED <<vecSendBuff, up>>
    BY <1>1, <1>4 DEF PollRegister, Answered, PollOther, Receive, TypeOK
  <2>2. PeersIn(Tail(d), AskersOf(c))
    BY <1>1, <1>2, <2>1, PeersTake
  <2>3. QED
    BY <1>2, <2>1, <2>2
<1>5. CASE \/ PollAge(c) \/ PollFlag(c) \/ PollOnline(c)
           \/ PollStatus(c) \/ PollCallback(c) \/ PollCopy(c)
  BY <1>2, <1>5 DEF PollAge, PollFlag, PollOnline, PollStatus, PollCallback, PollCopy
<1>6. CASE PollQuery(c)
  <2>1. /\ UNCHANGED <<up, down>>
        /\ vecSendBuff'[c] = b \/ vecSendBuff'[c] = Append(b, Query)
    BY <1>1, <1>6 DEF PollQuery, send, TypeOK
  <2>2. Query \in Message /\ Query.type # "app"
    BY DEF Query, Message
  <2>3. PeersIn(Append(b, Query), AskedBy(c))
    BY <1>1, <1>2, <2>2, PeersAppend
  <2>4. QED
    BY <1>2, <2>1, <2>3
<1>7. CASE PollSend(c)
  <2>1. b # <<>>
    BY <1>1, <1>7 DEF PollSend, CopiedIsThere
  <2>2. PICK m \in {Head(b)} \cup {Garbled} : up' = [up EXCEPT ![c] = Append(@, m)]
    BY <1>7 DEF PollSend
  <2>3. /\ Head(b) \in Message /\ PeersIn(Tail(b), AskedBy(c))
        /\ Head(b).type = "app" => Head(b).peer \in AskedBy(c)
    BY <1>1, <1>2, <2>1, PeersTake, HeadTailProperties
  <2>4. m \in Message /\ (m.type = "app" => m.peer \in AskedBy(c))
    BY <2>3 DEF Garbled, Message
  <2>5. down'[c] = d /\ up'[c] = Append(u, m) /\ vecSendBuff'[c] = Tail(b)
    BY <1>1, <1>7, <2>2 DEF PollSend, TypeOK
  <2>6. PeersIn(Append(u, m), AskedBy(c))
    BY <1>1, <1>2, <2>4, PeersAppend
  <2>7. QED
    BY <1>2, <2>3, <2>5, <2>6
<1>8. QED
  BY <1>4, <1>5, <1>6, <1>7 DEF PollThread

(* The check thread queues heartbeats, the service messages it has asked   *)
(* for; a crash empties queues, and a restart leaves them so.              *)
LEMMA SourceOwn ==
  ASSUME TypeInv, NEW c \in Tasks, SourceOf(c), [BusNext]_busVars,
         \/ ServiceCheck(c) \/ ServiceCrash(c) \/ ServiceRestart(c)
         \/ (\E peer \in Tasks : Ask(c, peer))
  PROVE  SourceOf(c)'
<1> USE DEF sharedVars, buffVars, pollVars, checkVars, netVars
<1>1. /\ TypeOK /\ down[c] \in Seq(Message) /\ up[c] \in Seq(Message)
      /\ vecSendBuff[c] \in Seq(Message) /\ now \in Nat
  BY OrderTypes DEF TypeInv
<1>2. /\ AskedBy(c) \subseteq AskedBy(c)' /\ AskersOf(c) \subseteq AskersOf(c)'
  BY AskedGrows
<1>3. /\ PeersIn(vecSendBuff[c], AskedBy(c)') /\ PeersIn(up[c], AskedBy(c)')
      /\ PeersIn(down[c], AskersOf(c)')
  BY <1>2, PeersMore DEF SourceOf
<1>4. SUFFICES /\ PeersIn(vecSendBuff'[c], AskedBy(c)') /\ PeersIn(up'[c], AskedBy(c)')
               /\ PeersIn(down'[c], AskersOf(c)')
  BY DEF SourceOf, PeersIn
<1>5. CASE ServiceCheck(c)
  <2>1. UNCHANGED <<up, down>>
    BY <1>5 DEF ServiceCheck, CheckThread, CheckSample, BeginRound, CheckAge, CompareAge,
                CheckVerdict, CheckStatus, CheckCallback
  <2>2. \/ UNCHANGED vecSendBuff
        \/ vecSendBuff'[c] = Append(vecSendBuff[c], Register(now))
    <3>1. CASE CheckSample(c)
      BY <1>1, <3>1 DEF CheckSample, BeginRound, send, TypeOK
    <3>2. CASE CheckAge(c) \/ CheckVerdict(c) \/ CheckStatus(c) \/ CheckCallback(c)
      BY <3>2 DEF CheckAge, CompareAge, CheckVerdict, CheckStatus, CheckCallback
    <3>3. QED
      BY <1>5, <3>1, <3>2 DEF ServiceCheck, CheckThread
  <2>3. Register(now) \in Message /\ Register(now).type # "app"
    BY <1>1 DEF Register, Message
  <2>4. PeersIn(Append(vecSendBuff[c], Register(now)), AskedBy(c)')
    BY <1>1, <1>3, <2>3, PeersAppend
  <2>5. QED
    BY <1>3, <2>1, <2>2, <2>4
<1>6. CASE ServiceCrash(c)
  <2>1. /\ vecSendBuff' = [vecSendBuff EXCEPT ![c] = <<>>]
        /\ down' = [down EXCEPT ![c] = <<>>]
        /\ \E rest \in {<<>>, up[c]} : up' = [up EXCEPT ![c] = rest]
    BY <1>6 DEF ServiceCrash, Crash
  <2>2. vecSendBuff'[c] = <<>> /\ down'[c] = <<>> /\ up'[c] \in {<<>>, up[c]}
    BY <1>1, <2>1 DEF TypeOK
  <2>3. QED
    BY <1>3, <2>2, PeersNone
<1>7. CASE \E peer \in Tasks : Ask(c, peer)
  <2>1. PICK peer \in Tasks : Ask(c, peer)
    BY <1>7
  <2>2. /\ UNCHANGED <<up, down>>
        /\ vecSendBuff'[c] = Append(vecSendBuff[c], App(peer))
    BY <1>1, <2>1 DEF Ask, AppSend, send, TypeOK
  <2>3. peer \in AskedBy(c)'
    BY <2>1 DEF Ask, AskedBy
  <2>4. App(peer) \in Message /\ App(peer).peer = peer
    BY DEF App, Message
  <2>5. PeersIn(Append(vecSendBuff[c], App(peer)), AskedBy(c)')
    BY <1>1, <1>3, <2>3, <2>4, PeersAppend
  <2>6. QED
    BY <1>3, <2>2, <2>5
<1>8. CASE ServiceRestart(c)
  BY <1>3, <1>8 DEF ServiceRestart, Restart
<1>9. QED
  BY <1>5, <1>6, <1>7, <1>8

(* The consumer takes a message of e: what it sends to another service is  *)
(* a message e has sent to it, with the name of e.                         *)
LEMMA SourceConsume ==
  ASSUME TypeInv, SourceInv, NEW e \in Tasks, Consume(e), NEW c \in Tasks
  PROVE  SourceOf(c)'
<1> DEFINE m == Head(up[e])
<1>1. /\ TypeOK /\ down[c] \in Seq(Message) /\ up[c] \in Seq(Message)
      /\ up[e] \in Seq(Message) /\ up[e] # <<>> /\ SourceOf(c) /\ SourceOf(e)
  BY OrderTypes DEF TypeInv, Consume, SourceInv
<1>2. UNCHANGED <<vecSendBuff, asked>> /\ up' = [up EXCEPT ![e] = Tail(@)]
  BY DEF Consume, buffVars
<1>3. /\ m \in Message /\ PeersIn(Tail(up[e]), AskedBy(e))
      /\ m.type = "app" => <<e, m.peer>> \in asked
  BY <1>1, PeersTake, HeadTailProperties DEF SourceOf, AskedBy
<1>4. PeersIn(up'[c], AskedBy(c))
  BY <1>1, <1>2, <1>3 DEF SourceOf, TypeOK
<1>5. App(e) \in Message /\ App(e).type = "app" /\ App(e).peer = e
  BY DEF App, Message
<1>6. \/ down'[c] = down[c]
      \/ down'[c] = Append(down[c], m) /\ m.type # "app"
      \/ down'[c] = Append(down[c], App(e)) /\ m.type = "app" /\ m.peer = c
  <2>1. CASE ConsumeRegister(e, m) \/ ConsumeQuery(e, m)
    <3>1. Deliver(e, m) /\ m.type # "app"
      BY <2>1 DEF ConsumeRegister, ConsumeQuery
    <3>2. down'[c] = down[c] \/ down'[c] = Append(down[c], m)
      BY <1>1, <3>1 DEF Deliver, TypeOK
    <3>3. QED
      BY <3>1, <3>2
  <2>2. CASE ConsumeApp(e, m)
    <3>1. m.type = "app" /\ (Deliver(m.peer, App(e)) \/ UNCHANGED down)
      BY <2>2 DEF ConsumeApp
    <3>2. ASSUME NEW k, Deliver(k, App(e))
          PROVE  down'[c] = down[c] \/ (down'[c] = Append(down[c], App(e)) /\ k = c)
      BY <1>1, <3>2 DEF Deliver, TypeOK
    <3>3. QED
      BY <3>1, <3>2
  <2>3. CASE ConsumeGarbled(m)
    BY <2>3 DEF ConsumeGarbled
  <2>4. QED
    BY <2>1, <2>2, <2>3 DEF Consume
<1>7. PeersIn(down'[c], AskersOf(c))
  <2>1. PeersIn(down[c], AskersOf(c))
    BY <1>1 DEF SourceOf
  <2>2. m.type = "app" /\ m.peer = c => e \in AskersOf(c)
    BY <1>3 DEF AskersOf
  <2> HIDE DEF m
  <2>3. QED
    BY <1>1, <1>3, <1>5, <1>6, <2>1, <2>2, PeersAppend
<1>8. QED
  BY <1>1, <1>2, <1>4, <1>7 DEF SourceOf, AskedBy, AskersOf, PeersIn

(* All steps together. *)
LEMMA SourceStep ==
  ASSUME TypeInv, SourceInv, [BusNext]_busVars
  PROVE  SourceInv'
<1> SUFFICES ASSUME NEW c \in Tasks
             PROVE  SourceOf(c)'
  BY DEF SourceInv
<1>1. TypeOK /\ SourceOf(c)
  BY DEF TypeInv, SourceInv
<1>2. ASSUME NEW e \in Tasks,
             \/ ServicePoll(e) \/ ServiceCheck(e) \/ ServiceCrash(e) \/ ServiceRestart(e)
             \/ (\E peer \in Tasks : Ask(e, peer))
      PROVE  SourceOf(c)'
  <2>1. CASE e = c
    BY <1>1, <1>2, <2>1, SourcePoll, SourceOwn DEF ServicePoll
  <2>2. CASE e # c
    <3>1. \/ PollThread(e) \/ CheckThread(e) \/ Crash(e) \/ Restart(e)
          \/ (\E peer \in Tasks : AppSend(e, peer))
      BY <1>2 DEF ServicePoll, ServiceCheck, ServiceCrash, ServiceRestart, Ask
    <3>2. QED
      BY <1>1, <2>2, <3>1, OwnStep, SourceUntouched
  <2>3. QED
    BY <2>1, <2>2
<1>3. ASSUME NEW e \in Tasks, Consume(e)
      PROVE  SourceOf(c)'
  BY <1>3, SourceConsume
<1>4. CASE BrokerScan \/ BrokerRestart \/ BusTick \/ UNCHANGED busVars
  <2>1. UNCHANGED <<vecSendBuff, up, down>>
    BY <1>4, BrokerSteps DEF BusTick, Tick, busVars, vars, buffVars, netVars
  <2>2. QED
    BY <1>1, <2>1, SourceUntouched
<1>5. CASE BrokerCrash
  <2>1. /\ down'[c] = <<>> /\ (up'[c] = <<>> \/ up'[c] = up[c])
        /\ UNCHANGED <<vecSendBuff, asked>>
    BY <1>1, <1>5, CrashLoses DEF buffVars
  <2>2. PeersIn(up'[c], AskedBy(c)) /\ PeersIn(down'[c], AskersOf(c))
    BY <1>1, <2>1, PeersNone DEF SourceOf
  <2>3. QED
    BY <1>1, <2>1, <2>2 DEF SourceOf, AskedBy, AskersOf, PeersIn
<1>6. QED
  BY <1>2, <1>3, <1>4, <1>5 DEF BusNext

-----------------------------------------------------------------------------
(* The record of the broker. *)

(* A service on record: the answers on their way to it, and the last one   *)
(* it has read, if it is online or may be about to be, are not later than  *)
(* its entry.                                                              *)
RecordOf(c) ==
  Registry!existed(c) =>
    /\ Stamped(down[c], onlineServices[c])
    /\ online[c] \/ Judging(c) => registerRepTickout[c] <= onlineServices[c]

RecordInv ==
  /\ onlineServices \in [Tasks -> Nat]
  /\ \A c \in Tasks : RecordOf(c)

(* What keeps the entry of c: it stays or goes, c learns nothing new and   *)
(* no heartbeat is added to what comes down.                               *)
LEMMA RecordKept ==
  ASSUME TypeOK, NEW c \in Tasks, RecordOf(c),
         onlineServices \in [Tasks -> Nat], onlineServices'[c] \in {onlineServices[c], 0},
         online'[c] \/ Judging(c)'
           => (online[c] \/ Judging(c)) /\ UNCHANGED registerRepTickout[c],
         \/ down'[c] \in {down[c], <<>>}
         \/ down[c] # <<>> /\ down'[c] = Tail(down[c])
         \/ \E m \in Message : m.type # "register" /\ down'[c] = Append(down[c], m)
  PROVE  RecordOf(c)'
<1> SUFFICES ASSUME Registry!existed(c)'
             PROVE  /\ Stamped(down'[c], onlineServices'[c])
                    /\ online'[c] \/ Judging(c)' => registerRepTickout'[c] <= onlineServices'[c]
  BY DEF RecordOf, Judging, Stamped
<1>1. onlineServices'[c] = onlineServices[c] /\ Registry!existed(c)
  BY DEF Registry!existed
<1>2. onlineServices[c] \in Nat /\ down[c] \in Seq(Message)
  BY DEF TypeOK
<1>3. Stamped(down[c], onlineServices[c])
  BY <1>1 DEF RecordOf
<1>4. Stamped(down'[c], onlineServices[c])
  BY <1>2, <1>3, StampedEmpty, StampedTake, StampedAppend
<1>5. QED
  BY <1>1, <1>4 DEF RecordOf

(* A service reads an answer: the entry is not earlier. *)
LEMMA RecordPoll ==
  ASSUME TypeInv, RecordInv, NEW c \in Tasks, ServicePoll(c)
  PROVE  RecordOf(c)'
<1> USE DEF sharedVars, buffVars, pollVars, checkVars, netVars
<1>1. TypeOK /\ down[c] \in Seq(Message) /\ onlineServices[c] \in Nat /\ RecordOf(c)
  BY OrderTypes DEF TypeInv, RecordInv
<1>2. UNCHANGED onlineServices
  BY DEF ServicePoll, brokerVars, registryVars
<1>3. CASE PollRegister(c)
  <2>1. /\ down[c] # <<>> /\ down'[c] = Tail(down[c]) /\ Head(down[c]).type = "register"
        /\ registerRepTickout'[c] = Head(down[c]).ts
    BY <1>1, <1>3 DEF PollRegister, Answered, Receive, TypeOK
  <2>2. ASSUME Registry!existed(c)
        PROVE  /\ Stamped(Tail(down[c]), onlineServices[c])
               /\ Head(down[c]).ts <= onlineServices[c]
    BY <1>1, <2>1, <2>2, StampedTake DEF RecordOf
  <2>3. QED
    BY <1>2, <2>1, <2>2 DEF RecordOf, Registry!existed, Stamped
<1>4. CASE PollOther(c)
  <2>1. /\ down[c] # <<>> /\ down'[c] = Tail(down[c])
        /\ UNCHANGED <<online, registerRepTickout, pollPc>>
    BY <1>1, <1>4 DEF PollOther, Receive, TypeOK
  <2>2. Judging(c)' <=> Judging(c)
    BY <2>1 DEF Judging
  <2>3. QED
    BY <1>1, <1>2, <2>1, <2>2, RecordKept DEF RecordInv
<1>5. CASE \/ PollAge(c) \/ PollFlag(c) \/ PollOnline(c) \/ PollStatus(c) \/ PollCallback(c)
           \/ PollQuery(c) \/ PollCopy(c) \/ PollSend(c)
  <2>1. UNCHANGED <<down, registerRepTickout>>
    BY <1>5 DEF PollAge, PollFlag, PollOnline, PollStatus, PollCallback, PollQuery, PollCopy,
                PollSend
  <2>2. online'[c] \/ Judging(c)' => online[c] \/ Judging(c)
    BY <1>1, <1>5 DEF PollAge, PollFlag, PollOnline, PollStatus, PollCallback, PollQuery, PollCopy,
                      PollSend, Judging, TypeOK
  <2>3. QED
    BY <1>1, <1>2, <2>1, <2>2, RecordKept DEF RecordInv
<1>6. QED
  BY <1>3, <1>4, <1>5 DEF ServicePoll, PollThread

(* The consumer records a heartbeat before it answers it; no earlier one   *)
(* was later, be it read or still on its way down.                         *)
LEMMA RecordConsume ==
  ASSUME TypeInv, OrderInv, RecordInv, NEW e \in Tasks, Consume(e)
  PROVE  RecordInv'
<1> DEFINE m == Head(up[e])
<1>1. /\ TypeOK /\ down[e] \in Seq(Message) /\ up[e] \in Seq(Message) /\ up[e] # <<>>
      /\ registerRepTickout[e] \in Nat /\ OrderOf(e)
  BY OrderTypes DEF TypeInv, Consume, OrderInv
<1>2. m \in Message /\ (m.type = "register" => m.ts \in Nat)
  BY <1>1, HeadTailProperties, MessageFields
<1>3. /\ UNCHANGED <<online, registerRepTickout>>
      /\ \A c \in Tasks : Judging(c)' <=> Judging(c)
  BY DEF Consume, sharedVars, pollVars, Judging
<1>4. onlineServices \in [Tasks -> Nat] /\ \A c \in Tasks : RecordOf(c)
  BY DEF RecordInv
<1>5. CASE ConsumeRegister(e, m)
  <2>1. /\ m.type = "register" /\ Deliver(e, m)
        /\ onlineServices' = [onlineServices EXCEPT ![e] = m.ts]
    BY <1>5 DEF ConsumeRegister, Registry!processRegisterRequest
  <2>2. ASSUME NEW c \in Tasks, c # e
        PROVE  RecordOf(c)'
    <3>1. down'[c] = down[c] /\ onlineServices'[c] = onlineServices[c]
      BY <1>1, <1>4, <2>1, <2>2 DEF Deliver, TypeOK
    <3>2. QED
      BY <1>1, <1>3, <1>4, <3>1, RecordKept
  <2>3. RecordOf(e)'
    <3>1. onlineServices'[e] = m.ts
      BY <1>4, <2>1
    <3>2. Stamped(down[e], m.ts)
      BY <1>1, <2>1, TakeOrder DEF OrderOf, Chain
    <3>3. online[e] \/ Judging(e) => registerRepTickout[e] <= m.ts
      BY <1>1, <2>1, TakeOrder DEF OrderOf, Above
    <3>4. down'[e] = down[e] \/ down'[e] = Append(down[e], m)
      BY <1>1, <2>1 DEF Deliver, TypeOK
    <3>5. Stamped(Append(down[e], m), m.ts)
      BY <1>1, <1>2, <2>1, <3>2, StampedAppend
    <3> HIDE DEF m
    <3>6. Stamped(down'[e], onlineServices'[e])
      BY <3>1, <3>2, <3>4, <3>5
    <3>7. QED
      BY <1>3, <3>1, <3>3, <3>6 DEF RecordOf, Stamped
  <2>4. onlineServices' \in [Tasks -> Nat]
    BY <1>2, <1>4, <2>1
  <2>5. QED
    BY <2>2, <2>3, <2>4 DEF RecordInv
<1>6. CASE ConsumeQuery(e, m) \/ ConsumeApp(e, m) \/ ConsumeGarbled(m)
  <2>1. UNCHANGED onlineServices
    BY <1>6 DEF ConsumeQuery, ConsumeApp, ConsumeGarbled
  <2>2. App(e) \in Message /\ App(e).type # "register"
    BY DEF App, Message
  <2>3. ASSUME NEW k, NEW n, Deliver(k, n), NEW c \in Tasks
        PROVE  down'[c] = down[c] \/ down'[c] = Append(down[c], n)
    BY <1>1, <2>3 DEF Deliver, TypeOK
  <2>4. \/ UNCHANGED down
        \/ Deliver(m.peer, App(e))
        \/ m.type # "register" /\ Deliver(e, m)
    BY <1>6 DEF ConsumeQuery, ConsumeApp, ConsumeGarbled
  <2> HIDE DEF m
  <2>5. ASSUME NEW c \in Tasks
        PROVE  RecordOf(c)'
    <3>1. \/ down'[c] = down[c]
          \/ \E n \in Message : n.type # "register" /\ down'[c] = Append(down[c], n)
      BY <1>2, <2>2, <2>3, <2>4
    <3>2. QED
      BY <1>1, <1>3, <1>4, <2>1, <3>1, RecordKept
  <2>6. QED
    BY <1>4, <2>1, <2>5 DEF RecordInv
<1>7. QED
  BY <1>5, <1>6 DEF Consume

(* The scan only takes entries out, and so does a crash of the broker.     *)
LEMMA RecordBroker ==
  ASSUME TypeInv, RecordInv, BrokerScan \/ BrokerRestart \/ BrokerCrash
  PROVE  RecordInv'
<1>1. TypeOK /\ onlineServices \in [Tasks -> Nat] /\ \A c \in Tasks : RecordOf(c)
  BY DEF TypeInv, RecordInv
<1>2. /\ onlineServices' \in [Tasks -> Nat]
      /\ \A c \in Tasks : onlineServices'[c] \in {onlineServices[c], 0}
  <2>1. CASE BrokerScan
    <3>1. UNCHANGED onlineServices \/ onlineServices' = [onlineServices EXCEPT ![key] = 0]
      BY <2>1 DEF BrokerScan, Registry!StartScan, Registry!ReadEntry, Registry!RemoveEntry,
                  Registry!EndScan
    <3>2. QED
      BY <1>1, <3>1
  <2>2. CASE BrokerRestart
    BY <1>1, <2>2 DEF BrokerRestart, registryVars
  <2>3. CASE BrokerCrash
    BY <1>1, <2>3 DEF BrokerCrash
  <2>4. QED
    BY <2>1, <2>2, <2>3
<1>3. ASSUME NEW c \in Tasks
      PROVE  /\ down'[c] \in {down[c], <<>>} /\ UNCHANGED <<online, registerRepTickout>>
             /\ Judging(c)' <=> Judging(c)
  BY <1>1, BrokerSteps, CrashLoses DEF vars, netVars, sharedVars, pollVars, Judging
<1>4. \A c \in Tasks : RecordOf(c)'
  BY <1>1, <1>2, <1>3, RecordKept
<1>5. QED
  BY <1>2, <1>4 DEF RecordInv

(* All steps together. *)
LEMMA RecordStep ==
  ASSUME TypeInv, OrderInv, RecordInv, [BusNext]_busVars
  PROVE  RecordInv'
<1>1. TypeOK /\ onlineServices \in [Tasks -> Nat] /\ \A c \in Tasks : RecordOf(c)
  BY DEF TypeInv, RecordInv
<1>2. ASSUME NEW e \in Tasks,
             \/ ServicePoll(e) \/ ServiceCheck(e) \/ ServiceCrash(e) \/ ServiceRestart(e)
             \/ (\E peer \in Tasks : Ask(e, peer))
      PROVE  RecordInv'
  <2>1. UNCHANGED onlineServices
    BY <1>2 DEF ServicePoll, ServiceCheck, ServiceCrash, ServiceRestart, Ask, brokerVars, registryVars
  <2>2. \/ PollThread(e) \/ CheckThread(e) \/ Crash(e) \/ Restart(e)
        \/ (\E peer \in Tasks : AppSend(e, peer))
    BY <1>2 DEF ServicePoll, ServiceCheck, ServiceCrash, ServiceRestart, Ask
  <2>3. ASSUME NEW c \in Tasks, c # e
        PROVE  RecordOf(c)'
    <3>1. UNCHANGED <<down[c], online[c], registerRepTickout[c], pollPc[c]>>
      BY <1>1, <2>2, <2>3, OwnStep
    <3>2. QED
      BY <1>1, <2>1, <3>1, RecordKept DEF Judging
  <2>4. RecordOf(e)'
    <3>1. CASE ServicePoll(e)
      BY <3>1, RecordPoll
    <3>2. CASE ServiceCheck(e)
      <4>1. /\ UNCHANGED <<down, registerRepTickout>>
            /\ online'[e] => online[e]
            /\ pollPc'[e] = pollPc[e] \/ pollPc'[e] = "torn"
        BY <1>1, <3>2 DEF ServiceCheck, CheckThread, CheckSample, BeginRound, CheckAge,
             CompareAge, CheckVerdict, CheckStatus, CheckCallback, sharedVars, netVars, pollVars,
             TypeOK
      <4>2. Judging(e)' => Judging(e)
        BY <4>1 DEF Judging
      <4>3. QED
        BY <1>1, <2>1, <4>1, <4>2, RecordKept
    <3>3. CASE ServiceCrash(e)
      <4>1. ~online'[e] /\ ~Judging(e)' /\ down'[e] = <<>>
        BY <1>1, <3>3 DEF ServiceCrash, Crash, Judging, TypeOK
      <4>2. QED
        BY <1>1, <2>1, <4>1, RecordKept
    <3>4. CASE \E peer \in Tasks : Ask(e, peer)
      <4>1. UNCHANGED <<down, online, registerRepTickout>>
        BY <3>4 DEF Ask, AppSend, sharedVars, netVars
      <4>2. pollPc'[e] = pollPc[e] \/ pollPc'[e] = "torn"
        BY <1>1, <3>4 DEF Ask, AppSend, TypeOK
      <4>3. Judging(e)' => Judging(e)
        BY <4>2 DEF Judging
      <4>4. QED
        BY <1>1, <2>1, <4>1, <4>3, RecordKept
    <3>5. CASE ServiceRestart(e)
      <4>1. ~online[e] /\ ~Judging(e) /\ UNCHANGED <<online, down, pollPc>>
        BY <3>5 DEF ServiceRestart, Restart, OrderInv, OrderOf, pollVars, netVars
      <4>2. ~online'[e] /\ ~Judging(e)'
        BY <4>1 DEF Judging
      <4>3. QED
        BY <1>1, <2>1, <4>1, <4>2, RecordKept
    <3>6. QED
      BY <1>2, <3>1, <3>2, <3>3, <3>4, <3>5
  <2>5. QED
    BY <1>1, <2>1, <2>3, <2>4 DEF RecordInv
<1>3. CASE \E e \in Tasks : Consume(e)
  BY <1>3, RecordConsume
<1>4. CASE BrokerScan \/ BrokerRestart \/ BrokerCrash
  BY <1>4, RecordBroker
<1>5. CASE BusTick \/ UNCHANGED busVars
  <2>1. UNCHANGED <<down, online, registerRepTickout, onlineServices, pollPc>>
    BY <1>5 DEF BusTick, Tick, busVars, vars, brokerVars, registryVars, netVars, sharedVars,
                pollVars
  <2>2. \A c \in Tasks : RecordOf(c)'
    BY <1>1, <2>1, RecordKept DEF Judging
  <2>3. QED
    BY <1>1, <2>1, <2>2 DEF RecordInv
<1>6. QED
  BY <1>2, <1>3, <1>4, <1>5 DEF BusNext

-----------------------------------------------------------------------------
(* The bus. *)

LEMMA InitBus == BusInit => SourceInv /\ RecordInv
<1> SUFFICES ASSUME BusInit
             PROVE  SourceInv /\ RecordInv
  OBVIOUS
<1>1. ASSUME NEW c \in Tasks
      PROVE  /\ vecSendBuff[c] = <<>> /\ up[c] = <<>> /\ down[c] = <<>>
             /\ onlineServices[c] = 0
  BY DEF BusInit, Init
<1>2. SourceInv
  BY <1>1, PeersNone DEF SourceInv, SourceOf
<1>3. RecordInv
  BY <1>1 DEF RecordInv, RecordOf, Registry!existed, BusInit
<1>4. QED
  BY <1>2, <1>3

LEMMA BusAlways == BusSpec => [](TasksInv /\ SourceInv /\ RecordInv)
<1>1. TasksInv /\ SourceInv /\ RecordInv /\ [BusNext]_busVars
        => TasksInv' /\ SourceInv' /\ RecordInv'
  BY BusKeepsTasks, SourceStep, RecordStep DEF TasksInv
<1>2. QED
  BY <1>1, InitTasks, InitBus, PTL DEF BusSpec

(* What a service receives comes from the service it names: the consumer   *)
(* puts the name of the sender in place of the destination before it       *)
(* passes a message on.                                                    *)
THEOREM SourcesAreTrue == BusSpec => []SourceIsTrue
<1>1. TasksInv /\ SourceInv => SourceIsTrue
  <2> SUFFICES ASSUME TypeOK, SourceInv, NEW d \in Tasks, NEW i \in DOMAIN down[d],
                      down[d][i].type = "app"
               PROVE  <<down[d][i].peer, d>> \in asked
    BY DEF SourceIsTrue, TasksInv, TypeInv
  <2>1. i \in 1 .. Len(down[d])
    BY LenProperties DEF TypeOK
  <2>2. QED
    BY <2>1 DEF SourceInv, SourceOf, PeersIn, AskersOf
<1>2. QED
  BY <1>1, BusAlways, PTL

(* A service that counts itself online, and is on record, is there with a  *)
(* heartbeat as recent as its last answer, whatever crashes or is lost.    *)
THEOREM RecordsAreRecent == BusSpec => []RecordIsRecent
<1>1. TasksInv /\ RecordInv => RecordIsRecent
  <2> SUFFICES ASSUME TypeOK, RecordInv, NEW c \in Tasks, online[c], Registry!existed(c)
               PROVE  onlineServices[c] >= registerRepTickout[c]
    BY DEF RecordIsRecent, TasksInv, TypeInv
  <2>1. onlineServices[c] \in Nat /\ registerRepTickout[c] \in Nat
    BY DEF RecordInv, TypeOK
  <2>2. QED
    BY <2>1 DEF RecordInv, RecordOf
<1>2. QED
  BY <1>1, BusAlways, PTL

(* The nodes on the bus, a crash of its broker included: an age does not   *)
(* wrap around, and who has been online for a whole round has a recent     *)
(* answer.                                                                 *)
COROLLARY NodesOnTheBus == BusSpec => [](AgeNeverWraps /\ WatchedIsRecent)
<1>1. TasksInv => AgeNeverWraps /\ WatchedIsRecent
  BY DEF TasksInv, ClockInv, ClockOf, Horizon, AgeNeverWraps, OrderInv, OrderOf, WatchedIsRecent
<1>2. QED
  BY <1>1, BusAlways, PTL

-----------------------------------------------------------------------------
(* The bus implements the tasks. *)

(* Task is DataTask over the same constants and variables. *)
LEMMA SameInit == Task!Init <=> Init
  BY DEF Task!Init, Init

(* So are the operators it takes from the library. *)
LEMMA SameCardinality == \A S : Task!Cardinality(S) = Cardinality(S)
  BY DEF Cardinality, Task!Cardinality

LEMMA SamePoll == ASSUME NEW c \in Tasks PROVE PollThread(c) => Task!PollThread(c)
<1> USE DEF sharedVars, buffVars, pollVars, checkVars, netVars, Task!sharedVars, Task!buffVars,
            Task!pollVars, Task!checkVars, Task!netVars
<1>1. PollRegister(c) => Task!PollRegister(c)
  BY DEF PollRegister, Task!PollRegister, Answered, Task!Answered, Receive, Task!Receive
<1>2. PollOther(c) => Task!PollOther(c)
  BY DEF PollOther, Task!PollOther, Receive, Task!Receive
<1>3. PollStatus(c) => Task!PollStatus(c)
  BY DEF PollStatus, Task!PollStatus
<1>4. PollCallback(c) => Task!PollCallback(c)
  BY DEF PollCallback, Task!PollCallback
<1>5. PollQuery(c) => Task!PollQuery(c)
  BY DEF PollQuery, Task!PollQuery, send, Task!send, Query, Task!Query, Grows, Task!Grows
<1>6. PollCopy(c) => Task!PollCopy(c)
  BY DEF PollCopy, Task!PollCopy
<1>7. PollSend(c) => Task!PollSend(c)
  BY DEF PollSend, Task!PollSend, Garbled, Task!Garbled
<1>8. PollAge(c) => Task!PollAge(c)
  BY DEF PollAge, Task!PollAge, Minus, Task!Minus, Wrapped, Task!Wrapped
<1>9. (PollFlag(c) => Task!PollFlag(c)) /\ (PollOnline(c) => Task!PollOnline(c))
  BY DEF PollFlag, Task!PollFlag, PollOnline, Task!PollOnline
<1>10. QED
  BY <1>1, <1>2, <1>3, <1>4, <1>5, <1>6, <1>7, <1>8, <1>9 DEF PollThread, Task!PollThread

LEMMA SameCheck == ASSUME NEW c \in Tasks PROVE CheckThread(c) => Task!CheckThread(c)
<1> USE DEF sharedVars, buffVars, pollVars, checkVars, netVars, Task!sharedVars, Task!buffVars,
            Task!pollVars, Task!checkVars, Task!netVars, Minus, Task!Minus, Wrapped, Task!Wrapped
<1>1. CheckSample(c) => Task!CheckSample(c)
  BY DEF CheckSample, Task!CheckSample, BeginRound, Task!BeginRound, send, Task!send,
         Register, Task!Register, Tears, Task!Tears, Grows, Task!Grows
<1>2. CheckAge(c) => Task!CheckAge(c)
  BY DEF CheckAge, Task!CheckAge, CompareAge, Task!CompareAge
<1>3. CheckVerdict(c) => Task!CheckVerdict(c)
  BY DEF CheckVerdict, Task!CheckVerdict
<1>4. CheckStatus(c) => Task!CheckStatus(c)
  BY DEF CheckStatus, Task!CheckStatus
<1>5. CheckCallback(c) => Task!CheckCallback(c)
  BY DEF CheckCallback, Task!CheckCallback
<1>6. QED
  BY <1>1, <1>2, <1>3, <1>4, <1>5 DEF CheckThread, Task!CheckThread

LEMMA SameNext == Next => Task!Next
<1> USE DEF sharedVars, buffVars, pollVars, checkVars, netVars, Task!sharedVars, Task!buffVars,
            Task!pollVars, Task!checkVars, Task!netVars, App, Task!App
<1>1. ASSUME NEW c \in Tasks, NEW peer \in Tasks, AppSend(c, peer)
      PROVE  Task!AppSend(c, peer)
  BY <1>1, SameCardinality DEF AppSend, Task!AppSend, send, Task!send, Tears, Task!Tears, Grows, Task!Grows
<1>2. ASSUME NEW c \in Tasks, Crash(c)
      PROVE  Task!Crash(c)
  BY <1>2 DEF Crash, Task!Crash
<1>3. ASSUME NEW c \in Tasks, Restart(c)
      PROVE  Task!Restart(c)
  BY <1>3 DEF Restart, Task!Restart
<1>4. ASSUME NEW c \in Tasks, BrokerTake(c)
      PROVE  Task!BrokerTake(c)
  BY <1>4 DEF BrokerTake, Task!BrokerTake, Deliver, Task!Deliver, Garbled, Task!Garbled
<1>5. ASSUME NEW c \in Tasks, Disconnect(c)
      PROVE  Task!Disconnect(c)
  BY <1>5 DEF Disconnect, Task!Disconnect
<1>6. Tick => Task!Tick
  BY DEF Tick, Task!Tick
<1>7. QED
  BY <1>1, <1>2, <1>3, <1>4, <1>5, <1>6, SamePoll, SameCheck DEF Next, Task!Next

(* With a broker that does not crash, what the services see of the bus is  *)
(* what they may see of the broker that DataTask assumes: it answers each  *)
(* heartbeat at most once, in order and with its own time, and adds        *)
(* messages of other services only.                                        *)
THEOREM BusImplementsTasks ==
  ASSUME ~BrokerMayCrash
  PROVE  BusSpec => ImplementsTask
<1>1. BusInit => Task!Init
  BY SameInit DEF BusInit
<1>2. [BusNext]_busVars => [Task!Next]_Task!vars
  <2>1. ~BrokerCrash
    BY DEF BrokerCrash
  <2>2. UNCHANGED vars => UNCHANGED Task!vars
    BY DEF vars, Task!vars, sharedVars, buffVars, pollVars, checkVars, netVars, Task!sharedVars,
           Task!buffVars, Task!pollVars, Task!checkVars, Task!netVars
  <2>3. QED
    BY <2>1, <2>2, BusStepIsTaskStep, SameNext
<1>3. QED
  BY <1>1, <1>2, PTL DEF BusSpec, ImplementsTask, Task!Spec

-----------------------------------------------------------------------------
(* Heartbeats in time.                                                     *)
(*                                                                         *)
(* A round of a service puts one token into its queues, a heartbeat, which *)
(* comes back as the answer and turns into a query.  The clock advances    *)
(* only when the token has gone, so a heartbeat arrives in the tick it was *)
(* sent in, or is lost: as a torn copy, or because other services fill the *)
(* connection its answer would come back on.                               *)

IsToken(m) == m.type \in {"register", "query"}
HasToken(q) == \E i \in 1 .. Len(q) : IsToken(q[i])
OneToken(q) == \A i, j \in 1 .. Len(q) : IsToken(q[i]) /\ IsToken(q[j]) => i = j

HasBeat(q) == \E i \in 1 .. Len(q) : q[i].type = "register"
NoGarbled(q) == \A i \in 1 .. Len(q) : q[i].type # "garbled"

(* The heartbeats in a queue carry the time t. *)
Fresh(q, t) == \A i \in 1 .. Len(q) : q[i].type = "register" => q[i].ts = t

LEMMA QueueNone ==
  /\ ~HasToken(<<>>) /\ OneToken(<<>>) /\ ~HasBeat(<<>>) /\ NoGarbled(<<>>)
  /\ \A t : Fresh(<<>>, t)
  BY DEF HasToken, OneToken, HasBeat, NoGarbled, Fresh

LEMMA BeatIsToken ==
  ASSUME NEW q, HasBeat(q)
  PROVE  HasToken(q)
  BY DEF HasBeat, HasToken, IsToken

(* What is left when the first message is taken off, *)
LEMMA QueueTake ==
  ASSUME NEW q \in Seq(Message), q # <<>>
  PROVE  /\ Head(q) \in Message /\ Tail(q) \in Seq(Message) /\ Len(Tail(q)) = Len(q) - 1
         /\ HasToken(q) <=> IsToken(Head(q)) \/ HasToken(Tail(q))
         /\ OneToken(q) => OneToken(Tail(q)) /\ ~(IsToken(Head(q)) /\ HasToken(Tail(q)))
         /\ HasBeat(q) <=> Head(q).type = "register" \/ HasBeat(Tail(q))
         /\ NoGarbled(q) => NoGarbled(Tail(q)) /\ Head(q).type # "garbled"
         /\ \A t : Fresh(q, t) => Fresh(Tail(q), t) /\ (Head(q).type = "register" => Head(q).ts = t)
<1> DEFINE h == Head(q)
           r == Tail(q)
<1>1. /\ h \in Message /\ h = q[1] /\ r \in Seq(Message) /\ Len(r) = Len(q) - 1
      /\ Len(q) \in Nat \ {0}
      /\ \A i \in 1 .. Len(r) : r[i] = q[i + 1]
  BY HeadTailProperties, LenProperties, EmptySeq
<1>2. 1 \in 1 .. Len(q) /\ \A i \in 1 .. Len(r) : i + 1 \in 1 .. Len(q)
  BY <1>1
<1>3. \A i \in 1 .. Len(q) : i = 1 \/ i - 1 \in 1 .. Len(r)
  BY <1>1
<1>4. \A i \in 1 .. Len(q) : \/ i = 1 /\ q[i] = h
                             \/ i - 1 \in 1 .. Len(r) /\ q[i] = r[i - 1]
  <2> SUFFICES ASSUME NEW i \in 1 .. Len(q), i - 1 \in 1 .. Len(r)
               PROVE  q[i] = r[i - 1]
    BY <1>1, <1>3
  <2>1. r[i - 1] = q[(i - 1) + 1] /\ (i - 1) + 1 = i
    BY <1>1
  <2>2. QED
    BY <2>1
<1> HIDE DEF h, r
<1>5. HasToken(q) <=> IsToken(h) \/ HasToken(r)
  BY <1>1, <1>2, <1>4 DEF HasToken
<1>6. HasBeat(q) <=> h.type = "register" \/ HasBeat(r)
  BY <1>1, <1>2, <1>4 DEF HasBeat
<1>7. ASSUME OneToken(q)
      PROVE  OneToken(r) /\ ~(IsToken(h) /\ HasToken(r))
  <2>1. \A i, j \in 1 .. Len(r) : IsToken(r[i]) /\ IsToken(r[j]) => i + 1 = j + 1
    BY <1>1, <1>2, <1>7 DEF OneToken
  <2>2. OneToken(r)
    BY <2>1 DEF OneToken
  <2>3. \A i \in 1 .. Len(r) : IsToken(h) /\ IsToken(r[i]) => 1 = i + 1
    BY <1>1, <1>2, <1>7 DEF OneToken
  <2>4. \A i \in 1 .. Len(r) : 1 # i + 1
    BY <1>1
  <2>5. QED
    BY <2>2, <2>3, <2>4 DEF HasToken
<1>8. NoGarbled(q) => NoGarbled(r) /\ h.type # "garbled"
  BY <1>1, <1>2 DEF NoGarbled
<1>9. \A t : Fresh(q, t) => Fresh(r, t) /\ (h.type = "register" => h.ts = t)
  BY <1>1, <1>2 DEF Fresh
<1>10. QED
  BY <1>1, <1>5, <1>6, <1>7, <1>8, <1>9 DEF h, r

(* and when one is put behind. *)
LEMMA QueueAppend ==
  ASSUME NEW q \in Seq(Message), NEW m \in Message
  PROVE  /\ Append(q, m) \in Seq(Message) /\ Len(Append(q, m)) = Len(q) + 1
         /\ q # <<>> => Head(Append(q, m)) = Head(q)
         /\ q = <<>> => Head(Append(q, m)) = m
         /\ HasToken(Append(q, m)) <=> HasToken(q) \/ IsToken(m)
         /\ OneToken(q) /\ ~(HasToken(q) /\ IsToken(m)) => OneToken(Append(q, m))
         /\ HasBeat(Append(q, m)) <=> HasBeat(q) \/ m.type = "register"
         /\ NoGarbled(q) /\ m.type # "garbled" => NoGarbled(Append(q, m))
         /\ \A t : Fresh(q, t) /\ (m.type = "register" => m.ts = t) => Fresh(Append(q, m), t)
<1> DEFINE r == Append(q, m)
<1>1. /\ r \in Seq(Message) /\ Len(q) \in Nat /\ Len(r) = Len(q) + 1 /\ r[Len(q) + 1] = m
      /\ \A i \in 1 .. Len(q) : r[i] = q[i]
  BY AppendProperties, LenProperties
<1>2. /\ q # <<>> => Head(r) = Head(q)
      /\ q = <<>> => Head(r) = m
  <2>1. r # <<>> /\ Head(r) = r[1]
    <3>1. Len(r) # 0
      BY <1>1
    <3>2. r # <<>>
      BY <1>1, <3>1, EmptySeq
    <3> HIDE DEF r
    <3>3. QED
      BY <1>1, <3>2, HeadTailProperties
  <2>2. q # <<>> => Len(q) # 0 /\ Head(q) = q[1]
    BY <1>1, HeadTailProperties, EmptySeq
  <2>3. q = <<>> => Len(q) = 0
    BY EmptySeq
  <2>4. QED
    BY <1>1, <2>1, <2>2, <2>3
<1>3. \A i \in 1 .. Len(r) : \/ i \in 1 .. Len(q) /\ r[i] = q[i]
                             \/ i = Len(q) + 1 /\ r[i] = m
  BY <1>1
<1>4. Len(q) + 1 \in 1 .. Len(r) /\ \A i \in 1 .. Len(q) : i \in 1 .. Len(r) /\ i # Len(q) + 1
  BY <1>1
<1> HIDE DEF r
<1>5. HasToken(r) <=> HasToken(q) \/ IsToken(m)
  BY <1>1, <1>3, <1>4 DEF HasToken
<1>6. HasBeat(r) <=> HasBeat(q) \/ m.type = "register"
  BY <1>1, <1>3, <1>4 DEF HasBeat
<1>7. OneToken(q) /\ ~(HasToken(q) /\ IsToken(m)) => OneToken(r)
  BY <1>3 DEF OneToken, HasToken
<1>8. NoGarbled(q) /\ m.type # "garbled" => NoGarbled(r)
  BY <1>3 DEF NoGarbled
<1>9. \A t : Fresh(q, t) /\ (m.type = "register" => m.ts = t) => Fresh(r, t)
  BY <1>3 DEF Fresh
<1>10. QED
  BY <1>1, <1>2, <1>5, <1>6, <1>7, <1>8, <1>9 DEF r

(* A queue with neither token, garbled message nor message of a service is *)
(* empty. *)
LEMMA QueueEmpty ==
  ASSUME NEW q \in Seq(Message), ~HasToken(q), NoGarbled(q), PeersIn(q, {})
  PROVE  q = <<>>
<1>1. ASSUME q # <<>>
      PROVE  FALSE
  <2>1. Len(q) \in Nat \ {0} /\ 1 \in 1 .. Len(q)
    BY <1>1, LenProperties, EmptySeq
  <2>2. q[1] \in Message
    BY <2>1, ElementOfSeq
  <2>3. q[1].type \in {"register", "query", "app", "garbled"}
    BY <2>2 DEF Message, Query, Garbled
  <2>4. q[1].type # "app"
    BY <2>1 DEF PeersIn
  <2>5. q[1].type # "garbled"
    BY <2>1 DEF NoGarbled
  <2>6. ~IsToken(q[1])
    BY <2>1 DEF HasToken
  <2>7. QED
    BY <2>3, <2>4, <2>5, <2>6 DEF IsToken
<1>2. QED
  BY <1>1

(* What the steps of a service do to its queues. *)

(* push_back: the vector is as large as it has to be, and larger than it   *)
(* was when it had to grow. *)
Pushes(c, m) ==
  /\ vecSendBuff'[c] = Append(vecSendBuff[c], m)
  /\ capacity'[c] \in Nat
  /\ capacity[c] <= capacity'[c]
  /\ Len(vecSendBuff[c]) <= capacity[c] => Len(vecSendBuff[c]) + 1 <= capacity'[c]
  /\ Grows(c) /\ 0 < capacity[c] => capacity[c] + 1 <= capacity'[c]

Reads(c) ==
  /\ pollPc[c] = "poll"
  /\ down[c] # <<>>
  /\ down'[c] = Tail(down[c])
  /\ UNCHANGED <<vecSendBuff[c], capacity[c], up[c]>>

ReadsAnswer(c) ==
  /\ Reads(c)
  /\ Head(down[c]).type = "register"
  /\ registerRepTickout'[c] = Head(down[c]).ts
  /\ pollPc'[c] = "age"

ReadsOther(c) ==
  /\ Reads(c)
  /\ Head(down[c]).type # "register"
  /\ UNCHANGED <<registerRepTickout[c], pollPc[c]>>

(* What an answer means, a notification, a query that is left out, or the  *)
(* copy of the first message.                                              *)
MovesOn(c) ==
  /\ \/ /\ pollPc[c] \in {"age", "flag", "online", "status", "callback"}
        /\ pollPc'[c] \in {"flag", "online", "status", "callback", "query"}
     \/ pollPc[c] = "query" /\ pollPc'[c] = "poll"
     \/ pollPc[c] = "poll" /\ pollPc'[c] = "copy"
  /\ UNCHANGED <<registerRepTickout[c], vecSendBuff[c], capacity[c], up[c], down[c]>>

QueuesQuery(c) ==
  /\ pollPc[c] = "query"
  /\ pollPc'[c] = "poll"
  /\ Pushes(c, Query)
  /\ UNCHANGED <<registerRepTickout[c], up[c], down[c]>>

Writes(c, m) ==
  /\ pollPc[c] \in {"copy", "torn"}
  /\ pollPc'[c] = "poll"
  /\ m = Head(vecSendBuff[c]) \/ (pollPc[c] = "torn" /\ m = Garbled)
  /\ vecSendBuff[c] # <<>>
  /\ vecSendBuff'[c] = Tail(vecSendBuff[c])
  /\ up'[c] = Append(up[c], m)
  /\ UNCHANGED <<registerRepTickout[c], capacity[c], down[c]>>

LEMMA SendPushes ==
  ASSUME TypeOK, NEW c \in Tasks, NEW m, send(c, m)
  PROVE  Pushes(c, m)
<1>1. /\ vecSendBuff'[c] = Append(vecSendBuff[c], m)
      /\ capacity'[c] = IF ~Grows(c) THEN capacity[c]
                        ELSE IF capacity[c] = 0 THEN 1 ELSE 2 * capacity[c]
  BY DEF send, TypeOK
<1>2. capacity[c] \in Nat /\ Len(vecSendBuff[c]) \in Nat
  BY LenProperties DEF TypeOK
<1>3. QED
  BY <1>1, <1>2 DEF Pushes, Grows

LEMMA PollEffects ==
  ASSUME TypeInv, NEW c \in Tasks, PollThread(c)
  PROVE  /\ UNCHANGED <<now, alive, checkPc, curTickcount, lastTickcount>>
         /\ \/ ReadsAnswer(c) \/ ReadsOther(c) \/ MovesOn(c) \/ QueuesQuery(c)
            \/ \E m \in {Head(vecSendBuff[c]), Garbled} : Writes(c, m)
<1> USE DEF sharedVars, buffVars, pollVars, checkVars, netVars
<1>1. TypeOK /\ CopiedIsThere
  BY DEF TypeInv
<1>2. CASE PollRegister(c)
  BY <1>1, <1>2 DEF PollRegister, Answered, Receive, ReadsAnswer, Reads, TypeOK
<1>3. CASE PollOther(c)
  BY <1>1, <1>3 DEF PollOther, Receive, ReadsOther, Reads, TypeOK
<1>4. CASE \/ PollAge(c) \/ PollFlag(c) \/ PollOnline(c)
           \/ PollStatus(c) \/ PollCallback(c) \/ PollCopy(c)
  BY <1>1, <1>4 DEF PollAge, PollFlag, PollOnline, PollStatus, PollCallback, PollCopy, MovesOn,
                    TypeOK
<1>5. CASE PollQuery(c)
  <2>1. /\ pollPc[c] = "query" /\ pollPc'[c] = "poll"
        /\ UNCHANGED <<now, alive, registerRepTickout, checkVars, up, down>>
        /\ send(c, Query) \/ UNCHANGED buffVars
    BY <1>1, <1>5 DEF PollQuery, TypeOK
  <2>2. CASE send(c, Query)
    BY <1>1, <2>1, <2>2, SendPushes DEF QueuesQuery
  <2>3. CASE UNCHANGED buffVars
    BY <2>1, <2>3 DEF MovesOn
  <2>4. QED
    BY <2>1, <2>2, <2>3
<1>6. CASE PollSend(c)
  <2>1. PICK m \in {Head(vecSendBuff[c])} \cup (IF pollPc[c] = "torn" THEN {Garbled} ELSE {}) :
           up' = [up EXCEPT ![c] = Append(@, m)]
    BY <1>6 DEF PollSend
  <2>2. m \in {Head(vecSendBuff[c]), Garbled}
    BY <2>1
  <2>3. /\ vecSendBuff[c] # <<>> /\ pollPc[c] \in {"copy", "torn"}
        /\ vecSendBuff' = [vecSendBuff EXCEPT ![c] = Tail(@)]
        /\ pollPc' = [pollPc EXCEPT ![c] = "poll"]
        /\ UNCHANGED <<now, alive, sharedVars, capacity, checkVars, down>>
    BY <1>1, <1>6 DEF PollSend, CopiedIsThere
  <2>4. m = Head(vecSendBuff[c]) \/ (pollPc[c] = "torn" /\ m = Garbled)
    BY <2>1
  <2>5. Writes(c, m)
    BY <1>1, <2>1, <2>3, <2>4 DEF Writes, TypeOK
  <2>6. QED
    BY <2>2, <2>3, <2>5
<1>7. QED
  BY <1>2, <1>3, <1>4, <1>5, <1>6 DEF PollThread

(* A round that begins queues a heartbeat, or leaves the queue alone.      *)
BeginsRound(c) ==
  /\ checkPc[c] = "sample"
  /\ checkPc'[c] = "age"
  /\ curTickcount'[c] = now

QueuesBeat(c) ==
  /\ BeginsRound(c)
  /\ lastTickcount'[c] = now
  /\ Pushes(c, Register(now))
  /\ pollPc'[c] = IF Tears(c) THEN "torn" ELSE pollPc[c]

NotDue(c) ==
  /\ BeginsRound(c)
  /\ ~(Minus(now, lastTickcount[c]) > Heartbeat)
  /\ UNCHANGED <<lastTickcount[c], vecSendBuff[c], capacity[c], pollPc[c]>>

(* The rest of a round; only an old answer leads to a verdict.             *)
GoesOn(c) ==
  /\ checkPc[c] # "sample"
  /\ checkPc'[c] = "verdict" =>
       checkPc[c] = "age" /\ Minus(curTickcount[c], registerRepTickout[c]) >= Offline
  /\ UNCHANGED <<curTickcount[c], lastTickcount[c], vecSendBuff[c], capacity[c], pollPc[c]>>

LEMMA CheckEffects ==
  ASSUME TypeOK, NEW c \in Tasks, CheckThread(c)
  PROVE  /\ UNCHANGED <<now, alive, registerRepTickout, up, down>>
         /\ QueuesBeat(c) \/ NotDue(c) \/ GoesOn(c)
<1> USE DEF sharedVars, buffVars, pollVars, checkVars, netVars
<1>1. CASE CheckSample(c)
  <2>1. /\ checkPc[c] = "sample" /\ checkPc'[c] = "age" /\ curTickcount'[c] = now
        /\ UNCHANGED <<now, alive, registerRepTickout, up, down>>
    BY <1>1 DEF CheckSample, BeginRound, TypeOK
  <2>2. CASE Minus(now, lastTickcount[c]) > Heartbeat
    <3>1. /\ send(c, Register(now))
          /\ pollPc' = [pollPc EXCEPT ![c] = IF Tears(c) THEN "torn" ELSE @]
          /\ lastTickcount' = [lastTickcount EXCEPT ![c] = now]
      BY <1>1, <2>2 DEF CheckSample, BeginRound
    <3>2. QED
      BY <2>1, <3>1, SendPushes DEF QueuesBeat, BeginsRound, TypeOK
  <2>3. CASE ~(Minus(now, lastTickcount[c]) > Heartbeat)
    <3>1. UNCHANGED <<buffVars, pollPc, lastTickcount>>
      BY <1>1, <2>3 DEF CheckSample, BeginRound
    <3>2. QED
      BY <2>1, <2>3, <3>1 DEF NotDue, BeginsRound
  <2>4. QED
    BY <2>2, <2>3
<1>2. CASE CheckAge(c)
  BY <1>2 DEF CheckAge, CompareAge, GoesOn, TypeOK
<1>3. CASE CheckVerdict(c) \/ CheckStatus(c) \/ CheckCallback(c)
  BY <1>3 DEF CheckVerdict, CheckStatus, CheckCallback, GoesOn, TypeOK
<1>4. QED
  BY <1>1, <1>2, <1>3 DEF CheckThread

(* The service sends: the copy under way is torn when the vector grows.    *)
SendsTo(c, peer) ==
  /\ Cardinality({i \in DOMAIN vecSendBuff[c] : vecSendBuff[c][i].type = "app"}) < MaxBuff
  /\ Pushes(c, App(peer))
  /\ pollPc'[c] = IF Tears(c) THEN "torn" ELSE pollPc[c]
  /\ UNCHANGED <<registerRepTickout[c], up[c], down[c]>>

LEMMA AppEffects ==
  ASSUME TypeOK, NEW c \in Tasks, NEW peer \in Tasks, AppSend(c, peer)
  PROVE  /\ UNCHANGED <<now, alive, checkPc, curTickcount, lastTickcount>>
         /\ SendsTo(c, peer)
<1>1. /\ send(c, App(peer)) /\ pollPc' = [pollPc EXCEPT ![c] = IF Tears(c) THEN "torn" ELSE @]
      /\ UNCHANGED <<now, alive, sharedVars, checkVars, netVars>>
      /\ Cardinality({i \in DOMAIN vecSendBuff[c] : vecSendBuff[c][i].type = "app"}) < MaxBuff
  BY DEF AppSend
<1>2. QED
  BY <1>1, SendPushes DEF SendsTo, sharedVars, checkVars, netVars, TypeOK

(* The steps of a service leave these of another alone, as in OwnStep.     *)
LEMMA OwnVector ==
  ASSUME TypeOK, NEW c \in Tasks, NEW d \in Tasks, d # c,
         \/ PollThread(c) \/ CheckThread(c) \/ Crash(c) \/ Restart(c)
         \/ (\E peer \in Tasks : AppSend(c, peer))
  PROVE  UNCHANGED <<capacity[d], pollPc[d], lastTickcount[d]>>
<1> USE DEF sharedVars, buffVars, pollVars, checkVars, netVars
<1>1. CASE PollThread(c)
  <2>1. CASE PollRegister(c) \/ PollOther(c)
    BY <2>1 DEF PollRegister, Answered, PollOther, TypeOK
  <2>2. CASE \/ PollAge(c) \/ PollFlag(c) \/ PollOnline(c)
             \/ PollStatus(c) \/ PollCallback(c) \/ PollCopy(c)
    BY <2>2 DEF PollAge, PollFlag, PollOnline, PollStatus, PollCallback, PollCopy, TypeOK
  <2>3. CASE PollQuery(c)
    BY <2>3 DEF PollQuery, send, TypeOK
  <2>4. CASE PollSend(c)
    BY <2>4 DEF PollSend, TypeOK
  <2>5. QED
    BY <1>1, <2>1, <2>2, <2>3, <2>4 DEF PollThread
<1>2. CASE CheckThread(c)
  <2>1. CASE CheckSample(c)
    BY <2>1 DEF CheckSample, BeginRound, send, TypeOK
  <2>2. CASE CheckAge(c) \/ CheckVerdict(c) \/ CheckStatus(c) \/ CheckCallback(c)
    BY <2>2 DEF CheckAge, CompareAge, CheckVerdict, CheckStatus, CheckCallback, TypeOK
  <2>3. QED
    BY <1>2, <2>1, <2>2 DEF CheckThread
<1>3. CASE \E peer \in Tasks : AppSend(c, peer)
  BY <1>3 DEF AppSend, send, TypeOK
<1>4. CASE Crash(c)
  <2>1. /\ capacity' = [capacity EXCEPT ![c] = 0] /\ pollPc' = [pollPc EXCEPT ![c] = "poll"]
        /\ lastTickcount' = [lastTickcount EXCEPT ![c] = 0]
    BY <1>4 DEF Crash
  <2>2. QED
    BY <2>1 DEF TypeOK
<1>5. CASE Restart(c)
  BY <1>5 DEF Restart
<1>6. QED
  BY <1>1, <1>2, <1>3, <1>4, <1>5

LEMMA OnlyTheLiving ==
  ASSUME NEW c \in Tasks,
         PollThread(c) \/ CheckThread(c) \/ (\E peer \in Tasks : AppSend(c, peer))
  PROVE  alive[c]
  BY DEF PollThread, PollRegister, Answered, PollAge, PollFlag, PollOnline, PollOther, Receive,
         PollStatus, PollCallback, PollQuery, PollCopy, PollSend, CheckThread, CheckSample, BeginRound, CheckAge, CompareAge,
         CheckVerdict, CheckStatus, CheckCallback, AppSend

(* The heartbeats on their way to the broker were sent in the current tick *)
(* of the clock, whoever sent them; a dead service has none left to send.  *)
TimelyOf(c) ==
  /\ Fresh(vecSendBuff[c], now)
  /\ Fresh(up[c], now)
  /\ ~alive[c] => vecSendBuff[c] = <<>>

TimelyInv ==
  /\ now \in 1 .. MaxTime
  /\ brokerUp
  /\ beat \in [Tasks -> Nat]
  /\ \A c \in Tasks : TimelyOf(c)

LEMMA QueueTypes ==
  ASSUME TypeOK, NEW c \in Tasks
  PROVE  /\ vecSendBuff[c] \in Seq(Message) /\ up[c] \in Seq(Message) /\ down[c] \in Seq(Message)
         /\ capacity[c] \in Nat /\ Len(vecSendBuff[c]) \in Nat /\ Len(up[c]) \in Nat
         /\ Len(down[c]) \in Nat /\ now \in Nat /\ curTickcount[c] \in Nat
         /\ lastTickcount[c] \in Nat /\ registerRepTickout[c] \in Nat
  BY LenProperties DEF TypeOK

(* A service of its own accord. *)
LEMMA TimelyOwn ==
  ASSUME TypeInv, NEW c \in Tasks, TimelyOf(c),
         \/ PollThread(c) \/ CheckThread(c) \/ Crash(c) \/ Restart(c)
         \/ (\E peer \in Tasks : AppSend(c, peer))
  PROVE  TimelyOf(c)'
<1>1. /\ TypeOK /\ vecSendBuff[c] \in Seq(Message) /\ up[c] \in Seq(Message) /\ now \in Nat
      /\ Fresh(vecSendBuff[c], now) /\ Fresh(up[c], now)
  BY QueueTypes DEF TypeInv, TimelyOf
<1>2. SUFFICES /\ Fresh(vecSendBuff'[c], now) /\ Fresh(up'[c], now)
               /\ ~alive'[c] => vecSendBuff'[c] = <<>>
               /\ now' = now
  BY DEF TimelyOf, Fresh
<1>3. ASSUME NEW m \in Message, m.type = "register" => m.ts = now, Pushes(c, m)
      PROVE  Fresh(vecSendBuff'[c], now)
  BY <1>1, <1>3, QueueAppend DEF Pushes
<1>4. /\ Query \in Message /\ Query.type = "query"
      /\ Register(now) \in Message /\ Register(now).ts = now
      /\ \A peer \in Tasks : App(peer) \in Message /\ App(peer).type = "app"
      /\ Garbled \in Message /\ Garbled.type = "garbled"
  BY <1>1, MessageTypes DEF Query, Register, App, Garbled
<1>5. CASE PollThread(c)
  <2>1. alive[c] /\ UNCHANGED <<now, alive>>
    BY <1>5, OnlyTheLiving, PollEffects
  <2>2. CASE ReadsAnswer(c) \/ ReadsOther(c) \/ MovesOn(c)
    BY <1>1, <2>1, <2>2 DEF ReadsAnswer, ReadsOther, Reads, MovesOn
  <2>3. CASE QueuesQuery(c)
    BY <1>1, <1>3, <1>4, <2>1, <2>3 DEF QueuesQuery
  <2>4. CASE \E m \in {Head(vecSendBuff[c]), Garbled} : Writes(c, m)
    <3>1. PICK m \in {Head(vecSendBuff[c]), Garbled} : Writes(c, m)
      BY <2>4
    <3>2. vecSendBuff[c] # <<>> /\ vecSendBuff'[c] = Tail(vecSendBuff[c]) /\ up'[c] = Append(up[c], m)
      BY <3>1 DEF Writes
    <3>3. m \in Message /\ (m.type = "register" => m.ts = now) /\ Fresh(Tail(vecSendBuff[c]), now)
      BY <1>1, <1>4, <3>2, QueueTake
    <3>4. QED
      BY <1>1, <2>1, <3>2, <3>3, QueueAppend
  <2>5. QED
    BY <1>5, <2>2, <2>3, <2>4, PollEffects
<1>6. CASE CheckThread(c)
  <2>1. alive[c] /\ UNCHANGED <<now, alive, up>>
    BY <1>1, <1>6, OnlyTheLiving, CheckEffects
  <2>2. QueuesBeat(c) \/ NotDue(c) \/ GoesOn(c)
    BY <1>1, <1>6, CheckEffects
  <2>3. Fresh(vecSendBuff'[c], now)
    BY <1>1, <1>3, <1>4, <2>2 DEF QueuesBeat, NotDue, GoesOn
  <2>4. QED
    BY <1>1, <2>1, <2>3
<1>7. CASE \E peer \in Tasks : AppSend(c, peer)
  <2>1. PICK peer \in Tasks : AppSend(c, peer)
    BY <1>7
  <2>2. alive[c] /\ UNCHANGED <<now, alive>> /\ SendsTo(c, peer)
    BY <1>1, <1>7, <2>1, OnlyTheLiving, AppEffects
  <2>3. QED
    BY <1>1, <1>3, <1>4, <2>2 DEF SendsTo
<1>8. CASE Crash(c)
  <2>1. /\ vecSendBuff' = [vecSendBuff EXCEPT ![c] = <<>>] /\ now' = now
        /\ \E rest \in {<<>>, up[c]} : up' = [up EXCEPT ![c] = rest]
    BY <1>8 DEF Crash
  <2>2. vecSendBuff'[c] = <<>> /\ up'[c] \in {<<>>, up[c]}
    BY <1>1, <2>1 DEF TypeOK
  <2>3. QED
    BY <1>1, <2>1, <2>2, QueueNone
<1>9. CASE Restart(c)
  <2>1. ~alive[c] /\ UNCHANGED <<vecSendBuff, up, now>>
    BY <1>9 DEF Restart, buffVars, netVars
  <2>2. QED
    BY <1>1, <2>1 DEF TimelyOf
<1>10. QED
  BY <1>5, <1>6, <1>7, <1>8, <1>9

(* The clock moves when everything has been delivered. *)
LEMMA TickIsQuiet ==
  ASSUME TypeOK, TimelyInv, BusTick, NEW c \in Tasks
  PROVE  /\ vecSendBuff[c] = <<>> /\ up[c] = <<>>
         /\ alive[c] => /\ checkPc[c] = "sample" /\ curTickcount[c] = now
                        /\ pollPc[c] = "poll" /\ down[c] = <<>>
         /\ scanPc = "sleep" /\ now < MaxTime /\ now' = now + 1
         /\ UNCHANGED <<alive, sharedVars, buffVars, pollVars, checkVars, netVars>>
         /\ UNCHANGED <<brokerVars, asked>>
<1>1. Settled /\ Tick /\ UNCHANGED <<brokerVars, asked>>
  BY DEF BusTick
<1>2. up[c] = <<>> /\ scanPc = "sleep"
  BY <1>1 DEF Settled, TimelyInv
<1>3. Len(up[c]) < Hwm
  BY <1>2, TaskAssumption
<1>4. vecSendBuff[c] = <<>>
  <2>1. CASE alive[c]
    BY <1>1, <1>2, <1>3, <2>1, TaskAssumption DEF Settled
  <2>2. CASE ~alive[c]
    BY <2>2 DEF TimelyInv, TimelyOf
  <2>3. QED
    BY <2>1, <2>2
<1>5. alive[c] => /\ checkPc[c] = "sample" /\ curTickcount[c] = now
                  /\ pollPc[c] = "poll" /\ down[c] = <<>>
  BY <1>1 DEF Settled
<1>6. now < MaxTime /\ now' = now + 1
      /\ UNCHANGED <<alive, sharedVars, buffVars, pollVars, checkVars, netVars>>
  BY <1>1 DEF Tick
<1>7. QED
  BY <1>1, <1>2, <1>4, <1>5, <1>6

(* The steps of the bus, one service c in view: a service of its own       *)
(* accord, c or another, the consumer, the scan, and the clock.            *)
LEMMA BusSteps ==
  ASSUME ~BrokerMayCrash, brokerUp, [BusNext]_busVars
  PROVE  \/ \E e \in Tasks : \/ ServicePoll(e) \/ ServiceCheck(e)
                             \/ ServiceCrash(e) \/ ServiceRestart(e)
                             \/ (\E peer \in Tasks : Ask(e, peer))
         \/ \E e \in Tasks : Consume(e)
         \/ BrokerScan
         \/ BusTick
         \/ UNCHANGED busVars
  BY DEF BusNext, BrokerCrash, BrokerRestart

(* The services leave the broker alone, and the broker the services.       *)
LEMMA ServiceSteps ==
  ASSUME NEW e \in Tasks,
         \/ ServicePoll(e) \/ ServiceCheck(e) \/ ServiceCrash(e) \/ ServiceRestart(e)
         \/ (\E peer \in Tasks : Ask(e, peer))
  PROVE  /\ UNCHANGED <<brokerUp, onlineServices, beat, scanPc, startTick, keies, key, diff>>
         /\ \/ PollThread(e) \/ CheckThread(e) \/ Crash(e) \/ Restart(e)
            \/ (\E peer \in Tasks : AppSend(e, peer))
  BY DEF ServicePoll, ServiceCheck, ServiceCrash, ServiceRestart, Ask, brokerVars, registryVars

LEMMA ScanSteps ==
  ASSUME BrokerScan
  PROVE  UNCHANGED <<vars, asked, brokerUp, beat>>
  BY DEF BrokerScan, taskVars, Registry!StartScan, Registry!ReadEntry, Registry!RemoveEntry,
         Registry!EndScan

LEMMA TimelyStep ==
  ASSUME ~BrokerMayCrash, TypeInv, TimelyInv, [BusNext]_busVars
  PROVE  TimelyInv'
<1>1. /\ TypeOK /\ now \in 1 .. MaxTime /\ brokerUp /\ beat \in [Tasks -> Nat]
      /\ \A c \in Tasks : TimelyOf(c)
  BY DEF TypeInv, TimelyInv
<1>2. ASSUME NEW c \in Tasks, UNCHANGED <<vecSendBuff[c], up[c], alive[c], now>>
      PROVE  TimelyOf(c)'
  BY <1>1, <1>2 DEF TimelyOf, Fresh
<1>3. ASSUME NEW e \in Tasks, \/ ServicePoll(e) \/ ServiceCheck(e)
                              \/ ServiceCrash(e) \/ ServiceRestart(e)
                              \/ (\E peer \in Tasks : Ask(e, peer))
      PROVE  TimelyInv'
  <2>1. /\ UNCHANGED <<brokerUp, beat>>
        /\ \/ PollThread(e) \/ CheckThread(e) \/ Crash(e) \/ Restart(e)
           \/ (\E peer \in Tasks : AppSend(e, peer))
    BY <1>3, ServiceSteps
  <2>2. ASSUME NEW c \in Tasks, c # e
        PROVE  TimelyOf(c)' /\ now' = now
    BY <1>1, <1>2, <2>1, <2>2, OwnStep
  <2>3. TimelyOf(e)'
    BY <1>1, <2>1, TimelyOwn
  <2>4. now' = now
    BY <1>1, <2>1, PollEffects, CheckEffects, AppEffects DEF Crash, Restart
  <2>5. QED
    BY <1>1, <2>1, <2>2, <2>3, <2>4 DEF TimelyInv
<1>4. ASSUME NEW e \in Tasks, Consume(e)
      PROVE  TimelyInv'
  <2>1. /\ up[e] # <<>> /\ up' = [up EXCEPT ![e] = Tail(@)]
        /\ UNCHANGED <<now, alive, vecSendBuff, brokerUp>>
    BY <1>4 DEF Consume, buffVars
  <2>2. beat' \in [Tasks -> Nat]
    <3>1. UNCHANGED beat \/ beat' = [beat EXCEPT ![e] = now]
      BY <1>4 DEF Consume, ConsumeRegister, ConsumeQuery, ConsumeApp, ConsumeGarbled
    <3>2. QED
      BY <1>1, <3>1
  <2>3. ASSUME NEW c \in Tasks
        PROVE  TimelyOf(c)'
    <3>1. CASE c # e
      BY <1>1, <1>2, <2>1, <3>1 DEF TypeOK
    <3>2. CASE c = e
      <4>1. up[e] \in Seq(Message) /\ up'[e] = Tail(up[e]) /\ Fresh(up[e], now)
        BY <1>1, <2>1 DEF TypeOK, TimelyOf
      <4>2. Fresh(up'[e], now)
        BY <2>1, <4>1, QueueTake
      <4>3. QED
        BY <1>1, <2>1, <3>2, <4>2 DEF TimelyOf, Fresh
    <3>3. QED
      BY <3>1, <3>2
  <2>4. QED
    BY <1>1, <2>1, <2>2, <2>3 DEF TimelyInv
<1>5. CASE BrokerScan
  BY <1>1, <1>2, <1>5, ScanSteps DEF TimelyInv, vars, buffVars, netVars
<1>6. CASE BusTick
  <2>1. /\ now < MaxTime /\ now' = now + 1 /\ UNCHANGED <<alive, vecSendBuff, up, brokerUp, beat>>
    BY <1>1, <1>6, TickIsQuiet DEF buffVars, netVars, brokerVars, registryVars, BusTick, Tick
  <2>2. ASSUME NEW c \in Tasks
        PROVE  vecSendBuff'[c] = <<>> /\ up'[c] = <<>>
    BY <1>1, <1>6, <2>1, TickIsQuiet
  <2>3. \A c \in Tasks : TimelyOf(c)'
    BY <2>2, QueueNone DEF TimelyOf, Fresh
  <2>4. now' \in 1 .. MaxTime
    BY <1>1, <2>1, TaskAssumption
  <2>5. QED
    BY <1>1, <2>1, <2>3, <2>4 DEF TimelyInv
<1>7. CASE UNCHANGED busVars
  BY <1>1, <1>2, <1>7 DEF TimelyInv, busVars, vars, buffVars, netVars, brokerVars, registryVars
<1>8. QED
  BY <1>1, <1>3, <1>4, <1>5, <1>6, <1>7, BusSteps

LEMMA InitTimely == BusInit => TimelyInv
<1> SUFFICES ASSUME BusInit
             PROVE  TimelyInv
  OBVIOUS
<1>1. now \in 1 .. MaxTime
  BY TaskAssumption, BusAssumption DEF BusInit, Init
<1>2. brokerUp /\ beat \in [Tasks -> Nat]
  BY DEF BusInit
<1>3. \A c \in Tasks : TimelyOf(c)
  BY QueueNone DEF BusInit, Init, TimelyOf
<1>4. QED
  BY <1>1, <1>2, <1>3 DEF TimelyInv

(* The poll thread has read an answer and has not queued its query yet.    *)
Busy(c) == pollPc[c] \in {"age", "flag", "online", "status", "callback", "query"}

(* At most one token is about, *)
AtMostOne(q, u, d, busy) ==
  /\ OneToken(q) /\ OneToken(u) /\ OneToken(d)
  /\ HasToken(q) => ~HasToken(u) /\ ~HasToken(d) /\ ~busy
  /\ HasToken(u) => ~HasToken(d) /\ ~busy
  /\ HasToken(d) => ~busy

(* or none. *)
Quiet(q, u, d, busy) == ~HasToken(q) /\ ~HasToken(u) /\ ~HasToken(d) /\ ~busy

(* A reliable service that has not begun the round of the current tick has *)
(* no token about; what it holds or receives is whole and of this tick.    *)
TokenOf(c) ==
  /\ alive[c]
  /\ AtMostOne(vecSendBuff[c], up[c], down[c], Busy(c))
  /\ curTickcount[c] < now => Quiet(vecSendBuff[c], up[c], down[c], Busy(c))
  /\ NoGarbled(vecSendBuff[c])
  /\ NoGarbled(down[c])
  /\ Fresh(down[c], now)

TokenInv == \A c \in Reliable : TokenOf(c)

(* The consumer moves the first message of e on; to others it gives        *)
(* messages of services only. *)
LEMMA ConsumeEffects ==
  ASSUME TypeOK, beat \in [Tasks -> Nat], NEW e \in Tasks, Consume(e), NEW c \in Tasks
  PROVE  /\ UNCHANGED <<now, alive, checkPc, curTickcount, lastTickcount, registerRepTickout,
                        vecSendBuff, capacity, pollPc, asked>>
         /\ c # e => /\ UNCHANGED <<up[c], beat[c]>>
                     /\ \/ UNCHANGED down[c]
                        \/ \E m \in Message : m.type = "app" /\ down'[c] = Append(down[c], m)
         /\ c = e => /\ up[e] # <<>> /\ up'[e] = Tail(up[e])
                     /\ \/ /\ Head(up[e]).type \in {"register", "query"}
                           /\ down'[e] = IF alive[e] /\ Len(down[e]) < Hwm
                                         THEN Append(down[e], Head(up[e])) ELSE down[e]
                           /\ beat'[e] = IF Head(up[e]).type = "register" THEN now ELSE beat[e]
                        \/ /\ ~IsToken(Head(up[e]))
                           /\ UNCHANGED beat[e]
                           /\ \/ UNCHANGED down[e]
                              \/ \E m \in Message : m.type = "app" /\ down'[e] = Append(down[e], m)
<1> DEFINE h == Head(up[e])
<1>1. /\ up[e] # <<>> /\ up' = [up EXCEPT ![e] = Tail(@)]
      /\ UNCHANGED <<now, alive, checkPc, curTickcount, lastTickcount, registerRepTickout,
                     vecSendBuff, capacity, pollPc, asked>>
      /\ ConsumeRegister(e, h) \/ ConsumeQuery(e, h) \/ ConsumeApp(e, h) \/ ConsumeGarbled(h)
  BY DEF Consume, sharedVars, buffVars, pollVars, checkVars
<1>2. (c # e => up'[c] = up[c]) /\ up'[e] = Tail(up[e])
  BY <1>1 DEF TypeOK
<1>3. ASSUME NEW k, NEW m, Deliver(k, m)
      PROVE  /\ c # k => UNCHANGED down[c]
             /\ c = k => down'[c] = IF alive[c] /\ Len(down[c]) < Hwm THEN Append(down[c], m)
                                    ELSE down[c]
  BY <1>3 DEF Deliver, TypeOK
<1>4. CASE ConsumeRegister(e, h)
  <2>1. h.type = "register" /\ beat' = [beat EXCEPT ![e] = now] /\ Deliver(e, h)
    BY <1>4 DEF ConsumeRegister
  <2>2. beat'[e] = now /\ (c # e => beat'[c] = beat[c])
    BY <2>1
  <2>3. QED
    BY <1>1, <1>2, <1>3, <2>1, <2>2
<1>5. CASE ConsumeQuery(e, h)
  <2>1. h.type = "query" /\ UNCHANGED beat /\ Deliver(e, h)
    BY <1>5 DEF ConsumeQuery
  <2>2. QED
    BY <1>1, <1>2, <1>3, <2>1
<1>6. CASE ConsumeApp(e, h)
  <2>1. h.type = "app" /\ UNCHANGED beat /\ (Deliver(h.peer, App(e)) \/ UNCHANGED down)
    BY <1>6 DEF ConsumeApp
  <2>2. App(e) \in Message /\ App(e).type = "app"
    BY DEF App, Message
  <2>3. UNCHANGED down[c] \/ down'[c] = Append(down[c], App(e))
    BY <1>3, <2>1
  <2>4. QED
    BY <1>1, <1>2, <2>1, <2>2, <2>3 DEF IsToken
<1>7. CASE ConsumeGarbled(h)
  BY <1>1, <1>2, <1>7 DEF ConsumeGarbled, IsToken
<1>8. QED
  BY <1>1, <1>4, <1>5, <1>6, <1>7

(* One token moves on, or a message that is none. *)
LEMMA TokenOwn ==
  ASSUME TypeInv, NEW c \in Tasks, TokenOf(c),
         ServicePoll(c) \/ ServiceCheck(c) \/ (\E peer \in Tasks : Ask(c, peer))
  PROVE  TokenOf(c)'
<1> DEFINE q == vecSendBuff[c]
           u == up[c]
           d == down[c]
<1>1. /\ TypeOK /\ q \in Seq(Message) /\ u \in Seq(Message) /\ d \in Seq(Message)
      /\ now \in Nat /\ curTickcount[c] \in Nat
  BY QueueTypes DEF TypeInv
<1>2. /\ alive[c] /\ AtMostOne(q, u, d, Busy(c)) /\ NoGarbled(q) /\ NoGarbled(d) /\ Fresh(d, now)
      /\ curTickcount[c] < now => Quiet(q, u, d, Busy(c))
  BY DEF TokenOf
<1>3. SUFFICES /\ alive'[c] /\ now' = now
               /\ AtMostOne(vecSendBuff'[c], up'[c], down'[c], Busy(c)')
               /\ curTickcount'[c] < now => Quiet(vecSendBuff'[c], up'[c], down'[c], Busy(c)')
               /\ NoGarbled(vecSendBuff'[c]) /\ NoGarbled(down'[c]) /\ Fresh(down'[c], now)
  BY DEF TokenOf, AtMostOne, Quiet, OneToken, HasToken, NoGarbled, Fresh
<1>4. /\ Query \in Message /\ Query.type = "query" /\ IsToken(Query)
      /\ Register(now) \in Message /\ Register(now).type = "register" /\ IsToken(Register(now))
      /\ \A peer \in Tasks : /\ App(peer) \in Message /\ App(peer).type = "app"
                             /\ ~IsToken(App(peer))
      /\ Garbled \in Message /\ Garbled.type = "garbled" /\ ~IsToken(Garbled)
  BY <1>1, MessageTypes DEF Query, Register, App, Garbled, IsToken
<1>5. CASE ServicePoll(c)
  <2>1. PollThread(c)
    BY <1>5 DEF ServicePoll
  <2>2. UNCHANGED <<now, alive, curTickcount>>
    BY <2>1, PollEffects
  <2>3. CASE ReadsAnswer(c)
    <3>1. /\ d # <<>> /\ down'[c] = Tail(d) /\ vecSendBuff'[c] = q /\ up'[c] = u
          /\ IsToken(Head(d)) /\ Busy(c)'
      BY <2>3 DEF ReadsAnswer, Reads, IsToken, Busy
    <3> HIDE DEF q, u, d
    <3>2. /\ HasToken(d) /\ OneToken(Tail(d)) /\ ~HasToken(Tail(d))
          /\ NoGarbled(Tail(d)) /\ Fresh(Tail(d), now)
      BY <1>1, <1>2, <3>1, QueueTake DEF AtMostOne
    <3>3. AtMostOne(q, u, Tail(d), TRUE) /\ ~Quiet(q, u, d, Busy(c))
      BY <1>2, <3>2 DEF AtMostOne, Quiet
    <3>4. QED
      BY <1>2, <2>2, <3>1, <3>2, <3>3 DEF AtMostOne, Quiet
  <2>4. CASE ReadsOther(c)
    <3>1. /\ d # <<>> /\ down'[c] = Tail(d) /\ vecSendBuff'[c] = q /\ up'[c] = u
          /\ Busy(c)' = Busy(c)
      BY <2>4 DEF ReadsOther, Reads, Busy
    <3> HIDE DEF q, u, d
    <3>2. /\ HasToken(Tail(d)) => HasToken(d)
          /\ OneToken(Tail(d)) /\ NoGarbled(Tail(d)) /\ Fresh(Tail(d), now)
      BY <1>1, <1>2, <3>1, QueueTake DEF AtMostOne
    <3>3. QED
      BY <1>2, <2>2, <3>1, <3>2 DEF AtMostOne, Quiet
  <2>5. CASE MovesOn(c)
    <3>1. /\ down'[c] = d /\ vecSendBuff'[c] = q /\ up'[c] = u
          /\ Busy(c)' => Busy(c)
      BY <2>5 DEF MovesOn, Busy
    <3> HIDE DEF q, u, d
    <3>2. QED
      BY <1>2, <2>2, <3>1 DEF AtMostOne, Quiet
  <2>6. CASE QueuesQuery(c)
    <3>1. /\ down'[c] = d /\ vecSendBuff'[c] = Append(q, Query) /\ up'[c] = u
          /\ Busy(c) /\ ~Busy(c)'
      BY <2>6 DEF QueuesQuery, Pushes, Busy
    <3> HIDE DEF q, u, d
    <3>2. ~HasToken(q) /\ ~HasToken(u) /\ ~HasToken(d)
      BY <1>2, <3>1 DEF AtMostOne
    <3>3. OneToken(Append(q, Query)) /\ NoGarbled(Append(q, Query))
      BY <1>1, <1>2, <1>4, <3>2, QueueAppend DEF AtMostOne
    <3>4. ~(curTickcount[c] < now)
      BY <1>2, <3>1 DEF Quiet
    <3>5. QED
      BY <1>2, <2>2, <3>1, <3>2, <3>3, <3>4 DEF AtMostOne
  <2>7. CASE \E m \in {Head(q), Garbled} : Writes(c, m)
    <3>1. PICK m \in {Head(q), Garbled} : Writes(c, m)
      BY <2>7
    <3>2. /\ q # <<>> /\ vecSendBuff'[c] = Tail(q) /\ up'[c] = Append(u, m) /\ down'[c] = d
          /\ ~Busy(c) /\ ~Busy(c)'
      BY <3>1 DEF Writes, Busy
    <3> HIDE DEF q, u, d
    <3>3. /\ m \in Message /\ (IsToken(m) => HasToken(q) /\ ~HasToken(Tail(q)))
          /\ HasToken(Tail(q)) => HasToken(q)
          /\ OneToken(Tail(q)) /\ NoGarbled(Tail(q))
      BY <1>1, <1>2, <1>4, <3>1, <3>2, QueueTake DEF AtMostOne
    <3>4. /\ OneToken(Append(u, m))
          /\ HasToken(Append(u, m)) <=> HasToken(u) \/ IsToken(m)
      BY <1>1, <1>2, <3>3, QueueAppend DEF AtMostOne
    <3>5. QED
      BY <1>2, <2>2, <3>2, <3>3, <3>4 DEF AtMostOne, Quiet
  <2>8. QED
    BY <2>1, <2>3, <2>4, <2>5, <2>6, <2>7, PollEffects
<1>6. CASE ServiceCheck(c)
  <2>1. CheckThread(c) /\ (checkPc[c] = "sample" => curTickcount[c] < now)
    BY <1>6 DEF ServiceCheck
  <2>2. UNCHANGED <<now, alive, up, down>>
    BY <1>1, <2>1, CheckEffects
  <2>3. CASE QueuesBeat(c)
    <3>1. /\ vecSendBuff'[c] = Append(q, Register(now)) /\ curTickcount'[c] = now
          /\ curTickcount[c] < now
      BY <2>1, <2>3 DEF QueuesBeat, BeginsRound, Pushes
    <3>2. Busy(c)' = Busy(c)
      BY <2>3 DEF QueuesBeat, Tears, Busy
    <3> HIDE DEF q, u, d
    <3>3. ~HasToken(q) /\ ~HasToken(u) /\ ~HasToken(d) /\ ~Busy(c)
      BY <1>2, <3>1 DEF Quiet
    <3>4. OneToken(Append(q, Register(now))) /\ NoGarbled(Append(q, Register(now)))
      BY <1>1, <1>2, <1>4, <3>3, QueueAppend DEF AtMostOne
    <3>5. up'[c] = u /\ down'[c] = d /\ ~(curTickcount'[c] < now)
      BY <1>1, <2>2, <3>1 DEF u, d
    <3>6. QED
      BY <1>2, <2>2, <3>1, <3>2, <3>3, <3>4, <3>5 DEF AtMostOne
  <2>4. CASE NotDue(c) \/ GoesOn(c)
    <3>1. vecSendBuff'[c] = q /\ up'[c] = u /\ down'[c] = d /\ Busy(c)' = Busy(c)
      BY <2>2, <2>4 DEF NotDue, GoesOn, Busy
    <3>2. curTickcount'[c] = curTickcount[c] \/ curTickcount'[c] = now
      BY <2>4 DEF NotDue, GoesOn, BeginsRound
    <3> HIDE DEF q, u, d
    <3>3. curTickcount'[c] < now => curTickcount[c] < now
      BY <1>1, <3>2
    <3>4. QED
      BY <1>2, <2>2, <3>1, <3>3
  <2>5. QED
    BY <1>1, <2>1, <2>3, <2>4, CheckEffects
<1>7. CASE \E peer \in Tasks : Ask(c, peer)
  <2>1. PICK peer \in Tasks : AppSend(c, peer)
    BY <1>7 DEF Ask
  <2>2. UNCHANGED <<now, alive, curTickcount>> /\ SendsTo(c, peer)
    BY <1>1, <2>1, AppEffects
  <2>3. vecSendBuff'[c] = Append(q, App(peer)) /\ up'[c] = u /\ down'[c] = d
    BY <2>2 DEF SendsTo, Pushes
  <2>4. Busy(c)' = Busy(c)
    BY <2>2 DEF SendsTo, Tears, Busy
  <2> HIDE DEF q, u, d
  <2>5. /\ OneToken(Append(q, App(peer))) /\ NoGarbled(Append(q, App(peer)))
        /\ HasToken(Append(q, App(peer))) <=> HasToken(q)
    BY <1>1, <1>2, <1>4, QueueAppend DEF AtMostOne
  <2>6. QED
    BY <1>2, <2>2, <2>3, <2>4, <2>5 DEF AtMostOne, Quiet
<1>8. QED
  BY <1>5, <1>6, <1>7

LEMMA TokenKept ==
  ASSUME NEW c \in Tasks, TokenOf(c),
         UNCHANGED <<now, alive[c], curTickcount[c], pollPc[c], vecSendBuff[c], up[c], down[c]>>
  PROVE  TokenOf(c)'
  BY DEF TokenOf, AtMostOne, Quiet, OneToken, HasToken, NoGarbled, Fresh, Busy

(* The consumer passes the token on or drops it. *)
LEMMA TokenConsume ==
  ASSUME TypeInv, TimelyInv, NEW e \in Tasks, Consume(e), NEW c \in Tasks, TokenOf(c)
  PROVE  TokenOf(c)'
<1> DEFINE q == vecSendBuff[c]
           u == up[c]
           d == down[c]
<1>1. /\ TypeOK /\ beat \in [Tasks -> Nat] /\ TimelyOf(c)
      /\ q \in Seq(Message) /\ u \in Seq(Message) /\ d \in Seq(Message)
  BY QueueTypes DEF TypeInv, TimelyInv
<1>2. /\ alive[c] /\ AtMostOne(q, u, d, Busy(c)) /\ NoGarbled(q) /\ NoGarbled(d) /\ Fresh(d, now)
      /\ curTickcount[c] < now => Quiet(q, u, d, Busy(c))
      /\ Fresh(u, now)
  BY <1>1 DEF TokenOf, TimelyOf
<1>3. UNCHANGED <<now, alive, curTickcount, vecSendBuff, pollPc>>
  BY <1>1, ConsumeEffects
<1>4. Busy(c)' = Busy(c) /\ vecSendBuff'[c] = q
  BY <1>3 DEF Busy
<1>5. SUFFICES /\ AtMostOne(q, up'[c], down'[c], Busy(c))
               /\ curTickcount[c] < now => Quiet(q, up'[c], down'[c], Busy(c))
               /\ NoGarbled(down'[c]) /\ Fresh(down'[c], now)
  BY <1>2, <1>3, <1>4 DEF TokenOf, AtMostOne, Quiet, OneToken, HasToken, NoGarbled, Fresh
<1>6. ASSUME NEW m \in Message, m.type = "app"
      PROVE  /\ OneToken(Append(d, m)) /\ (HasToken(Append(d, m)) <=> HasToken(d))
             /\ NoGarbled(Append(d, m)) /\ Fresh(Append(d, m), now)
  <2>1. ~IsToken(m)
    BY <1>6 DEF IsToken
  <2> HIDE DEF d
  <2>2. QED
    BY <1>1, <1>2, <1>6, <2>1, QueueAppend DEF AtMostOne
<1>7. CASE c # e
  <2>1. /\ up'[c] = u
        /\ \/ down'[c] = d
           \/ \E m \in Message : m.type = "app" /\ down'[c] = Append(d, m)
    BY <1>1, <1>7, ConsumeEffects
  <2> HIDE DEF q, u, d
  <2>2. QED
    BY <1>2, <1>6, <2>1 DEF AtMostOne, Quiet
<1>8. CASE c = e
  <2> DEFINE h == Head(u)
  <2>1. /\ u # <<>> /\ up'[c] = Tail(u)
        /\ \/ /\ h.type \in {"register", "query"}
              /\ down'[c] = d \/ down'[c] = Append(d, h)
           \/ /\ ~IsToken(h)
              /\ \/ down'[c] = d
                 \/ \E m \in Message : m.type = "app" /\ down'[c] = Append(d, m)
    BY <1>1, <1>8, ConsumeEffects
  <2>2. /\ h \in Message /\ OneToken(Tail(u)) /\ (HasToken(Tail(u)) => HasToken(u))
        /\ IsToken(h) => HasToken(u) /\ ~HasToken(Tail(u))
        /\ h.type = "register" => h.ts = now
    BY <1>1, <1>2, <2>1, QueueTake DEF AtMostOne
  <2> HIDE DEF q, u, d, h
  <2>3. CASE ~IsToken(h)
    BY <1>2, <1>6, <2>1, <2>2, <2>3 DEF AtMostOne, Quiet, IsToken
  <2>4. CASE IsToken(h)
    <3>1. ~HasToken(d) /\ ~HasToken(q) /\ ~HasToken(Tail(u)) /\ HasToken(u) /\ ~Busy(c)
      BY <1>2, <2>2, <2>4 DEF AtMostOne
    <3>2. down'[c] = d \/ down'[c] = Append(d, h)
      BY <2>1, <2>4
    <3>3. /\ OneToken(Append(d, h)) /\ Fresh(Append(d, h), now) /\ NoGarbled(Append(d, h))
      BY <1>1, <1>2, <2>2, <2>4, <3>1, QueueAppend DEF AtMostOne, IsToken
    <3>4. ~(curTickcount[c] < now)
      BY <1>2, <3>1 DEF Quiet
    <3>5. QED
      BY <1>2, <2>1, <2>2, <3>1, <3>2, <3>3, <3>4 DEF AtMostOne
  <2>5. QED
    BY <2>3, <2>4
<1>9. QED
  BY <1>7, <1>8

LEMMA TokenStep ==
  ASSUME ~BrokerMayCrash, TypeInv, TimelyInv, TokenInv, [BusNext]_busVars
  PROVE  TokenInv'
<1> SUFFICES ASSUME NEW c \in Reliable
             PROVE  TokenOf(c)'
  BY DEF TokenInv
<1>1. TypeOK /\ c \in Tasks /\ TokenOf(c) /\ brokerUp
  BY BusAssumption DEF TypeInv, TokenInv, TimelyInv
<1>2. ASSUME NEW e \in Tasks, \/ ServicePoll(e) \/ ServiceCheck(e)
                              \/ ServiceCrash(e) \/ ServiceRestart(e)
                              \/ (\E peer \in Tasks : Ask(e, peer))
      PROVE  TokenOf(c)'
  <2>1. CASE e = c
    <3>1. ~ServiceCrash(e) /\ ~ServiceRestart(e)
      BY <1>1, <2>1 DEF ServiceCrash, ServiceRestart, Restart, TokenOf
    <3>2. QED
      BY <1>1, <1>2, <2>1, <3>1, TokenOwn
  <2>2. CASE e # c
    <3>1. \/ PollThread(e) \/ CheckThread(e) \/ Crash(e) \/ Restart(e)
          \/ (\E peer \in Tasks : AppSend(e, peer))
      BY <1>2, ServiceSteps
    <3>2. QED
      BY <1>1, <2>2, <3>1, OwnStep, OwnVector, TokenKept
  <2>3. QED
    BY <2>1, <2>2
<1>3. ASSUME NEW e \in Tasks, Consume(e)
      PROVE  TokenOf(c)'
  BY <1>1, <1>3, TokenConsume
<1>4. CASE BrokerScan \/ UNCHANGED busVars
  <2>1. UNCHANGED vars
    BY <1>4, ScanSteps DEF busVars
  <2>2. QED
    BY <1>1, <2>1, TokenKept DEF vars, checkVars, pollVars, buffVars, netVars
<1>5. CASE BusTick
  <2>1. /\ alive'[c] /\ pollPc'[c] = "poll" /\ NoGarbled(vecSendBuff'[c])
        /\ vecSendBuff'[c] = <<>> /\ up'[c] = <<>> /\ down'[c] = <<>>
    BY <1>1, <1>5, TickIsQuiet, QueueNone DEF TokenOf, buffVars, pollVars, netVars
  <2>2. QED
    BY <2>1 DEF TokenOf, AtMostOne, Quiet, OneToken, HasToken, NoGarbled, Fresh, Busy
<1>6. QED
  BY <1>1, <1>2, <1>3, <1>4, <1>5, BusSteps

LEMMA InitToken == BusInit => TokenInv
<1> SUFFICES ASSUME BusInit, NEW c \in Reliable
             PROVE  TokenOf(c)
  BY DEF TokenInv
<1>1. c \in Tasks
  BY BusAssumption
<1>2. QED
  BY <1>1 DEF BusInit, Init, TokenOf, AtMostOne, Quiet, OneToken, HasToken, NoGarbled, Fresh, Busy

-----------------------------------------------------------------------------
(* A heartbeat of c has been queued or written; or it is about, its answer *)
(* included. *)
Sent(c) == HasBeat(vecSendBuff[c]) \/ HasBeat(up[c])
Coming(c) == Sent(c) \/ HasBeat(down[c])

(* The rounds keep up with the clock, and a heartbeat that is about is the *)
(* last one queued. *)
PaceOf(c) ==
  /\ curTickcount[c] <= now
  /\ checkPc[c] # "sample" => curTickcount[c] = now
  /\ lastTickcount[c] <= now
  /\ now <= lastTickcount[c] + (Heartbeat + 1)
  /\ curTickcount[c] = now => now <= lastTickcount[c] + Heartbeat
  /\ Coming(c) => lastTickcount[c] = now
  /\ Len(vecSendBuff[c]) <= capacity[c]

PaceInv == \A c \in Reliable : PaceOf(c)

(* Where the heartbeats of c are after a step: none appears but a new one, *)
(* and only those of c count. *)
LEMMA BeatsOwn ==
  ASSUME TypeInv, NEW c \in Tasks, PollThread(c) \/ (\E peer \in Tasks : AppSend(c, peer))
  PROVE  /\ Sent(c)' => Sent(c)
         /\ HasBeat(down'[c]) => HasBeat(down[c])
         /\ ReadsAnswer(c) \/ UNCHANGED registerRepTickout[c]
         /\ ReadsAnswer(c) \/ (HasBeat(down[c]) => HasBeat(down'[c]))
         /\ Sent(c) => \/ Sent(c)'
                       \/ /\ pollPc[c] = "torn" /\ vecSendBuff[c] # <<>>
                          /\ Head(vecSendBuff[c]).type = "register" /\ pollPc'[c] = "poll"
<1> DEFINE q == vecSendBuff[c]
           u == up[c]
           d == down[c]
<1>1. TypeOK /\ q \in Seq(Message) /\ u \in Seq(Message) /\ d \in Seq(Message)
  BY QueueTypes DEF TypeInv
<1>2. /\ Query \in Message /\ Query.type = "query"
      /\ \A peer \in Tasks : App(peer) \in Message /\ App(peer).type = "app"
      /\ Garbled \in Message /\ Garbled.type = "garbled"
  BY MessageTypes, <1>1 DEF Query, App, Garbled, Message
<1>3. Sent(c)' <=> HasBeat(vecSendBuff'[c]) \/ HasBeat(up'[c])
  BY DEF Sent, HasBeat
<1>4. Sent(c) <=> HasBeat(q) \/ HasBeat(u)
  BY DEF Sent
<1>5. CASE ReadsAnswer(c)
  <2>1. d # <<>> /\ down'[c] = Tail(d) /\ vecSendBuff'[c] = q /\ up'[c] = u
    BY <1>5 DEF ReadsAnswer, Reads
  <2>2. HasBeat(Tail(d)) => HasBeat(d)
    BY <1>1, <2>1, QueueTake
  <2> HIDE DEF q, u, d
  <2>3. QED
    BY <1>3, <1>4, <1>5, <2>1, <2>2 DEF d
<1>6. CASE ReadsOther(c)
  <2>1. /\ d # <<>> /\ down'[c] = Tail(d) /\ vecSendBuff'[c] = q /\ up'[c] = u
        /\ Head(d).type # "register" /\ UNCHANGED registerRepTickout[c]
    BY <1>6 DEF ReadsOther, Reads
  <2>2. HasBeat(Tail(d)) <=> HasBeat(d)
    BY <1>1, <2>1, QueueTake
  <2>3. QED
    BY <1>3, <1>4, <2>1, <2>2
<1>7. CASE MovesOn(c)
  BY <1>3, <1>4, <1>7 DEF MovesOn
<1>8. CASE QueuesQuery(c)
  <2>1. /\ vecSendBuff'[c] = Append(q, Query) /\ up'[c] = u /\ down'[c] = d
        /\ UNCHANGED registerRepTickout[c]
    BY <1>8 DEF QueuesQuery, Pushes
  <2>2. HasBeat(Append(q, Query)) <=> HasBeat(q)
    BY <1>1, <1>2, QueueAppend
  <2>3. QED
    BY <1>3, <1>4, <2>1, <2>2
<1>9. CASE \E peer \in Tasks : AppSend(c, peer)
  <2>1. PICK peer \in Tasks : SendsTo(c, peer)
    BY <1>1, <1>9, AppEffects
  <2>2. /\ vecSendBuff'[c] = Append(q, App(peer)) /\ up'[c] = u /\ down'[c] = d
        /\ UNCHANGED registerRepTickout[c]
    BY <2>1 DEF SendsTo, Pushes
  <2>3. HasBeat(Append(q, App(peer))) <=> HasBeat(q)
    BY <1>1, <1>2, QueueAppend
  <2>4. QED
    BY <1>3, <1>4, <2>2, <2>3
<1>10. CASE \E m \in {Head(q), Garbled} : Writes(c, m)
  <2>1. PICK m \in {Head(q), Garbled} : Writes(c, m)
    BY <1>10
  <2>2. /\ q # <<>> /\ vecSendBuff'[c] = Tail(q) /\ up'[c] = Append(u, m) /\ down'[c] = d
        /\ UNCHANGED registerRepTickout[c] /\ pollPc'[c] = "poll"
        /\ m = Head(q) \/ (pollPc[c] = "torn" /\ m = Garbled)
    BY <2>1 DEF Writes
  <2>3. m \in Message /\ (HasBeat(q) <=> Head(q).type = "register" \/ HasBeat(Tail(q)))
    BY <1>1, <1>2, <2>1, <2>2, QueueTake
  <2>4. HasBeat(Append(u, m)) <=> HasBeat(u) \/ m.type = "register"
    BY <1>1, <2>3, QueueAppend
  <2>5. CASE m = Head(q)
    BY <1>3, <1>4, <2>2, <2>3, <2>4, <2>5
  <2>6. CASE pollPc[c] = "torn" /\ m = Garbled
    <3>1. m.type # "register"
      BY <1>2, <2>6
    <3>2. QED
      BY <1>3, <1>4, <2>2, <2>3, <2>4, <2>6, <3>1
  <2>7. QED
    BY <2>2, <2>5, <2>6
<1>11. QED
  BY <1>5, <1>6, <1>7, <1>8, <1>9, <1>10, PollEffects

(* The consumer takes a heartbeat: it is on record, and the answer gets    *)
(* through unless others send to the service.                              *)
LEMMA BeatsConsume ==
  ASSUME TypeInv, SourceInv, TimelyInv, NEW e \in Tasks, Consume(e), NEW c \in Tasks, TokenOf(c)
  PROVE  \/ /\ Sent(c)' <=> Sent(c)
            /\ HasBeat(down'[c]) <=> HasBeat(down[c])
            /\ UNCHANGED beat[c]
         \/ /\ Sent(c) /\ ~Sent(c)'
            /\ beat'[c] = now
            /\ AskersOf(c) = {} => HasBeat(down'[c])
<1> DEFINE q == vecSendBuff[c]
           u == up[c]
           d == down[c]
           h == Head(u)
<1>1. /\ TypeOK /\ beat \in [Tasks -> Nat] /\ PeersIn(d, AskersOf(c))
      /\ q \in Seq(Message) /\ u \in Seq(Message) /\ d \in Seq(Message)
  BY QueueTypes DEF TypeInv, TimelyInv, SourceInv, SourceOf
<1>2. alive[c] /\ AtMostOne(q, u, d, Busy(c)) /\ NoGarbled(d)
  BY DEF TokenOf
<1>3. vecSendBuff'[c] = q
  BY <1>1, ConsumeEffects
<1>4. /\ Sent(c)' <=> HasBeat(q) \/ HasBeat(up'[c])
      /\ Sent(c) <=> HasBeat(q) \/ HasBeat(u)
  BY <1>3 DEF Sent, HasBeat
<1>5. ASSUME NEW m \in Message, m.type # "register"
      PROVE  HasBeat(Append(d, m)) <=> HasBeat(d)
  BY <1>1, <1>5, QueueAppend
<1>6. CASE c # e
  <2>1. /\ up'[c] = u /\ UNCHANGED beat[c]
        /\ \/ down'[c] = d
           \/ \E m \in Message : m.type = "app" /\ down'[c] = Append(d, m)
    BY <1>1, <1>6, ConsumeEffects
  <2> HIDE DEF q, u, d
  <2>2. HasBeat(down'[c]) <=> HasBeat(d)
    BY <1>5, <2>1
  <2>3. QED
    BY <1>4, <2>1, <2>2 DEF d
<1>7. CASE c = e
  <2>1. /\ u # <<>> /\ up'[c] = Tail(u)
        /\ \/ /\ h.type \in {"register", "query"}
              /\ down'[c] = IF alive[c] /\ Len(d) < Hwm THEN Append(d, h) ELSE d
              /\ beat'[c] = IF h.type = "register" THEN now ELSE beat[c]
           \/ /\ ~IsToken(h)
              /\ UNCHANGED beat[c]
              /\ \/ down'[c] = d
                 \/ \E m \in Message : m.type = "app" /\ down'[c] = Append(d, m)
    BY <1>1, <1>7, ConsumeEffects
  <2>2. /\ h \in Message /\ (HasBeat(u) <=> h.type = "register" \/ HasBeat(Tail(u)))
        /\ IsToken(h) => HasToken(u) /\ ~HasToken(Tail(u))
    BY <1>1, <1>2, <2>1, QueueTake DEF AtMostOne
  <2>3. CASE h.type = "register"
    <3>1. IsToken(h)
      BY <2>3 DEF IsToken
    <3>2. beat'[c] = now /\ down'[c] = IF alive[c] /\ Len(d) < Hwm THEN Append(d, h) ELSE d
      BY <2>1, <2>3, <3>1
    <3>3. ~HasToken(q) /\ ~HasToken(d) /\ ~HasToken(Tail(u))
      BY <1>2, <2>2, <3>1 DEF AtMostOne
    <3>4. Sent(c) /\ ~Sent(c)'
      BY <1>4, <2>1, <2>2, <2>3, <3>3, BeatIsToken
    <3>5. ASSUME AskersOf(c) = {}
          PROVE  HasBeat(down'[c])
      <4>1. d = <<>>
        BY <1>1, <1>2, <3>3, <3>5, QueueEmpty
      <4>2. Len(d) < Hwm
        BY <4>1, TaskAssumption
      <4>3. down'[c] = Append(d, h)
        BY <1>2, <3>2, <4>2
      <4>4. QED
        BY <1>1, <2>2, <2>3, <4>3, QueueAppend
    <3>6. QED
      BY <3>2, <3>4, <3>5
  <2>4. CASE h.type # "register"
    <3>1. UNCHANGED beat[c]
      BY <2>1, <2>4
    <3>2. \/ down'[c] = d
          \/ \E m \in Message : m.type # "register" /\ down'[c] = Append(d, m)
      BY <2>1, <2>2, <2>4
    <3>3. HasBeat(down'[c]) <=> HasBeat(d)
      BY <1>5, <3>2
    <3>4. HasBeat(up'[c]) <=> HasBeat(u)
      BY <2>1, <2>2, <2>4
    <3>5. QED
      BY <1>4, <3>1, <3>3, <3>4
  <2>5. QED
    BY <2>3, <2>4
<1>8. QED
  BY <1>6, <1>7

LEMMA NoToken ==
  ASSUME TypeOK, NEW c \in Tasks, TokenOf(c), curTickcount[c] < now
  PROVE  ~Coming(c)
  BY BeatIsToken DEF TokenOf, Quiet, Coming, Sent

LEMMA PaceKept ==
  ASSUME NEW c \in Tasks, PaceOf(c), Coming(c)' => Coming(c),
         UNCHANGED <<now, curTickcount[c], checkPc[c], lastTickcount[c]>>,
         Len(vecSendBuff'[c]) <= capacity'[c]
  PROVE  PaceOf(c)'
  BY DEF PaceOf

LEMMA PaceOwn ==
  ASSUME TypeInv, NEW c \in Tasks, TokenOf(c), PaceOf(c),
         ServicePoll(c) \/ ServiceCheck(c) \/ (\E peer \in Tasks : Ask(c, peer))
  PROVE  PaceOf(c)'
<1> DEFINE q == vecSendBuff[c]
<1>1. /\ TypeOK /\ q \in Seq(Message) /\ now \in Nat /\ curTickcount[c] \in Nat
      /\ lastTickcount[c] \in Nat /\ capacity[c] \in Nat /\ Heartbeat \in Nat
  BY QueueTypes, TaskAssumption DEF TypeInv
<1>2. Len(q) <= capacity[c]
  BY DEF PaceOf
<1>3. ASSUME NEW m \in Message, Pushes(c, m)
      PROVE  Len(vecSendBuff'[c]) <= capacity'[c]
  <2>1. Len(vecSendBuff'[c]) = Len(q) + 1
    BY <1>1, <1>3, QueueAppend DEF Pushes
  <2>2. QED
    BY <1>2, <1>3, <2>1 DEF Pushes
<1>4. Query \in Message /\ Register(now) \in Message /\ \A peer \in Tasks : App(peer) \in Message
  BY <1>1, MessageTypes
<1>5. CASE ServicePoll(c)
  <2>1. PollThread(c)
    BY <1>5 DEF ServicePoll
  <2>2. Len(vecSendBuff'[c]) <= capacity'[c]
    <3>1. CASE ReadsAnswer(c) \/ ReadsOther(c) \/ MovesOn(c)
      BY <1>2, <3>1 DEF ReadsAnswer, ReadsOther, Reads, MovesOn
    <3>2. CASE QueuesQuery(c)
      BY <1>3, <1>4, <3>2 DEF QueuesQuery
    <3>3. CASE \E m \in {Head(vecSendBuff[c]), Garbled} : Writes(c, m)
      <4>1. q # <<>> /\ vecSendBuff'[c] = Tail(q) /\ capacity'[c] = capacity[c]
        BY <3>3 DEF Writes
      <4>2. Len(Tail(q)) = Len(q) - 1
        BY <1>1, <4>1, QueueTake
      <4>3. Len(q) \in Nat
        BY <1>1, LenProperties
      <4>4. QED
        BY <1>1, <1>2, <4>1, <4>2, <4>3
    <3>4. QED
      BY <2>1, <3>1, <3>2, <3>3, PollEffects
  <2>3. Coming(c)' => Coming(c)
    BY <2>1, BeatsOwn DEF Coming
  <2>4. QED
    BY <2>1, <2>2, <2>3, PollEffects, PaceKept
<1>6. CASE \E peer \in Tasks : Ask(c, peer)
  <2>1. PICK peer \in Tasks : AppSend(c, peer)
    BY <1>6 DEF Ask
  <2>2. Coming(c)' => Coming(c)
    BY <2>1, BeatsOwn DEF Coming
  <2>3. Len(vecSendBuff'[c]) <= capacity'[c]
    BY <1>1, <1>3, <1>4, <2>1, AppEffects DEF SendsTo
  <2>4. QED
    BY <1>1, <2>1, <2>2, <2>3, AppEffects, PaceKept
<1>7. CASE ServiceCheck(c)
  <2>1. CheckThread(c) /\ (checkPc[c] = "sample" => curTickcount[c] < now)
    BY <1>7 DEF ServiceCheck
  <2>2. UNCHANGED <<now, up, down>>
    BY <1>1, <2>1, CheckEffects
  <2>3. CASE QueuesBeat(c)
    <3>1. curTickcount'[c] = now /\ lastTickcount'[c] = now
      BY <2>3 DEF QueuesBeat, BeginsRound
    <3>2. Len(vecSendBuff'[c]) <= capacity'[c]
      BY <1>3, <1>4, <2>3 DEF QueuesBeat
    <3>3. QED
      BY <1>1, <2>2, <3>1, <3>2 DEF PaceOf
  <2>4. CASE NotDue(c)
    <3>1. /\ curTickcount'[c] = now /\ curTickcount[c] < now
          /\ UNCHANGED <<lastTickcount[c], vecSendBuff[c], capacity[c]>>
          /\ ~(Minus(now, lastTickcount[c]) > Heartbeat)
      BY <2>1, <2>4 DEF NotDue, BeginsRound
    <3>2. now <= lastTickcount[c] + Heartbeat
      BY <1>1, <3>1 DEF Minus, PaceOf
    <3>3. ~Coming(c)
      BY <1>1, <3>1, NoToken
    <3>4. ~Coming(c)'
      BY <2>2, <3>1, <3>3 DEF Coming, Sent, HasBeat
    <3>5. QED
      BY <1>1, <2>2, <3>1, <3>2, <3>4 DEF PaceOf
  <2>5. CASE GoesOn(c)
    <3>1. UNCHANGED <<curTickcount[c], lastTickcount[c], vecSendBuff[c], capacity[c]>>
      BY <2>5 DEF GoesOn
    <3>2. Coming(c)' <=> Coming(c)
      BY <2>2, <3>1 DEF Coming, Sent, HasBeat
    <3>3. curTickcount[c] = now
      BY <2>5 DEF GoesOn, PaceOf
    <3>4. QED
      BY <2>2, <3>1, <3>2, <3>3 DEF PaceOf
  <2>6. QED
    BY <1>1, <2>1, <2>3, <2>4, <2>5, CheckEffects
<1>8. QED
  BY <1>5, <1>6, <1>7

LEMMA PaceUntouched ==
  ASSUME NEW c \in Tasks, PaceOf(c),
         UNCHANGED <<now, curTickcount[c], checkPc[c], lastTickcount[c], capacity[c],
                     vecSendBuff[c], up[c], down[c]>>
  PROVE  PaceOf(c)'
  BY DEF PaceOf, Coming, Sent, HasBeat

LEMMA PaceStep ==
  ASSUME ~BrokerMayCrash, TypeInv, SourceInv, TimelyInv, TokenInv, PaceInv, [BusNext]_busVars
  PROVE  PaceInv'
<1> SUFFICES ASSUME NEW c \in Reliable
             PROVE  PaceOf(c)'
  BY DEF PaceInv
<1>1. TypeOK /\ c \in Tasks /\ TokenOf(c) /\ PaceOf(c) /\ brokerUp /\ beat \in [Tasks -> Nat]
  BY BusAssumption DEF TypeInv, TokenInv, PaceInv, TimelyInv
<1>2. ASSUME NEW e \in Tasks, \/ ServicePoll(e) \/ ServiceCheck(e)
                              \/ ServiceCrash(e) \/ ServiceRestart(e)
                              \/ (\E peer \in Tasks : Ask(e, peer))
      PROVE  PaceOf(c)'
  <2>1. CASE e = c
    <3>1. ~ServiceCrash(e) /\ ~ServiceRestart(e)
      BY <1>1, <2>1 DEF ServiceCrash, ServiceRestart, Restart, TokenOf
    <3>2. QED
      BY <1>1, <1>2, <2>1, <3>1, PaceOwn
  <2>2. CASE e # c
    <3>1. \/ PollThread(e) \/ CheckThread(e) \/ Crash(e) \/ Restart(e)
          \/ (\E peer \in Tasks : AppSend(e, peer))
      BY <1>2, ServiceSteps
    <3>2. QED
      BY <1>1, <2>2, <3>1, OwnStep, OwnVector, PaceUntouched
  <2>3. QED
    BY <2>1, <2>2
<1>3. ASSUME NEW e \in Tasks, Consume(e)
      PROVE  PaceOf(c)'
  <2>1. UNCHANGED <<now, checkPc, curTickcount, lastTickcount, vecSendBuff, capacity>>
    BY <1>1, <1>3, ConsumeEffects
  <2>2. CASE Coming(c)' => Coming(c)
    BY <1>1, <2>1, <2>2, PaceKept DEF PaceOf
  <2>3. Coming(c)' => Coming(c)
    BY <1>1, <1>3, BeatsConsume DEF Coming
  <2>4. QED
    BY <2>2, <2>3
<1>4. CASE BrokerScan \/ UNCHANGED busVars
  <2>1. UNCHANGED vars
    BY <1>4, ScanSteps DEF busVars
  <2>2. QED
    BY <1>1, <2>1, PaceUntouched DEF vars, checkVars, buffVars, netVars
<1>5. CASE BusTick
  <2>1. /\ alive[c] /\ checkPc[c] = "sample" /\ curTickcount[c] = now /\ now' = now + 1
        /\ vecSendBuff'[c] = <<>> /\ up'[c] = <<>> /\ down'[c] = <<>>
        /\ UNCHANGED <<checkPc, curTickcount, lastTickcount, vecSendBuff, capacity>>
    BY <1>1, <1>5, TickIsQuiet DEF TokenOf, buffVars, checkVars, netVars
  <2>2. ~Coming(c)'
    BY <2>1, QueueNone DEF Coming, Sent, HasBeat
  <2>3. now \in Nat /\ lastTickcount[c] \in Nat /\ Heartbeat \in Nat
    BY <1>1, QueueTypes, TaskAssumption
  <2>4. QED
    BY <1>1, <2>1, <2>2, <2>3 DEF PaceOf
<1>6. QED
  BY <1>1, <1>2, <1>3, <1>4, <1>5, BusSteps

LEMMA InitPace == BusInit => PaceInv
<1> SUFFICES ASSUME BusInit, NEW c \in Reliable
             PROVE  PaceOf(c)
  BY DEF PaceInv
<1>1. /\ now = Heartbeat + 1 /\ curTickcount[c] = 0 /\ lastTickcount[c] = 0 /\ checkPc[c] = "sample"
      /\ vecSendBuff[c] = <<>> /\ up[c] = <<>> /\ down[c] = <<>> /\ capacity[c] = 0
      /\ Heartbeat \in Nat
  BY BusAssumption, TaskAssumption DEF BusInit, Init
<1>2. ~Coming(c)
  BY <1>1, QueueNone DEF Coming, Sent
<1>3. QED
  BY <1>1, <1>2 DEF PaceOf

-----------------------------------------------------------------------------
(* How long a heartbeat may fail to arrive.                                *)
(*                                                                         *)
(* A copy is torn when the vector has to grow, so each torn copy of a      *)
(* heartbeat takes a larger vector, filled with messages of the service:   *)
(* after j torn copies in a row the capacity is more than j, and it grows  *)
(* under a heartbeat only while it is no more than MaxBuff.                *)

(* The copy of a heartbeat that is under way is torn. *)
TornBeat(c) == pollPc[c] = "torn" /\ Head(vecSendBuff[c]).type = "register"

(* No more than j heartbeats in a row have been lost since time r.         *)
Within(r, n, last, cap, torn, coming) ==
  \E j \in 0 .. MaxBuff :
    /\ j = 0 \/ j < cap
    /\ coming => /\ n <= r + (Heartbeat + 1) * (j + 1)
                 /\ torn => j + 1 <= MaxBuff /\ j + 1 < cap
    /\ ~coming => last <= r + (Heartbeat + 1) * j

LEMMA Periods ==
  ASSUME NEW j \in 0 .. MaxBuff
  PROVE  /\ (Heartbeat + 1) * j \in Nat
         /\ (Heartbeat + 1) * (j + 1) = (Heartbeat + 1) * j + (Heartbeat + 1)
         /\ (Heartbeat + 1) * (j + 1) <= LongestGap
<1>1. Heartbeat \in Nat /\ MaxBuff \in Nat /\ j \in Nat
  BY TaskAssumption
<1>2. PICK k \in Nat : MaxBuff = j + k
  <2>1. MaxBuff - j \in Nat /\ MaxBuff = j + (MaxBuff - j)
    BY <1>1
  <2>2. QED
    BY <2>1
<1>3. (Heartbeat + 1) * j \in Nat /\ (Heartbeat + 1) * k \in Nat
  BY <1>1, <1>2
<1>4. /\ (Heartbeat + 1) * (j + 1) = (Heartbeat + 1) * j + (Heartbeat + 1)
      /\ LongestGap = (Heartbeat + 1) * j + (Heartbeat + 1) * k + (Heartbeat + 1)
  BY <1>1, <1>2 DEF LongestGap
<1>5. QED
  BY <1>1, <1>3, <1>4

(* Nothing happens to the heartbeat. *)
LEMMA GapKept ==
  ASSUME NEW r \in Nat, NEW n \in Nat, NEW last \in Nat, NEW cap \in Nat, NEW cap2 \in Nat,
         NEW torn, NEW torn2, NEW coming, NEW coming2,
         Within(r, n, last, cap, torn, coming), cap <= cap2,
         torn2 => torn, coming2 <=> coming
  PROVE  Within(r, n, last, cap2, torn2, coming2)
<1>1. PICK j \in 0 .. MaxBuff :
        /\ j = 0 \/ j < cap
        /\ coming => n <= r + (Heartbeat + 1) * (j + 1) /\ (torn => j + 1 <= MaxBuff /\ j + 1 < cap)
        /\ ~coming => last <= r + (Heartbeat + 1) * j
  BY DEF Within
<1>2. /\ j = 0 \/ j < cap2
      /\ j + 1 < cap => j + 1 < cap2
  BY <1>1, TaskAssumption
<1>3. QED
  BY <1>1, <1>2 DEF Within

LEMMA GapSame ==
  ASSUME NEW r \in Nat, NEW n \in Nat, NEW last \in Nat, NEW cap \in Nat,
         NEW torn, NEW torn2, NEW coming, NEW coming2,
         Within(r, n, last, cap, torn, coming), torn2 => torn, coming2 <=> coming
  PROVE  Within(r, n, last, cap, torn2, coming2)
<1>1. cap <= cap
  OBVIOUS
<1>2. QED
  BY <1>1, GapKept

(* A torn copy is written. *)
LEMMA GapLost ==
  ASSUME NEW r \in Nat, NEW n \in Nat, NEW last \in Nat, NEW cap \in Nat,
         NEW torn, NEW torn2, NEW coming, NEW coming2,
         Within(r, n, last, cap, torn, coming), torn, coming, ~coming2, last <= n
  PROVE  Within(r, n, last, cap, torn2, coming2)
<1>1. PICK j \in 0 .. MaxBuff : /\ n <= r + (Heartbeat + 1) * (j + 1)
                                /\ j + 1 <= MaxBuff /\ j + 1 < cap
  BY DEF Within
<1>2. (Heartbeat + 1) * (j + 1) \in Nat
  BY TaskAssumption, Periods
<1>3. j + 1 \in 0 .. MaxBuff /\ last <= r + (Heartbeat + 1) * (j + 1)
  BY <1>1, <1>2, TaskAssumption
<1>4. QED
  BY <1>1, <1>3 DEF Within

(* It has arrived. *)
LEMMA GapHeard ==
  ASSUME NEW n \in Nat, NEW last \in Nat, NEW cap \in Nat, NEW torn, NEW coming,
         ~coming, last <= n
  PROVE  Within(n, n, last, cap, torn, coming)
<1>1. 0 \in 0 .. MaxBuff /\ n + (Heartbeat + 1) * 0 = n
  BY TaskAssumption
<1>2. QED
  BY <1>1 DEF Within

(* Time passes while none is about. *)
LEMMA GapPasses ==
  ASSUME NEW r \in Nat, NEW n \in Nat, NEW n2 \in Nat, NEW last \in Nat, NEW cap \in Nat,
         NEW torn, NEW torn2, NEW coming, NEW coming2,
         Within(r, n, last, cap, torn, coming), ~coming, ~coming2
  PROVE  Within(r, n2, last, cap, torn2, coming2)
  BY DEF Within

(* So it is never too long. *)
LEMMA GapEnds ==
  ASSUME NEW r \in Nat, NEW n \in Nat, NEW last \in Nat, NEW cap \in Nat, NEW torn, NEW coming,
         Within(r, n, last, cap, torn, coming), coming \/ n <= last + Heartbeat
  PROVE  /\ n <= r + LongestGap
         /\ ~coming => n + 1 <= r + LongestGap
<1>1. PICK j \in 0 .. MaxBuff :
        /\ coming => n <= r + (Heartbeat + 1) * (j + 1)
        /\ ~coming => last <= r + (Heartbeat + 1) * j
  BY DEF Within
<1>2. LongestGap \in Nat /\ Heartbeat \in Nat
  BY TaskAssumption DEF LongestGap
<1>3. /\ (Heartbeat + 1) * j \in Nat
      /\ (Heartbeat + 1) * (j + 1) = (Heartbeat + 1) * j + (Heartbeat + 1)
      /\ (Heartbeat + 1) * (j + 1) <= LongestGap
  BY Periods
<1>4. CASE coming
  BY <1>1, <1>2, <1>3, <1>4
<1>5. CASE ~coming
  BY <1>1, <1>2, <1>3, <1>5
<1>6. QED
  BY <1>4, <1>5

(* A vector that is full with a heartbeat at its head holds messages of    *)
(* the service otherwise, and one more fits under the bound.               *)
LEMMA FullOfApps ==
  ASSUME NEW q \in Seq(Message), q # <<>>, OneToken(q), NoGarbled(q), IsToken(Head(q)),
         Cardinality({i \in DOMAIN q : q[i].type = "app"}) < MaxBuff
  PROVE  Len(q) \in 1 .. MaxBuff
<1> DEFINE Apps == {i \in DOMAIN q : q[i].type = "app"}
<1>1. Len(q) \in Nat \ {0} /\ DOMAIN q = 1 .. Len(q) /\ Head(q) = q[1] /\ 1 \in 1 .. Len(q)
  BY LenProperties, HeadTailProperties, EmptySeq
<1>2. 2 .. Len(q) \subseteq Apps
  <2> SUFFICES ASSUME NEW i \in 2 .. Len(q)
               PROVE  q[i].type = "app" /\ i \in 1 .. Len(q)
    BY <1>1
  <2>1. i \in 1 .. Len(q) /\ i # 1
    BY <1>1
  <2>2. q[i].type \in {"register", "query", "app", "garbled"}
    <3>1. q[i] \in Message
      BY <2>1, ElementOfSeq
    <3>2. QED
      BY <3>1 DEF Message, Query, Garbled
  <2>3. ~IsToken(q[i])
    BY <1>1, <2>1 DEF OneToken
  <2>4. q[i].type # "garbled"
    BY <2>1 DEF NoGarbled
  <2>5. QED
    BY <2>1, <2>2, <2>3, <2>4 DEF IsToken
<1>3. IsFiniteSet(Apps)
  <2>1. IsFiniteSet(1 .. Len(q)) /\ Apps \subseteq 1 .. Len(q)
    BY <1>1, FS_Interval
  <2>2. QED
    BY <2>1, FS_Subset
<1>4. Cardinality(2 .. Len(q)) <= Cardinality(Apps)
  BY <1>2, <1>3, FS_Subset
<1>5. Cardinality(2 .. Len(q)) = Len(q) - 1
  BY <1>1, FS_Interval
<1>6. Cardinality(Apps) \in Nat
  BY <1>3, FS_CardinalityType
<1>7. QED
  BY <1>1, <1>4, <1>5, <1>6, TaskAssumption

(* The same of the state of a service. *)
LEMMA StillComing ==
  ASSUME TypeInv, TypeInv', NEW c \in Tasks, NEW r \in Nat, NEW coming, NEW coming2,
         Within(r, now, lastTickcount[c], capacity[c], TornBeat(c), coming),
         UNCHANGED <<now, lastTickcount[c]>>, capacity[c] <= capacity'[c],
         TornBeat(c)' => TornBeat(c), coming2 <=> coming
  PROVE  Within(r, now', lastTickcount'[c], capacity'[c], TornBeat(c)', coming2)
<1>1. /\ now \in Nat /\ lastTickcount[c] \in Nat /\ capacity[c] \in Nat /\ capacity'[c] \in Nat
  BY DEF TypeInv, TypeOK
<1>2. PICK j \in 0 .. MaxBuff :
        /\ j = 0 \/ j < capacity[c]
        /\ coming => /\ now <= r + (Heartbeat + 1) * (j + 1)
                     /\ TornBeat(c) => j + 1 <= MaxBuff /\ j + 1 < capacity[c]
        /\ ~coming => lastTickcount[c] <= r + (Heartbeat + 1) * j
  BY DEF Within
<1>3. /\ j = 0 \/ j < capacity'[c]
      /\ j + 1 < capacity[c] => j + 1 < capacity'[c]
  BY <1>1, <1>2, TaskAssumption
<1>4. /\ coming2 => /\ now' <= r + (Heartbeat + 1) * (j + 1)
                    /\ TornBeat(c)' => j + 1 <= MaxBuff /\ j + 1 < capacity'[c]
      /\ ~coming2 => lastTickcount'[c] <= r + (Heartbeat + 1) * j
  BY <1>2, <1>3
<1>5. QED
  BY <1>3, <1>4 DEF Within

LEMMA NowTorn ==
  ASSUME TypeInv, TypeInv', NEW c \in Tasks, NEW r \in Nat, NEW coming, NEW coming2,
         Within(r, now, lastTickcount[c], capacity[c], TornBeat(c), coming),
         UNCHANGED <<now, lastTickcount[c]>>, capacity[c] \in 1 .. MaxBuff,
         capacity[c] + 1 <= capacity'[c], coming2 <=> coming
  PROVE  Within(r, now', lastTickcount'[c], capacity'[c], TornBeat(c)', coming2)
<1>1. /\ now \in Nat /\ lastTickcount[c] \in Nat /\ capacity[c] \in Nat /\ capacity'[c] \in Nat
  BY DEF TypeInv, TypeOK
<1>2. PICK j \in 0 .. MaxBuff :
        /\ j = 0 \/ j < capacity[c]
        /\ coming => /\ now <= r + (Heartbeat + 1) * (j + 1)
                     /\ TornBeat(c) => j + 1 <= MaxBuff /\ j + 1 < capacity[c]
        /\ ~coming => lastTickcount[c] <= r + (Heartbeat + 1) * j
  BY DEF Within
<1>3. /\ j + 1 <= MaxBuff /\ j < capacity'[c] /\ j + 1 < capacity'[c]
  BY <1>1, <1>2, TaskAssumption
<1>4. /\ coming2 => /\ now' <= r + (Heartbeat + 1) * (j + 1)
                    /\ TornBeat(c)' => j + 1 <= MaxBuff /\ j + 1 < capacity'[c]
      /\ ~coming2 => lastTickcount'[c] <= r + (Heartbeat + 1) * j
  BY <1>2, <1>3
<1>5. QED
  BY <1>3, <1>4 DEF Within

(* A step of c itself keeps a gap that began at r, whether the answer is   *)
(* taken to be still coming or not. *)
LEMMA GapOwn ==
  ASSUME TypeInv, TypeInv', NEW c \in Tasks, TokenOf(c), PaceOf(c),
         NEW r \in Nat, NEW coming, NEW coming2,
         Sent(c) => coming, coming => Coming(c),
         Sent(c)' => coming2, coming2 => Sent(c)' \/ HasBeat(down[c]),
         (Sent(c)' <=> Sent(c)) => (coming2 <=> coming),
         Within(r, now, lastTickcount[c], capacity[c], TornBeat(c), coming),
         ServicePoll(c) \/ ServiceCheck(c) \/ (\E peer \in Tasks : Ask(c, peer))
  PROVE  Within(r, now', lastTickcount'[c], capacity'[c], TornBeat(c)', coming2)
<1> DEFINE q == vecSendBuff[c]
<1>1. /\ TypeOK /\ CopiedIsThere /\ q \in Seq(Message) /\ now \in Nat /\ curTickcount[c] \in Nat
      /\ lastTickcount[c] \in Nat /\ capacity[c] \in Nat /\ Len(q) \in Nat
      /\ lastTickcount'[c] \in Nat /\ capacity'[c] \in Nat
  BY QueueTypes DEF TypeInv, TypeOK
<1>2. /\ AtMostOne(q, up[c], down[c], Busy(c)) /\ NoGarbled(q)
      /\ lastTickcount[c] <= now /\ now <= lastTickcount[c] + (Heartbeat + 1)
      /\ Sent(c) => lastTickcount[c] = now
      /\ Len(q) <= capacity[c]
  BY DEF TokenOf, PaceOf, Coming
<1>3. ASSUME now' = now, lastTickcount'[c] = lastTickcount[c], capacity[c] <= capacity'[c],
             TornBeat(c)' => TornBeat(c), Sent(c)' <=> Sent(c)
      PROVE  Within(r, now', lastTickcount'[c], capacity'[c], TornBeat(c)', coming2)
  <2>1. coming2 <=> coming
    BY <1>3
  <2>2. QED
    BY <1>3, <2>1, StillComing
<1>4. CASE ServicePoll(c)
  <2>1. PollThread(c)
    BY <1>4 DEF ServicePoll
  <2>2. UNCHANGED <<now, lastTickcount>>
    BY <2>1, PollEffects
  <2>3. /\ pollPc'[c] # "torn" /\ capacity[c] <= capacity'[c]
        /\ UNCHANGED capacity[c] \/ pollPc[c] = "query"
    BY <1>1, <2>1, PollEffects DEF ReadsAnswer, ReadsOther, Reads, MovesOn, QueuesQuery, Pushes, Writes
  <2>4. ~TornBeat(c)'
    BY <2>3 DEF TornBeat
  <2>5. CASE Sent(c) => Sent(c)'
    <3>1. Sent(c)' <=> Sent(c)
      BY <2>1, <2>5, BeatsOwn
    <3>2. QED
      BY <1>3, <2>2, <2>3, <2>4, <3>1
  <2>6. CASE Sent(c) /\ ~Sent(c)'
    <3>1. pollPc[c] = "torn" /\ q # <<>> /\ Head(q).type = "register"
      BY <2>1, <2>6, BeatsOwn
    <3>2. TornBeat(c) /\ capacity'[c] = capacity[c]
      BY <2>3, <3>1 DEF TornBeat
    <3>3. HasToken(q)
      BY <1>1, <3>1, QueueTake DEF IsToken
    <3>4. ~HasBeat(down[c])
      BY <1>2, <3>3, BeatIsToken DEF AtMostOne
    <3>5. ~coming2 /\ coming
      BY <2>6, <3>4
    <3>6. Within(r, now, lastTickcount[c], capacity[c], TornBeat(c)', coming2)
      BY <1>1, <1>2, <2>6, <3>2, <3>5, GapLost
    <3>7. QED
      BY <2>2, <3>2, <3>6
  <2>7. QED
    BY <2>5, <2>6
<1>5. CASE ServiceCheck(c)
  <2>1. CheckThread(c) /\ (checkPc[c] = "sample" => curTickcount[c] < now)
    BY <1>5 DEF ServiceCheck
  <2>2. UNCHANGED <<now, up, down>>
    BY <1>1, <2>1, CheckEffects
  <2>3. CASE QueuesBeat(c)
    <3>1. /\ vecSendBuff'[c] = Append(q, Register(now)) /\ capacity[c] <= capacity'[c]
          /\ lastTickcount'[c] = now /\ curTickcount[c] < now
          /\ pollPc'[c] = IF Tears(c) THEN "torn" ELSE pollPc[c]
      BY <2>1, <2>3 DEF QueuesBeat, BeginsRound, Pushes
    <3>2. Register(now) \in Message /\ Register(now).type = "register"
      BY <1>1, MessageTypes DEF Register
    <3>3. ~Coming(c)
      BY <1>1, <3>1, NoToken
    <3>4. ~coming /\ ~HasBeat(q)
      BY <3>3 DEF Coming, Sent
    <3>5. Sent(c)'
      <4>1. HasBeat(vecSendBuff'[c])
        BY <1>1, <3>1, <3>2, QueueAppend
      <4>2. QED
        BY <4>1 DEF Sent, HasBeat
    <3>6. ~TornBeat(c)'
      <4>1. CASE q = <<>>
        BY <3>1, <4>1 DEF TornBeat, Tears, CopiedIsThere, TypeInv
      <4>2. CASE q # <<>>
        <5>1. Head(vecSendBuff'[c]) = Head(q) /\ Head(q).type # "register"
          BY <1>1, <3>1, <3>2, <3>4, <4>2, QueueAppend, QueueTake
        <5>2. QED
          BY <5>1 DEF TornBeat
      <4>3. QED
        BY <4>1, <4>2
    <3>7. now <= lastTickcount[c] + (Heartbeat + 1) /\ coming2
      BY <1>2, <3>5
    <3>8. PICK j \in 0 .. MaxBuff :
            /\ j = 0 \/ j < capacity[c]
            /\ lastTickcount[c] <= r + (Heartbeat + 1) * j
      BY <3>4 DEF Within
    <3>9. now <= r + (Heartbeat + 1) * (j + 1) /\ (j = 0 \/ j < capacity'[c])
      <4> HIDE DEF q
      <4>1. /\ Heartbeat \in Nat /\ MaxBuff \in Nat /\ (Heartbeat + 1) * j \in Nat
            /\ (Heartbeat + 1) * (j + 1) = (Heartbeat + 1) * j + (Heartbeat + 1)
        BY Periods, TaskAssumption
      <4>2. now <= r + (Heartbeat + 1) * (j + 1)
        BY <1>1, <3>7, <3>8, <4>1
      <4>3. j = 0 \/ j < capacity'[c]
        BY <1>1, <3>1, <3>8, <4>1
      <4>4. QED
        BY <4>2, <4>3
    <3>10. now' <= r + (Heartbeat + 1) * (j + 1)
      BY <2>2, <3>9
    <3>11. QED
      BY <3>6, <3>7, <3>9, <3>10 DEF Within
  <2>4. CASE NotDue(c) \/ GoesOn(c)
    <3>1. UNCHANGED <<lastTickcount[c], capacity[c], vecSendBuff[c], pollPc[c]>>
      BY <2>4 DEF NotDue, GoesOn
    <3>2. (TornBeat(c)' => TornBeat(c)) /\ (Sent(c)' <=> Sent(c))
      BY <2>2, <3>1 DEF TornBeat, Sent, HasBeat
    <3>3. QED
      BY <1>1, <1>3, <2>2, <3>1, <3>2
  <2>5. QED
    BY <1>1, <2>1, <2>3, <2>4, CheckEffects
<1>6. CASE \E peer \in Tasks : Ask(c, peer)
  <2>1. PICK peer \in Tasks : AppSend(c, peer)
    BY <1>6 DEF Ask
  <2>2. UNCHANGED <<now, lastTickcount>> /\ SendsTo(c, peer)
    BY <1>1, <2>1, AppEffects
  <2>3. /\ vecSendBuff'[c] = Append(q, App(peer)) /\ capacity[c] <= capacity'[c]
        /\ Grows(c) /\ 0 < capacity[c] => capacity[c] + 1 <= capacity'[c]
        /\ pollPc'[c] = IF Tears(c) THEN "torn" ELSE pollPc[c]
        /\ Cardinality({i \in DOMAIN q : q[i].type = "app"}) < MaxBuff
    BY <2>2 DEF SendsTo, Pushes
  <2>4. Sent(c)' <=> Sent(c)
    <3>1. ~(pollPc[c] = "torn" /\ pollPc'[c] = "poll")
      BY <2>3
    <3>2. QED
      BY <2>1, <3>1, BeatsOwn
  <2>5. ASSUME q # <<>>
        PROVE  Head(vecSendBuff'[c]) = Head(q)
    BY <1>1, <2>3, <2>5, MessageTypes, QueueAppend
  <2>6. CASE Tears(c) /\ TornBeat(c)'
    <3>1. q # <<>> /\ Grows(c)
      BY <1>1, <2>6 DEF Tears, CopiedIsThere
    <3>2. IsToken(Head(q))
      BY <2>5, <2>6, <3>1 DEF TornBeat, IsToken
    <3>3. Len(q) \in 1 .. MaxBuff
      BY <1>1, <1>2, <2>3, <3>1, <3>2, FullOfApps DEF AtMostOne
    <3>4. capacity[c] = Len(q)
      BY <1>1, <1>2, <3>1 DEF Grows
    <3>5. capacity[c] \in 1 .. MaxBuff /\ capacity[c] + 1 <= capacity'[c]
      BY <1>1, <2>3, <3>1, <3>3, <3>4
    <3>6. coming2 <=> coming
      BY <2>4
    <3>7. QED
      BY <2>2, <3>5, <3>6, NowTorn
  <2>7. CASE ~(Tears(c) /\ TornBeat(c)')
    <3>1. TornBeat(c)' => TornBeat(c)
      <4>1. SUFFICES ASSUME TornBeat(c)'
                     PROVE  TornBeat(c)
        OBVIOUS
      <4>2. ~Tears(c) /\ pollPc[c] = "torn"
        BY <2>3, <2>7, <4>1 DEF TornBeat
      <4>3. q # <<>>
        BY <1>1, <4>2 DEF CopiedIsThere
      <4>4. QED
        BY <2>5, <4>1, <4>2, <4>3 DEF TornBeat
    <3>2. QED
      BY <1>3, <2>2, <2>3, <2>4, <3>1
  <2>8. QED
    BY <2>6, <2>7
<1>7. QED
  BY <1>4, <1>5, <1>6

(* The time since the last heartbeat that was recorded, and, of a service  *)
(* no other has sent to, since the last one that was answered.             *)
RecordGap(c) ==
  beat[c] # 0 =>
    Within(beat[c], now, lastTickcount[c], capacity[c], TornBeat(c), Sent(c))

AnswerGap(c) ==
  AskersOf(c) = {} =>
    Within(registerRepTickout[c], now, lastTickcount[c], capacity[c], TornBeat(c), Coming(c))

GapInv == \A c \in Reliable : RecordGap(c) /\ AnswerGap(c)

LEMMA GapTypes ==
  ASSUME TypeInv, TypeInv', TimelyInv, NEW c \in Tasks
  PROVE  /\ beat[c] \in Nat /\ registerRepTickout[c] \in Nat /\ now \in Nat /\ now' \in Nat
         /\ lastTickcount[c] \in Nat /\ capacity[c] \in Nat
         /\ lastTickcount'[c] \in Nat /\ capacity'[c] \in Nat
  BY DEF TypeInv, TypeOK, TimelyInv

(* A step that neither brings a heartbeat of c on nor takes one away.      *)
LEMMA GapUntouched ==
  ASSUME TypeInv, TypeInv', TimelyInv, NEW c \in Tasks, RecordGap(c), AnswerGap(c),
         UNCHANGED <<now, lastTickcount[c], capacity[c], vecSendBuff[c], pollPc[c],
                     registerRepTickout[c], beat[c]>>,
         AskersOf(c) \subseteq AskersOf(c)',
         Sent(c)' <=> Sent(c), HasBeat(down'[c]) <=> HasBeat(down[c])
  PROVE  RecordGap(c)' /\ AnswerGap(c)'
<1>1. /\ beat[c] \in Nat /\ registerRepTickout[c] \in Nat /\ now \in Nat
      /\ lastTickcount[c] \in Nat /\ capacity[c] \in Nat
  BY GapTypes
<1>2. TornBeat(c)' => TornBeat(c)
  BY DEF TornBeat
<1>3. Coming(c)' <=> Coming(c)
  BY DEF Coming, HasBeat
<1>4. ASSUME NEW r \in Nat, NEW w, NEW w2, w2 <=> w,
             Within(r, now, lastTickcount[c], capacity[c], TornBeat(c), w)
      PROVE  Within(r, now', lastTickcount'[c], capacity'[c], TornBeat(c)', w2)
  <2>1. Within(r, now, lastTickcount[c], capacity[c], TornBeat(c)', w2)
    BY <1>1, <1>2, <1>4, GapKept
  <2>2. QED
    BY <2>1
<1>5. ASSUME beat'[c] # 0
      PROVE  Within(beat[c], now', lastTickcount'[c], capacity'[c], TornBeat(c)', Sent(c)')
  BY <1>1, <1>4, <1>5 DEF RecordGap
<1>6. ASSUME AskersOf(c)' = {}
      PROVE  Within(registerRepTickout[c], now', lastTickcount'[c], capacity'[c], TornBeat(c)',
                    Coming(c)')
  BY <1>1, <1>3, <1>4, <1>6 DEF AnswerGap
<1>7. QED
  BY <1>5, <1>6 DEF RecordGap, AnswerGap

(* A step of the service: an answer it reads ends the second gap.          *)
LEMMA GapsOwn ==
  ASSUME TypeInv, TypeInv', TimelyInv, NEW c \in Tasks, TokenOf(c), PaceOf(c),
         RecordGap(c), AnswerGap(c), [BusNext]_busVars,
         ServicePoll(c) \/ ServiceCheck(c) \/ (\E peer \in Tasks : Ask(c, peer))
  PROVE  RecordGap(c)' /\ AnswerGap(c)'
<1>1. /\ TypeOK /\ beat[c] \in Nat /\ registerRepTickout[c] \in Nat /\ now \in Nat
      /\ lastTickcount[c] \in Nat /\ capacity[c] \in Nat
      /\ lastTickcount'[c] \in Nat /\ capacity'[c] \in Nat
  BY GapTypes DEF TypeInv
<1>2. UNCHANGED beat /\ AskersOf(c) \subseteq AskersOf(c)'
  BY ServiceSteps, AskedGrows
<1>3. now' = now
  BY <1>1, PollEffects, CheckEffects, AppEffects DEF ServicePoll, ServiceCheck, Ask
<1>4. ASSUME beat'[c] # 0
      PROVE  Within(beat'[c], now', lastTickcount'[c], capacity'[c], TornBeat(c)', Sent(c)')
  <2>1. Within(beat[c], now, lastTickcount[c], capacity[c], TornBeat(c), Sent(c))
    BY <1>2, <1>4 DEF RecordGap
  <2>2. Sent(c) => Coming(c)
    BY DEF Coming
  <2>3. Within(beat[c], now', lastTickcount'[c], capacity'[c], TornBeat(c)', Sent(c)')
    BY <1>1, <2>1, <2>2, GapOwn
  <2>4. QED
    BY <1>2, <2>3
<1>5. ASSUME AskersOf(c)' = {}
      PROVE  Within(registerRepTickout'[c], now', lastTickcount'[c], capacity'[c], TornBeat(c)',
                    Coming(c)')
  <2>1. Within(registerRepTickout[c], now, lastTickcount[c], capacity[c], TornBeat(c), Coming(c))
    BY <1>2, <1>5 DEF AnswerGap
  <2>2. CASE ReadsAnswer(c) /\ ServicePoll(c)
    <3>1. /\ down[c] # <<>> /\ down'[c] = Tail(down[c]) /\ Head(down[c]).type = "register"
          /\ registerRepTickout'[c] = Head(down[c]).ts
          /\ UNCHANGED <<vecSendBuff[c], up[c]>>
      BY <2>2 DEF ReadsAnswer, Reads
    <3>2. down[c] \in Seq(Message) /\ Fresh(down[c], now)
          /\ AtMostOne(vecSendBuff[c], up[c], down[c], Busy(c))
      BY <1>1, QueueTypes DEF TokenOf
    <3>3. HasToken(down[c]) /\ ~HasToken(Tail(down[c])) /\ Head(down[c]).ts = now
      BY <3>1, <3>2, QueueTake DEF AtMostOne, IsToken
    <3>4. ~HasToken(vecSendBuff[c]) /\ ~HasToken(up[c])
      BY <3>2, <3>3 DEF AtMostOne
    <3>5. ~HasBeat(vecSendBuff'[c]) /\ ~HasBeat(up'[c]) /\ ~HasBeat(down'[c])
      BY <3>1, <3>3, <3>4, BeatIsToken
    <3>6. ~Coming(c)'
      BY <3>5 DEF Coming, Sent, HasBeat
    <3>7. UNCHANGED lastTickcount /\ lastTickcount[c] <= now
      BY <2>2, PollEffects DEF ServicePoll, PaceOf
    <3>8. Within(now, now, lastTickcount[c], capacity'[c], TornBeat(c)', Coming(c)')
      BY <1>1, <3>6, <3>7, GapHeard
    <3>9. QED
      BY <1>3, <3>1, <3>3, <3>7, <3>8
  <2>3. CASE ~(ReadsAnswer(c) /\ ServicePoll(c))
    <3>1. /\ HasBeat(down'[c]) <=> HasBeat(down[c])
          /\ registerRepTickout'[c] = registerRepTickout[c]
      <4>1. CASE ServicePoll(c) \/ (\E peer \in Tasks : Ask(c, peer))
        <5>1. PollThread(c) \/ (\E peer \in Tasks : AppSend(c, peer))
          BY <4>1 DEF ServicePoll, Ask
        <5>2. ~ReadsAnswer(c)
          <6>1. CASE ServicePoll(c)
            BY <2>3, <6>1
          <6>2. CASE \E peer \in Tasks : Ask(c, peer)
            <7>1. PICK peer \in Tasks : SendsTo(c, peer)
              BY <1>1, <6>2, AppEffects DEF Ask
            <7>2. vecSendBuff[c] \in Seq(Message) /\ App(peer) \in Message
              BY <1>1, QueueTypes, MessageTypes
            <7>3. Len(vecSendBuff'[c]) # Len(vecSendBuff[c])
              BY <1>1, <7>1, <7>2, QueueAppend, QueueTypes DEF SendsTo, Pushes
            <7>4. QED
              BY <7>3 DEF ReadsAnswer, Reads
          <6>3. QED
            BY <4>1, <6>1, <6>2
        <5>3. QED
          BY <5>1, <5>2, BeatsOwn
      <4>2. CASE ServiceCheck(c)
        BY <1>1, <4>2, CheckEffects DEF ServiceCheck
      <4>3. QED
        BY <4>1, <4>2
    <3>2. Coming(c)' <=> Sent(c)' \/ HasBeat(down'[c])
      BY DEF Coming, HasBeat
    <3>3. Coming(c) <=> Sent(c) \/ HasBeat(down[c])
      BY DEF Coming
    <3>4. Within(registerRepTickout[c], now', lastTickcount'[c], capacity'[c], TornBeat(c)',
                 Coming(c)')
      BY <1>1, <2>1, <3>1, <3>2, <3>3, GapOwn
    <3>5. QED
      BY <3>1, <3>4
  <2>4. QED
    BY <2>2, <2>3
<1>6. QED
  BY <1>4, <1>5 DEF RecordGap, AnswerGap

(* The consumer: a heartbeat it takes ends the first gap. *)
LEMMA GapsConsume ==
  ASSUME TypeInv, TypeInv', SourceInv, TimelyInv, NEW e \in Tasks, Consume(e), NEW c \in Tasks,
         TokenOf(c), PaceOf(c), RecordGap(c), AnswerGap(c)
  PROVE  RecordGap(c)' /\ AnswerGap(c)'
<1>1. /\ TypeOK /\ beat \in [Tasks -> Nat] /\ registerRepTickout[c] \in Nat /\ now \in Nat
      /\ lastTickcount[c] \in Nat /\ capacity[c] \in Nat
  BY GapTypes DEF TypeInv, TimelyInv
<1>2. UNCHANGED <<now, lastTickcount, registerRepTickout, vecSendBuff, capacity, pollPc, asked>>
  BY <1>1, ConsumeEffects
<1>3. AskersOf(c)' = AskersOf(c)
  BY <1>2 DEF AskersOf
<1>4. CASE /\ Sent(c)' <=> Sent(c)
           /\ HasBeat(down'[c]) <=> HasBeat(down[c])
           /\ UNCHANGED beat[c]
  BY <1>2, <1>3, <1>4, GapUntouched
<1>5. CASE /\ Sent(c) /\ ~Sent(c)'
           /\ beat'[c] = now
           /\ AskersOf(c) = {} => HasBeat(down'[c])
  <2>1. Within(now, now, lastTickcount[c], capacity[c], TornBeat(c)', Sent(c)')
    BY <1>1, <1>5, GapHeard DEF PaceOf
  <2>2. Within(beat'[c], now', lastTickcount'[c], capacity'[c], TornBeat(c)', Sent(c)')
    BY <1>2, <1>5, <2>1
  <2>3. ASSUME AskersOf(c)' = {}
        PROVE  Within(registerRepTickout'[c], now', lastTickcount'[c], capacity'[c], TornBeat(c)',
                      Coming(c)')
    <3>1. Coming(c) /\ Coming(c)'
      BY <1>3, <1>5, <2>3 DEF Coming, HasBeat
    <3>2. TornBeat(c)' => TornBeat(c)
      BY <1>2 DEF TornBeat
    <3>3. Within(registerRepTickout[c], now, lastTickcount[c], capacity[c], TornBeat(c), Coming(c))
      BY <1>3, <2>3 DEF AnswerGap
    <3>4. Within(registerRepTickout[c], now, lastTickcount[c], capacity[c], TornBeat(c)',
                 Coming(c)')
      BY <1>1, <3>1, <3>2, <3>3, GapSame
    <3>5. QED
      BY <1>2, <3>4
  <2>4. QED
    BY <2>2, <2>3 DEF RecordGap, AnswerGap
<1>6. QED
  BY <1>4, <1>5, BeatsConsume

LEMMA GapStep ==
  ASSUME ~BrokerMayCrash, TypeInv, TypeInv', SourceInv, TimelyInv, TokenInv, PaceInv, GapInv,
         [BusNext]_busVars
  PROVE  GapInv'
<1> SUFFICES ASSUME NEW c \in Reliable
             PROVE  RecordGap(c)' /\ AnswerGap(c)'
  BY DEF GapInv
<1>1. /\ TypeOK /\ c \in Tasks /\ TokenOf(c) /\ PaceOf(c) /\ brokerUp
      /\ RecordGap(c) /\ AnswerGap(c)
  BY BusAssumption DEF TypeInv, TokenInv, PaceInv, TimelyInv, GapInv
<1>2. AskersOf(c) \subseteq AskersOf(c)'
  BY <1>1, AskedGrows
<1>3. ASSUME UNCHANGED <<vecSendBuff[c], up[c], down[c]>>
      PROVE  (Sent(c)' <=> Sent(c)) /\ (HasBeat(down'[c]) <=> HasBeat(down[c]))
  BY <1>3 DEF Sent, HasBeat
<1>4. ASSUME NEW e \in Tasks, \/ ServicePoll(e) \/ ServiceCheck(e)
                              \/ ServiceCrash(e) \/ ServiceRestart(e)
                              \/ (\E peer \in Tasks : Ask(e, peer))
      PROVE  RecordGap(c)' /\ AnswerGap(c)'
  <2>1. CASE e = c
    <3>1. ~ServiceCrash(e) /\ ~ServiceRestart(e)
      BY <1>1, <2>1 DEF ServiceCrash, ServiceRestart, Restart, TokenOf
    <3>2. QED
      BY <1>1, <1>4, <2>1, <3>1, GapsOwn
  <2>2. CASE e # c
    <3>1. /\ \/ PollThread(e) \/ CheckThread(e) \/ Crash(e) \/ Restart(e)
             \/ (\E peer \in Tasks : AppSend(e, peer))
          /\ UNCHANGED beat
      BY <1>4, ServiceSteps
    <3>2. UNCHANGED <<now, lastTickcount[c], capacity[c], vecSendBuff[c], pollPc[c],
                      registerRepTickout[c], up[c], down[c]>>
      BY <1>1, <2>2, <3>1, OwnStep, OwnVector
    <3>3. QED
      BY <1>1, <1>2, <1>3, <3>1, <3>2, GapUntouched
  <2>3. QED
    BY <2>1, <2>2
<1>5. ASSUME NEW e \in Tasks, Consume(e)
      PROVE  RecordGap(c)' /\ AnswerGap(c)'
  BY <1>1, <1>5, GapsConsume
<1>6. CASE BrokerScan \/ UNCHANGED busVars
  <2>1. UNCHANGED <<vars, beat>>
    BY <1>6, ScanSteps DEF busVars, brokerVars, registryVars
  <2>2. QED
    BY <1>1, <1>2, <1>3, <2>1, GapUntouched
       DEF vars, checkVars, buffVars, netVars, pollVars, sharedVars
<1>7. CASE BusTick
  <2>1. /\ alive[c] /\ vecSendBuff[c] = <<>> /\ up[c] = <<>> /\ down[c] = <<>>
        /\ UNCHANGED <<vecSendBuff, up, down, lastTickcount, capacity, registerRepTickout, beat>>
    BY <1>1, <1>7, TickIsQuiet DEF TokenOf, buffVars, checkVars, netVars, sharedVars, brokerVars,
                                   registryVars
  <2>2. ~Coming(c) /\ ~Coming(c)' /\ ~Sent(c) /\ ~Sent(c)'
    BY <2>1, QueueNone DEF Coming, Sent, HasBeat
  <2>3. /\ beat[c] \in Nat /\ registerRepTickout[c] \in Nat /\ now \in Nat /\ now' \in Nat
        /\ lastTickcount[c] \in Nat /\ capacity[c] \in Nat
    BY <1>1, GapTypes
  <2>4. ASSUME NEW r \in Nat, NEW w, NEW w2, ~w, ~w2,
               Within(r, now, lastTickcount[c], capacity[c], TornBeat(c), w)
        PROVE  Within(r, now', lastTickcount'[c], capacity'[c], TornBeat(c)', w2)
    <3>1. Within(r, now', lastTickcount[c], capacity[c], TornBeat(c)', w2)
      BY <2>3, <2>4, GapPasses
    <3>2. QED
      BY <2>1, <3>1
  <2>5. ASSUME beat'[c] # 0
        PROVE  Within(beat[c], now', lastTickcount'[c], capacity'[c], TornBeat(c)', Sent(c)')
    BY <1>1, <2>1, <2>2, <2>3, <2>4, <2>5 DEF RecordGap
  <2>6. ASSUME AskersOf(c)' = {}
        PROVE  Within(registerRepTickout[c], now', lastTickcount'[c], capacity'[c], TornBeat(c)',
                      Coming(c)')
    BY <1>1, <1>2, <2>2, <2>3, <2>4, <2>6 DEF AnswerGap
  <2>7. QED
    BY <2>1, <2>5, <2>6 DEF RecordGap, AnswerGap
<1>8. QED
  BY <1>1, <1>4, <1>5, <1>6, <1>7, BusSteps

LEMMA InitGap == BusInit => GapInv
<1> SUFFICES ASSUME BusInit, NEW c \in Reliable
             PROVE  RecordGap(c) /\ AnswerGap(c)
  BY DEF GapInv
<1>1. /\ beat[c] = 0 /\ registerRepTickout[c] = now /\ lastTickcount[c] = 0 /\ capacity[c] = 0
      /\ vecSendBuff[c] = <<>> /\ up[c] = <<>> /\ down[c] = <<>> /\ now \in Nat
  BY BusAssumption, TaskAssumption DEF BusInit, Init
<1>2. ~Coming(c)
  BY <1>1, QueueNone DEF Coming, Sent
<1>3. Within(now, now, 0, 0, TornBeat(c), Coming(c))
  BY <1>1, <1>2, GapHeard
<1>4. QED
  BY <1>1, <1>3 DEF RecordGap, AnswerGap

(* So the age of an answer never reaches a timeout longer than that.       *)
VerdictInv == \A c \in Reliable : AskersOf(c) = {} => checkPc[c] # "verdict"

TimingInv == TasksInv /\ SourceInv /\ TimelyInv /\ TokenInv /\ PaceInv /\ GapInv

(* A service whose check thread has looked at the clock has had its answer *)
(* no longer ago than the longest gap. *)
LEMMA AnswerIsRecent ==
  ASSUME TimingInv, NEW c \in Reliable, curTickcount[c] = now
  PROVE  /\ AskersOf(c) = {} => now <= registerRepTickout[c] + LongestGap
         /\ beat[c] # 0 /\ ~Sent(c) => now + 1 <= beat[c] + LongestGap
<1>1. /\ c \in Tasks /\ PaceOf(c) /\ RecordGap(c) /\ AnswerGap(c) /\ beat[c] \in Nat
      /\ registerRepTickout[c] \in Nat /\ now \in Nat /\ lastTickcount[c] \in Nat
      /\ capacity[c] \in Nat
  BY BusAssumption DEF TimingInv, TasksInv, TypeInv, TypeOK, TimelyInv, PaceInv, GapInv
<1>2. now <= lastTickcount[c] + Heartbeat
  BY <1>1 DEF PaceOf
<1>3. ASSUME AskersOf(c) = {}
      PROVE  now <= registerRepTickout[c] + LongestGap
  BY <1>1, <1>2, <1>3, GapEnds DEF AnswerGap
<1>4. ASSUME beat[c] # 0, ~Sent(c)
      PROVE  now + 1 <= beat[c] + LongestGap
  BY <1>1, <1>2, <1>4, GapEnds DEF RecordGap
<1>5. QED
  BY <1>3, <1>4

(* Other steps than those of its own threads leave the state of a service. *)
LEMMA NodeUntouched ==
  ASSUME ~BrokerMayCrash, TimingInv, [BusNext]_busVars, NEW c \in Reliable,
         ~ServicePoll(c), ~ServiceCheck(c), \A peer \in Tasks : ~Ask(c, peer)
  PROVE  UNCHANGED <<checkPc[c], online[c]>>
<1>1. TypeOK /\ c \in Tasks /\ brokerUp /\ TokenOf(c)
  BY BusAssumption DEF TimingInv, TasksInv, TypeInv, TimelyInv, TokenInv
<1>2. ASSUME NEW e \in Tasks, \/ ServicePoll(e) \/ ServiceCheck(e)
                              \/ ServiceCrash(e) \/ ServiceRestart(e)
                              \/ (\E peer \in Tasks : Ask(e, peer))
      PROVE  UNCHANGED <<checkPc[c], online[c]>>
  <2>1. e # c
    BY <1>1, <1>2 DEF ServiceCrash, ServiceRestart, Restart, TokenOf
  <2>2. QED
    BY <1>1, <1>2, <2>1, ServiceSteps, OwnStep
<1>3. ASSUME NEW e \in Tasks, Consume(e)
      PROVE  UNCHANGED <<checkPc[c], online[c]>>
  BY <1>3 DEF Consume, checkVars, sharedVars
<1>4. CASE BrokerScan \/ UNCHANGED busVars
  BY <1>4, ScanSteps DEF busVars, vars, checkVars, sharedVars
<1>5. CASE BusTick
  BY <1>5 DEF BusTick, Tick, checkVars, sharedVars
<1>6. QED
  BY <1>1, <1>2, <1>3, <1>4, <1>5, BusSteps

LEMMA VerdictStep ==
  ASSUME ~BrokerMayCrash, LongestGap < Offline, TimingInv, VerdictInv, [BusNext]_busVars
  PROVE  VerdictInv'
<1> SUFFICES ASSUME NEW c \in Reliable, AskersOf(c)' = {}
             PROVE  checkPc'[c] # "verdict"
  BY DEF VerdictInv
<1>1. /\ TypeInv /\ TypeOK /\ c \in Tasks /\ PaceOf(c) /\ ClockOf(c)
      /\ now \in Nat /\ registerRepTickout[c] \in Nat
  BY BusAssumption DEF TimingInv, TasksInv, TypeInv, TypeOK, PaceInv, ClockInv
<1>2. AskersOf(c) = {} /\ checkPc[c] # "verdict"
  BY <1>1, AskedGrows DEF VerdictInv
<1>3. CASE ServicePoll(c) \/ (\E peer \in Tasks : Ask(c, peer))
  BY <1>1, <1>2, <1>3, PollEffects, AppEffects DEF ServicePoll, Ask
<1>4. CASE ServiceCheck(c)
  <2>1. SUFFICES ASSUME GoesOn(c), checkPc'[c] = "verdict"
                 PROVE  FALSE
    BY <1>1, <1>4, CheckEffects DEF ServiceCheck, QueuesBeat, NotDue, BeginsRound
  <2>2. checkPc[c] = "age" /\ Minus(curTickcount[c], registerRepTickout[c]) >= Offline
    BY <2>1 DEF GoesOn
  <2>3. curTickcount[c] = now /\ registerRepTickout[c] <= now
    BY <1>1, <2>2 DEF PaceOf, ClockOf, Horizon
  <2>4. now - registerRepTickout[c] >= Offline
    BY <1>1, <2>2, <2>3 DEF Minus
  <2>5. now <= registerRepTickout[c] + LongestGap
    BY <1>2, <2>3, AnswerIsRecent
  <2>6. LongestGap \in Nat /\ Offline \in Nat
    BY TaskAssumption DEF LongestGap
  <2>7. QED
    BY <1>1, <2>4, <2>5, <2>6
<1>5. QED
  BY <1>2, <1>3, <1>4, NodeUntouched

LEMMA InitVerdict == BusInit => VerdictInv
  BY BusAssumption DEF BusInit, Init, VerdictInv

LEMMA TimingStep ==
  ASSUME ~BrokerMayCrash, TimingInv, [BusNext]_busVars
  PROVE  TimingInv'
<1>1. /\ TasksInv /\ TypeInv /\ SourceInv /\ TimelyInv /\ TokenInv /\ PaceInv /\ GapInv
  BY DEF TimingInv, TasksInv
<1>2. TasksInv' /\ TypeInv'
  BY <1>1, BusKeepsTasks DEF TasksInv
<1>3. SourceInv' /\ TimelyInv' /\ TokenInv' /\ PaceInv'
  BY <1>1, SourceStep, TimelyStep, TokenStep, PaceStep
<1>4. GapInv'
  BY <1>1, <1>2, GapStep
<1>5. QED
  BY <1>2, <1>3, <1>4 DEF TimingInv

LEMMA InitTiming == BusInit => TimingInv
  BY InitTasks, InitBus, InitTimely, InitToken, InitPace, InitGap DEF TimingInv

-----------------------------------------------------------------------------
(* Every step of the bus is one of the registry, or changes nothing of it. *)
LEMMA BusStepOnRecord ==
  ASSUME ~BrokerMayCrash, TimingInv, [BusNext]_busVars
  PROVE  [Registry!Next]_Registry!vars
<1>1. /\ TypeInv /\ TypeOK /\ TimelyInv /\ brokerUp /\ now \in 1 .. MaxTime
      /\ \A c \in Tasks : TimelyOf(c)
  BY DEF TimingInv, TasksInv, TypeInv, TimelyInv
<1>2. ASSUME NEW e \in Tasks, \/ ServicePoll(e) \/ ServiceCheck(e)
                              \/ ServiceCrash(e) \/ ServiceRestart(e)
                              \/ (\E peer \in Tasks : Ask(e, peer))
      PROVE  UNCHANGED Registry!vars
  <2>1. now' = now
    BY <1>1, <1>2, PollEffects, CheckEffects, AppEffects
       DEF ServicePoll, ServiceCheck, ServiceCrash, Crash, ServiceRestart, Restart, Ask
  <2>2. QED
    BY <1>2, <2>1, ServiceSteps DEF Registry!vars, Registry!scanVars
<1>3. ASSUME NEW e \in Tasks, Consume(e)
      PROVE  [Registry!Next]_Registry!vars
  <2> DEFINE m == Head(up[e])
  <2>1. /\ up[e] # <<>> /\ UNCHANGED <<now, scanPc, startTick, keies, key, diff>>
        /\ ConsumeRegister(e, m) \/ ConsumeQuery(e, m) \/ ConsumeApp(e, m) \/ ConsumeGarbled(m)
    BY <1>3 DEF Consume
  <2>2. CASE ConsumeRegister(e, m)
    <3>1. up[e] \in Seq(Message) /\ Fresh(up[e], now)
      BY <1>1, QueueTypes DEF TimelyOf
    <3>2. m.ts = now
      BY <2>1, <2>2, <3>1, QueueTake DEF ConsumeRegister
    <3>3. Registry!Register(e, now)
      BY <2>1, <2>2, <3>2 DEF ConsumeRegister, Registry!Register, Registry!scanVars
    <3>4. now \in Registry!Timestamps
      BY <1>1, TaskAssumption DEF Registry!Timestamps
    <3>5. QED
      BY <3>3, <3>4 DEF Registry!Next, Registry!SendHeartbeat
  <2>3. CASE ConsumeQuery(e, m) \/ ConsumeApp(e, m) \/ ConsumeGarbled(m)
    BY <2>1, <2>3 DEF ConsumeQuery, ConsumeApp, ConsumeGarbled, Registry!vars, Registry!scanVars
  <2>4. QED
    BY <2>1, <2>2, <2>3
<1>4. CASE BrokerScan
  BY <1>4 DEF BrokerScan, Registry!Next, Registry!Scan
<1>5. CASE BusTick
  <2>1. ASSUME NEW c \in Reliable, beat[c] # 0
        PROVE  now + 1 - beat[c] <= LongestGap
    <3>1. c \in Tasks /\ alive[c] /\ beat[c] \in Nat /\ now \in Nat /\ LongestGap \in Nat
      BY <1>1, BusAssumption, TaskAssumption
         DEF TimingInv, TokenInv, TokenOf, TimelyInv, LongestGap
    <3>2. vecSendBuff[c] = <<>> /\ up[c] = <<>> /\ curTickcount[c] = now
      BY <1>1, <1>5, <3>1, TickIsQuiet
    <3>3. ~Sent(c)
      BY <3>2, QueueNone DEF Sent
    <3>4. QED
      BY <2>1, <3>1, <3>2, <3>3, AnswerIsRecent
  <2>2. scanPc = "sleep" /\ now < MaxTime /\ now' = now + 1 /\ UNCHANGED brokerVars
    BY <1>1, <1>5 DEF BusTick, Settled, Tick
  <2>3. Registry!Tick
    BY <2>1, <2>2 DEF Registry!Tick, Registry!scanVars, brokerVars, registryVars
  <2>4. QED
    BY <2>3 DEF Registry!Next
<1>6. CASE UNCHANGED busVars
  BY <1>6 DEF busVars, brokerVars, registryVars, vars, Registry!vars, Registry!scanVars
<1>7. QED
  BY <1>1, <1>2, <1>3, <1>4, <1>5, <1>6, BusSteps

LEMMA BusInitOnRecord == BusInit => Registry!Init
  BY DEF BusInit, Init, Registry!Init

(* The registry on the bus behaves as XmqRegistry says, with the heartbeats *)
(* of the services that do not crash no further apart than LongestGap.     *)
THEOREM BusImplementsRegistry ==
  ASSUME ~BrokerMayCrash
  PROVE  BusSpec => ImplementsRegistry
<1>1. TimingInv /\ [BusNext]_busVars => TimingInv'
  BY TimingStep
<1>2. TimingInv /\ [BusNext]_busVars => [Registry!Next]_Registry!vars
  BY BusStepOnRecord
<1>3. QED
  BY <1>1, <1>2, InitTiming, BusInitOnRecord, PTL DEF BusSpec, ImplementsRegistry, Registry!Spec

(* A service that does not crash, and is sent nothing, stays online when   *)
(* the timeout is longer than the longest gap. *)
THEOREM OnlineIsKept ==
  ASSUME ~BrokerMayCrash, LongestGap < Offline
  PROVE  BusSpec => OnlineStays
<1>1. TimingInv /\ VerdictInv /\ [BusNext]_busVars => TimingInv' /\ VerdictInv'
  BY TimingStep, VerdictStep
<1>2. TimingInv /\ VerdictInv /\ [BusNext]_busVars
        => [\A c \in Reliable :
              online[c] /\ (\A d \in Tasks : <<d, c>> \notin asked) => online'[c]]_busVars
  <2> SUFFICES ASSUME TimingInv, VerdictInv, [BusNext]_busVars, NEW c \in Reliable, online[c],
                      \A d \in Tasks : <<d, c>> \notin asked
               PROVE  online'[c]
    OBVIOUS
  <2>1. TypeOK /\ c \in Tasks /\ checkPc[c] # "verdict"
    BY BusAssumption DEF TimingInv, TasksInv, TypeInv, VerdictInv, AskersOf
  <2>2. CASE ServicePoll(c)
    BY <2>1, <2>2 DEF ServicePoll, PollThread, PollRegister, Answered, PollAge, PollFlag,
                      PollOnline, PollOther, PollStatus, PollCallback, PollQuery, PollCopy,
                      PollSend, sharedVars, TypeOK
  <2>3. CASE ServiceCheck(c)
    BY <2>1, <2>3 DEF ServiceCheck, CheckThread, CheckSample, BeginRound, CheckAge, CompareAge,
                      CheckVerdict, CheckStatus, CheckCallback, sharedVars
  <2>4. ASSUME NEW peer \in Tasks, Ask(c, peer)
        PROVE  online'[c]
    BY <2>4 DEF Ask, AppSend, sharedVars
  <2>5. QED
    BY <2>2, <2>3, <2>4, NodeUntouched
<1>3. QED
  BY <1>1, <1>2, InitTiming, InitVerdict, PTL DEF BusSpec, OnlineStays

(* XmqRegistry's theorems, of the registry on the bus. *)
OnRecord == INSTANCE XmqRegistry_proofs
  WITH Names <- Tasks, Steady <- Reliable, MaxGap <- LongestGap, MaxLag <- 0, MaxLead <- 0,
       MaxScan <- 0, Boot <- Heartbeat + 1, silent <- {}, stopped <- ~TRUE

LEMMA SameRegistryInit == Registry!Init => OnRecord!Init
  BY DEF Registry!Init, OnRecord!Init

LEMMA SameTimestamps == Registry!Timestamps = OnRecord!Timestamps
  BY DEF Registry!Timestamps, OnRecord!Timestamps

LEMMA SameRegistryNext == [Registry!Next]_Registry!vars => [OnRecord!Next]_OnRecord!vars
<1>1. ASSUME NEW n \in Tasks, Registry!SendHeartbeat(n)
      PROVE  OnRecord!SendHeartbeat(n)
  BY <1>1, SameTimestamps
     DEF Registry!SendHeartbeat, Registry!Register, Registry!processRegisterRequest,
         Registry!scanVars, OnRecord!SendHeartbeat, OnRecord!Register,
         OnRecord!processRegisterRequest, OnRecord!scanVars
<1>2. Registry!Scan => OnRecord!Scan
  BY DEF Registry!Scan, Registry!StartScan, Registry!ReadEntry, Registry!RemoveEntry,
         Registry!EndScan, Registry!ExitThread, Registry!OnlineNames, Registry!existed,
         Registry!Distance, OnRecord!Scan, OnRecord!StartScan, OnRecord!ReadEntry,
         OnRecord!RemoveEntry, OnRecord!EndScan, OnRecord!ExitThread, OnRecord!OnlineNames,
         OnRecord!existed, OnRecord!Distance
<1>3. Registry!Tick => OnRecord!Tick
  BY DEF Registry!Tick, OnRecord!Tick, Registry!scanVars, OnRecord!scanVars
<1>4. \A n \in Tasks : Registry!Silence(n) => OnRecord!Silence(n)
  BY DEF Registry!Silence, OnRecord!Silence, Registry!scanVars, OnRecord!scanVars
<1>5. Registry!Stop => OnRecord!Stop
  BY DEF Registry!Stop, OnRecord!Stop, Registry!scanVars, OnRecord!scanVars
<1>6. UNCHANGED Registry!vars => UNCHANGED OnRecord!vars
  BY DEF Registry!vars, OnRecord!vars, Registry!scanVars, OnRecord!scanVars
<1>7. QED
  BY <1>1, <1>2, <1>3, <1>4, <1>5, <1>6 DEF Registry!Next, OnRecord!Next

(* A service that does not crash is never missing from the broker's        *)
(* record once a heartbeat of it has arrived.                              *)
COROLLARY ReliableStayOnRecord ==
  ASSUME ~BrokerMayCrash, LongestGap <= Offline
  PROVE  BusSpec => [](\A c \in Reliable : beat[c] # 0 => Registry!existed(c))
<1>1. OnRecord!RegistryAssumption
  BY BusAssumption, TaskAssumption DEF OnRecord!RegistryAssumption, LongestGap
<1>2. OnRecord!Spec => [](OnRecord!SteadyStaysOnline /\ OnRecord!ScannedKeysPresent)
  BY <1>1, OnRecord!SteadyServicesStay
<1>3. Registry!Spec => OnRecord!Spec
  BY SameRegistryInit, SameRegistryNext, PTL DEF Registry!Spec, OnRecord!Spec
<1>4. OnRecord!SteadyStaysOnline => \A c \in Reliable : beat[c] # 0 => Registry!existed(c)
  BY DEF OnRecord!SteadyStaysOnline, OnRecord!existed, Registry!existed
<1>5. QED
  BY <1>2, <1>3, <1>4, BusImplementsRegistry, PTL DEF ImplementsRegistry

=============================================================================
