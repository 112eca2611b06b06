------------------------------ MODULE XmqBus ------------------------------
(***************************************************************************)
(* The message bus: the services' DataTask nodes, the connections, and the *)
(* broker with its dispatcher, its consumer and its service registry.      *)
(*                                                                         *)
(* The broker of DataTask is replaced by the one in xmq_host_server: the   *)
(* consumer takes one message at a time from any connection (the           *)
(* dispatcher is a zmq_proxy that passes them on in order), records        *)
(* heartbeats in the registry and forwards what is addressed to a          *)
(* registered service.                                                     *)
(*                                                                         *)
(* A tick stands for one round of the threads that sleep between rounds,   *)
(* the check threads and the registry's scan.  The threads that do not     *)
(* sleep run many times in it, so the clock does not advance before all    *)
(* have done the work the current tick gives them.                         *)
(***************************************************************************)
EXTENDS DataTask

CONSTANTS
  Reliable,        \* the services that do not crash
  Links,           \* <<c, d>>: service c sends messages to service d
  BrokerMayCrash   \* whether the broker does

ASSUME BusAssumption ==
  /\ Reliable \subseteq Tasks
  /\ Links \subseteq Tasks \X Tasks
  /\ BrokerMayCrash \in BOOLEAN
  /\ Heartbeat < MaxTime

VARIABLES
  brokerUp, onlineServices, beat, scanPc, startTick, keies, key, diff,
  asked            \* history: <<c, d>> when c has sent a message to d

registryVars == <<onlineServices, beat, scanPc, startTick, keies, key, diff>>
brokerVars == <<brokerUp, registryVars>>
taskVars == vars
busVars == <<vars, brokerVars, asked>>

(* The longest time between two heartbeats of a service that arrive.  The  *)
(* copy of a heartbeat is torn only when the messages queued behind it     *)
(* make the vector grow, and each time it happens it takes more of them:   *)
(* no more than MaxBuff heartbeats in a row are lost this way.             *)
LongestGap == (MaxBuff + 1) * (Heartbeat + 1)

(* The registry with the timing the bus gives it. *)
Registry == INSTANCE XmqRegistry
  WITH Names <- Tasks, Steady <- Reliable, MaxGap <- LongestGap, MaxLag <- 0, MaxLead <- 0,
       MaxScan <- 0, Boot <- Heartbeat + 1, silent <- {}, stopped <- ~TRUE

(* The tasks as a component whose environment is this broker. *)
Task == INSTANCE DataTask

BusInit ==
  /\ Init
  /\ brokerUp = TRUE
  /\ onlineServices = [c \in Tasks |-> 0]
  /\ beat = [c \in Tasks |-> 0]
  /\ scanPc = "sleep"
  /\ startTick = 0
  /\ keies = {}
  /\ key \in Tasks
  /\ diff = 0
  /\ asked = {}

-----------------------------------------------------------------------------
(* The consumer: afterPolledXMQDataNotification on the first message of c. *)

(* Fault: a service that is on record keeps its first timestamp. *)
ConsumeRegisterFirst(c, m) ==
  /\ m.type = "register"
  /\ onlineServices' = [onlineServices EXCEPT ![c] = IF @ = 0 THEN m.ts ELSE @]
  /\ beat' = [beat EXCEPT ![c] = now]
  /\ Deliver(c, m)

ConsumeRegister(c, m) ==
  /\ m.type = "register"
  /\ Registry!processRegisterRequest(c, m.ts)
  /\ beat' = [beat EXCEPT ![c] = now]
  /\ Deliver(c, m)

ConsumeQuery(c, m) ==
  /\ m.type = "query"
  /\ Deliver(c, m)
  /\ UNCHANGED <<onlineServices, beat>>

(* Fault: the message is forwarded as if it came from its destination. *)
ConsumeAppUnsigned(c, m) ==
  /\ m.type = "app"
  /\ IF Registry!existed(m.peer) THEN Deliver(m.peer, m) ELSE UNCHANGED down
  /\ UNCHANGED <<onlineServices, beat>>

(* A message for a service that is not registered goes nowhere, and its    *)
(* sender is not told. *)
ConsumeApp(c, m) ==
  /\ m.type = "app"
  /\ IF Registry!existed(m.peer) THEN Deliver(m.peer, App(c)) ELSE UNCHANGED down
  /\ UNCHANGED <<onlineServices, beat>>

ConsumeGarbled(m) ==
  /\ m.type = "garbled"
  /\ UNCHANGED <<onlineServices, beat, down>>

Consume(c) ==
  /\ brokerUp
  /\ up[c] # <<>>
  /\ up' = [up EXCEPT ![c] = Tail(@)]
  /\ LET m == Head(up[c])
     IN  ConsumeRegister(c, m) \/ ConsumeQuery(c, m) \/ ConsumeApp(c, m) \/ ConsumeGarbled(m)
  /\ UNCHANGED <<now, alive, sharedVars, buffVars, pollVars, checkVars, crashes>>
  /\ UNCHANGED <<brokerUp, scanPc, startTick, keies, key, diff, asked>>

BrokerScan ==
  /\ brokerUp
  /\ UNCHANGED <<taskVars, brokerUp, asked>>
  /\ \/ startTick < now /\ Registry!StartScan
     \/ \E k \in Tasks : Registry!ReadEntry(k)
     \/ Registry!RemoveEntry
     \/ Registry!EndScan

-----------------------------------------------------------------------------
(* The services. *)

ServicePoll(c) ==
  /\ PollThread(c)
  /\ UNCHANGED <<brokerVars, asked>>

ServiceCheck(c) ==
  /\ checkPc[c] = "sample" => curTickcount[c] < now
  /\ CheckThread(c)
  /\ UNCHANGED <<brokerVars, asked>>

Ask(c, peer) ==
  /\ <<c, peer>> \in Links
  /\ AppSend(c, peer)
  /\ asked' = asked \cup {<<c, peer>>}
  /\ UNCHANGED brokerVars

ServiceCrash(c) ==
  /\ c \notin Reliable
  /\ Crash(c)
  /\ UNCHANGED <<brokerVars, asked>>

(* Started again, it may find the heartbeats of its earlier life still on  *)
(* their way to the broker, and its record there.                          *)
ServiceRestart(c) ==
  /\ Restart(c)
  /\ UNCHANGED <<brokerVars, asked>>

-----------------------------------------------------------------------------
(* The broker process: it keeps nothing on disk.  Its crash loses what was *)
(* in its sockets; the services' own queues survive or not.                *)
BrokerCrash ==
  /\ BrokerMayCrash
  /\ brokerUp
  /\ crashes < MaxCrash
  /\ crashes' = crashes + 1
  /\ brokerUp' = FALSE
  /\ onlineServices' = [c \in Tasks |-> 0]
  /\ beat' = [c \in Tasks |-> 0]
  /\ scanPc' = "sleep"
  /\ startTick' = 0
  /\ keies' = {}
  /\ down' = [c \in Tasks |-> <<>>]
  /\ \E lost \in SUBSET Tasks : up' = [c \in Tasks |-> IF c \in lost THEN <<>> ELSE up[c]]
  /\ UNCHANGED <<now, alive, sharedVars, buffVars, pollVars, checkVars, key, diff, asked>>

BrokerRestart ==
  /\ ~brokerUp
  /\ brokerUp' = TRUE
  /\ UNCHANGED <<taskVars, registryVars, asked>>

(* What a tick leaves to do is done: every running service has looked at   *)
(* the clock and holds no message it could pass on, and the broker has     *)
(* handled what has reached it and scanned its registry.                   *)
Settled ==
  /\ \A c \in Tasks : alive[c] =>
       /\ checkPc[c] = "sample" /\ curTickcount[c] = now
       /\ pollPc[c] = "poll" /\ down[c] = <<>>
       /\ vecSendBuff[c] = <<>> \/ Len(up[c]) >= Hwm
  /\ brokerUp =>
       /\ \A c \in Tasks : up[c] = <<>>
       /\ scanPc = "sleep" /\ startTick = now

BusTick ==
  /\ Settled
  /\ Tick
  /\ UNCHANGED <<brokerVars, asked>>

BusNext ==
  \/ \E c \in Tasks : ServicePoll(c) \/ ServiceCheck(c)
  \/ \E c, peer \in Tasks : Ask(c, peer)
  \/ \E c \in Tasks : ServiceCrash(c) \/ ServiceRestart(c)
  \/ \E c \in Tasks : Consume(c)
  \/ BrokerScan
  \/ BrokerCrash
  \/ BrokerRestart
  \/ BusTick

BusSpec == BusInit /\ [][BusNext]_busVars

(* Threads are scheduled and time passes; a process that is started again  *)
(* is so by its operator, who is not to be relied upon.                    *)
BusFairSpec ==
  /\ BusSpec
  /\ \A c \in Tasks : WF_busVars(ServicePoll(c)) /\ WF_busVars(ServiceCheck(c))
  /\ \A c \in Tasks : WF_busVars(Consume(c))
  /\ WF_busVars(BrokerScan)
  /\ WF_busVars(BusTick)

-----------------------------------------------------------------------------
ImplementsTask == Task!Spec
ImplementsRegistry == Registry!Spec

(* A service that runs and whose broker runs is never declared offline     *)
(* when the timeout is longer than LongestGap, unless others send to it:   *)
(* their messages may fill its connection, and the answers to its          *)
(* heartbeats are dropped.                                                 *)
OnlineStays ==
  [][\A c \in Reliable :
       online[c] /\ (\A d \in Tasks : <<d, c>> \notin asked) => online'[c]]_busVars

(* A message that reaches a service names as its source a service that     *)
(* did send it a message. *)
SourceIsTrue ==
  \A d \in Tasks : \A i \in DOMAIN down[d] :
    down[d][i].type = "app" => <<down[d][i].peer, d>> \in asked

(* A service that counts itself online is one the broker has on record, as *)
(* recent as the service's own record of it, unless the broker has removed *)
(* it or has been restarted since. *)
RecordIsRecent ==
  \A c \in Tasks : online[c] /\ Registry!existed(c)
     => onlineServices[c] >= registerRepTickout[c]

(* A service does not go on believing it is online when the broker is gone *)
(* for longer than the timeout.                                            *)
LossIsNoticed ==
  \A c \in Tasks : ~brokerUp /\ now + Offline < MaxTime ~> brokerUp \/ ~online[c]

(* A service that runs, restarted or with a restarted broker, gets on the  *)
(* record of the broker and learns that it is online, without anyone's     *)
(* help.                                                                   *)
ServiceReturns ==
  \A c \in Tasks : brokerUp /\ alive[c] /\ now < MaxTime
    ~> ~brokerUp \/ ~alive[c] \/ (online[c] /\ Registry!existed(c))

(* A service that has died, and is not started again, is forgotten by the  *)
(* broker, whatever heartbeats it left on the way.                         *)
DeadIsForgotten ==
  \A c \in Tasks : ~alive[c] /\ now + Offline + 1 < MaxTime
    ~> ~brokerUp \/ alive[c] \/ ~Registry!existed(c)
=============================================================================
