----------------------------- MODULE DataTask -----------------------------
(***************************************************************************)
(* The client side of the message bus: one DataTask node per service.      *)
(*                                                                         *)
(* A node runs two threads.  The poll thread owns the socket: it reads     *)
(* what the broker sent and, when there is nothing to read, writes the     *)
(* first message of vecSendBuff.  The check thread runs once a second: it  *)
(* queues a heartbeat when one is due, and declares the service offline    *)
(* when the last answered heartbeat is too old.  The threads share         *)
(* registerRepTickout and online without a lock; vecSendBuff has a lock,   *)
(* which push_back and erase take and the read of its first element does   *)
(* not.                                                                    *)
(*                                                                         *)
(* Threads are modelled at the grain of their accesses to                  *)
(* registerRepTickout and online.  The clock or the flag that decides      *)
(* whether a message is queued is read in the step that queues it: a later *)
(* push_back only puts the message behind others, and no message of        *)
(* another thread changes what a heartbeat or a query does.                *)
(* The connection to the broker is a FIFO queue of at most Hwm messages in *)
(* each direction, which may lose what it holds when it breaks.  The       *)
(* broker is abstract here: it takes the messages of a service in order    *)
(* and may answer a heartbeat with its own timestamp.                      *)
(***************************************************************************)
EXTENDS Integers, Sequences, FiniteSets

CONSTANTS
  Tasks,      \* the services, each named by its socket identity
  Heartbeat,  \* a heartbeat is due after more than this (30000 ms)
  Offline,    \* silence after which the service is offline (90000 ms)
  Hwm,        \* high water mark of a connection, per direction
  MaxBuff,    \* bound: messages of the service itself in vecSendBuff
  MaxTime,    \* bound of the clock
  MaxCrash    \* bound of the number of crashes and broken connections

ASSUME TaskAssumption ==
  /\ Heartbeat \in Nat /\ Offline \in Nat
  /\ Hwm \in Nat \ {0} /\ MaxBuff \in Nat \ {0}
  /\ MaxTime \in Nat /\ MaxCrash \in Nat

VARIABLES
  now,                 \* the clock
  alive,               \* whether the process of the service runs
  registerRepTickout,  \* timestamp of the last answered heartbeat
  online,              \* what the node takes its status to be
  told,                \* the last status the service was notified of
  watched,             \* history: a round of the check thread has begun since online was set
  vecSendBuff,         \* messages waiting for the poll thread
  capacity,            \* allocated capacity of vecSendBuff
  pollPc,              \* where the poll thread is
  pollArg,             \* the status the poll thread is about to notify
  checkPc,             \* where the check thread is
  checkArg,            \* the status the check thread is about to notify
  curTickcount,        \* clock as the check thread sampled it
  lastTickcount,       \* when it last queued a heartbeat
  up,                  \* connection from the service to the broker
  down,                \* connection from the broker to the service
  crashes              \* number of crashes and broken connections

pollVars == <<pollPc, pollArg>>
checkVars == <<checkPc, checkArg, curTickcount, lastTickcount>>
sharedVars == <<registerRepTickout, online, told, watched>>
buffVars == <<vecSendBuff, capacity>>
netVars == <<up, down>>
vars == <<now, alive, sharedVars, buffVars, pollVars, checkVars, netVars, crashes>>

Register(ts) == [type |-> "register", ts |-> ts]
Query == [type |-> "query"]
App(peer) == [type |-> "app", peer |-> peer]   \* to peer going up, from peer coming down
Garbled == [type |-> "garbled"]

Message ==
  [type : {"register"}, ts : Nat] \cup [type : {"app"}, peer : Tasks]
    \cup {Query, Garbled}

(* Subtraction of 64-bit unsigned integers; Wrapped stands for the huge    *)
(* value it gives below zero.                                              *)
Wrapped == MaxTime + Offline + 1
Minus(a, b) == IF a >= b THEN a - b ELSE Wrapped

(* Between two rounds; at lines 123 (the age, then the flag), 125 and 126, *)
(* at the query; with a copy of the first message, whole or torn.          *)
PollPlaces ==
  {"poll", "age", "flag", "online", "status", "callback", "query", "copy", "torn"}

TypeOK ==
  /\ now \in Nat
  /\ alive \in [Tasks -> BOOLEAN]
  /\ registerRepTickout \in [Tasks -> Nat]
  /\ online \in [Tasks -> BOOLEAN]
  /\ told \in [Tasks -> BOOLEAN]
  /\ watched \in [Tasks -> BOOLEAN]
  /\ vecSendBuff \in [Tasks -> Seq(Message)]
  /\ capacity \in [Tasks -> Nat]
  /\ pollPc \in [Tasks -> PollPlaces]
  /\ pollArg \in [Tasks -> BOOLEAN]
  /\ checkPc \in [Tasks -> {"sample", "age", "verdict", "status", "callback"}]
  /\ checkArg \in [Tasks -> BOOLEAN]
  /\ curTickcount \in [Tasks -> Nat]
  /\ lastTickcount \in [Tasks -> Nat]
  /\ up \in [Tasks -> Seq(Message)]
  /\ down \in [Tasks -> Seq(Message)]
  /\ crashes \in 0 .. MaxCrash

(* The clock counts milliseconds since 1970: a first heartbeat, counted    *)
(* from lastTickcount = 0, is always due.                                  *)
Init ==
  /\ now = Heartbeat + 1
  /\ alive = [c \in Tasks |-> TRUE]
  /\ registerRepTickout = [c \in Tasks |-> now]
  /\ online = [c \in Tasks |-> FALSE]
  /\ told = [c \in Tasks |-> FALSE]
  /\ watched = [c \in Tasks |-> FALSE]
  /\ vecSendBuff = [c \in Tasks |-> <<>>]
  /\ capacity = [c \in Tasks |-> 0]
  /\ pollPc = [c \in Tasks |-> "poll"]
  /\ pollArg = [c \in Tasks |-> FALSE]
  /\ checkPc = [c \in Tasks |-> "sample"]
  /\ checkArg = [c \in Tasks |-> FALSE]
  /\ curTickcount = [c \in Tasks |-> 0]
  /\ lastTickcount = [c \in Tasks |-> 0]
  /\ up = [c \in Tasks |-> <<>>]
  /\ down = [c \in Tasks |-> <<>>]
  /\ crashes = 0

-----------------------------------------------------------------------------
(* vecSendBuff.                                                            *)

(* push_back, under the lock: a full vector moves to a block twice as      *)
(* large and frees the old one, which tears a read of the first element    *)
(* that is under way.                                                      *)
Grows(c) == Len(vecSendBuff[c]) >= capacity[c]

send(c, m) ==
  /\ vecSendBuff' = [vecSendBuff EXCEPT ![c] = Append(@, m)]
  /\ capacity' = [capacity EXCEPT ![c] =
                    IF ~Grows(c) THEN @ ELSE IF @ = 0 THEN 1 ELSE 2 * @]

Tears(c) == Grows(c) /\ pollPc[c] = "copy"

(* A message of the service itself, from any of its threads. *)
AppSend(c, peer) ==
  /\ alive[c]
  /\ Cardinality({i \in DOMAIN vecSendBuff[c] : vecSendBuff[c][i].type = "app"}) < MaxBuff
  /\ send(c, App(peer))
  /\ pollPc' = [pollPc EXCEPT ![c] = IF Tears(c) THEN "torn" ELSE @]
  /\ UNCHANGED <<now, alive, sharedVars, pollArg, checkVars, netVars, crashes>>

-----------------------------------------------------------------------------
(* The poll thread.  Reading has priority over writing.                    *)

Receive(c) ==
  /\ alive[c]
  /\ pollPc[c] = "poll"
  /\ down[c] # <<>>
  /\ down' = [down EXCEPT ![c] = Tail(@)]

(* The answer to a heartbeat: its timestamp is stored. *)
Answered(c, ts) ==
  /\ Receive(c)
  /\ Head(down[c]).type = "register"
  /\ registerRepTickout' = [registerRepTickout EXCEPT ![c] = ts]
  /\ pollPc' = [pollPc EXCEPT ![c] = "age"]
  /\ UNCHANGED <<now, alive, online, told, watched, buffVars, pollArg, checkVars, up, crashes>>

(* Fault: the time of arrival is stored instead of the timestamp. *)
PollRegisterArrival(c) == Answered(c, now)

PollRegister(c) == Answered(c, Head(down[c]).ts)

(* Then the clock is read: an answer that is too old goes no further, *)
PollAge(c) ==
  /\ alive[c]
  /\ pollPc[c] = "age"
  /\ pollPc' = [pollPc EXCEPT ![c] =
                  IF Minus(now, registerRepTickout[c]) < Offline THEN "flag" ELSE "query"]
  /\ UNCHANGED <<now, alive, sharedVars, buffVars, pollArg, checkVars, netVars, crashes>>

(* then online, *)
PollFlag(c) ==
  /\ alive[c]
  /\ pollPc[c] = "flag"
  /\ pollPc' = [pollPc EXCEPT ![c] = IF online[c] THEN "query" ELSE "online"]
  /\ UNCHANGED <<now, alive, sharedVars, buffVars, pollArg, checkVars, netVars, crashes>>

(* and only then online is set, though the check thread may have gone      *)
(* through a round in the meantime, or time may have passed.               *)
PollOnline(c) ==
  /\ alive[c]
  /\ pollPc[c] = "online"
  /\ online' = [online EXCEPT ![c] = TRUE]
  /\ watched' = [watched EXCEPT ![c] = FALSE]
  /\ pollPc' = [pollPc EXCEPT ![c] = "status"]
  /\ UNCHANGED <<now, alive, registerRepTickout, told, buffVars, pollArg, checkVars,
                 netVars, crashes>>

(* Any other message goes to a callback of the service: the list of the    *)
(* services, or a message another service sent.                            *)
PollOther(c) ==
  /\ Receive(c)
  /\ Head(down[c]).type # "register"
  /\ UNCHANGED <<now, alive, sharedVars, buffVars, pollVars, checkVars, up, crashes>>

(* checkOnlineStatusCallback(online): the argument is read from the shared *)
(* variable, and the call with it happens afterwards.                      *)
PollStatus(c) ==
  /\ alive[c]
  /\ pollPc[c] = "status"
  /\ pollArg' = [pollArg EXCEPT ![c] = online[c]]
  /\ pollPc' = [pollPc EXCEPT ![c] = "callback"]
  /\ UNCHANGED <<now, alive, sharedVars, buffVars, checkVars, netVars, crashes>>

PollCallback(c) ==
  /\ alive[c]
  /\ pollPc[c] = "callback"
  /\ told' = [told EXCEPT ![c] = pollArg[c]]
  /\ pollPc' = [pollPc EXCEPT ![c] = "query"]
  /\ UNCHANGED <<now, alive, registerRepTickout, online, watched, buffVars, pollArg,
                 checkVars, netVars, crashes>>

(* Each answered heartbeat is followed by a query for the services. *)
PollQuery(c) ==
  /\ alive[c]
  /\ pollPc[c] = "query"
  /\ pollPc' = [pollPc EXCEPT ![c] = "poll"]
  /\ IF online[c] THEN send(c, Query) ELSE UNCHANGED buffVars
  /\ UNCHANGED <<now, alive, sharedVars, pollArg, checkVars, netVars, crashes>>

(* Nothing to read and room to write: the first element is copied without  *)
(* the lock, *)
PollCopy(c) ==
  /\ alive[c]
  /\ pollPc[c] = "poll"
  /\ down[c] = <<>>
  /\ Len(up[c]) < Hwm
  /\ vecSendBuff[c] # <<>>
  /\ pollPc' = [pollPc EXCEPT ![c] = "copy"]
  /\ UNCHANGED <<now, alive, sharedVars, buffVars, pollArg, checkVars, netVars, crashes>>

(* Fault: the newest message is written first. *)
PollSendNewest(c) ==
  /\ alive[c]
  /\ pollPc[c] \in {"copy", "torn"}
  /\ LET last == Len(vecSendBuff[c])
     IN  /\ up' = [up EXCEPT ![c] = Append(@, vecSendBuff[c][last])]
         /\ vecSendBuff' = [vecSendBuff EXCEPT ![c] = SubSeq(@, 1, last - 1)]
  /\ pollPc' = [pollPc EXCEPT ![c] = "poll"]
  /\ UNCHANGED <<now, alive, sharedVars, capacity, pollArg, checkVars, down, crashes>>

(* erased under the lock, and written to the socket.  A torn copy holds    *)
(* the right bytes or any others.                                          *)
PollSend(c) ==
  /\ alive[c]
  /\ pollPc[c] \in {"copy", "torn"}
  /\ \E m \in {Head(vecSendBuff[c])} \cup (IF pollPc[c] = "torn" THEN {Garbled} ELSE {}) :
        up' = [up EXCEPT ![c] = Append(@, m)]
  /\ vecSendBuff' = [vecSendBuff EXCEPT ![c] = Tail(@)]
  /\ pollPc' = [pollPc EXCEPT ![c] = "poll"]
  /\ UNCHANGED <<now, alive, sharedVars, capacity, pollArg, checkVars, down, crashes>>

PollThread(c) ==
  \/ PollRegister(c)
  \/ PollAge(c)
  \/ PollFlag(c)
  \/ PollOnline(c)
  \/ PollOther(c)
  \/ PollStatus(c)
  \/ PollCallback(c)
  \/ PollQuery(c)
  \/ PollCopy(c)
  \/ PollSend(c)

-----------------------------------------------------------------------------
(* The check thread.                                                       *)

(* A round begins: the clock is sampled and a heartbeat queued if due. *)
BeginRound(c, due) ==
  /\ alive[c]
  /\ checkPc[c] = "sample"
  /\ curTickcount' = [curTickcount EXCEPT ![c] = now]
  /\ checkPc' = [checkPc EXCEPT ![c] = "age"]
  /\ watched' = [watched EXCEPT ![c] = online[c]]
  /\ IF due
     THEN /\ send(c, Register(now))
          /\ pollPc' = [pollPc EXCEPT ![c] = IF Tears(c) THEN "torn" ELSE @]
          /\ lastTickcount' = [lastTickcount EXCEPT ![c] = now]
     ELSE UNCHANGED <<buffVars, pollPc, lastTickcount>>
  /\ UNCHANGED <<now, alive, registerRepTickout, online, told, pollArg, checkArg,
                 netVars, crashes>>

(* Fault: heartbeats, after the first, at the period of the timeout. *)
CheckSampleSlow(c) ==
  BeginRound(c, lastTickcount[c] = 0 \/ Minus(now, lastTickcount[c]) > Offline)

(* Fault: the service registers once, when it starts. *)
CheckSampleOnce(c) == BeginRound(c, lastTickcount[c] = 0)

CheckSample(c) == BeginRound(c, Minus(now, lastTickcount[c]) > Heartbeat)

(* The age of the last answer is compared with the timeout. *)
CompareAge(c, expired) ==
  /\ alive[c]
  /\ checkPc[c] = "age"
  /\ checkPc' = [checkPc EXCEPT ![c] = IF expired THEN "verdict" ELSE "sample"]
  /\ UNCHANGED <<now, alive, sharedVars, buffVars, pollVars, checkArg, curTickcount,
                 lastTickcount, netVars, crashes>>

(* Fault: one missed heartbeat is enough. *)
CheckAgeHasty(c) ==
  CompareAge(c, Minus(curTickcount[c], registerRepTickout[c]) > Heartbeat)

(* Fault: the age of the last heartbeat sent, answered or not. *)
CheckAgeSent(c) ==
  CompareAge(c, Minus(curTickcount[c], lastTickcount[c]) >= Offline)

CheckAge(c) ==
  CompareAge(c, Minus(curTickcount[c], registerRepTickout[c]) >= Offline)

(* The flag is tested and reset in one step: the poll thread leaves it     *)
(* alone once it is set.                                                   *)
CheckVerdict(c) ==
  /\ alive[c]
  /\ checkPc[c] = "verdict"
  /\ online' = [online EXCEPT ![c] = FALSE]
  /\ watched' = [watched EXCEPT ![c] = FALSE]
  /\ checkPc' = [checkPc EXCEPT ![c] = IF online[c] THEN "status" ELSE "sample"]
  /\ UNCHANGED <<now, alive, registerRepTickout, told, buffVars, pollVars, checkArg,
                 curTickcount, lastTickcount, netVars, crashes>>

CheckStatus(c) ==
  /\ alive[c]
  /\ checkPc[c] = "status"
  /\ checkArg' = [checkArg EXCEPT ![c] = online[c]]
  /\ checkPc' = [checkPc EXCEPT ![c] = "callback"]
  /\ UNCHANGED <<now, alive, sharedVars, buffVars, pollVars, curTickcount,
                 lastTickcount, netVars, crashes>>

CheckCallback(c) ==
  /\ alive[c]
  /\ checkPc[c] = "callback"
  /\ told' = [told EXCEPT ![c] = checkArg[c]]
  /\ checkPc' = [checkPc EXCEPT ![c] = "sample"]
  /\ UNCHANGED <<now, alive, registerRepTickout, online, watched, buffVars, pollVars, checkArg,
                 curTickcount, lastTickcount, netVars, crashes>>

CheckThread(c) ==
  \/ CheckSample(c)
  \/ CheckAge(c)
  \/ CheckVerdict(c)
  \/ CheckStatus(c)
  \/ CheckCallback(c)

-----------------------------------------------------------------------------
(* The process.                                                            *)

(* A crash loses what the process holds and what was on its way to it, and *)
(* perhaps what it had written.                                            *)
Crash(c) ==
  /\ alive[c]
  /\ crashes < MaxCrash
  /\ crashes' = crashes + 1
  /\ alive' = [alive EXCEPT ![c] = FALSE]
  /\ online' = [online EXCEPT ![c] = FALSE]
  /\ told' = [told EXCEPT ![c] = FALSE]
  /\ watched' = [watched EXCEPT ![c] = FALSE]
  /\ vecSendBuff' = [vecSendBuff EXCEPT ![c] = <<>>]
  /\ capacity' = [capacity EXCEPT ![c] = 0]
  /\ pollPc' = [pollPc EXCEPT ![c] = "poll"]
  /\ pollArg' = [pollArg EXCEPT ![c] = FALSE]
  /\ checkPc' = [checkPc EXCEPT ![c] = "sample"]
  /\ checkArg' = [checkArg EXCEPT ![c] = FALSE]
  /\ curTickcount' = [curTickcount EXCEPT ![c] = 0]
  /\ lastTickcount' = [lastTickcount EXCEPT ![c] = 0]
  /\ down' = [down EXCEPT ![c] = <<>>]
  /\ \E rest \in {<<>>, up[c]} : up' = [up EXCEPT ![c] = rest]
  /\ UNCHANGED <<now, registerRepTickout>>

(* Fault: the last answer is dated back so that the node starts offline. *)
RestartBackdated(c) ==
  /\ ~alive[c]
  /\ alive' = [alive EXCEPT ![c] = TRUE]
  /\ registerRepTickout' = [registerRepTickout EXCEPT ![c] = now - Offline - 1]
  /\ UNCHANGED <<now, online, told, watched, buffVars, pollVars, checkVars, netVars, crashes>>

(* The process is started again: the constructor takes the current time    *)
(* for the time of the last answer.                                        *)
Restart(c) ==
  /\ ~alive[c]
  /\ alive' = [alive EXCEPT ![c] = TRUE]
  /\ registerRepTickout' = [registerRepTickout EXCEPT ![c] = now]
  /\ UNCHANGED <<now, online, told, watched, buffVars, pollVars, checkVars, netVars, crashes>>

-----------------------------------------------------------------------------
(* The environment.                                                        *)

Tick ==
  /\ now < MaxTime
  /\ now' = now + 1
  /\ UNCHANGED <<alive, sharedVars, buffVars, pollVars, checkVars, netVars, crashes>>

(* Puts m on the way to c; a full connection, or one to a process that is  *)
(* not there, drops it.                                                    *)
Deliver(c, m) ==
  down' = [down EXCEPT ![c] = IF alive[c] /\ Len(@) < Hwm THEN Append(@, m) ELSE @]

(* The broker takes the first message of c and sends an answer that fits   *)
(* it, or nothing.                                                         *)
BrokerTake(c) ==
  /\ up[c] # <<>>
  /\ up' = [up EXCEPT ![c] = Tail(@)]
  /\ \/ /\ Head(up[c]) # Garbled
        /\ Head(up[c]).type # "app"
        /\ Deliver(c, Head(up[c]))
     \/ /\ Head(up[c]).type = "app"
        /\ Deliver(Head(up[c]).peer, App(c))
     \/ UNCHANGED down
  /\ UNCHANGED <<now, alive, sharedVars, buffVars, pollVars, checkVars, crashes>>

(* The connection of c breaks and is made again: what was on its way down  *)
(* is lost, and what was on its way up may be.                             *)
Disconnect(c) ==
  /\ crashes < MaxCrash
  /\ crashes' = crashes + 1
  /\ down' = [down EXCEPT ![c] = <<>>]
  /\ \E rest \in {<<>>, up[c]} : up' = [up EXCEPT ![c] = rest]
  /\ UNCHANGED <<now, alive, sharedVars, buffVars, pollVars, checkVars>>

Next ==
  \/ \E c \in Tasks : PollThread(c) \/ CheckThread(c)
  \/ \E c, peer \in Tasks : AppSend(c, peer)
  \/ \E c \in Tasks : Crash(c) \/ Restart(c) \/ BrokerTake(c) \/ Disconnect(c)
  \/ Tick

Spec == Init /\ [][Next]_vars

-----------------------------------------------------------------------------
(* The age the check thread computes never wraps around: no answer it may  *)
(* meet carries a timestamp later than its own sample of the clock, though *)
(* the answer may arrive between the sample and the subtraction.           *)
AgeNeverWraps ==
  \A c \in Tasks : checkPc[c] = "age" => registerRepTickout[c] <= curTickcount[c]

(* While a node is online the time of its last answer never goes back,     *)
(* whatever answers are delayed or lost, those to an earlier life of the   *)
(* process included.                                                       *)
AnswersNeverOlder ==
  [][\A c \in Tasks : online[c] /\ online'[c]
        => registerRepTickout'[c] >= registerRepTickout[c]]_vars

(* A node may go online on an answer that has become too old since it was  *)
(* looked at, while the check thread found it offline and let it be.  It   *)
(* does not stay so: once a whole round of the check thread has passed     *)
(* with the node online, its last answer is younger than Offline by the    *)
(* clock of that round, whatever the poll thread stored meanwhile.         *)
WatchedIsRecent ==
  \A c \in Tasks : watched[c] /\ checkPc[c] = "sample" =>
     curTickcount[c] < registerRepTickout[c] + Offline

(* Between two rounds of both threads, the status the service was last     *)
(* notified of is the status of the node.                                  *)
ToldStatus ==
  \A c \in Tasks : alive[c] /\ pollPc[c] \in {"poll", "copy", "torn"} /\ checkPc[c] = "sample"
     => told[c] = online[c]
=============================================================================
