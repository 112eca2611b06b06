# Verification of the streaming platform

TLA+ models, TLC runs and TLAPS proofs for the services and modules of this repository: a
message bus over ZeroMQ (`modules/libxmq`, `services/xmq_host_server`) and the services that talk
over it - devices, HTTP, storage, logs, databases.

`PROJECT.json` lists the components, the runs, the source lines of every definition (`map`), the
faults each property has been shown to detect (`mutants`), the disagreements with the documentation
that were found (`findings`), the hazards of the code and the theorems.

## The system

| Part | State | Operations | Hard because |
|---|---|---|---|
| `xmq_host_server`: registry | `onlineServices`, name -> timestamp of the last heartbeat | register, query, existed; the offline check thread scans once a second and removes what is 90 s old | each map call locks, sequences of calls do not |
| `xmq_host_server`: dispatcher, consumer | sockets; no state between messages | takes a message, records a heartbeat and answers it, answers a query, forwards to a registered service | loss, full queues, restart with an empty registry |
| `libxmq`: `DataTask` | `online`, `registerRepTickout`, `vecSendBuff`, socket | `send`; the poll thread reads and writes the socket; the check thread sends heartbeats (30 s) and declares the service offline (90 s) | two threads and the callers of `send` share state, most of it without the lock |
| `libxmq`: nodes, thread pool | map of nodes; threads | `addNode`, `removeNode`, `run`, `stop` | `ThreadPool::destroy` does not wait for the thread |
| `libxmq`: frames | receive buffers of 1 MB (client) and 3 MB (broker) | messages are split into frames and put together | messages at the limit of a buffer |
| `dvs_host_server`: streaming | `sss`, channel -> Session; targets of each Session (`sids`); parsers of the process, by number | a frame of a device is sent to every target; play request; end of a connection | device threads, io threads and the acceptor meet; the loop reads the length without the lock; Sessions may share a parser |
| `dvs_host_server`: devices, `libdvs` | device nodes by id; id counter; login counter; channels of a device | add, remove, exception callback | ids chosen by caller or counter; streams run before the device is named; failures reported as success |
| `libasio` | sessions by id; sockets | listen, connect, send, receive, `removeConf` | callbacks on io threads against calls from others; writes that overlap |
| `http_host_server` | `asyncMessages`, timestamp -> answer | sends a request on the bus and polls for the answer | late answers, two requests in one millisecond |
| `storage_host_server` | sessions, tasks, queue of a session | task set and remove, upload thread, download | maps with different keys, callbacks that outlive what they refer to, a retry loop |
| `database_`, `log_host_server`, `libdatabase`, `libfilelog`, `libfdfs` | a connection or a file | request and answer | little: external services do the work |
| `rtsp_`, `http_flv_host_server` | one flag each; unfinished | | |
| `libhttp`, `libavparser`, `libavpkt`, `XBuffer`, `Url`, `FifoQueue` | buffers | parse, consume, move | positions at the ends of the buffer |
| `libav`, `libavcodec`, `libavplayer` | filter graphs; FFmpeg and Direct3D objects | | wrappers of libraries, on the client's side |

How the parts interact: each service has one `DataTask` whose socket carries the service's name. Its
messages reach the broker's router socket, pass a `zmq_proxy` to the one consumer, and go back the
same way to the service they are addressed to. A service's handlers run on its poll thread; its
sends come from any of its threads. The streaming service has in addition the device SDK's threads
and the io threads of `libasio`, and reaches the players through `Libasio::send`.

What makes each part correct:

- registry: a service that keeps sending is on record; one that stopped is removed, and only for that;
- `DataTask`: the status follows the answers; the arithmetic on times is sound under interleaving;
  the service is told the status;
- bus: a message is delivered with its true sender; both ends notice the loss of the other and recover;
- streaming: each frame once to each player that is there; nothing kept for one that has left;
- `libasio`: no use of a freed socket, no partial or reordered write, the table holds live sessions;
- HTTP: the answer is to the request, and is let go of;
- devices: a frame carries the number of its device; a number is given to one device; the vendor library lives as long as it is used;
- storage: a task finds its own session; a session that is removed is gone; a thread ends with its connection;
- receiving: the frames of a stream come out once, whole and in order, however the stream is cut; requests that come whole are served;
- life cycle: nothing is used after `stop`;
- buffers: what is consumed leaves the buffer, what is not stays.

## Modules

| Module | Models | Extends |
|---|---|---|
| `XmqRegistry` | registry of the broker and its check thread | |
| `XmqRegistry_proofs` | theorems about it | `XmqRegistry`, `TLAPS` |
| `DataTask` | the nodes of the services, with an abstract broker | |
| `DataTask_proofs` | theorems about types, times and the order of heartbeats | `DataTask`, `TLAPS` |
| `XmqBus` | nodes and broker together | `DataTask`, instances of `XmqRegistry` and `DataTask` |
| `XmqBus_proofs` | theorems about the bus, its refinements of the nodes and of the registry among them | `XmqBus`, `DataTask_proofs`, an instance of `XmqRegistry_proofs` |
| `MCXmqBus` | two services for TLC | `XmqBus` |
| `DvsDevices` | adding and removing devices in `dvs_host_server` and `libdvs`, with their streams | |
| `DvsDevices_proofs` | theorems about them | `DvsDevices`, `TLAPS` |
| `DvsStreaming` | live streaming of `dvs_host_server` | |
| `MCDvsStreaming` | two channels for TLC, with the symmetry of channels and players | `DvsStreaming` |
| `DvsStreaming_proofs` | theorems about it | `DvsStreaming`, `TLAPS` |
| `StorageTasks` | the recording tasks of `storage_host_server` and their connections in `libasio` | |
| `StorageTasks_proofs` | theorems about them | `StorageTasks`, `TLAPS` |
| `StreamReceiver` | the parser that finds the frames of a TCP stream, and its three kinds of users | |
| `StreamReceiver_proofs` | theorems about it, for frames and pieces of any size | `StreamReceiver`, `TLAPS` |
| `HttpSync` | the synchronous calls of `http_host_server` | |
| `HttpSync_proofs` | theorems about them | `HttpSync`, `TLAPS` |

Definitions marked "Fault:" are plausible errors of the code; no specification uses them. They stand
next to the definition they replace, to show that the properties detect them.

### XmqRegistry

`onlineServices` is the map, with 0 for "no entry" as `UnorderedMap::at` has it. One action per
locked call: `Register` (`replace`), `StartScan` (`keies`), `ReadEntry` (`at`), `RemoveEntry`
(`remove`). The comparison happens in the step that reads, since what it uses is local; the removal
is a step of its own, so a heartbeat can come between the two. Timestamps are the senders': a request
may carry one up to `MaxLag` behind or `MaxLead` ahead of the broker's clock. Services in `Steady` send
at least every `MaxGap`; the others may fall silent for good. The logged sequence number, which only
has to be positive, is left out.

The race between read and removal is real: a heartbeat handled between the two is erased with the entry it has just renewed, although the
log says that the entry timed out (`server.cpp:129`). Run `registry` says what this may cost and what not: a steady
service is never missing (`SteadyStaysOnline`), no absent key is read as timestamp 0
(`ScannedKeysPresent`), what is erased had been silent for the timeout or returned during the scan
(`RemovesOnlyAfterSilence`), and a dead service is removed (`DeadIsRemoved`).

### DataTask

The threads are modelled at the grain of their accesses to `registerRepTickout` and `online`, which have no lock.
Poll thread: `PollRegister` stores the answered timestamp, `PollAge` reads the clock and compares, `PollFlag` tests `online`
and `PollOnline` sets it, each a step of its own (lines 122, 123, 123 and 125 of `data_task.cpp`); `PollStatus` reads `online` for the argument
of the callback and `PollCallback` makes the call; `PollQuery` queues the query; `PollCopy` and
`PollSend` are the unlocked copy and the locked erase of the first message. Check thread:
`CheckSample` reads the clock and queues the heartbeat, `CheckAge` compares, `CheckVerdict` changes
`online`, `CheckStatus` and `CheckCallback` notify. Two places take a test and what follows it in one step, and say why that
adds or hides nothing: the step that queues a message also reads what decides on it, and `CheckVerdict` tests `online` and resets it.

The unlocked copy races with `push_back`. When the vector moves to a larger block in between, the copy
may read freed memory: `torn` is that state, and a torn message is the right one or `Garbled`.
`capacity` is there to say when the vector moves.

The connection is a queue of at most `Hwm` messages in each direction. What does not fit is dropped,
as a ZeroMQ router does (`Deliver`, `Disconnect`: external, the sources only wrap the sockets); `Crash` and `Disconnect` lose what was on the way. In this module the broker is
abstract: it takes messages in order and answers, forwards or ignores each.

Checked: the unsigned subtraction never wraps (`AgeNeverWraps`): an answer may be stored between the
sample of the clock and the subtraction, but not one later than the sample. The time of the last answer does not
go back (`AnswersNeverOlder`). A node may well be online with an answer that is too old: between the test of the age and the step that sets `online`
the clock may pass the timeout and the check thread go through a round that finds it offline. It does not stay so: once a round of the
check thread has begun and ended with the node online (`watched`), its answer is younger than the timeout by the clock of that round (`WatchedIsRecent`).
Run `task_told` is a violation: `libxmq.h` says the callback is made when the status
changes and carries it, but a service can be told "offline" after "online" in the wrong order and
keep the wrong status until the next change.

### XmqBus

The nodes of `DataTask` with the broker that is in `xmq_host_server`. `Consume` is the whole handler of the
consumer for one message; `BrokerScan` is the check thread of `XmqRegistry`; the broker and the services in
`Tasks \ Reliable` may crash and be started again (`ServiceCrash`, `ServiceRestart`), with heartbeats of the earlier life still on their way. A tick of the clock stands for one round of the sleeping threads, and comes only
when the work of the current tick is done (`Settled`): the threads that do not sleep run thousands
of rounds per second.

Two refinements are checked: the bus implements `DataTask` (its broker is one of those the abstract broker
allows: `ImplementsTask`) and `XmqRegistry` with heartbeats at most `LongestGap` apart (`ImplementsRegistry`),
which is what `SteadyServicesStay` assumes of a steady service. A heartbeat is lost when its copy is torn. The vector has to grow for
that, which takes a message of the service behind every element that fits, so each time at least one more of them than the last: with `MaxBuff` messages
at most, no more than `MaxBuff` heartbeats in a row are lost, and `LongestGap` is that many periods and one. The code has a period
of 30 s, a timeout of 90 s and no bound on the messages: a service with one message in the buffer is safe, one with two at the wrong moments
may lose two heartbeats in a row and be declared offline while it runs (TLC shows this with `MaxBuff = 2` and a timeout of three periods).
Then: a service that runs is never declared offline while the broker runs and nobody sends to it, if the timeout is longer than
`LongestGap` (`OnlineStays`; messages of others may take the place of the answers in its queue, which TLC shows within five ticks when the condition is dropped), a
forwarded message names its true sender (`SourceIsTrue`), and with crashes each side notices the loss of the
other and a service returns without help (`LossIsNoticed`, `DeadIsForgotten`, `ServiceReturns`,
`RecordIsRecent`).

### DvsDevices

A request is handled by the poll thread in steps (`pc`), between which frames come from the threads of the vendor
library. `AddDVS` takes the number from the request or from the counter `did`; `LoginSucceeds`/`LoginFails`,
`OpenRealplay`, `AddStream`, `NameNode` and `InsertNode` are the steps of `DVSNode::run` and `Libdvs::addConf` in the order of
the code; `Reply` raises the counter. `RemoveDVS`, `CloseRealplay` (once per open channel) and `RemoveNode` remove a device.
`Frame` is a frame of an open channel, passed on under the name the node gives it at that moment; `sources` remembers what came under each
number. Which players a Session then sends it to depends on its parser, and is in `DvsStreaming`. The library and its count of logins are
Hikvision's; a Dahua node has its own count, of the same form.

Numbers are unsigned integers of width 32 that wrap; `W` stands for 2^32. The vendor library is external: a login or the opening of a
channel may fail at any time, and no frame of a channel comes after closing it has returned. `dropped` are nodes that
`Libdvs::addConf` frees because their number is taken: they stay logged in and go on streaming under whatever name their
memory gives.

Checked: a frame carries the number of its device and channel, also while the device is being removed; while it is being added the number is 0 until
it has one, and so is the channel that has just been opened; only a device that was dropped sends under any name (`FramesAreNamed`); a number from the counter is free, and was never named by a request, until the counter wraps
(`FreshIdIsFree`); all frames passed on under a number the service chose come from one device, although the Session of a name is never removed (`NameHasOneSource`); the vendor
library is initialised while it is used and released with the last device (`LibraryFollowsUse`). The conditions in these
properties are exactly where the code fails otherwise: a failed login is counted for good, a number that was named can be named again, a dropped device
streams on.

### DvsStreaming

`sids[s]` are the targets of the Session of channel `s`. `DeviceData` is a frame that arrives and, if needed,
creates the Session. A Session has a number, `index`, under which it enters a parser in a table of the process (`nodes`), which keeps
what it has under a number; a parser calls back the Session that made it (`Owner`). `session.cpp:14` computes the number from its own
indeterminate value, so `CreateSession` gives it any of `Indices`, those of other Sessions included, or 0, under which there is no parser. The frames of a channel go to
the targets of the owner of its number. The parsers of play requests are in the same table under the ids of connections for as long as a piece is parsed; these
are taken not to be in `Indices`. Two threads that feed one parser at the same time race in it; the model lets the fan-outs interleave, and
leaves out what becomes of the bytes.

`FanCheck` is the loop condition, read without the lock; `FanSend` the locked body. If a
target was removed in between, the index is past the end: `FanOverrun`, after which the loop, which compares for
inequality, does not end (`FanRunaway` sends to anyone). An unlocked read of the length during a `push_back`
can be any number; why that adds no behaviour is said at `FanCheck`. `ReadError` and `Visit` are the handler
of a failed connection, one Session per step as each takes its lock.

Checked: no frame twice to a player (`FrameAtMostOnce`), every player that could be sent to all the time gets it
unless another player leaves, on a channel whose Session has a number of its own (`FrameReachesAll`), and only a player that leaves lets the loop run away
(`RunawayNeedsRemoval`). Run `streaming_ended` is a violation: `removeTarget` returns success on an empty list,
and the removal stops there, so an ended player stays a target of the channel it watched. Run `streaming_mixed` is another: with two Sessions under
one number a player is sent the frames of a channel it did not ask for, and those it did ask for may go to others.

### StorageTasks

`SetTask` starts a connection and returns; the callback of the connection runs on an io thread (`Connected`, `AddSession`, `AddTask`,
and `Receive`, `Enter` in `libasio`), one step for each table it enters, between which the poll thread may remove a task
(`RemoveTask`, `RemoveSession`, `RemoveEntry`) and the connection may fail (`ReadError`, `WriteError`). `SenderStep` is
the thread of a session at the only step that changes anything: the end of its loop.

Two errors of the code are part of the model. `Libasio::addConf` hands its callback a string by reference to a
variable that is gone when the connection is made: `Strings` are the requests whose numbers the callback may read
instead of its own (outcomes that end the process are left out). And `RemoveEntry` erases the number
of the session from the table of tasks, not that of the task: the entry of the task stays, that of another may go.

Checked, with these errors in: a task finds a session whose camera was asked for with this task
(`TaskHasItsCamera`), because the callback reads the numbers once; a session that was removed does not come back
(`RemovedStaysRemoved`) and one whose connection has failed is forgotten (`EndedIsForgotten`), because the callback enters sessions before
tasks and reading starts last; a session that records can be found by its task, unless its task had an entry already or
the second error took it (`TaskIsRemovable`); the thread of a session ends after its connection has failed (`SenderEnds`).

### StreamReceiver

`Input` is one piece of a stream, given to `BufferParser::input`. Frames are intervals of positions (`Start`), and the buffer is
the interval from `base` to `base + pos`; what the parser looks for is the flag a header begins with. `Take` is a
piece that fits, `TakeSplit` one that does not: the part that fits is parsed, and the rest put behind what that leaves
without being parsed, whether there is room or not. `Refuse` is a piece that does not begin with a frame when the buffer is empty, and
one that finds the buffer full. The users differ (`user`): for a play request the streaming service makes a parser of 3 MB for each piece
and drops it (`Leave`); a stream of frames has one of 3 MB that is kept (`AVBufferParserFilter`, `http_flv_host_server`); a download session of the storage service keeps
one too, but makes it without a size, and has a buffer of no bytes (`bufSize`).

The length of a frame is what its header says, any 32-bit number, and nothing bounds it: behind the first part of a frame that is too long, the rest of a piece is written past the
end of the buffer. The model has such frames, and counts what was written (`pos`); what it overwrites is not modelled.

Checked: frames come out once and in order, and none is missing from a kept parser that has refused nothing
(`DeliveredInOrder`); such a parser holds no whole frame back unless the last piece did not fit (`NothingHeldBack`); a request
that comes whole in a piece that begins with one is served by the streaming service (`WholeRequestIsServed`); the end of the buffer is passed by at most a piece, and only when
the frame in it is too long for what is left (`TypeOK`). Of a download nothing is checked: its parser refuses every piece (`buffer_parser.cpp:49`, with the size that `download_session.cpp:29` leaves out),
so that none of the requests its callback handles (`download_session.cpp:76`) is ever parsed.
What the code does not give is visible in the conditions: a request in two pieces is lost, and a frame behind a
full buffer waits for the next piece.

### HttpSync

A handler of the HTTP server numbers its request by the clock (`Begin`), sends it (`Send`), and looks for the answer
under this number (`Look`, `Wake`) until the time has passed (`GiveUp`). The poll thread of the bus enters answers in
the map (`Receive`) when they are young enough and the number is free; nothing is ever taken out. The service that
answers is not in this repository, so an answer may come at any time or never (`Lose`).

`id` and `start` are two readings of the clock: the first counts for the poll thread (8 s), the second for the handler
(10 s). `Expired`, the sleep and `MaxPause` - the longest time between two looks - are what decides whether the last
answer accepted is still found. Checked: it is (`KeptIsReturned`), also by no other call than its own (`AnswerIsOwn`), and
every call returns (`CallsReturn`). `AnswerIsOwn` compares numbers: two calls made in the same millisecond would share
an answer. As the server starts `drogon` with one thread, the run has one handler at a time; the proof is for any number.
`syncXMQMessageProcess` returns a failure whether or not it found an answer; its callers ignore what it returns, and so does the model.

## Runs and bounds

| Run | Instance | Why it is enough |
|---|---|---|
| `registry` | a steady and an unsteady service; timeout 3, lag and lead 1, scan up to 2, clock up to 6 | the timeout is passed with both signs of the difference; a heartbeat fits between any two steps of a scan |
| `task` | one service, timeout 2, queues of 2, one crash or broken connection, one message of its own | two messages in a queue are needed for an old answer behind a new one; the vector moves at 1 and 2 |
| `task_told` | the same without crashes | |
| `bus` | two services, one sends to the other, heartbeats every 2 ticks, so `LongestGap` is 4, timeout 5, queues of 1, clock up to 8 | a heartbeat is torn and the next arrives; the clock passes the timeout; with queues of 1 answers are dropped |
| `bus_recovery` | one service, broker and service crash up to 2 times, timeout 2 | a crash of each and two of the same |
| `devices` | numbers modulo 3, three logins, devices with two channels | the counter passes a number that was named, meets a taken one and wraps; a device is added while two others stream |
| `streaming` | two channels, two players, two frames of each, one number and 0 | the Sessions share the number in either order, one has it alone, or has no parser; a player joins and the other leaves at every position of a loop; a second frame is needed to reach anyone, since the first one makes the Session |
| `streaming_mixed`, `streaming_ended` | two channels, two players, two numbers and 0 | |
| `storage` | two requests, two numbers for tasks and for sessions | equal and crossing numbers, the callback of one request reading the other's, a removal at every step of both |
| `receiver` | six frames of 3 or 4 bytes, a header of 2 that is all flag, pieces of up to 5, a buffer of 6 or, for a download, of none; all three users | pieces end inside a flag, a header and a payload; one frame spans pieces and one piece holds frames; the buffer is filled to its end, and its end is passed and not passed |
| `http_sync` | two calls, one handler at a time, answers accepted below 2, looked for below 4, clock up to 12 | the second call begins before and after the answer to the first arrives late, and both can run to their end |

Bounds of counters are constants: `MaxTime` (clock), `MaxCrash` (faults), `MaxBuff` (a service's own messages in
its buffer), `MaxFrames` and `NFrames` (frames), `MaxNodes` (logins), `MaxSets` (requests), `MaxChannel`, `MaxPayload` and
`MaxPiece` (sizes). `StreamReceiver` assumes only that a piece is not larger than a buffer, which has 3 MB for pieces of 1 MB. The runs do not check for deadlock,
since all behaviours end at the bound of the clock, of the frames or of the requests.

Fairness. `XmqRegistry!FairSpec`: the check thread runs, time passes, steady services send. `XmqBus!BusFairSpec`:
both threads of each service, the consumer and the check thread run, time passes. They are
threads in endless loops that sleep for bounded times, so weak fairness of each is what the scheduler gives.
`HttpSync!FairSpec`: handlers run and time passes. `StorageTasks!FairSpec`: the thread of a session, a loop with a
sleep of 10 ms, runs. Nothing makes a crash, a restart, a message of an application or the end of the server happen.

## Proofs

| Theorem | States | Argument |
|---|---|---|
| `XmqRegistry_proofs` | | |
| `TypeCorrect` | `Spec => []TypeOK` | by action |
| `SteadyServicesStay`, `ScansReadEntries` | `SteadyStaysOnline`, `ScannedKeysPresent` | `RegistryInv`, below |
| `OnlyTheSilentGo` | `RemovesOnlyAfterSilence` | `EntryNear`, `VerdictJust`, below |
| `DataTask_proofs` | | |
| `TaskTypeCorrect` | `TypeOK` and `CopiedIsThere` | by action; `Head` and `Tail` are applied to non-empty buffers only because the poll thread alone removes |
| `AgeIsSafe` | `AgeNeverWraps` | `ClockInv`, below |
| `AnswersInOrder` | `AnswersNeverOlder` | `OrderInv`, below |
| `OnlineByAnswer` | `WatchedIsRecent` | `OrderInv` |
| `XmqBus_proofs` | | |
| `BusImplementsTasks` | `~BrokerMayCrash`: `BusSpec => ImplementsTask` | each step of the bus is a step of the nodes, or leaves them alone |
| `NodesOnTheBus` | `AgeNeverWraps`, `WatchedIsRecent` under `BusSpec` | the same, and a crash of the broker keeps their invariants |
| `SourcesAreTrue` | `SourceIsTrue` | `SourceInv`, below |
| `RecordsAreRecent` | `RecordIsRecent` | `RecordInv`, below |
| `BusImplementsRegistry` | `~BrokerMayCrash`: `BusSpec => ImplementsRegistry` | `TimingInv`, below |
| `OnlineIsKept` | `~BrokerMayCrash`, `LongestGap < Offline`: `BusSpec => OnlineStays` | `TimingInv` and `VerdictInv` |
| `ReliableStayOnRecord` | `~BrokerMayCrash`, `LongestGap <= Offline`: a service in `Reliable` is never missing from the record after its first heartbeat | `SteadyServicesStay` through `BusImplementsRegistry` |
| `DvsDevices_proofs` | | |
| `DevicesTypeCorrect`, `FramesCarryTheirName`, `FreshIdsAreFree` | `TypeOK`, `FramesAreNamed`, `FreshIdIsFree` | `DeviceInv`, below |
| `LibraryIsThere` | `LibraryFollowsUse` | `Counted`: the counter is the number of devices in the table, of the one at hand and of those lost |
| `NamesHaveOneSource` | `NameHasOneSource` | `OneNode` |
| `DvsStreaming_proofs` | | |
| `StreamingTypeCorrect` | `TypeOK` | by action |
| `FrameOnce`, `OnlyRemovalOverruns`, `FramesReachAll` | `FrameAtMostOnce`, `RunawayNeedsRemoval`, `FrameReachesAll` | `StreamingInv`, below |
| `StorageTasks_proofs` | | |
| `StorageTypeCorrect`, `RemovedIsGone`, `EndedIsGone` | `TypeOK`, `RemovedStaysRemoved`, `EndedIsForgotten` | `StorageInv`, below |
| `TasksFindTheirCamera`, `TasksAreRemovable` | `TaskHasItsCamera`, `TaskIsRemovable` | each inductive on top of `StorageInv` |
| `StreamReceiver_proofs` | | |
| `ReceiverTypeCorrect` | `TypeOK` | what is in a full buffer after whole frames are taken out is less than a frame |
| `FramesInOrder`, `FramesAreNotHeldBack` | `DeliveredInOrder`, `NothingHeldBack` | `ReceiverInv`, below |
| `WholeRequestsAreServed` | `WholeRequestIsServed` | the frames parsed from a piece include every whole one behind its beginning |
| `HttpSync_proofs` | | |
| `SyncTypeCorrect` | `TypeOK` | by action |
| `AnswersAreFound`, `AnswersAreOwn` | `KeptIsReturned`, `AnswerIsOwn` | `SyncInv`, below |

All hold for every value of the constants that meets the module's named assumption, so for any number of services, players,
requests and channels.

`SteadyServicesStay` is not inductive. Its strengthening says that the entry of a steady service is within the lag
and lead of its last heartbeat, that this heartbeat is not older than `MaxGap`, and that the removal in progress is
not of a steady service. The step from read to removal uses `SteadyNotStale`: with
`MaxGap + MaxLag <= Offline` and `MaxScan + MaxLead <= Offline` - the named assumption of the module - the
distance of such an entry from the start of the scan does not exceed the timeout, on either side of the absolute
value. The race between read and removal cannot touch a steady service for this reason. For the others `OnlyTheSilentGo` says what it
costs: every entry is near the last heartbeat (`EntryNear`), so a removal is either due to a silence, or hits a service that
came back after the scan began (`VerdictJust`).

`AgeIsSafe` needs to know where answers come from. The strengthening (`ClockInv` in `DataTask_proofs`) gives each service
a horizon - its sample of the clock while it holds one, the present otherwise - and says that every heartbeat in the
send buffer, on the way up and on the way down, and the stored answer, carry a time not later than the horizon. The
check thread is the only source of heartbeats and stamps them with its own sample. Lemmas
about sequences of messages (`StampedAppend`, `StampedTake`, `StampedWeaken`) carry this through the queues. Crash and
disconnection only empty queues or leave them.

`AnswersInOrder` is about the whole way of a heartbeat. `OrderInv` says that the three queues it passes through are sorted
by time and that none of them is ahead of the one before (`Chain`), and that while the service is online, or the poll thread is about to set it so (`Judging`), nothing on the way
is older than the last answer (`Above`). A new heartbeat may join because `ClockInv` bounds all of them by the time it is stamped with;
each step of the two threads, the broker and the connection is one lemma about three sequences (`ChainRead`, `ChainWrite`, `ChainTake`,
`ChainSend`, `ChainLoss`). `OnlineByAnswer` follows from the same order: a round of the check thread that leaves a watched node online has found its
answer young enough, and what the poll thread stores after that comparison is not older.

On the bus, `BusStepIsTaskStep` maps each step to one of `DataTask` or to a crash of the broker, and `CrashKeepsTasks` shows that
this crash keeps the invariants. `SourceInv` says of each queue who can be named in it: destinations going up, sources
coming down. `RecordInv` says that what comes down to a service on record is not later than its
entry; the consumer that replaces an entry relies on `OrderInv` for the new one not to be earlier than what was sent before.
`BusImplementsTasks` needs no invariant: the broker that is there does what the abstract one may do (`ConsumeTakes`).

`BusImplementsRegistry` needs the most. The registry takes it for granted that the heartbeats of a steady service are never more than
`MaxGap` apart, so the clock may tick; on the bus this is a consequence of what the threads do, in four layers.
`TimelyInv`: a heartbeat in the buffer or on the way to the broker was sent in the current tick, since the clock waits until
the queues are empty (`TickIsQuiet`); so the broker handles it with the time it carries. `TokenInv`: a round of a service puts one token into
its queues, a heartbeat, which comes back as its answer and turns into a query; there is never a second (`AtMostOne`), so the
message at the head of the buffer is the only one a torn copy can take. `PaceInv`: a heartbeat was queued no longer ago than a period.
`GapInv` counts: since the last heartbeat that arrived at time `r`, `j` in a row were torn (`Within`), and as long as `j` is not 0
the capacity of the vector is more than `j`. A copy is torn only when the vector is full (`Grows`) while it is being read; then all
its elements but the first are messages of the service, fewer than `MaxBuff` of them when one more is appended
(`FullOfApps`, by cardinality), so the capacity was at most `MaxBuff` and is larger now. `GapEnds` turns the count into time: it never exceeds `LongestGap`, whether the next heartbeat is on
its way or not due yet. The same count, from the last answer, shows that the age the check thread computes
stays below a timeout longer than `LongestGap` (`VerdictInv`), as long as nobody's messages can take the place of the answer
(`SourceInv` says whose they would be). `OnRecord` is the instance of the registry's proofs through which `SteadyServicesStay` holds of the bus.

`StreamReceiver` computes where frames begin by recursion (`Start`), and the induction theorems of the library cannot be
applied by the prover. The proofs take a least counterexample instead (`Least`, from `WFMin`): the recursion has a solution for every stream
(`StartComputed`), it ascends (`StartOrder`), and the frames parsed from a stretch that begins with one are a run of consecutive
numbers (`ParsedUpTo`, `ParsedStretch`). `ReceiverInv` says that the frames passed on ascend (`Ascending`) and
end before the stretch in the buffer (`PassedBefore`), that a parser which is not kept holds nothing (`Dropped`), and
that one which is kept and has refused nothing has passed on exactly the frames before its stretch, and has no
whole frame in it unless the last piece did not fit (`Complete`).

`DeviceInv` says what the poll thread has done so far for the device at hand (`Adding`), that nodes are numbered as they are
created (`Numbered`), that the frames of devices in the table are named (`NamedOrAdding`), that the table and the names agree (`Table`), and that the counter is ahead of every number in use until
it wraps (`Ahead`). `FramesCarryTheirName` takes the names of the node at hand from `Adding` and `Numbered`. `StreamingInv` says that each parser is under the
number of the Session it calls back and that every number but 0 has one (`Table`), so that a Session with a number of its own has its own
parser (`OwnIndexOwnParser`); and of each channel that its list of targets has no duplicates, that the loop is inside
it unless a target was removed (`Inside`), that players to which the frame was sent are behind the loop and those it must still reach ahead of it;
the lemma `WithoutPlaces` says what removing a target does to positions. `StorageInv` rests on session numbers being given to one
connection each (`Distinct`) and known to no table before (`Fresh`, `Known`), and on the callback reading only numbers of
requests that were handled (`Cameras`).

`AnswersAreFound` rests on the named assumption `Keep + MaxPause <= Wait`. Its strengthening orders the clock readings of a
call (`Ordered`) and says that what is kept or found is under its own number (`Filed`, `Found`) and that a handler whose last
look came too late for any answer to be accepted has found nothing and will not (`Missed`, `Closed`): a handler that gives up
has made such a look, since it is never held up for more than `MaxPause`. With the values of the code (8 s, 10 s, looks 1 s
apart) a delay of up to 1 s between two looks is harmless.

TLC alone: liveness (`CallsReturn`, `DeadIsRemoved`, `LossIsNoticed`, `ServiceReturns`, `DeadIsForgotten`, `SenderEnds`), since
liveness under fairness is beyond the prover. Every invariant and every action property of the passing runs, and both refinements,
are proved. All models assume a clock that does not go back:
`XTime::tickcount` reads the local time.

## Not modelled

The content of messages (URLs, JSON), logs, and everything in the table of components with the status
"not_modelled" in `PROJECT.json`, each with its reason. In the modelled parts: `DataTask::stop` and the start of nodes;
the frames a message of the bus is made of and the buffers they are put together in; the refusal of a second connection with the same name by
ZeroMQ; the freeing of a session that `Libasio::send` has just looked up, and writes that overlap: after these the
behaviour of the code is undefined, and nothing about it could be stated.

About half of the source is not the program's own: the Direct3D headers under `include/av/d3dx9` and the media format
library under `src/av` and `include/av` (`mpeg`, `flv`). Of the rest, most wraps FFmpeg, vendor SDKs, Redis and
FastDFS, whose behaviour is not in this repository; the models are about what is left: the bus, the devices, streaming, recording,
and the synchronous calls.

Uploads to files are not modelled, but were read: `UploadSession` passes `append = true` for the first frame of
a file (`services/storage_host_server/upload_session.cpp:62`), while `FdfsStorage::upload` makes a new file when `append` is false and appends to the named
one when it is true (`modules/libfdfs/storage/fdfs_storage.cpp:44`). No document says which of the two is meant.

## What is left

1. `libasio` on its own: the life of a session between the table and the callbacks, and the bytes of overlapping writes, with an
   abstract stream as its specification, and `DvsStreaming` and `StorageTasks` composed on it.
2. The frames of the bus: both ends' buffers as an implementation of a queue of whole messages, with the sizes at which it stops being one.
3. The life cycle of nodes and threads: `ThreadPool::destroy` against the threads it does not wait for.
4. `XBuffer`, `Url` and the parsers of `libhttp` as functions against reference definitions, once the services that use them are finished.
