----------------------------- MODULE StorageTasks -----------------------------
(***************************************************************************)
(* The recording tasks of storage_host_server and the connections they     *)
(* make through libasio.                                                   *)
(*                                                                         *)
(* The poll thread handles mec.task.set, which starts a connection to      *)
(* dvs_host_server and returns, and mec.task.remove.  An io thread calls   *)
(* back when the connection is made: it creates an upload session and      *)
(* enters it in three tables, one after the other, and the session starts  *)
(* a thread that asks for the stream every 10 ms until sending fails.      *)
(*                                                                         *)
(* Task ids come with the requests and session ids from a counter; both    *)
(* are numbers, and the code uses one for the other in one place.  Writes  *)
(* and reads of a connection fail by themselves.  What is received, and    *)
(* how it is written to files, is left out.                                *)
(***************************************************************************)
EXTENDS Integers

CONSTANT MaxSets  \* bound of the number of tasks that are set

ASSUME TasksAssumption == MaxSets \in Nat

Requests == 1 .. MaxSets
Sids == 1 .. MaxSets
Tids == 1 .. MaxSets
None == 0

VARIABLES
  asked,       \* the requests handled so far are 1 .. asked
  tid,         \* the task each of them sets
  used,        \* the requests whose string of ids has been freed
  pollPc,      \* where the poll thread is in removing a task
  victim,      \* the session it removes
  connPc,      \* where the connection of each request is
  sidOf,       \* its session id
  sid,         \* the last session id given out
  camera,      \* the request each session has its ids from
  sessions,    \* Server's table of sessions
  tasks,       \* its table of tasks: the session of each
  asio,        \* libasio's table of connections
  reading,     \* connections that wait for data
  stopped,     \* connections with an error
  sender,      \* where the thread of each session is
  refused,     \* history: sessions whose task id was taken
  removed      \* history: sessions removed by mec.task.remove

pollVars == <<pollPc, victim, removed>>
requestVars == <<asked, tid>>
ioVars == <<connPc, sidOf, sid, camera, used, refused>>
linkVars == <<asio, reading, stopped>>
vars == <<pollVars, requestVars, ioVars, linkVars, sessions, tasks, sender>>

TypeOK ==
  /\ asked \in 0 .. MaxSets
  /\ tid \in [Requests -> Tids \cup {None}]
  /\ used \subseteq Requests
  /\ pollPc \in {"idle", "session", "task"}
  /\ victim \in Sids \cup {None}
  /\ connPc \in [Requests -> {"none", "connecting", "session", "task",
                              "receive", "enter", "open", "closed", "lost"}]
  /\ sidOf \in [Requests -> Sids \cup {None}]
  /\ sid \in 0 .. MaxSets
  /\ camera \in [Sids -> Requests \cup {None}]
  /\ sessions \subseteq Sids
  /\ tasks \in [Tids -> Sids \cup {None}]
  /\ asio \subseteq Sids /\ reading \subseteq Sids /\ stopped \subseteq Sids
  /\ sender \in [Sids -> {"none", "run", "done"}]
  /\ refused \subseteq Sids /\ removed \subseteq Sids

Init ==
  /\ asked = 0 /\ tid = [r \in Requests |-> None] /\ used = {}
  /\ pollPc = "idle" /\ victim = None
  /\ connPc = [r \in Requests |-> "none"]
  /\ sidOf = [r \in Requests |-> None]
  /\ sid = 0 /\ camera = [s \in Sids |-> None]
  /\ sessions = {} /\ tasks = [t \in Tids |-> None]
  /\ asio = {} /\ reading = {} /\ stopped = {}
  /\ sender = [s \in Sids |-> "none"]
  /\ refused = {} /\ removed = {}

-----------------------------------------------------------------------------
(* The poll thread. *)

SetTask(t) ==
  /\ pollPc = "idle" /\ asked < MaxSets
  /\ asked' = asked + 1
  /\ tid' = [tid EXCEPT ![asked + 1] = t]
  /\ connPc' = [connPc EXCEPT ![asked + 1] = "connecting"]
  /\ UNCHANGED <<pollVars, sidOf, sid, camera, used, refused, linkVars, sessions, tasks, sender>>

(* The session of a task is found and told to stop, which takes its thread *)
(* out of the pool and leaves it running.                                  *)
RemoveTask(t) ==
  /\ pollPc = "idle" /\ tasks[t] # None
  /\ pollPc' = "session" /\ victim' = tasks[t]
  /\ UNCHANGED <<removed, requestVars, ioVars, linkVars, sessions, tasks, sender>>

RemoveSession ==
  /\ pollPc = "session"
  /\ sessions' = sessions \ {victim}
  /\ pollPc' = "task"
  /\ UNCHANGED <<victim, removed, requestVars, ioVars, linkVars, tasks, sender>>

(* What is erased from the tasks is the id of the session, not of the      *)
(* task: the entry of the task stays, and that of another may go.          *)
RemoveEntry ==
  /\ pollPc = "task"
  /\ tasks' = [tasks EXCEPT ![victim] = None]
  /\ removed' = removed \cup {victim}
  /\ pollPc' = "idle" /\ victim' = None
  /\ UNCHANGED <<requestVars, ioVars, linkVars, sessions, sender>>

-----------------------------------------------------------------------------
(* The io thread of a connection. *)

ConnectFails(r) ==
  /\ connPc[r] = "connecting"
  /\ connPc' = [connPc EXCEPT ![r] = "closed"]
  /\ UNCHANGED <<pollVars, requestVars, sidOf, sid, camera, used, refused,
                 linkVars, sessions, tasks, sender>>

(* The callback reads the string of ids through a reference to a variable  *)
(* of the handler that has returned: it finds the string of its request,   *)
(* that of one handled since, or nothing.  Outcomes that end the process,  *)
(* such as the use of a string that has been freed, are left out.          *)
Strings(r) == (r .. asked) \ used

(* With no string the connection is left open and never used.              *)
ConnectedBlind(r) ==
  /\ connPc[r] = "connecting"
  /\ connPc' = [connPc EXCEPT ![r] = "lost"]
  /\ UNCHANGED <<pollVars, requestVars, sidOf, sid, camera, used, refused,
                 linkVars, sessions, tasks, sender>>

(* Fault: the session gets the counter's old value. *)
ConnectedPostfix(r) ==
  /\ connPc[r] = "connecting"
  /\ \E u \in Strings(r) : camera' = [camera EXCEPT ![sid] = u]
  /\ sid' = sid + 1
  /\ sidOf' = [sidOf EXCEPT ![r] = sid]
  /\ connPc' = [connPc EXCEPT ![r] = "session"]
  /\ sender' = [sender EXCEPT ![sid] = "run"]
  /\ UNCHANGED <<pollVars, requestVars, used, refused, linkVars, sessions, tasks>>

(* A session is created and its thread started.                            *)
Connected(r) ==
  /\ connPc[r] = "connecting"
  /\ \E u \in Strings(r) : camera' = [camera EXCEPT ![sid + 1] = u]
  /\ sid' = sid + 1
  /\ sidOf' = [sidOf EXCEPT ![r] = sid + 1]
  /\ connPc' = [connPc EXCEPT ![r] = "session"]
  /\ sender' = [sender EXCEPT ![sid + 1] = "run"]
  /\ UNCHANGED <<pollVars, requestVars, used, refused, linkVars, sessions, tasks>>

(* A camera without an id: the session is not kept, the connection is.     *)
ConnectedInvalid(r) ==
  /\ connPc[r] = "connecting"
  /\ \E u \in Strings(r) : used' = used \cup {u}
  /\ sid' = sid + 1
  /\ sidOf' = [sidOf EXCEPT ![r] = sid + 1]
  /\ connPc' = [connPc EXCEPT ![r] = "receive"]
  /\ UNCHANGED <<pollVars, requestVars, camera, refused, linkVars, sessions, tasks, sender>>

(* Fault: the task is entered first, and the session at the end. *)
AddSessionLast(r) ==
  \/ /\ connPc[r] = "session" /\ tasks[tid[camera[sidOf[r]]]] = None
     /\ tasks' = [tasks EXCEPT ![tid[camera[sidOf[r]]]] = sidOf[r]]
     /\ connPc' = [connPc EXCEPT ![r] = "receive"]
     /\ UNCHANGED <<pollVars, requestVars, sidOf, sid, camera, used, refused,
                    linkVars, sessions, sender>>
  \/ /\ connPc[r] = "enter" /\ sidOf[r] \notin sessions
     /\ sessions' = sessions \cup {sidOf[r]}
     /\ UNCHANGED <<pollVars, requestVars, ioVars, linkVars, tasks, sender>>

AddSession(r) ==
  /\ connPc[r] = "session"
  /\ sessions' = sessions \cup {sidOf[r]}
  /\ connPc' = [connPc EXCEPT ![r] = "task"]
  /\ UNCHANGED <<pollVars, requestVars, sidOf, sid, camera, used, refused,
                 linkVars, tasks, sender>>

(* Fault: the ids are read again. *)
AddTaskReread(r) ==
  /\ connPc[r] = "task" /\ camera[sidOf[r]] \notin used
  /\ LET t == tid[asked]
     IN  tasks' = [tasks EXCEPT ![t] = IF @ = None THEN sidOf[r] ELSE @]
  /\ used' = used \cup {camera[sidOf[r]]}
  /\ connPc' = [connPc EXCEPT ![r] = "receive"]
  /\ UNCHANGED <<pollVars, requestVars, sidOf, sid, camera, refused, linkVars, sessions, sender>>

(* Fault: a later session of a task takes the place of the first. *)
AddTaskReplace(r) ==
  /\ connPc[r] = "task" /\ camera[sidOf[r]] \notin used
  /\ tasks' = [tasks EXCEPT ![tid[camera[sidOf[r]]]] = sidOf[r]]
  /\ used' = used \cup {camera[sidOf[r]]}
  /\ connPc' = [connPc EXCEPT ![r] = "receive"]
  /\ UNCHANGED <<pollVars, requestVars, sidOf, sid, camera, refused, linkVars, sessions, sender>>

(* The task is entered, unless its id has an entry, and the string freed.  *)
AddTask(r) ==
  /\ connPc[r] = "task" /\ camera[sidOf[r]] \notin used
  /\ LET t == tid[camera[sidOf[r]]]
     IN  IF tasks[t] = None
           THEN tasks' = [tasks EXCEPT ![t] = sidOf[r]] /\ UNCHANGED refused
           ELSE refused' = refused \cup {sidOf[r]} /\ UNCHANGED tasks
  /\ used' = used \cup {camera[sidOf[r]]}
  /\ connPc' = [connPc EXCEPT ![r] = "receive"]
  /\ UNCHANGED <<pollVars, requestVars, sidOf, sid, camera, linkVars, sessions, sender>>

(* The connection is set to reading, and then entered in libasio's table.  *)
Receive(r) ==
  /\ connPc[r] = "receive"
  /\ reading' = reading \cup {sidOf[r]}
  /\ connPc' = [connPc EXCEPT ![r] = "enter"]
  /\ UNCHANGED <<pollVars, requestVars, sidOf, sid, camera, used, refused,
                 asio, stopped, sessions, tasks, sender>>

Enter(r) ==
  /\ connPc[r] = "enter"
  /\ asio' = asio \cup {sidOf[r]}
  /\ connPc' = [connPc EXCEPT ![r] = "open"]
  /\ UNCHANGED <<pollVars, requestVars, sidOf, sid, camera, used, refused,
                 reading, stopped, sessions, tasks, sender>>

-----------------------------------------------------------------------------
(* Fault: an error of a read is passed on but not remembered. *)
ReadErrorForgotten(s) ==
  /\ s \in reading
  /\ reading' = reading \ {s}
  /\ sessions' = sessions \ {s}
  /\ UNCHANGED <<pollVars, requestVars, ioVars, asio, stopped, tasks, sender>>

(* Fault: Server forgets a session only when it can be found in libasio's table. *)
ReadErrorKnown(s) ==
  /\ s \in reading
  /\ reading' = reading \ {s}
  /\ stopped' = stopped \cup {s}
  /\ sessions' = sessions \ ({s} \cap asio)
  /\ UNCHANGED <<pollVars, requestVars, ioVars, asio, tasks, sender>>

(* A read fails: Server forgets the session, libasio's table keeps it.     *)
ReadError(s) ==
  /\ s \in reading
  /\ reading' = reading \ {s}
  /\ stopped' = stopped \cup {s}
  /\ sessions' = sessions \ {s}
  /\ UNCHANGED <<pollVars, requestVars, ioVars, asio, tasks, sender>>

WriteError(s) ==
  /\ s \in asio \ stopped /\ sender[s] = "run"
  /\ stopped' = stopped \cup {s}
  /\ UNCHANGED <<pollVars, requestVars, ioVars, asio, reading, sessions, tasks, sender>>

(* The thread of a session sends as long as libasio takes it: the session  *)
(* must be in the table, which the thread may be too early for, and have   *)
(* had no error.  Sending itself changes nothing here.                     *)
SenderStep(s) ==
  /\ sender[s] = "run"
  /\ s \notin asio \/ s \in stopped
  /\ sender' = [sender EXCEPT ![s] = "done"]
  /\ UNCHANGED <<pollVars, requestVars, ioVars, linkVars, sessions, tasks>>

Poll == (\E t \in Tids : SetTask(t) \/ RemoveTask(t)) \/ RemoveSession \/ RemoveEntry

Callback(r) ==
  \/ ConnectFails(r) \/ ConnectedBlind(r) \/ Connected(r) \/ ConnectedInvalid(r)
  \/ AddSession(r) \/ AddTask(r) \/ Receive(r) \/ Enter(r)

Next ==
  \/ Poll
  \/ \E r \in Requests : Callback(r)
  \/ \E s \in Sids : ReadError(s) \/ WriteError(s) \/ SenderStep(s)

Spec == Init /\ [][Next]_vars

(* The thread of a session is not stopped by anything but its own loop.    *)
FairSpec == Spec /\ \A s \in Sids : WF_vars(SenderStep(s))

-----------------------------------------------------------------------------
(* A task finds a session for a camera of a request that set this task,    *)
(* also when the callback of a connection has read another request's ids:  *)
(* it reads them once.                                                     *)
TaskHasItsCamera ==
  \A t \in Tids : tasks[t] # None => tid[camera[tasks[t]]] = t

(* What mec.task.remove has removed does not come back: no frame that      *)
(* arrives on its connection, which stays open, is recorded any more.  The *)
(* callback enters a session before the task by which it can be found.     *)
RemovedStaysRemoved == removed \cap sessions = {}

(* A session whose connection has failed while reading is not kept by      *)
(* Server, although its task and libasio's table keep it: the read starts  *)
(* after the callback has entered the session.                             *)
EndedIsForgotten ==
  \A r \in Requests : connPc[r] = "open" /\ sidOf[r] \notin reading => sidOf[r] \notin sessions

(* A session that records can be found by its task, to be removed, unless  *)
(* its task was set before, and be it removed since, or the session of     *)
(* another task that was removed has the number of this task.              *)
TaskIsRemovable ==
  \A r \in Requests :
    LET s == sidOf[r]
    IN  connPc[r] \in {"receive", "enter", "open"} /\ s \in sessions =>
          \/ tasks[tid[camera[s]]] = s
          \/ s \in refused
          \/ tid[camera[s]] \in removed

(* The thread that repeats the request ends when the connection has        *)
(* failed; removing the task does not end it.                              *)
SenderEnds ==
  \A s \in Sids :
    s \in asio \ reading /\ camera[s] # None ~> sender[s] = "done"
=============================================================================
