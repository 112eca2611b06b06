------------------------ MODULE StorageTasks_proofs ------------------------
(***************************************************************************)
(* Proofs about the recording tasks, for any number of requests: TLC       *)
(* checks two.                                                             *)
(*                                                                         *)
(* None of the properties is inductive.  What they rest on is that a       *)
(* session id is given to one connection only and is known to no table     *)
(* before (Distinct, Known, Fresh), and that the request a session has its *)
(* ids from has been handled already (Cameras).                            *)
(***************************************************************************)
EXTENDS StorageTasks, FiniteSetTheorems, TLAPS

Made == {"session", "task", "receive", "enter", "open"}

(* Each session id stands for a connection that is no longer waited for.   *)
Waiting == {r \in Requests : connPc[r] \in {"none", "connecting"}}

SidsLeft == sid + Cardinality(Waiting) <= MaxSets

Given ==
  \A r \in Requests :
    /\ sidOf[r] <= sid
    /\ connPc[r] \in Made => sidOf[r] # None

Distinct ==
  \A r1, r2 \in Requests : r1 # r2 /\ sidOf[r1] # None => sidOf[r1] # sidOf[r2]

(* What a table, the poll thread or the history names has been given.      *)
Known ==
  /\ \A s \in sessions \cup removed : s <= sid /\ camera[s] # None
  /\ victim # None => victim <= sid /\ camera[victim] # None
  /\ \A t \in Tids : tasks[t] # None => tasks[t] <= sid /\ camera[tasks[t]] # None

Cameras ==
  /\ \A s \in Sids : camera[s] <= asked
  /\ \A r \in Requests : connPc[r] \in {"session", "task"} => camera[sidOf[r]] # None

(* Requests that have been handled have a task, others no connection.      *)
Pending ==
  \A r \in Requests : IF r > asked THEN connPc[r] = "none" ELSE tid[r] # None

(* A session that is about to be entered is found nowhere yet.             *)
Fresh ==
  \A r \in Requests : connPc[r] = "session" =>
    /\ sidOf[r] \notin removed /\ sidOf[r] # victim
    /\ \A t \in Tids : tasks[t] # sidOf[r]

Removing ==
  /\ pollPc # "idle" => victim # None
  /\ pollPc = "task" => victim \notin sessions
  /\ removed \cap sessions = {}

EndedGone ==
  \A r \in Requests :
    connPc[r] \in {"enter", "open"} /\ sidOf[r] \notin reading => sidOf[r] \notin sessions

StorageInv ==
  /\ TypeOK /\ SidsLeft /\ Given /\ Distinct /\ Known /\ Cameras
  /\ Pending /\ Fresh /\ Removing /\ EndedGone

-----------------------------------------------------------------------------
(* A connection that is waited for leaves room for one more session id.    *)
LEMMA RoomForSid ==
  ASSUME TypeOK, SidsLeft, NEW r \in Requests, connPc[r] = "connecting"
  PROVE  /\ sid + 1 \in Sids
         /\ IsFiniteSet(Waiting)
         /\ Cardinality(Waiting \ {r}) = Cardinality(Waiting) - 1
<1>1. IsFiniteSet(Requests)
  BY FS_Interval, TasksAssumption DEF Requests
<1>2. IsFiniteSet(Waiting)
  BY <1>1, FS_Subset DEF Waiting
<1>3. r \in Waiting
  BY DEF Waiting
<1>4. /\ Cardinality(Waiting) \in Nat
      /\ Cardinality(Waiting \ {r}) \in Nat
      /\ Cardinality(Waiting \ {r}) = Cardinality(Waiting) - 1
  BY <1>2, <1>3, FS_CardinalityType, FS_RemoveElement
<1>5. sid \in Nat
  BY TasksAssumption DEF TypeOK
<1>6. QED
  BY <1>2, <1>4, <1>5, TasksAssumption DEF SidsLeft, Sids

(* A step that makes no new connection waited for keeps the ids left.      *)
LEMMA SidsLeftKept ==
  ASSUME TypeOK, SidsLeft, sid' = sid,
         \A r \in Requests : connPc'[r] \in {"none", "connecting"}
                               => connPc[r] \in {"none", "connecting"}
  PROVE  SidsLeft'
<1>1. IsFiniteSet(Requests)
  BY FS_Interval, TasksAssumption DEF Requests
<1>2. Waiting' \subseteq Waiting /\ IsFiniteSet(Waiting)
  BY <1>1, FS_Subset DEF Waiting
<1>3. /\ Cardinality(Waiting') <= Cardinality(Waiting)
      /\ Cardinality(Waiting) \in Nat /\ Cardinality(Waiting') \in Nat
  BY <1>2, FS_Subset, FS_CardinalityType
<1>4. QED
  BY <1>3, TasksAssumption DEF SidsLeft, TypeOK

LEMMA InitStorage == Init => StorageInv
<1> SUFFICES ASSUME Init
             PROVE  StorageInv
  OBVIOUS
<1>1. TypeOK
  BY TasksAssumption DEF Init, TypeOK, None, Requests, Sids, Tids
<1>2. SidsLeft
  <2>1. Waiting = 1 .. MaxSets
    BY DEF Init, Waiting, Requests
  <2>2. Cardinality(1 .. MaxSets) = MaxSets
    BY FS_Interval, TasksAssumption
  <2>3. QED
    BY <2>1, <2>2, TasksAssumption DEF Init, SidsLeft
<1>3. Given /\ Distinct /\ Known /\ Cameras /\ Pending /\ Fresh /\ Removing /\ EndedGone
  BY TasksAssumption DEF Init, Given, Distinct, Known, Cameras, Pending, Fresh,
     Removing, EndedGone, Made, None, Requests, Sids, Tids
<1>4. QED
  BY <1>1, <1>2, <1>3 DEF StorageInv

(* The poll thread. *)
LEMMA SetTaskKeeps == ASSUME StorageInv, NEW t \in Tids, SetTask(t) PROVE StorageInv'
<1> USE TasksAssumption DEF StorageInv, pollVars, requestVars, ioVars, linkVars,
                            Requests, Sids, Tids, None
<1>1. TypeOK'
  BY DEF SetTask, TypeOK
<1>2. SidsLeft'
  <2>1. \A r2 \in Requests : connPc'[r2] \in {"none", "connecting"}
                              => connPc[r2] \in {"none", "connecting"}
    BY DEF SetTask, TypeOK, Pending
  <2>2. sid' = sid
    BY DEF SetTask
  <2>3. QED
    BY <2>1, <2>2, SidsLeftKept
<1>3. Given' /\ Distinct'
  BY DEF SetTask, TypeOK, Given, Distinct, Made
<1>4. Known'
  BY DEF SetTask, TypeOK, Known
<1>5. Cameras' /\ Pending'
  <2>1. asked \in Nat /\ asked' = asked + 1 /\ camera' = camera /\ sidOf' = sidOf
    BY DEF SetTask, TypeOK
  <2>2. \A r \in Requests : connPc'[r] = IF r = asked + 1 THEN "connecting" ELSE connPc[r]
    BY DEF SetTask, TypeOK
  <2>3. \A q \in Sids : camera[q] \in Nat
    BY DEF TypeOK
  <2>4. \A r \in Requests : tid'[r] = IF r = asked + 1 THEN t ELSE tid[r]
    BY DEF SetTask, TypeOK
  <2>5. Cameras'
    BY <2>1, <2>2, <2>3 DEF Cameras
  <2>6. Pending'
    BY <2>1, <2>2, <2>4 DEF Pending
  <2>7. QED
    BY <2>5, <2>6
<1>6. Fresh'
  BY DEF SetTask, TypeOK, Given, Distinct, Known, Fresh, Made
<1>7. Removing' /\ EndedGone'
  BY DEF SetTask, TypeOK, Given, Distinct, Removing, EndedGone, Fresh, Made
<1>8. QED
  BY <1>1, <1>2, <1>3, <1>4, <1>5, <1>6, <1>7

(* What is removed was in the table of tasks. *)
LEMMA RemovalKeeps ==
  ASSUME StorageInv, (\E t \in Tids : RemoveTask(t)) \/ RemoveSession \/ RemoveEntry
  PROVE  StorageInv'
<1> USE TasksAssumption DEF StorageInv, pollVars, requestVars, ioVars, linkVars,
                            Requests, Sids, Tids, None
<1>1. TypeOK'
  BY DEF RemoveTask, RemoveSession, RemoveEntry, TypeOK, Removing
<1>2. SidsLeft'
  <2>1. \A r2 \in Requests : connPc'[r2] \in {"none", "connecting"}
                              => connPc[r2] \in {"none", "connecting"}
    BY DEF RemoveTask, RemoveSession, RemoveEntry, TypeOK, Pending
  <2>2. sid' = sid
    BY DEF RemoveTask, RemoveSession, RemoveEntry
  <2>3. QED
    BY <2>1, <2>2, SidsLeftKept
<1>3. Given' /\ Distinct'
  BY DEF RemoveTask, RemoveSession, RemoveEntry, TypeOK, Given, Distinct, Made
<1>4. Known'
  <2>1. CASE \E t \in Tids : RemoveTask(t)
    BY <2>1 DEF RemoveTask, TypeOK, Known
  <2>2. CASE RemoveSession
    BY <2>2 DEF RemoveSession, Known
  <2>3. CASE RemoveEntry
    <3>1. \A s \in removed' : s \in removed \/ s = victim
      BY <2>3 DEF RemoveEntry
    <3>2. \A t \in Tids : tasks'[t] = tasks[t] \/ tasks'[t] = None
      BY <2>3 DEF RemoveEntry, TypeOK
    <3>3. QED
      BY <2>3, <3>1, <3>2 DEF RemoveEntry, Known, Removing
  <2>4. QED
    BY <2>1, <2>2, <2>3
<1>5. Cameras' /\ Pending'
  BY DEF RemoveTask, RemoveSession, RemoveEntry, TypeOK, Cameras, Pending
<1>6. Fresh'
  BY DEF RemoveTask, RemoveSession, RemoveEntry, TypeOK, Given, Distinct, Known, Fresh, Made
<1>7. Removing' /\ EndedGone'
  <2>1. CASE \E t \in Tids : RemoveTask(t)
    BY <2>1 DEF RemoveTask, Removing, EndedGone
  <2>2. CASE RemoveSession
    BY <2>2 DEF RemoveSession, Removing, EndedGone
  <2>3. CASE RemoveEntry
    BY <2>3 DEF RemoveEntry, Removing, EndedGone
  <2>4. QED
    BY <2>1, <2>2, <2>3
<1>8. QED
  BY <1>1, <1>2, <1>3, <1>4, <1>5, <1>6, <1>7

(* A connection that is not made, or made in vain. *)
LEMMA UnmadeKeeps == ASSUME StorageInv, NEW r \in Requests, ConnectFails(r) \/ ConnectedBlind(r) PROVE StorageInv'
<1> USE TasksAssumption DEF StorageInv, pollVars, requestVars, ioVars, linkVars,
                            Requests, Sids, Tids, None
<1>1. TypeOK'
  BY DEF ConnectFails, ConnectedBlind, TypeOK
<1>2. SidsLeft'
  <2>1. \A r2 \in Requests : connPc'[r2] \in {"none", "connecting"}
                              => connPc[r2] \in {"none", "connecting"}
    BY DEF ConnectFails, ConnectedBlind, TypeOK, Pending
  <2>2. sid' = sid
    BY DEF ConnectFails, ConnectedBlind
  <2>3. QED
    BY <2>1, <2>2, SidsLeftKept
<1>3. Given' /\ Distinct'
  BY DEF ConnectFails, ConnectedBlind, TypeOK, Given, Distinct, Made
<1>4. Known'
  BY DEF ConnectFails, ConnectedBlind, Known
<1>5. Cameras' /\ Pending'
  BY DEF ConnectFails, ConnectedBlind, TypeOK, Cameras, Pending
<1>6. Fresh'
  BY DEF ConnectFails, ConnectedBlind, TypeOK, Given, Distinct, Known, Fresh, Made
<1>7. Removing' /\ EndedGone'
  BY DEF ConnectFails, ConnectedBlind, TypeOK, Given, Distinct, Removing, EndedGone, Fresh, Made
<1>8. QED
  BY <1>1, <1>2, <1>3, <1>4, <1>5, <1>6, <1>7

(* A session that is entered is one that was never removed. *)
LEMMA AddSessionKeeps == ASSUME StorageInv, NEW r \in Requests, AddSession(r) PROVE StorageInv'
<1> USE TasksAssumption DEF StorageInv, pollVars, requestVars, ioVars, linkVars,
                            Requests, Sids, Tids, None
<1>1. TypeOK'
  BY DEF AddSession, TypeOK, Given, Made
<1>2. SidsLeft'
  <2>1. \A r2 \in Requests : connPc'[r2] \in {"none", "connecting"}
                              => connPc[r2] \in {"none", "connecting"}
    BY DEF AddSession, TypeOK, Pending
  <2>2. sid' = sid
    BY DEF AddSession
  <2>3. QED
    BY <2>1, <2>2, SidsLeftKept
<1>3. Given' /\ Distinct'
  BY DEF AddSession, TypeOK, Given, Distinct, Made
<1>4. Known'
  BY DEF AddSession, TypeOK, Given, Known, Cameras, Made
<1>5. Cameras' /\ Pending'
  BY DEF AddSession, TypeOK, Cameras, Pending
<1>6. Fresh'
  BY DEF AddSession, TypeOK, Given, Distinct, Known, Fresh, Made
<1>7. Removing' /\ EndedGone'
  BY DEF AddSession, TypeOK, Given, Distinct, Removing, EndedGone, Fresh, Made
<1>8. QED
  BY <1>1, <1>2, <1>3, <1>4, <1>5, <1>6, <1>7

(* Its task, whose ids it still has. *)
LEMMA AddTaskKeeps == ASSUME StorageInv, NEW r \in Requests, AddTask(r) PROVE StorageInv'
<1> USE TasksAssumption DEF StorageInv, pollVars, requestVars, ioVars, linkVars,
                            Requests, Sids, Tids, None
<1>1. TypeOK'
  <2>1. sidOf[r] \in Sids /\ camera[sidOf[r]] \in Requests
    BY DEF AddTask, TypeOK, Given, Cameras, Made
  <2>2. tasks' \in [Tids -> Sids \cup {None}] /\ refused' \subseteq Sids
    BY <2>1 DEF AddTask, TypeOK
  <2>3. used' \subseteq Requests
    BY <2>1 DEF AddTask, TypeOK
  <2>4. QED
    BY <2>2, <2>3 DEF AddTask, TypeOK
<1>2. SidsLeft'
  <2>1. \A r2 \in Requests : connPc'[r2] \in {"none", "connecting"}
                              => connPc[r2] \in {"none", "connecting"}
    BY DEF AddTask, TypeOK, Pending
  <2>2. sid' = sid
    BY DEF AddTask
  <2>3. QED
    BY <2>1, <2>2, SidsLeftKept
<1>3. Given' /\ Distinct'
  BY DEF AddTask, TypeOK, Given, Distinct, Made
<1>4. Known'
  BY DEF AddTask, TypeOK, Given, Known, Cameras, Made
<1>5. Cameras' /\ Pending'
  BY DEF AddTask, TypeOK, Cameras, Pending
<1>6. Fresh'
  BY DEF AddTask, TypeOK, Given, Distinct, Known, Fresh, Made
<1>7. Removing' /\ EndedGone'
  BY DEF AddTask, TypeOK, Given, Distinct, Removing, EndedGone, Fresh, Made
<1>8. QED
  BY <1>1, <1>2, <1>3, <1>4, <1>5, <1>6, <1>7

(* Reading starts after the session has been entered. *)
LEMMA EnterKeeps == ASSUME StorageInv, NEW r \in Requests, Receive(r) \/ Enter(r) PROVE StorageInv'
<1> USE TasksAssumption DEF StorageInv, pollVars, requestVars, ioVars, linkVars,
                            Requests, Sids, Tids, None
<1>1. TypeOK'
  <2>1. sidOf[r] \in Sids
    BY DEF Receive, Enter, TypeOK, Given, Made
  <2>2. reading' \subseteq Sids /\ asio' \subseteq Sids
    BY <2>1 DEF Receive, Enter, TypeOK
  <2>3. QED
    BY <2>2 DEF Receive, Enter, TypeOK
<1>2. SidsLeft'
  <2>1. \A r2 \in Requests : connPc'[r2] \in {"none", "connecting"}
                              => connPc[r2] \in {"none", "connecting"}
    BY DEF Receive, Enter, TypeOK, Pending
  <2>2. sid' = sid
    BY DEF Receive, Enter
  <2>3. QED
    BY <2>1, <2>2, SidsLeftKept
<1>3. Given' /\ Distinct'
  BY DEF Receive, Enter, TypeOK, Given, Distinct, Made
<1>4. Known'
  BY DEF Receive, Enter, Known
<1>5. Cameras' /\ Pending'
  BY DEF Receive, Enter, TypeOK, Cameras, Pending
<1>6. Fresh'
  BY DEF Receive, Enter, TypeOK, Given, Distinct, Known, Fresh, Made
<1>7. Removing' /\ EndedGone'
  BY DEF Receive, Enter, TypeOK, Given, Distinct, Removing, EndedGone, Fresh, Made
<1>8. QED
  BY <1>1, <1>2, <1>3, <1>4, <1>5, <1>6, <1>7

(* Errors of a connection, and its thread. *)
LEMMA LinkKeeps == ASSUME StorageInv, NEW s \in Sids, ReadError(s) \/ WriteError(s) \/ SenderStep(s) PROVE StorageInv'
<1> USE TasksAssumption DEF StorageInv, pollVars, requestVars, ioVars, linkVars,
                            Requests, Sids, Tids, None
<1>1. TypeOK'
  BY DEF ReadError, WriteError, SenderStep, TypeOK
<1>2. SidsLeft'
  <2>1. \A r2 \in Requests : connPc'[r2] \in {"none", "connecting"}
                              => connPc[r2] \in {"none", "connecting"}
    BY DEF ReadError, WriteError, SenderStep, TypeOK, Pending
  <2>2. sid' = sid
    BY DEF ReadError, WriteError, SenderStep
  <2>3. QED
    BY <2>1, <2>2, SidsLeftKept
<1>3. Given' /\ Distinct'
  BY DEF ReadError, WriteError, SenderStep, TypeOK, Given, Distinct, Made
<1>4. Known'
  BY DEF ReadError, WriteError, SenderStep, Known
<1>5. Cameras' /\ Pending'
  BY DEF ReadError, WriteError, SenderStep, TypeOK, Cameras, Pending
<1>6. Fresh'
  BY DEF ReadError, WriteError, SenderStep, TypeOK, Given, Distinct, Known, Fresh, Made
<1>7. Removing' /\ EndedGone'
  BY DEF ReadError, WriteError, SenderStep, TypeOK, Given, Distinct, Removing, EndedGone, Fresh, Made
<1>8. QED
  BY <1>1, <1>2, <1>3, <1>4, <1>5, <1>6, <1>7

(* A connection that is made takes the next session id, which is new to    *)
(* every table, whether or not the session is kept.                        *)
LEMMA ConnectedKeeps ==
  ASSUME StorageInv, NEW r \in Requests, Connected(r) \/ ConnectedInvalid(r)
  PROVE  StorageInv'
<1> USE TasksAssumption DEF StorageInv, pollVars, requestVars, ioVars, linkVars,
                            Requests, Sids, Tids, None
<1>1. /\ sid + 1 \in Sids /\ sid' = sid + 1
      /\ sidOf' = [sidOf EXCEPT ![r] = sid + 1]
      /\ connPc[r] = "connecting"
  BY RoomForSid DEF Connected, ConnectedInvalid
<1>2. \A s \in Sids : s <= sid => camera'[s] = camera[s]
  BY <1>1 DEF Connected, ConnectedInvalid, TypeOK
<1>3. Strings(r) \subseteq Requests /\ \A u \in Strings(r) : u <= asked
  BY DEF Strings, TypeOK
<1>4. TypeOK'
  <2>1. camera' \in [Sids -> Requests \cup {None}] /\ used' \subseteq Requests
    <3>1. CASE Connected(r)
      BY <1>1, <1>3, <3>1 DEF Connected, TypeOK
    <3>2. CASE ConnectedInvalid(r)
      <4>1. PICK u \in Strings(r) : used' = used \cup {u}
        BY <3>2 DEF ConnectedInvalid
      <4>2. u \in Requests /\ used \subseteq Requests
        BY <1>3, <4>1 DEF TypeOK
      <4>3. camera' = camera /\ camera \in [Sids -> Requests \cup {None}]
        BY <3>2 DEF ConnectedInvalid, TypeOK
      <4>4. QED
        BY <4>1, <4>2, <4>3
    <3>3. QED
      BY <3>1, <3>2
  <2>2. sid' \in 0 .. MaxSets /\ sidOf' \in [Requests -> Sids \cup {None}]
    BY <1>1 DEF TypeOK
  <2>3. sender' \in [Sids -> {"none", "run", "done"}]
    BY <1>1 DEF Connected, ConnectedInvalid, TypeOK
  <2>4. QED
    BY <2>1, <2>2, <2>3 DEF Connected, ConnectedInvalid, TypeOK
<1>5. SidsLeft'
  <2>1. Waiting' = Waiting \ {r}
    BY DEF Connected, ConnectedInvalid, TypeOK, Waiting
  <2>2. IsFiniteSet(Waiting) /\ Cardinality(Waiting') = Cardinality(Waiting) - 1
    BY <1>1, <2>1, RoomForSid
  <2>3. Cardinality(Waiting) \in Nat
    BY <2>2, FS_CardinalityType
  <2>4. QED
    BY <1>1, <2>2, <2>3 DEF SidsLeft, TypeOK
<1>6. Given' /\ Distinct'
  BY <1>1 DEF Connected, ConnectedInvalid, TypeOK, Given, Distinct, Made
<1>7. Known'
  <2>1. /\ UNCHANGED <<sessions, removed, victim, tasks>>
        /\ sid \in Nat /\ \A t \in Tids : tasks[t] = None \/ tasks[t] \in Sids
        /\ sessions \cup removed \subseteq Sids /\ (victim = None \/ victim \in Sids)
    BY DEF Connected, ConnectedInvalid, TypeOK
  <2>2. \A s \in Sids : s <= sid => s <= sid'
    BY <1>1, <2>1
  <2>3. QED
    BY <1>2, <2>1, <2>2 DEF Known
<1>8. Cameras' /\ Pending'
  <2>1. \A s \in Sids : camera'[s] <= asked'
    BY <1>1, <1>3 DEF Connected, ConnectedInvalid, TypeOK, Cameras
  <2>2. ASSUME NEW q \in Requests, connPc'[q] \in {"session", "task"}
        PROVE  camera'[sidOf'[q]] # None
    <3>1. CASE q = r
      BY <1>1, <1>3, <2>2, <3>1 DEF Connected, ConnectedInvalid, TypeOK
    <3>2. CASE q # r
      <4>1. connPc'[q] = connPc[q] /\ sidOf'[q] = sidOf[q]
        BY <1>1, <3>2 DEF Connected, ConnectedInvalid, TypeOK
      <4>2. sidOf[q] \in Sids /\ sidOf[q] <= sid
        BY <2>2, <4>1 DEF TypeOK, Given, Made
      <4>3. QED
        BY <1>2, <2>2, <4>1, <4>2 DEF Cameras
    <3>3. QED
      BY <3>1, <3>2
  <2>3. Pending'
    BY DEF Connected, ConnectedInvalid, TypeOK, Pending
  <2>4. QED
    BY <2>1, <2>2, <2>3 DEF Cameras
<1>9. Fresh'
  BY <1>1 DEF Connected, ConnectedInvalid, TypeOK, Given, Known, Fresh, Made
<1>10. Removing' /\ EndedGone'
  BY <1>1 DEF Connected, ConnectedInvalid, TypeOK, Removing, EndedGone
<1>11. QED
  BY <1>4, <1>5, <1>6, <1>7, <1>8, <1>9, <1>10

-----------------------------------------------------------------------------
LEMMA StorageInductive == StorageInv /\ [Next]_vars => StorageInv'
<1> SUFFICES ASSUME StorageInv, [Next]_vars
             PROVE  StorageInv'
  OBVIOUS
<1>1. CASE Poll
  BY <1>1, SetTaskKeeps, RemovalKeeps DEF Poll
<1>2. ASSUME NEW r \in Requests, Callback(r)
      PROVE  StorageInv'
  BY <1>2, UnmadeKeeps, ConnectedKeeps, AddSessionKeeps, AddTaskKeeps, EnterKeeps
     DEF Callback
<1>3. ASSUME NEW s \in Sids, ReadError(s) \/ WriteError(s) \/ SenderStep(s)
      PROVE  StorageInv'
  BY <1>3, LinkKeeps
<1>4. CASE UNCHANGED vars
  BY <1>4 DEF vars, pollVars, requestVars, ioVars, linkVars, StorageInv, TypeOK,
     SidsLeft, Waiting, Given, Distinct, Known, Cameras, Pending, Fresh, Removing, EndedGone
<1>5. QED
  BY <1>1, <1>2, <1>3, <1>4 DEF Next

LEMMA StorageAlways == Spec => []StorageInv
<1>1. QED
  BY InitStorage, StorageInductive, PTL DEF Spec

(* The variables of the tasks stay in their types; in particular there are *)
(* never more session ids than requests.                                   *)
THEOREM StorageTypeCorrect == Spec => []TypeOK
<1>1. StorageInv => TypeOK
  BY DEF StorageInv
<1>2. QED
  BY <1>1, StorageAlways, PTL

(* What mec.task.remove has removed does not come back, and a session that *)
(* has ended is not kept, however the callbacks of any number of           *)
(* connections interleave with the poll thread.                            *)
THEOREM RemovedIsGone == Spec => [](RemovedStaysRemoved /\ EndedIsForgotten)
<1>1. StorageInv => RemovedStaysRemoved
  <2> SUFFICES ASSUME StorageInv, NEW s \in removed
               PROVE  s \notin sessions
    BY DEF RemovedStaysRemoved
  <2>1. QED
    BY DEF StorageInv, Removing
<1>2. StorageInv => EndedIsForgotten
  BY DEF StorageInv, EndedGone, EndedIsForgotten
<1>3. QED
  BY <1>1, <1>2, StorageAlways, PTL

-----------------------------------------------------------------------------
(* The ids of a session that is known are those of its request for good.   *)
IdsKept ==
  \A s \in Sids : s <= sid /\ camera[s] # None =>
    camera'[s] = camera[s] /\ tid'[camera[s]] = tid[camera[s]]

LEMMA IdsAreKept == ASSUME StorageInv, [Next]_vars PROVE IdsKept
<1> USE TasksAssumption DEF StorageInv, IdsKept, pollVars, requestVars, ioVars, linkVars,
                            Requests, Sids, Tids, None
<1>1. ASSUME NEW t \in Tids, SetTask(t)
      PROVE  IdsKept
  <2>1. /\ asked \in Nat /\ camera' = camera
        /\ \A u \in Requests : u <= asked => tid'[u] = tid[u]
    BY <1>1 DEF SetTask, TypeOK
  <2>2. \A s \in Sids : camera[s] # None => camera[s] \in Requests /\ camera[s] <= asked
    BY DEF TypeOK, Cameras
  <2>3. QED
    BY <2>1, <2>2
<1>2. ASSUME NEW r \in Requests, Callback(r)
      PROVE  IdsKept
  <2>1. ASSUME Connected(r) \/ ConnectedInvalid(r)
        PROVE  IdsKept
    <3>1. connPc[r] = "connecting"
      BY <2>1 DEF Connected, ConnectedInvalid
    <3>2. sid + 1 \in Sids /\ sid \in Nat
      <4>1. TypeOK /\ SidsLeft
        OBVIOUS
      <4>2. sid + 1 \in Sids
        BY <3>1, <4>1, RoomForSid
      <4>3. sid \in Nat
        BY <4>1 DEF TypeOK
      <4>4. QED
        BY <4>2, <4>3
    <3>3. tid' = tid /\ \A s \in Sids : s <= sid => camera'[s] = camera[s]
      BY <2>1, <3>2 DEF Connected, ConnectedInvalid, TypeOK
    <3>4. QED
      BY <3>3
  <2>2. QED
    BY <1>2, <2>1 DEF Callback, ConnectFails, ConnectedBlind, AddSession, AddTask, Receive, Enter
<1>3. ASSUME NEW t \in Tids, RemoveTask(t)
      PROVE  IdsKept
  BY <1>3 DEF RemoveTask
<1>4. CASE RemoveSession \/ RemoveEntry
  BY <1>4 DEF RemoveSession, RemoveEntry
<1>5. ASSUME NEW s \in Sids, ReadError(s) \/ WriteError(s) \/ SenderStep(s)
      PROVE  IdsKept
  BY <1>5 DEF ReadError, WriteError, SenderStep
<1>6. CASE UNCHANGED vars
  BY <1>6 DEF vars
<1>7. QED
  BY <1>1, <1>2, <1>3, <1>4, <1>5, <1>6 DEF Next, Poll

(* An entry of the table of tasks is kept, erased by RemoveEntry under a   *)
(* number that is then removed, or made by AddTask for a task without one. *)
LEMMA EntriesChange ==
  ASSUME StorageInv, [Next]_vars, NEW t \in Tids
  PROVE  \/ tasks'[t] = tasks[t]
         \/ tasks'[t] = None /\ t \in removed'
         \/ \E r \in Requests :
              /\ connPc[r] = "task" /\ t = tid[camera[sidOf[r]]]
              /\ tasks[t] = None /\ tasks'[t] = sidOf[r]
<1> USE DEF StorageInv, pollVars, requestVars, ioVars, linkVars
<1>1. CASE Poll
  BY <1>1 DEF Poll, SetTask, RemoveTask, RemoveSession, RemoveEntry, TypeOK
<1>2. ASSUME NEW r \in Requests, AddTask(r)
      PROVE  \/ tasks'[t] = tasks[t]
             \/ /\ connPc[r] = "task" /\ t = tid[camera[sidOf[r]]]
                /\ tasks[t] = None /\ tasks'[t] = sidOf[r]
  <2>1. connPc[r] = "task" /\ tasks \in [Tids -> Sids \cup {None}]
    BY <1>2 DEF AddTask, TypeOK
  <2>2. \/ tasks' = tasks
        \/ /\ tasks[tid[camera[sidOf[r]]]] = None
           /\ tasks' = [tasks EXCEPT ![tid[camera[sidOf[r]]]] = sidOf[r]]
    BY <1>2 DEF AddTask
  <2>3. CASE t = tid[camera[sidOf[r]]]
    BY <2>1, <2>2, <2>3
  <2>4. CASE t # tid[camera[sidOf[r]]]
    BY <2>1, <2>2, <2>4
  <2>5. QED
    BY <2>3, <2>4
<1>3. ASSUME NEW r \in Requests, Callback(r), ~AddTask(r)
      PROVE  tasks' = tasks
  BY <1>3 DEF Callback, ConnectFails, ConnectedBlind, Connected, ConnectedInvalid,
     AddSession, Receive, Enter
<1>4. ASSUME NEW s \in Sids, ReadError(s) \/ WriteError(s) \/ SenderStep(s)
      PROVE  tasks' = tasks
  BY <1>4 DEF ReadError, WriteError, SenderStep
<1>5. CASE UNCHANGED vars
  BY <1>5 DEF vars
<1>6. QED
  BY <1>1, <1>2, <1>3, <1>4, <1>5 DEF Next

LEMMA CameraStep ==
  ASSUME StorageInv, TaskHasItsCamera, [Next]_vars
  PROVE  TaskHasItsCamera'
<1> SUFFICES ASSUME NEW t \in Tids, tasks'[t] # None
             PROVE  tid'[camera'[tasks'[t]]] = t
  BY DEF TaskHasItsCamera
<1>1. IdsKept
  BY IdsAreKept
<1>2. CASE tasks'[t] = tasks[t]
  <2>1. tasks[t] \in Sids /\ tasks[t] <= sid /\ camera[tasks[t]] # None
    BY <1>2 DEF StorageInv, TypeOK, Known
  <2>2. QED
    BY <1>1, <1>2, <2>1 DEF IdsKept, TaskHasItsCamera
<1>3. ASSUME NEW r \in Requests, connPc[r] = "task", t = tid[camera[sidOf[r]]],
             tasks'[t] = sidOf[r]
      PROVE  tid'[camera'[tasks'[t]]] = t
  <2>1. sidOf[r] \in Sids /\ sidOf[r] <= sid /\ camera[sidOf[r]] # None
    BY <1>3 DEF StorageInv, TypeOK, Given, Cameras, Made
  <2>2. QED
    BY <1>1, <1>3, <2>1 DEF IdsKept
<1>4. QED
  BY <1>2, <1>3, EntriesChange

(* What a task finds has its ids from a request that set this task, and    *)
(* was therefore meant for it, although the callback of a connection may   *)
(* read the ids of another request than its own.                           *)
THEOREM TasksFindTheirCamera == Spec => []TaskHasItsCamera
<1>1. Init => TaskHasItsCamera
  BY DEF Init, TaskHasItsCamera
<1>2. StorageInv /\ TaskHasItsCamera /\ [Next]_vars => TaskHasItsCamera'
  BY CameraStep
<1>3. QED
  BY <1>1, <1>2, StorageAlways, PTL DEF Spec

-----------------------------------------------------------------------------
(* A session that is kept and past its entry was so before, or has just    *)
(* had its task entered or refused.                                        *)
LEMMA SessionsChange ==
  ASSUME StorageInv, [Next]_vars, NEW r \in Requests,
         connPc'[r] \in {"receive", "enter", "open"}, sidOf'[r] \in sessions'
  PROVE  /\ sidOf'[r] = sidOf[r] /\ sidOf[r] \in sessions
         /\ \/ connPc[r] \in {"receive", "enter", "open"}
            \/ /\ connPc[r] = "task"
               /\ sidOf[r] \in refused' \/ tasks'[tid[camera[sidOf[r]]]] = sidOf[r]
<1> DEFINE Goal == /\ sidOf'[r] = sidOf[r] /\ sidOf[r] \in sessions
                   /\ \/ connPc[r] \in {"receive", "enter", "open"}
                      \/ /\ connPc[r] = "task"
                         /\ sidOf[r] \in refused' \/ tasks'[tid[camera[sidOf[r]]]] = sidOf[r]
<1> USE TasksAssumption DEF StorageInv, pollVars, requestVars, ioVars, linkVars,
                            Requests, Sids, Tids, None
<1>1. CASE Poll
  BY <1>1 DEF Poll, SetTask, RemoveTask, RemoveSession, RemoveEntry, TypeOK
<1>2. ASSUME NEW q \in Requests, Callback(q)
      PROVE  Goal
  <2>1. CASE ConnectFails(q) \/ ConnectedBlind(q) \/ Receive(q) \/ Enter(q)
    BY <2>1 DEF ConnectFails, ConnectedBlind, Receive, Enter, TypeOK
  <2>2. CASE Connected(q) \/ ConnectedInvalid(q)
    <3>1. sid + 1 \notin sessions /\ sessions' = sessions
      BY <2>2 DEF Connected, ConnectedInvalid, Known, TypeOK
    <3>2. sidOf' = [sidOf EXCEPT ![q] = sid + 1]
      BY <2>2 DEF Connected, ConnectedInvalid
    <3>3. q # r
      BY <3>1, <3>2 DEF TypeOK
    <3>4. connPc'[r] = connPc[r]
      BY <2>2, <3>3 DEF Connected, ConnectedInvalid, TypeOK
    <3>5. QED
      BY <3>1, <3>2, <3>3, <3>4 DEF TypeOK
  <2>3. CASE AddSession(q)
    <3>1. q # r /\ connPc'[r] = connPc[r] /\ sidOf' = sidOf
      BY <2>3 DEF AddSession, TypeOK
    <3>2. sidOf[q] # sidOf[r]
      BY <2>3, <3>1 DEF AddSession, Given, Distinct, Made
    <3>3. QED
      BY <2>3, <3>1, <3>2 DEF AddSession
  <2>4. CASE AddTask(q)
    <3>1. sidOf' = sidOf /\ sessions' = sessions
      BY <2>4 DEF AddTask
    <3>2. CASE q # r
      BY <2>4, <3>1, <3>2 DEF AddTask, TypeOK
    <3>3. CASE q = r
      <4>1. sidOf[r] \in Sids /\ camera[sidOf[r]] \in Requests /\ camera[sidOf[r]] <= asked
        BY <2>4, <3>3 DEF AddTask, TypeOK, Given, Cameras, Made
      <4>2. tid[camera[sidOf[r]]] \in Tids
        BY <4>1 DEF TypeOK, Pending
      <4>3. QED
        BY <2>4, <3>1, <3>3, <4>2 DEF AddTask, TypeOK
    <3>4. QED
      BY <3>2, <3>3
  <2>5. QED
    BY <1>2, <2>1, <2>2, <2>3, <2>4 DEF Callback
<1>3. ASSUME NEW s \in Sids, ReadError(s) \/ WriteError(s) \/ SenderStep(s)
      PROVE  Goal
  BY <1>3 DEF ReadError, WriteError, SenderStep
<1>4. CASE UNCHANGED vars
  BY <1>4 DEF vars
<1>5. QED
  BY <1>1, <1>2, <1>3, <1>4 DEF Next

(* Sessions whose task was taken, and numbers that were removed, stay so.   *)
LEMMA HistoryGrows ==
  ASSUME [Next]_vars
  PROVE  refused \subseteq refused' /\ removed \subseteq removed'
<1> USE DEF pollVars, requestVars, ioVars, linkVars
<1>1. CASE Poll
  BY <1>1 DEF Poll, SetTask, RemoveTask, RemoveSession, RemoveEntry
<1>2. ASSUME NEW r \in Requests, Callback(r)
      PROVE  refused \subseteq refused' /\ removed \subseteq removed'
  BY <1>2 DEF Callback, ConnectFails, ConnectedBlind, Connected, ConnectedInvalid,
     AddSession, AddTask, Receive, Enter
<1>3. ASSUME NEW s \in Sids, ReadError(s) \/ WriteError(s) \/ SenderStep(s)
      PROVE  refused \subseteq refused' /\ removed \subseteq removed'
  BY <1>3 DEF ReadError, WriteError, SenderStep
<1>4. CASE UNCHANGED vars
  BY <1>4 DEF vars
<1>5. QED
  BY <1>1, <1>2, <1>3, <1>4 DEF Next

LEMMA RemovableStep ==
  ASSUME StorageInv, TaskIsRemovable, [Next]_vars
  PROVE  TaskIsRemovable'
<1> USE DEF None
<1> SUFFICES ASSUME NEW r \in Requests,
                    connPc'[r] \in {"receive", "enter", "open"},
                    sidOf'[r] \in sessions'
             PROVE  LET s == sidOf'[r] IN
                      \/ tasks'[tid'[camera'[s]]] = s
                      \/ s \in refused'
                      \/ tid'[camera'[s]] \in removed'
  BY DEF TaskIsRemovable
<1> DEFINE s == sidOf[r]
           t == tid[camera[s]]
<1>1. /\ sidOf'[r] = s /\ s \in sessions
      /\ \/ connPc[r] \in {"receive", "enter", "open"}
         \/ connPc[r] = "task" /\ (s \in refused' \/ tasks'[t] = s)
  BY SessionsChange
<1>2. /\ s \in Sids /\ s <= sid /\ s # None
      /\ camera[s] \in Requests /\ camera[s] <= asked
  BY <1>1, TasksAssumption DEF StorageInv, TypeOK, Known, Cameras, Sids
<1>3. camera'[s] = camera[s] /\ tid'[camera[s]] = t
  <2>1. camera[s] # None
    BY <1>2, TasksAssumption DEF Requests
  <2>2. IdsKept
    BY IdsAreKept
  <2>3. QED
    BY <1>2, <2>1, <2>2 DEF IdsKept
<1>4. t \in Tids
  BY <1>2, TasksAssumption DEF StorageInv, TypeOK, Pending, Requests
<1>5. CASE connPc[r] = "task"
  BY <1>1, <1>3, <1>5
<1>6. CASE connPc[r] \in {"receive", "enter", "open"}
  <2>1. tasks[t] = s \/ s \in refused \/ t \in removed
    BY <1>1, <1>6 DEF TaskIsRemovable
  <2>2. tasks[t] = s => tasks'[t] = s \/ t \in removed'
    BY <1>2, <1>4, EntriesChange
  <2>3. tasks'[t] = s \/ s \in refused' \/ t \in removed'
    BY <2>1, <2>2, HistoryGrows
  <2>4. QED
    BY <1>1, <1>3, <2>3
<1>7. QED
  BY <1>1, <1>5, <1>6

(* A session that records can be found by its task and removed, unless the *)
(* id of its task was taken or has been removed as a number.               *)
THEOREM TasksAreRemovable == Spec => []TaskIsRemovable
<1>1. Init => TaskIsRemovable
  BY DEF Init, TaskIsRemovable
<1>2. StorageInv /\ TaskIsRemovable /\ [Next]_vars => TaskIsRemovable'
  BY RemovableStep
<1>3. QED
  BY <1>1, <1>2, StorageAlways, PTL DEF Spec

(* A connection that has failed is not kept as a session.                  *)
COROLLARY EndedIsGone == Spec => []EndedIsForgotten
<1>1. QED
  BY RemovedIsGone, PTL
=============================================================================
