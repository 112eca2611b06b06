---------------------------- MODULE DvsStreaming ----------------------------
(***************************************************************************)
(* Live streaming in dvs_host_server: the frames of each device channel    *)
(* are sent to every player that asked for them.                           *)
(*                                                                         *)
(* Three kinds of threads meet here.  The thread on which a device's SDK   *)
(* delivers a channel creates the channel's Session and runs its fan-out   *)
(* loop; the io thread of a connection handles its play requests and its   *)
(* end; the thread of the acceptor creates connections.  The list of       *)
(* targets of a Session (sids) has a lock, which every access takes but    *)
(* the loop condition of the fan-out: it reads the length of the list      *)
(* before it takes the lock and uses the index inside.                     *)
(*                                                                         *)
(* A Session finds its parser by a number, index, in a table of the        *)
(* process that keeps the first parser under each number, and a parser     *)
(* calls back the Session that made it.  The number is computed from       *)
(* itself before it is set, so it may be any, and two Sessions may have    *)
(* the same: the frames of one then go to the targets of the other.        *)
(*                                                                         *)
(* Positions in sids count from 1 here and from 0 in the code.             *)
(***************************************************************************)
EXTENDS Integers, SequencesExt, FiniteSets

CONSTANTS
  Streams,   \* device channels, the keys "<device>_<channel>" of sss
  Conns,     \* connections of players, each named by its session id
  Indices,   \* the numbers a Session may get, none of them one of Conns
  NoNode,    \* no parser in the table
  MaxFrames  \* bound of the number of frames of a channel

ASSUME StreamingAssumption ==
  MaxFrames \in Nat /\ 0 \in Indices /\ NoNode \notin Streams

VARIABLES
  sss,       \* the channels that have a Session
  index,     \* the number of each Session, 0 before there is one
  nodes,     \* the table of parsers: the Session that each calls back
  sids,      \* targets of each Session, in order
  frame,     \* frames each channel has delivered
  fanPc,     \* where the fan-out of each channel is
  fanIndex,  \* its position in sids
  due,       \* history: the targets that could be sent to when the frame came
  shrunk,    \* history: a target was removed since
  sent,      \* how often the frame was sent to each connection
  acceptPc,  \* where the acceptor is with each connection
  readPc,    \* where the io thread of each connection is
  toVisit,   \* Sessions it has yet to remove an ended connection from
  sessions,  \* the connections Libasio::send finds
  stopped    \* the connections on which a read or a write has failed

parserVars == <<sss, index, nodes>>
fanVars == <<frame, fanPc, fanIndex, due, sent>>
connVars == <<acceptPc, readPc, toVisit, sessions, stopped>>
vars == <<parserVars, sids, shrunk, fanVars, connVars>>

TypeOK ==
  /\ sss \subseteq Streams
  /\ index \in [Streams -> Indices]
  /\ nodes \in [Indices -> sss \cup {NoNode}] /\ nodes[0] = NoNode
  /\ sids \in [Streams -> Seq(Conns)]
  /\ frame \in [Streams -> 0 .. MaxFrames]
  /\ fanPc \in [Streams -> {"idle", "check", "send", "runaway"}]
  /\ fanIndex \in [Streams -> Nat \ {0}]
  /\ due \in [Streams -> SUBSET Conns]
  /\ shrunk \in [Streams -> BOOLEAN]
  /\ sent \in [Streams -> [Conns -> 0 .. 2]]
  /\ acceptPc \in [Conns -> {"none", "add", "done"}]
  /\ readPc \in [Conns -> {"none", "read", "visit", "done"}]
  /\ toVisit \in [Conns -> SUBSET Streams]
  /\ sessions \subseteq Conns
  /\ stopped \subseteq Conns

Init ==
  /\ sss = {}
  /\ index = [s \in Streams |-> 0]
  /\ nodes = [i \in Indices |-> NoNode]
  /\ sids = [s \in Streams |-> <<>>]
  /\ frame = [s \in Streams |-> 0]
  /\ fanPc = [s \in Streams |-> "idle"]
  /\ fanIndex = [s \in Streams |-> 1]
  /\ due = [s \in Streams |-> {}]
  /\ shrunk = [s \in Streams |-> FALSE]
  /\ sent = [s \in Streams |-> [c \in Conns |-> 0]]
  /\ acceptPc = [c \in Conns |-> "none"]
  /\ readPc = [c \in Conns |-> "none"]
  /\ toVisit = [c \in Conns |-> {}]
  /\ sessions = {}
  /\ stopped = {}

(* The connections Libasio::send hands a frame to. *)
Reachable == sessions \ stopped

-----------------------------------------------------------------------------
(* The device's thread. *)

(* A Session that is made makes a parser, too.  Libavparser takes none     *)
(* under the number 0, and keeps the one it has under any other.           *)
addConf(s, i) ==
  /\ sss' = sss \cup {s}
  /\ index' = [index EXCEPT ![s] = i]
  /\ nodes' = IF i = 0 \/ nodes[i] # NoNode THEN nodes ELSE [nodes EXCEPT ![i] = s]

CreateSession(s) ==
  IF s \in sss THEN UNCHANGED parserVars ELSE \E i \in Indices : addConf(s, i)

(* The Session whose targets the frames of channel s are sent to.          *)
Owner(s) == nodes[index[s]]

(* The frame begins its way through the list, at position first.           *)
BeginFanOut(s, first) ==
  /\ fanPc' = [fanPc EXCEPT ![s] = "check"]
  /\ fanIndex' = [fanIndex EXCEPT ![s] = first]
  /\ due' = [due EXCEPT ![s] = ToSet(sids[s]) \cap Reachable]
  /\ shrunk' = [shrunk EXCEPT ![s] = FALSE]
  /\ sent' = [sent EXCEPT ![s] = [c \in Conns |-> 0]]

(* Fault: the position starts one too low. *)
DeviceDataFromZero(s) ==
  /\ fanPc[s] = "idle"
  /\ frame[s] < MaxFrames
  /\ CreateSession(s)
  /\ frame' = [frame EXCEPT ![s] = @ + 1]
  /\ IF Owner(s)' = NoNode
       THEN UNCHANGED <<fanPc, fanIndex, due, shrunk, sent>>
       ELSE BeginFanOut(s, 0)
  /\ UNCHANGED <<sids, connVars>>

(* A frame of a channel: its Session is created when there is none yet,    *)
(* the frame is parsed, if there is a parser, and its fan-out begins.      *)
DeviceData(s) ==
  /\ fanPc[s] = "idle"
  /\ frame[s] < MaxFrames
  /\ CreateSession(s)
  /\ frame' = [frame EXCEPT ![s] = @ + 1]
  /\ IF Owner(s)' = NoNode
       THEN UNCHANGED <<fanPc, fanIndex, due, shrunk, sent>>
       ELSE BeginFanOut(s, 1)
  /\ UNCHANGED <<sids, connVars>>

Targets(s) == sids[Owner(s)]

(* Fault: the loop stops one element too early. *)
FanCheckShort(s) ==
  /\ fanPc[s] = "check"
  /\ fanPc' = [fanPc EXCEPT ![s] = IF fanIndex[s] >= Len(Targets(s)) THEN "idle" ELSE "send"]
  /\ UNCHANGED <<parserVars, sids, shrunk, frame, fanIndex, due, sent, connVars>>

(* Fault: the loop goes on one element too far. *)
FanCheckLong(s) ==
  /\ fanPc[s] = "check"
  /\ fanPc' = [fanPc EXCEPT ![s] = IF fanIndex[s] > Len(Targets(s)) + 1 THEN "idle" ELSE "send"]
  /\ UNCHANGED <<parserVars, sids, shrunk, frame, fanIndex, due, sent, connVars>>

(* i != sids.size(), without the lock.  The length is the difference of     *)
(* two pointers, so a check that races with addTarget may read any length. *)
(* Whatever it reads, the loop then waits for the lock addTarget holds,    *)
(* and finds at i what addTarget left there: it has gone on as after a     *)
(* check that came later.  It cannot end early, since no difference of a   *)
(* pointer into the old array and one into the new equals an index of the  *)
(* old.  removeTarget writes one of the two pointers only.                 *)
FanCheck(s) ==
  /\ fanPc[s] = "check"
  /\ fanPc' = [fanPc EXCEPT ![s] = IF fanIndex[s] = Len(Targets(s)) + 1 THEN "idle" ELSE "send"]
  /\ UNCHANGED <<parserVars, sids, shrunk, frame, fanIndex, due, sent, connVars>>

(* sendframe(sids[i]), with the lock.  A connection that is not in the     *)
(* table, or that has failed, gets nothing.                                *)
FanSend(s) ==
  /\ fanPc[s] = "send"
  /\ fanIndex[s] <= Len(Targets(s))
  /\ LET c == Targets(s)[fanIndex[s]]
     IN  sent' = [sent EXCEPT ![s][c] = IF c \in Reachable /\ @ < 2 THEN @ + 1 ELSE @]
  /\ fanPc' = [fanPc EXCEPT ![s] = "check"]
  /\ fanIndex' = [fanIndex EXCEPT ![s] = @ + 1]
  /\ UNCHANGED <<parserVars, sids, shrunk, frame, due, connVars>>

(* The list has become shorter since the check: the element read is past   *)
(* its end, and the index is past the length it is compared with for       *)
(* inequality, so that the loop goes on through whatever is there.         *)
FanOverrun(s) ==
  /\ fanPc[s] = "send"
  /\ fanIndex[s] > Len(Targets(s))
  /\ fanPc' = [fanPc EXCEPT ![s] = "runaway"]
  /\ UNCHANGED <<parserVars, sids, shrunk, frame, fanIndex, due, sent, connVars>>

FanRunaway(s) ==
  /\ fanPc[s] = "runaway"
  /\ \E c \in Reachable :
       sent' = [sent EXCEPT ![s][c] = IF @ < 2 THEN @ + 1 ELSE @]
  /\ UNCHANGED <<parserVars, sids, shrunk, frame, fanPc, fanIndex, due, connVars>>

FanOut(s) == FanCheck(s) \/ FanSend(s) \/ FanOverrun(s) \/ FanRunaway(s)

-----------------------------------------------------------------------------
(* The acceptor's thread: the connection is set to reading, and only then  *)
(* entered in the table it is found by.                                    *)
Accept(c) ==
  /\ acceptPc[c] = "none"
  /\ acceptPc' = [acceptPc EXCEPT ![c] = "add"]
  /\ readPc' = [readPc EXCEPT ![c] = "read"]
  /\ UNCHANGED <<parserVars, sids, shrunk, fanVars, toVisit, sessions, stopped>>

AcceptAdd(c) ==
  /\ acceptPc[c] = "add"
  /\ acceptPc' = [acceptPc EXCEPT ![c] = "done"]
  /\ sessions' = sessions \cup {c}
  /\ UNCHANGED <<parserVars, sids, shrunk, fanVars, readPc, toVisit, stopped>>

-----------------------------------------------------------------------------
(* The io thread of a connection. *)

(* Fault: a target is put in front. *)
addTargetFront(s, c) ==
  /\ sids' = [sids EXCEPT ![s] = IF c \in ToSet(@) THEN @ ELSE <<c>> \o @]
  /\ UNCHANGED shrunk

(* Session::addTarget, with the lock. *)
addTarget(s, c) ==
  /\ sids' = [sids EXCEPT ![s] = IF c \in ToSet(@) THEN @ ELSE Append(@, c)]
  /\ UNCHANGED shrunk

(* A play request for a channel without a Session has no effect. *)
Play(c, s) ==
  /\ readPc[c] = "read"
  /\ s \in sss
  /\ addTarget(s, c)
  /\ UNCHANGED <<parserVars, fanVars, connVars>>

(* A list of targets without c, which is in it once or not at all.         *)
Without(q, c) ==
  IF c \in ToSet(q) THEN RemoveAt(q, CHOOSE i \in DOMAIN q : q[i] = c) ELSE q

(* Session::removeTarget, with the lock. *)
removeTarget(s, c) ==
  /\ sids' = [sids EXCEPT ![s] = Without(@, c)]
  /\ shrunk' = [t \in Streams |-> shrunk[t] \/ (Owner(t) = s /\ c \in ToSet(sids[s]))]

(* It returns success when the list is empty and when c is its first       *)
(* element; a c further on is removed, but the error that the elements     *)
(* before it left behind is returned.                                      *)
RemoveSucceeds(s, c) == sids[s] = <<>> \/ Head(sids[s]) = c

(* A write fails: the connection only stops sending. *)
WriteError(c) ==
  /\ c \in Reachable
  /\ stopped' = stopped \cup {c}
  /\ UNCHANGED <<parserVars, sids, shrunk, fanVars, acceptPc, readPc, toVisit, sessions>>

(* A read fails: the connection is taken out of the table if it is there,  *)
(* and the Sessions there are at this time are gone through in turn.       *)
ReadError(c) ==
  /\ readPc[c] = "read"
  /\ stopped' = stopped \cup {c}
  /\ sessions' = sessions \ {c}
  /\ toVisit' = [toVisit EXCEPT ![c] = sss]
  /\ readPc' = [readPc EXCEPT ![c] = "visit"]
  /\ UNCHANGED <<parserVars, sids, shrunk, fanVars, acceptPc>>

(* until one of them reports success.                                      *)
Visit(c, s) ==
  /\ readPc[c] = "visit"
  /\ s \in toVisit[c]
  /\ removeTarget(s, c)
  /\ toVisit' = [toVisit EXCEPT ![c] = IF RemoveSucceeds(s, c) THEN {} ELSE @ \ {s}]
  /\ UNCHANGED <<parserVars, fanVars, acceptPc, readPc, sessions, stopped>>

EndVisit(c) ==
  /\ readPc[c] = "visit"
  /\ toVisit[c] = {}
  /\ readPc' = [readPc EXCEPT ![c] = "done"]
  /\ UNCHANGED <<parserVars, sids, shrunk, fanVars, acceptPc, toVisit, sessions, stopped>>

Next ==
  \/ \E s \in Streams : DeviceData(s) \/ FanOut(s)
  \/ \E c \in Conns : Accept(c) \/ AcceptAdd(c) \/ WriteError(c) \/ ReadError(c) \/ EndVisit(c)
  \/ \E c \in Conns, s \in Streams : Play(c, s) \/ Visit(c, s)

Spec == Init /\ [][Next]_vars

-----------------------------------------------------------------------------
(* No frame is sent to a player twice, whoever joins or leaves during its  *)
(* fan-out, as long as the loop stays inside the list.                     *)
FrameAtMostOnce ==
  \A s \in Streams, c \in Conns : fanPc[s] # "runaway" => sent[s][c] <= 1

(* No other Session has its number.                                        *)
HasOwnIndex(s) == index[s] # 0 /\ \A t \in sss \ {s} : index[t] # index[s]

(* A player that was a target and could be sent to when the frame came,    *)
(* and still can when the fan-out of the frame ends, has got it, unless    *)
(* the Session of the channel shares its parser with another one, or       *)
(* another player left in the meantime: leaving moves the ones behind it   *)
(* forward, and the next of them is passed over.                           *)
FrameReachesAll ==
  [][\A s \in Streams :
        fanPc[s] = "check" /\ fanPc'[s] = "idle" /\ ~shrunk[s] /\ HasOwnIndex(s)
          => \A c \in due[s] \cap Reachable : sent[s][c] = 1]_vars

(* The loop leaves the list only because a target was removed between its  *)
(* check and its read; players that join do not disturb it.                *)
RunawayNeedsRemoval ==
  \A s \in Streams : fanPc[s] = "runaway" => shrunk[s]

(* What the server logs when a connection fails, that it has removed its   *)
(* stream session, is so: no Session keeps it as a target.                 *)
EndedIsNoTarget ==
  \A c \in Conns : readPc[c] = "done" => \A s \in Streams : c \notin ToSet(sids[s])

(* server.cpp:573 logs that a player plays the channel it asked for.  What *)
(* it is sent should then be frames of a channel that it did ask for,      *)
(* whose Session has it as a target as long as its connection is read      *)
(* from.                                                                   *)
PlaysWhatItAskedFor ==
  \A s \in Streams, c \in Conns :
    sent[s][c] # 0 /\ fanPc[s] # "runaway" /\ readPc[c] = "read"
      => c \in ToSet(sids[s])
=============================================================================
