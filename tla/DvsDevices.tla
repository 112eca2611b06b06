------------------------------ MODULE DvsDevices ------------------------------
(***************************************************************************)
(* Adding and removing devices in dvs_host_server, through libdvs and the  *)
(* library of one vendor.                                                  *)
(*                                                                         *)
(* The poll thread of the service handles one request after the other:     *)
(* pc says where it is in it.  Between its steps the threads of the vendor *)
(* library deliver frames, as soon as a channel is open and before the     *)
(* node knows the channel or its own id.  A frame is passed on under       *)
(* "<device>_<channel>", to the Session of that name, which its first      *)
(* frame creates and nothing removes.  This module ends there: to whose    *)
(* players a Session then sends is in DvsStreaming.                        *)
(*                                                                         *)
(* Each node is one login, nodes are numbered as they are created.  The    *)
(* vendor library is taken to deliver no frame of a channel once closing   *)
(* it has returned.                                                        *)
(***************************************************************************)
EXTENDS Integers, FiniteSets

CONSTANTS
  W,           \* device ids count modulo W, 2^32 in the code
  MaxNodes,    \* bound of the number of logins that are tried
  MaxChannel   \* the channels of a device are 1 .. MaxChannel

ASSUME DevicesAssumption ==
  /\ W \in Nat \ {0, 1}
  /\ MaxNodes \in Nat
  /\ MaxChannel \in Nat

Ids == 0 .. W - 1
Nodes == 1 .. MaxNodes
None == 0
Channels == 1 .. MaxChannel

VARIABLES
  pc,        \* where the poll thread is
  did,       \* the last id given out
  conf,      \* the id of the request at hand, 0 between requests
  explicit,  \* whether the request named it
  chan,      \* the channel to open next
  node,      \* the last node created
  dvss,      \* the table of nodes
  named,     \* the id each node reports its frames under
  streams,   \* the channels each node knows
  open,      \* the channels the vendor library delivers frames of
  loggedIn,  \* the nodes with a login
  counter,   \* logins, as the code counts them
  inited,    \* the vendor library is initialised
  sources,   \* history: the nodes the frames passed on under each id came from
  dropped,   \* history: nodes freed with their channels open
  unpaired,  \* history: a login was counted that no logout will be
  given,     \* history: ids that requests have named
  wrapped    \* history: did has started again

requestVars == <<did, given, wrapped>>
localVars == <<conf, explicit, chan>>
nodeVars == <<node, dvss, named, streams, open, dropped>>
loginVars == <<loggedIn, counter, inited, unpaired>>
vars == <<pc, requestVars, localVars, nodeVars, loginVars, sources>>

TypeOK ==
  /\ pc \in {"idle", "login", "open", "stream", "table", "reply", "stop"}
  /\ did \in Ids /\ conf \in Ids /\ explicit \in BOOLEAN
  /\ node \in 0 .. MaxNodes /\ chan \in 1 .. MaxChannel + 1
  /\ dvss \in [Ids -> Nodes \cup {None}]
  /\ named \in [Nodes -> Ids]
  /\ streams \subseteq Nodes \X Channels
  /\ open \subseteq Nodes \X Channels
  /\ loggedIn \subseteq Nodes
  /\ counter \in 0 .. MaxNodes /\ inited \in BOOLEAN
  /\ sources \in [Ids -> SUBSET Nodes]
  /\ dropped \subseteq Nodes
  /\ unpaired \in BOOLEAN /\ given \subseteq Ids /\ wrapped \in BOOLEAN

Init ==
  /\ pc = "idle"
  /\ did = 0 /\ conf = 0 /\ explicit = FALSE
  /\ node = 0 /\ chan = 1
  /\ dvss = [id \in Ids |-> None]
  /\ named = [n \in Nodes |-> 0]
  /\ streams = {} /\ open = {} /\ loggedIn = {}
  /\ counter = 0 /\ inited = FALSE
  /\ sources = [id \in Ids |-> {}]
  /\ dropped = {} /\ unpaired = FALSE /\ given = {} /\ wrapped = FALSE

HandlesOf(n) == {h \in open : h[1] = n}

-----------------------------------------------------------------------------
(* Adding a device. *)

(* A request names an id, or gets the next one.  Id 0 is refused, whether  *)
(* it was named or the counter has come round to it.                       *)
AddDVS(id, isNamed) ==
  /\ pc = "idle" /\ node < MaxNodes
  /\ explicit' = isNamed
  /\ conf' = IF isNamed THEN id ELSE (did + 1) % W
  /\ did' = IF isNamed THEN did ELSE (did + 1) % W
  /\ wrapped' = (wrapped \/ did' < did)
  /\ given' = IF isNamed THEN given \cup {id} ELSE given
  /\ IF conf' = 0
       THEN pc' = "reply" /\ UNCHANGED node
       ELSE pc' = "login" /\ node' = node + 1
  /\ UNCHANGED <<chan, dvss, named, streams, open, dropped, loginVars, sources>>

(* The library is initialised for the first login.                         *)
LoginSucceeds ==
  /\ pc = "login"
  /\ inited' = (inited \/ counter = 0)
  /\ counter' = counter + 1
  /\ loggedIn' = loggedIn \cup {node}
  /\ pc' = "open"
  /\ UNCHANGED <<requestVars, localVars, nodeVars, unpaired, sources>>

(* A login that fails is counted too, unless a parameter was missing.      *)
LoginFails ==
  /\ pc = "login"
  /\ \/ /\ inited' = (inited \/ counter = 0)
        /\ counter' = counter + 1
        /\ unpaired' = TRUE
     \/ UNCHANGED <<inited, counter, unpaired>>
  /\ pc' = "reply"
  /\ UNCHANGED <<requestVars, localVars, nodeVars, loggedIn, sources>>

OpenRealplay ==
  /\ pc = "open" /\ chan \in Channels
  /\ \/ pc' = "stream" /\ open' = open \cup {<<node, chan>>} /\ UNCHANGED chan
     \/ pc' = "open" /\ chan' = chan + 1 /\ UNCHANGED open
  /\ UNCHANGED <<requestVars, conf, explicit, node, dvss, named, streams, dropped, loginVars, sources>>

AddStream ==
  /\ pc = "stream"
  /\ streams' = streams \cup {<<node, chan>>}
  /\ chan' = chan + 1
  /\ pc' = "open"
  /\ UNCHANGED <<requestVars, conf, explicit, node, dvss, named, open, dropped, loginVars, sources>>

(* When all channels are open the node learns its id.                      *)
NameNode ==
  /\ pc = "open" /\ chan = MaxChannel + 1
  /\ named' = [named EXCEPT ![node] = conf]
  /\ pc' = "table"
  /\ UNCHANGED <<requestVars, localVars, node, dvss, streams, open, dropped, loginVars, sources>>

(* The table keeps what it has: a node whose id is taken is freed, still   *)
(* logged in and with its channels open.                                   *)
InsertNode ==
  /\ pc = "table"
  /\ pc' = "reply"
  /\ IF dvss[conf] = None
       THEN dvss' = [dvss EXCEPT ![conf] = node] /\ UNCHANGED <<dropped, unpaired>>
       ELSE dropped' = dropped \cup {node} /\ unpaired' = TRUE /\ UNCHANGED dvss
  /\ UNCHANGED <<requestVars, localVars, node, named, streams, open,
                 loggedIn, counter, inited, sources>>

(* The variables of the request end with it.                               *)
EndRequest ==
  /\ pc' = "idle"
  /\ conf' = 0 /\ explicit' = FALSE /\ chan' = 1

(* Fault: an id that was named does not raise the counter. *)
ReplyNoRaise ==
  /\ pc = "reply"
  /\ EndRequest
  /\ UNCHANGED <<requestVars, nodeVars, loginVars, sources>>

(* Fault: the counter goes to the id after the one that was named. *)
ReplyNext ==
  /\ pc = "reply"
  /\ did' = IF explicit /\ did <= conf THEN conf + 1 ELSE did
  /\ EndRequest
  /\ UNCHANGED <<given, wrapped, nodeVars, loginVars, sources>>

(* Whatever came of the request, did goes up to an id that was named.      *)
Reply ==
  /\ pc = "reply"
  /\ did' = IF explicit /\ did <= conf THEN conf ELSE did
  /\ EndRequest
  /\ UNCHANGED <<given, wrapped, nodeVars, loginVars, sources>>

-----------------------------------------------------------------------------
(* Removing a device: its channels are closed, it is logged out, and taken *)
(* out of the table.  An id that is not in the table has no effect.  A     *)
(* node in the table has an id and a login (the invariants below), so   *)
(* that stop() never refuses.                                              *)

RemoveDVS(id) ==
  /\ pc = "idle" /\ id > 0 /\ dvss[id] # None
  /\ conf' = id
  /\ pc' = "stop"
  /\ UNCHANGED <<requestVars, explicit, chan, nodeVars, loginVars, sources>>

(* Fault: what the node knows of its channels is cleared first. *)
CloseRealplayCleared(h) ==
  /\ pc = "stop" /\ h \in HandlesOf(dvss[conf])
  /\ open' = open \ {h}
  /\ streams' = {k \in streams : k[1] # h[1]}
  /\ UNCHANGED <<pc, requestVars, localVars, node, dvss, named, dropped, loginVars, sources>>

CloseRealplay(h) ==
  /\ pc = "stop" /\ h \in HandlesOf(dvss[conf])
  /\ open' = open \ {h}
  /\ UNCHANGED <<pc, requestVars, localVars, node, dvss, named, streams, dropped, loginVars, sources>>

(* Fault: the library is released with every logout. *)
LogoutUncounted(succeeds) ==
  /\ loggedIn' = IF succeeds THEN loggedIn \ {dvss[conf]} ELSE loggedIn
  /\ counter' = IF counter > 0 THEN counter - 1 ELSE 0
  /\ inited' = FALSE

(* A logout that fails is taken off the count all the same.                *)
Logout(succeeds) ==
  /\ loggedIn' = IF succeeds THEN loggedIn \ {dvss[conf]} ELSE loggedIn
  /\ counter' = IF counter > 0 THEN counter - 1 ELSE 0
  /\ inited' = (inited /\ counter # 1)

(* Fault: an id is given out again once its device is removed. *)
RemoveNodeReuse ==
  /\ pc = "stop" /\ HandlesOf(dvss[conf]) = {}
  /\ streams' = {h \in streams : h[1] # dvss[conf]}
  /\ \E succeeds \in BOOLEAN : Logout(succeeds)
  /\ dvss' = [dvss EXCEPT ![conf] = None]
  /\ did' = IF did = conf THEN conf - 1 ELSE did
  /\ EndRequest
  /\ UNCHANGED <<given, wrapped, node, named, open, dropped, unpaired, sources>>

(* Nothing comes of the node any more, so that the steps after the last    *)
(* channel is closed are one here.                                         *)
RemoveNode ==
  /\ pc = "stop" /\ HandlesOf(dvss[conf]) = {}
  /\ streams' = {h \in streams : h[1] # dvss[conf]}
  /\ \E succeeds \in BOOLEAN : Logout(succeeds)
  /\ dvss' = [dvss EXCEPT ![conf] = None]
  /\ EndRequest
  /\ UNCHANGED <<requestVars, node, named, open, dropped, unpaired, sources>>

-----------------------------------------------------------------------------
(* A frame of an open channel, passed on under the name the node gives it: *)
(* an id and a channel it does not know yet are 0.  A node that has been   *)
(* freed is read all the same, and may give any name.                      *)
NameOf(h) == <<named[h[1]], IF h \in streams THEN h[2] ELSE 0>>

Frame(h) ==
  /\ h \in open
  /\ \E id \in Ids :
       /\ h[1] \notin dropped => id = NameOf(h)[1]
       /\ sources' = [sources EXCEPT ![id] = @ \cup {h[1]}]
  /\ UNCHANGED <<pc, requestVars, localVars, nodeVars, loginVars>>

Next ==
  \/ \E id \in Ids, isNamed \in BOOLEAN : AddDVS(id, isNamed)
  \/ LoginSucceeds \/ LoginFails
  \/ OpenRealplay \/ AddStream \/ NameNode \/ InsertNode \/ Reply
  \/ \E id \in Ids : RemoveDVS(id)
  \/ \E h \in open : CloseRealplay(h) \/ Frame(h)
  \/ RemoveNode

Spec == Init /\ [][Next]_vars

-----------------------------------------------------------------------------
(* Whatever channel frames come from, its node is in the table and gives   *)
(* them the id it is found under and the number of the channel, also while *)
(* it is being removed.  While a node is being added they carry the id 0,  *)
(* and so does the channel that has just been opened for its number; when  *)
(* all are open, the id of the request.  Only frames of a node that was    *)
(* dropped, because its id was taken, may carry any name.                  *)
FramesAreNamed ==
  \A h \in open :
    \/ h[1] \in dropped
    \/ h[1] = node /\ pc \in {"open", "stream"} /\ NameOf(h) = <<0, h[2]>>
    \/ h = <<node, chan>> /\ pc = "stream" /\ NameOf(h) = <<0, 0>>
    \/ h[1] = node /\ pc = "table" /\ NameOf(h) = <<conf, h[2]>>
    \/ \E id \in Ids \ {0} : dvss[id] = h[1] /\ NameOf(h) = <<id, h[2]>>

(* An id the service chooses is not one it has given out or been given     *)
(* before, in whatever order the two kinds of requests come and however    *)
(* they end, until the counter starts again.                               *)
FreshIdIsFree ==
  [][(pc = "idle" /\ pc' = "login" /\ ~explicit' /\ ~wrapped')
       => conf' \notin given /\ dvss[conf'] = None
          /\ \A n \in 1 .. node : named[n] # conf']_vars

(* The Session of a name outlives the device, so that a later device under *)
(* its id would send into it.  An id that no request has named is not used *)
(* again: all frames passed on under it come from one device.  Those of a  *)
(* dropped node may turn up anywhere, those of device 0 are of whatever is *)
(* being added.                                                            *)
NameHasOneSource ==
  dropped = {} /\ ~wrapped =>
    \A id \in Ids \ (given \cup {0}) : Cardinality(sources[id]) <= 1

(* The vendor library stays initialised while a device of the table uses   *)
(* it, whichever logins and logouts have failed before, and is released    *)
(* with the last one, unless a login that has failed or was dropped has    *)
(* been counted for good.                                                  *)
LibraryFollowsUse ==
  /\ \A id \in Ids : dvss[id] # None /\ pc # "stop" => inited /\ dvss[id] \in loggedIn
  /\ pc = "idle" /\ (\A id \in Ids : dvss[id] = None) /\ ~unpaired => ~inited
=============================================================================
