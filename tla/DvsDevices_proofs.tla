------------------------- MODULE DvsDevices_proofs -------------------------
(***************************************************************************)
(* Proofs about adding and removing devices, for every range of ids, every *)
(* number of logins and of channels: TLC checks three of each.             *)
(*                                                                         *)
(* The strengthening says what the poll thread has done so far for the     *)
(* node at hand (Adding), that the table and the names agree (Table),      *)
(* that the counter of ids is ahead of all ids in use (Ahead), and how     *)
(* many logins the vendor library has counted (Counted).                   *)
(***************************************************************************)
EXTENDS DvsDevices, FiniteSetTheorems, TLAPS

Connecting == {"login", "open", "stream", "table"}
Loaded == {"open", "stream", "table"}

(* The node at hand is new, and knows its open channels but for the one    *)
(* that has just been opened.                                              *)
Adding ==
  /\ pc \in Connecting =>
       /\ node \in Nodes /\ conf # 0 /\ node \notin dropped
       /\ \A id \in Ids : dvss[id] # node
  /\ pc = "login" => \A h \in open : h[1] # node
  /\ pc \in Loaded =>
       \A h \in open : h[1] = node =>
         h \in streams \/ (pc = "stream" /\ h[2] = chan)
  /\ pc = "stream" => chan \in Channels
  /\ pc = "table" => named[node] = conf
  /\ pc = "stop" => conf # 0 /\ dvss[conf] # None
  /\ pc \in {"idle", "stop"} => ~explicit

(* Nodes are numbered as they are created.                                 *)
Numbered ==
  /\ \A h \in open : h[1] <= node
  /\ \A id \in Ids : dvss[id] <= node
  /\ \A n \in dropped : n <= node
  /\ \A n \in Nodes : n > node \/ (n = node /\ pc \in Connecting \ {"table"})
                        => named[n] = 0

Table ==
  \A id \in Ids : dvss[id] # None => named[dvss[id]] = id /\ id # 0

(* Until did has started again, it is ahead of every id but that of a      *)
(* request at hand that names one.                                         *)
Ahead ==
  ~wrapped =>
    /\ \A id \in given : id <= did \/ (explicit /\ id = conf)
    /\ \A n \in 1 .. node : named[n] <= did \/ (explicit /\ named[n] = conf)
    /\ explicit => conf \in given
    /\ pc \in Connecting /\ ~explicit => conf <= did
    /\ pc \in Connecting \ {"table"} /\ ~explicit =>
         \A n \in 1 .. node : named[n] # conf

(* The names of frames, but for those of the node at hand: what Adding and *)
(* Numbered say of it gives its names.                                     *)
NamedOrAdding ==
  \A h \in open :
    \/ h[1] = node /\ pc \in Loaded
    \/ h[1] \in dropped
    \/ \E id \in Ids \ {0} : dvss[id] = h[1] /\ NameOf(h) = <<id, h[2]>>

DeviceInv ==
  /\ TypeOK /\ Adding /\ Numbered /\ Table /\ Ahead /\ NamedOrAdding
  /\ counter <= node /\ (pc = "login" => counter < node)

(* Nodes with a login: those of the table and the one at hand.             *)
Taken == {id \in Ids : dvss[id] # None}
Pending == IF pc \in Loaded THEN 1 ELSE 0

Counted ==
  /\ inited <=> counter > 0
  /\ Cardinality(Taken) + Pending <= counter
  /\ ~unpaired => Cardinality(Taken) + Pending = counter
  /\ pc \in Loaded => node \in loggedIn
  /\ \A id \in Ids : dvss[id] # None => dvss[id] \in loggedIn

(* Frames passed on under an id come from a node that has it, and only one *)
(* node has an id that was never named by a request.                       *)
OneNode ==
  dropped = {} /\ ~wrapped =>
    /\ \A id \in Ids \ {0} : \A n \in sources[id] : n <= node /\ named[n] = id
    /\ \A n1, n2 \in 1 .. node :
         named[n1] = named[n2] /\ named[n1] \notin given \cup {0} => n1 = n2

-----------------------------------------------------------------------------
LEMMA InitDevices == Init => DeviceInv
<1> SUFFICES ASSUME Init
             PROVE  DeviceInv
  OBVIOUS
<1> USE DevicesAssumption DEF Init, Ids, Nodes, Channels, None
<1>1. TypeOK
  <2>1. 0 \in 0 .. W - 1 /\ 0 \in 0 .. MaxNodes /\ 1 \in 1 .. MaxChannel + 1
    OBVIOUS
  <2>2. QED
    BY <2>1 DEF TypeOK
<1>2. Adding /\ Numbered /\ Table /\ Ahead /\ NamedOrAdding
  BY DEF Adding, Numbered, Table, Ahead, NamedOrAdding, Connecting, Loaded
<1>3. QED
  BY <1>1, <1>2 DEF DeviceInv

(* The counter goes up by one, or has started again.                       *)
LEMMA NextId ==
  ASSUME TypeOK, NEW i \in Ids, NEW b \in BOOLEAN, AddDVS(i, b)
  PROVE  /\ did' \in Ids /\ conf' \in Ids
         /\ ~wrapped' => did <= did' /\ ~wrapped
         /\ ~b => conf' = did' /\ (~wrapped' => did' = did + 1)
         /\ b => conf' = i /\ did' = did
<1> USE DevicesAssumption DEF Ids, requestVars
<1>1. did \in 0 .. W - 1
  BY DEF TypeOK
<1>2. (did + 1) % W = IF did + 1 < W THEN did + 1 ELSE 0
  <2>1. CASE did + 1 < W
    BY <1>1, <2>1
  <2>2. CASE did + 1 = W
    <3>1. W % W = 0
      OBVIOUS
    <3>2. QED
      BY <2>2, <3>1
  <2>3. QED
    BY <1>1, <2>1, <2>2
<1> DEFINE next == (did + 1) % W
<1>3. next \in 0 .. W - 1 /\ (next < did \/ next = did + 1)
  BY <1>1, <1>2
<1> HIDE DEF next
<1>4. /\ did' = IF b THEN did ELSE next
      /\ conf' = IF b THEN i ELSE next
      /\ ~wrapped' => ~wrapped /\ ~(did' < did)
  BY DEF AddDVS, next
<1>5. did' \in 0 .. W - 1 /\ conf' \in 0 .. W - 1
  BY <1>1, <1>3, <1>4
<1>6. ~(did' < did) => did <= did'
  BY <1>1, <1>5
<1>7. ~b => conf' = did' /\ (~(did' < did) => did' = did + 1)
  BY <1>1, <1>3, <1>4
<1>8. QED
  BY <1>4, <1>5, <1>6, <1>7

(* A request to add a device begins. *)
LEMMA AddKeeps ==
  ASSUME DeviceInv, NEW i \in Ids, NEW b \in BOOLEAN, AddDVS(i, b)
  PROVE  DeviceInv'
<1> USE DevicesAssumption DEF DeviceInv, requestVars, localVars, nodeVars, loginVars,
                              Ids, Nodes, Channels, None
<1>1. /\ did' \in Ids /\ conf' \in Ids
      /\ ~wrapped' => did <= did' /\ ~wrapped
      /\ ~b => conf' = did' /\ (~wrapped' => did' = did + 1)
      /\ b => conf' = i /\ did' = did
  BY NextId
<1>2. /\ pc = "idle" /\ explicit' = b /\ node \in 0 .. MaxNodes - 1
      /\ given' = IF b THEN given \cup {i} ELSE given
      /\ \/ conf' = 0 /\ pc' = "reply" /\ node' = node
         \/ conf' # 0 /\ pc' = "login" /\ node' = node + 1
  BY DEF AddDVS, TypeOK
<1>3. UNCHANGED <<chan, dvss, named, streams, open, dropped, loggedIn, counter, inited, sources>>
  BY DEF AddDVS
<1>4. TypeOK'
  <2>1. node' \in 0 .. MaxNodes /\ given' \subseteq Ids /\ explicit' \in BOOLEAN
    BY <1>2 DEF TypeOK
  <2>2. wrapped' \in BOOLEAN
    BY DEF AddDVS, TypeOK
  <2>3. QED
    BY <1>1, <1>2, <1>3, <2>1, <2>2 DEF AddDVS, TypeOK
<1>5. Adding'
  <2>1. node' \in Nodes \/ pc' = "reply"
    BY <1>2
  <2>2. QED
    BY <1>2, <1>3, <2>1 DEF Adding, Numbered, TypeOK, Connecting, Loaded
<1>6. Numbered'
  <2>1. node' \in Nat /\ node <= node' /\ node \in Nat
    BY <1>2
  <2>2. \A n \in Nodes : n > node => named[n] = 0
    BY DEF Numbered
  <2>3. \A n \in Nodes : n > node' \/ (n = node' /\ pc' \in Connecting \ {"table"}) => n > node
    BY <1>2 DEF Connecting
  <2>4. /\ \A h \in open : h[1] \in Nat /\ h[1] <= node
        /\ \A id \in Ids : dvss[id] \in Nat /\ dvss[id] <= node
        /\ \A n \in dropped : n \in Nat /\ n <= node
    BY DEF Numbered, TypeOK
  <2>5. QED
    BY <1>3, <2>1, <2>2, <2>3, <2>4 DEF Numbered
<1>7. Table'
  BY <1>3 DEF Table
<1>8. Ahead'
  <2> SUFFICES ASSUME ~wrapped'
               PROVE  Ahead'
    BY DEF Ahead
  <2>1. /\ \A id \in given : id \in Nat /\ id <= did
        /\ \A n \in 1 .. node : named[n] \in Nat /\ named[n] <= did
    BY <1>1, <1>2 DEF Ahead, Adding, TypeOK
  <2>2. did \in Nat /\ did' \in Nat /\ did <= did' /\ node \in Nat
    BY <1>1, <1>2 DEF TypeOK
  <2>3. \A id \in given' : id <= did' \/ (explicit' /\ id = conf')
    BY <1>1, <1>2, <2>1, <2>2
  <2>4. \A n \in 1 .. node' : named'[n] \in Nat /\ named'[n] <= did
    <3>1. \A n \in Nodes : n > node => named[n] = 0
      BY DEF Numbered
    <3>2. QED
      BY <1>2, <1>3, <2>1, <2>2, <3>1
  <2>5. explicit' => conf' \in given'
    BY <1>1, <1>2
  <2>6. ~explicit' => conf' = did' /\ did' = did + 1
    BY <1>1, <1>2
  <2>7. QED
    BY <2>2, <2>3, <2>4, <2>5, <2>6 DEF Ahead
<1>9. NamedOrAdding'
  <2>1. \A h \in open : NameOf(h)' = NameOf(h)
    BY <1>3 DEF NameOf
  <2>2. QED
    BY <1>2, <1>3, <2>1 DEF NamedOrAdding, Loaded
<1>10. counter' <= node' /\ (pc' = "login" => counter' < node')
  BY <1>2, <1>3 DEF TypeOK
<1>11. QED
  BY <1>4, <1>5, <1>6, <1>7, <1>8, <1>9, <1>10

(* The login. *)
LEMMA LoginKeeps ==
  ASSUME DeviceInv, LoginSucceeds \/ LoginFails
  PROVE  DeviceInv'
<1> USE DevicesAssumption DEF DeviceInv, requestVars, localVars, nodeVars, loginVars,
                              Ids, Nodes, Channels, None
<1>1. TypeOK'
  <2>1. counter' \in 0 .. MaxNodes
    BY DEF LoginSucceeds, LoginFails, TypeOK
  <2>2. inited' \in BOOLEAN /\ unpaired' \in BOOLEAN
    BY DEF LoginSucceeds, LoginFails, TypeOK
  <2>3. loggedIn' \subseteq Nodes
    BY DEF LoginSucceeds, LoginFails, TypeOK, Adding, Connecting
  <2>4. pc' \in {"open", "reply"}
    BY DEF LoginSucceeds, LoginFails
  <2>5. QED
    BY <2>1, <2>2, <2>3, <2>4 DEF LoginSucceeds, LoginFails, TypeOK
<1>2. Adding'
  BY DEF LoginSucceeds, LoginFails, TypeOK, Adding, Numbered, Connecting, Loaded
<1>3. Numbered'
  BY DEF LoginSucceeds, LoginFails, TypeOK, Adding, Numbered, Connecting, Loaded
<1>4. Table'
  BY DEF LoginSucceeds, LoginFails, TypeOK, Adding, Table, Connecting, Loaded
<1>5. Ahead'
  <2>1. pc = "login" /\ pc' \in {"open", "reply"}
    BY DEF LoginSucceeds, LoginFails
  <2>2. UNCHANGED <<wrapped, given, did, explicit, conf, node, named>>
    BY DEF LoginSucceeds, LoginFails
  <2>3. QED
    BY <2>1, <2>2 DEF Ahead, Connecting
<1>6. NamedOrAdding'
  <2>1. \A h \in open : h[1] # node
    BY DEF LoginSucceeds, LoginFails, Adding
  <2>2. UNCHANGED <<node, dvss, named, streams, open, dropped>>
    BY DEF LoginSucceeds, LoginFails
  <2>3. QED
    BY <2>1, <2>2 DEF NamedOrAdding, NameOf
<1>7. counter' <= node' /\ (pc' = "login" => counter' < node')
  BY DEF LoginSucceeds, LoginFails, TypeOK
<1>8. QED
  BY <1>1, <1>2, <1>3, <1>4, <1>5, <1>6, <1>7

(* A channel is opened, and then known. *)
LEMMA OpenKeeps ==
  ASSUME DeviceInv, OpenRealplay \/ AddStream
  PROVE  DeviceInv'
<1> USE DevicesAssumption DEF DeviceInv, requestVars, localVars, nodeVars, loginVars,
                              Ids, Nodes, Channels, None
<1>1. TypeOK'
  <2>1. /\ pc \in {"open", "stream"} /\ pc' \in {"open", "stream"}
        /\ chan \in Channels /\ node \in Nodes
    BY DEF OpenRealplay, AddStream, Adding, Connecting
  <2>2. chan' \in 1 .. MaxChannel + 1
    BY <2>1 DEF OpenRealplay, AddStream
  <2>3. open' \subseteq Nodes \X Channels /\ streams' \subseteq Nodes \X Channels
    <3>1. <<node, chan>> \in Nodes \X Channels
      BY <2>1
    <3>2. open' \subseteq open \cup {<<node, chan>>} /\ streams' \subseteq streams \cup {<<node, chan>>}
      BY DEF OpenRealplay, AddStream
    <3>3. QED
      BY <3>1, <3>2 DEF TypeOK
  <2>4. QED
    BY <2>1, <2>2, <2>3 DEF OpenRealplay, AddStream, TypeOK
<1>2. Adding'
  BY DEF OpenRealplay, AddStream, TypeOK, Adding, Numbered, Connecting, Loaded
<1>3. Numbered'
  <2>1. /\ pc \in {"open", "stream"} /\ pc' \in {"open", "stream"}
        /\ open' \subseteq open \cup {<<node, chan>>}
        /\ UNCHANGED <<node, dvss, dropped, named>> /\ node \in Nat
    BY DEF OpenRealplay, AddStream, TypeOK
  <2>2. \A h \in open' : h[1] <= node
    BY <2>1 DEF Numbered
  <2>3. QED
    BY <2>1, <2>2 DEF Numbered, Connecting
<1>4. Table'
  BY DEF OpenRealplay, AddStream, TypeOK, Adding, Table, Connecting, Loaded
<1>5. Ahead'
  <2>1. pc \in {"open", "stream"} /\ pc' \in {"open", "stream"}
    BY DEF OpenRealplay, AddStream
  <2>2. UNCHANGED <<wrapped, given, did, explicit, conf, node, named>>
    BY DEF OpenRealplay, AddStream
  <2>3. QED
    BY <2>1, <2>2 DEF Ahead, Connecting
<1>6. NamedOrAdding'
  <2>1. /\ pc' \in {"open", "stream"} /\ pc \in {"open", "stream"}
        /\ UNCHANGED <<node, dvss, dropped, named>>
        /\ \A id \in Ids : dvss[id] # node
        /\ \A h \in open' : h \in open \/ h = <<node, chan>>
        /\ \A h : h[1] # node => (h \in streams' <=> h \in streams)
    BY DEF OpenRealplay, AddStream, Adding, Connecting
  <2>2. ASSUME NEW h \in open', h[1] # node, h[1] \notin dropped
        PROVE  \E id \in Ids \ {0} : dvss'[id] = h[1] /\ NameOf(h)' = <<id, h[2]>>
    <3>1. h \in open
      BY <2>1, <2>2
    <3>2. PICK id \in Ids \ {0} : dvss[id] = h[1] /\ NameOf(h) = <<id, h[2]>>
      BY <2>1, <2>2, <3>1 DEF NamedOrAdding
    <3>3. NameOf(h)' = NameOf(h)
      BY <2>1, <2>2 DEF NameOf
    <3>4. QED
      BY <2>1, <3>2, <3>3
  <2>3. QED
    BY <2>1, <2>2 DEF NamedOrAdding, Loaded
<1>7. counter' <= node' /\ (pc' = "login" => counter' < node')
  BY DEF OpenRealplay, AddStream, TypeOK
<1>8. QED
  BY <1>1, <1>2, <1>3, <1>4, <1>5, <1>6, <1>7

(* The node gets an id no other node of the table has. *)
LEMMA NameKeeps ==
  ASSUME DeviceInv, NameNode
  PROVE  DeviceInv'
<1> USE DevicesAssumption DEF DeviceInv, requestVars, localVars, nodeVars, loginVars,
                              Ids, Nodes, Channels, None
<1>1. TypeOK'
  BY DEF NameNode, TypeOK, Adding, Connecting, Loaded
<1>2. Adding'
  BY DEF NameNode, TypeOK, Adding, Numbered, Connecting, Loaded
<1>3. Numbered'
  BY DEF NameNode, TypeOK, Adding, Numbered, Connecting, Loaded
<1>4. Table'
  BY DEF NameNode, TypeOK, Adding, Table, Connecting, Loaded
<1>5. Ahead'
  BY DEF NameNode, TypeOK, Adding, Ahead, Connecting, Loaded
<1>6. NamedOrAdding'
  BY DEF NameNode, TypeOK, Adding, Numbered, Table, NamedOrAdding, NameOf, Connecting, Loaded
<1>7. counter' <= node' /\ (pc' = "login" => counter' < node')
  BY DEF NameNode, TypeOK
<1>8. QED
  BY <1>1, <1>2, <1>3, <1>4, <1>5, <1>6, <1>7

(* The table keeps what it has. *)
LEMMA InsertKeeps ==
  ASSUME DeviceInv, InsertNode
  PROVE  DeviceInv'
<1> USE DevicesAssumption DEF DeviceInv, requestVars, localVars, nodeVars, loginVars,
                              Ids, Nodes, Channels, None
<1>1. TypeOK'
  BY DEF InsertNode, TypeOK, Adding, Connecting, Loaded
<1>2. Adding'
  BY DEF InsertNode, TypeOK, Adding, Numbered, Connecting, Loaded
<1>3. Numbered'
  <2>1. /\ pc = "table" /\ pc' = "reply" /\ UNCHANGED <<open, node, named>>
        /\ node \in Nat /\ dvss \in [Ids -> Nodes \cup {None}]
        /\ \/ dropped' = dropped \cup {node} /\ dvss' = dvss
           \/ dvss' = [dvss EXCEPT ![conf] = node] /\ dropped' = dropped
    BY DEF InsertNode, TypeOK
  <2>2. \A id \in Ids : dvss'[id] <= node
    BY <2>1 DEF Numbered
  <2>3. \A n \in dropped' : n <= node
    BY <2>1 DEF Numbered
  <2>4. QED
    BY <2>1, <2>2, <2>3 DEF Numbered, Connecting
<1>4. Table'
  BY DEF InsertNode, TypeOK, Adding, Table, Connecting, Loaded
<1>5. Ahead'
  BY DEF InsertNode, TypeOK, Adding, Ahead, Connecting, Loaded
<1>6. NamedOrAdding'
  <2>1. /\ pc = "table" /\ conf \in Ids \ {0} /\ named[node] = conf
        /\ UNCHANGED <<open, streams, named, node>>
        /\ \A h \in open : h[1] = node => h \in streams
        /\ dvss \in [Ids -> Nodes \cup {None}]
    BY DEF InsertNode, Adding, TypeOK, Connecting, Loaded
  <2>2. \A h \in open : NameOf(h)' = NameOf(h)
    BY <2>1 DEF NameOf
  <2>3. CASE dvss[conf] = None
    <3>1. dvss' = [dvss EXCEPT ![conf] = node] /\ dropped' = dropped
      BY <2>3 DEF InsertNode
    <3>2. ASSUME NEW h \in open, h[1] = node
          PROVE  dvss'[conf] = h[1] /\ NameOf(h)' = <<conf, h[2]>>
      BY <2>1, <2>2, <3>1, <3>2 DEF NameOf
    <3>3. ASSUME NEW h \in open, NEW id \in Ids \ {0}, dvss[id] = h[1], h[1] \in Nodes
          PROVE  dvss'[id] = h[1]
      BY <2>1, <2>3, <3>1, <3>3
    <3>4. \A h \in open : h[1] \in Nodes
      BY DEF TypeOK
    <3>5. QED
      BY <2>1, <2>2, <3>1, <3>2, <3>3, <3>4 DEF NamedOrAdding
  <2>4. CASE dvss[conf] # None
    <3>1. dvss' = dvss /\ dropped' = dropped \cup {node}
      BY <2>4 DEF InsertNode
    <3>2. QED
      BY <2>1, <2>2, <3>1 DEF NamedOrAdding
  <2>5. QED
    BY <2>3, <2>4
<1>7. counter' <= node' /\ (pc' = "login" => counter' < node')
  BY DEF InsertNode, TypeOK
<1>8. QED
  BY <1>1, <1>2, <1>3, <1>4, <1>5, <1>6, <1>7

(* The end of the request. *)
LEMMA ReplyKeeps ==
  ASSUME DeviceInv, Reply
  PROVE  DeviceInv'
<1> USE DevicesAssumption DEF DeviceInv, requestVars, localVars, nodeVars, loginVars,
                              Ids, Nodes, Channels, None
<1>1. TypeOK'
  <2>1. did' \in Ids
    BY DEF Reply, TypeOK
  <2>2. 0 \in Ids /\ 1 \in 1 .. MaxChannel + 1
    OBVIOUS
  <2>3. QED
    BY <2>1, <2>2 DEF Reply, EndRequest, TypeOK
<1>2. Adding'
  BY DEF Reply, EndRequest, TypeOK, Adding, Numbered, Connecting, Loaded
<1>3. Numbered'
  BY DEF Reply, EndRequest, TypeOK, Adding, Numbered, Connecting, Loaded
<1>4. Table'
  BY DEF Reply, EndRequest, TypeOK, Adding, Table, Connecting, Loaded
<1>5. Ahead'
  BY DEF Reply, EndRequest, TypeOK, Adding, Ahead, Connecting, Loaded
<1>6. NamedOrAdding'
  BY DEF Reply, EndRequest, TypeOK, Adding, Numbered, Table, NamedOrAdding, NameOf, Connecting, Loaded
<1>7. counter' <= node' /\ (pc' = "login" => counter' < node')
  BY DEF Reply, EndRequest, TypeOK
<1>8. QED
  BY <1>1, <1>2, <1>3, <1>4, <1>5, <1>6, <1>7

(* A request to remove a device begins. *)
LEMMA RemoveBeginsKeeps ==
  ASSUME DeviceInv, NEW i \in Ids, RemoveDVS(i)
  PROVE  DeviceInv'
<1> USE DevicesAssumption DEF DeviceInv, requestVars, localVars, nodeVars, loginVars,
                              Ids, Nodes, Channels, None
<1>1. TypeOK'
  BY DEF RemoveDVS, TypeOK, Adding, Connecting, Loaded
<1>2. Adding'
  BY DEF RemoveDVS, TypeOK, Adding, Numbered, Connecting, Loaded
<1>3. Numbered'
  BY DEF RemoveDVS, TypeOK, Adding, Numbered, Connecting, Loaded
<1>4. Table'
  BY DEF RemoveDVS, TypeOK, Adding, Table, Connecting, Loaded
<1>5. Ahead'
  BY DEF RemoveDVS, TypeOK, Adding, Ahead, Connecting, Loaded
<1>6. NamedOrAdding'
  BY DEF RemoveDVS, TypeOK, Adding, Numbered, Table, NamedOrAdding, NameOf, Connecting, Loaded
<1>7. counter' <= node' /\ (pc' = "login" => counter' < node')
  BY DEF RemoveDVS, TypeOK
<1>8. QED
  BY <1>1, <1>2, <1>3, <1>4, <1>5, <1>6, <1>7

(* A channel is closed, or delivers a frame. *)
LEMMA ChannelKeeps ==
  ASSUME DeviceInv, NEW h \in open, CloseRealplay(h) \/ Frame(h)
  PROVE  DeviceInv'
<1> USE DEF DeviceInv, requestVars, localVars, nodeVars, loginVars
<1>1. /\ open' \subseteq open /\ sources' \in [Ids -> SUBSET Nodes]
      /\ UNCHANGED <<pc, did, given, wrapped, conf, explicit, chan, node, dvss, named,
                     streams, dropped, loggedIn, counter, inited, unpaired>>
  <2>1. h[1] \in Nodes
    BY DEF TypeOK
  <2>2. CASE CloseRealplay(h)
    BY <2>2 DEF CloseRealplay, TypeOK
  <2>3. CASE Frame(h)
    BY <2>1, <2>3 DEF Frame, TypeOK
  <2>4. QED
    BY <2>2, <2>3
<1>2. TypeOK'
  BY <1>1 DEF TypeOK
<1>3. Adding'
  BY <1>1 DEF Adding, Connecting, Loaded
<1>4. Numbered' /\ Table'
  BY <1>1 DEF Numbered, Table
<1>5. Ahead'
  BY <1>1 DEF Ahead
<1>6. NamedOrAdding'
  BY <1>1 DEF NamedOrAdding, NameOf
<1>7. QED
  BY <1>1, <1>2, <1>3, <1>4, <1>5, <1>6

(* What is removed has no open channel left. *)
LEMMA RemoveKeeps ==
  ASSUME DeviceInv, RemoveNode
  PROVE  DeviceInv'
<1> USE DevicesAssumption DEF DeviceInv, requestVars, localVars, nodeVars, loginVars,
                              Ids, Nodes, Channels, None
<1>1. TypeOK'
  <2>1. 0 \in Ids /\ 1 \in 1 .. MaxChannel + 1
    OBVIOUS
  <2>2. counter' \in 0 .. MaxNodes /\ inited' \in BOOLEAN /\ loggedIn' \subseteq Nodes
    <3>1. PICK succeeds \in BOOLEAN : Logout(succeeds)
      BY DEF RemoveNode
    <3>2. counter' \in 0 .. MaxNodes
      BY <3>1 DEF Logout, TypeOK
    <3>3. inited' \in BOOLEAN
      BY <3>1 DEF Logout, TypeOK
    <3>4. loggedIn' \subseteq Nodes
      BY <3>1 DEF Logout, TypeOK
    <3>5. QED
      BY <3>2, <3>3, <3>4
  <2>3. dvss' \in [Ids -> Nodes \cup {None}] /\ streams' \subseteq Nodes \X Channels
    BY DEF RemoveNode, TypeOK
  <2>4. QED
    BY <2>1, <2>2, <2>3 DEF RemoveNode, EndRequest, TypeOK
<1>2. Adding'
  BY DEF RemoveNode, Logout, EndRequest, HandlesOf, TypeOK, Adding, Numbered, Connecting, Loaded
<1>3. Numbered'
  BY DEF RemoveNode, Logout, EndRequest, HandlesOf, TypeOK, Adding, Numbered, Connecting, Loaded
<1>4. Table'
  BY DEF RemoveNode, Logout, EndRequest, HandlesOf, TypeOK, Adding, Table, Connecting, Loaded
<1>5. Ahead'
  <2>1. /\ pc = "stop" /\ pc' = "idle" /\ conf \in Ids /\ dvss[conf] # None
        /\ UNCHANGED <<did, given, wrapped, node, named>> /\ ~explicit'
    BY DEF RemoveNode, EndRequest, Adding, TypeOK
  <2>2. QED
    BY <2>1 DEF Ahead, Adding, Connecting
<1>6. NamedOrAdding'
  <2> DEFINE n == dvss[conf]
  <2>1. /\ pc = "stop" /\ UNCHANGED <<open, named, dropped>>
        /\ \A id \in Ids \ {conf} : dvss'[id] = dvss[id]
    BY DEF RemoveNode, TypeOK
  <2>2. \A h \in open : h[1] # n
    BY DEF RemoveNode, HandlesOf
  <2>3. \A h \in open : NameOf(h)' = NameOf(h)
    BY <2>1, <2>2 DEF RemoveNode, NameOf
  <2>4. ASSUME NEW h \in open, NEW id \in Ids \ {0}, dvss[id] = h[1]
        PROVE  dvss'[id] = h[1]
    BY <2>1, <2>2, <2>4
  <2>5. QED
    BY <2>1, <2>3, <2>4 DEF NamedOrAdding, Loaded
<1>7. counter' <= node' /\ (pc' = "login" => counter' < node')
  BY DEF RemoveNode, Logout, EndRequest, HandlesOf, TypeOK
<1>8. QED
  BY <1>1, <1>2, <1>3, <1>4, <1>5, <1>6, <1>7

-----------------------------------------------------------------------------
LEMMA DevicesInductive == DeviceInv /\ [Next]_vars => DeviceInv'
<1> SUFFICES ASSUME DeviceInv, [Next]_vars
             PROVE  DeviceInv'
  OBVIOUS
<1>1. CASE Next
  BY <1>1, AddKeeps, LoginKeeps, OpenKeeps, NameKeeps, InsertKeeps, ReplyKeeps,
     RemoveBeginsKeeps, ChannelKeeps, RemoveKeeps DEF Next
<1>2. CASE UNCHANGED vars
  BY <1>2 DEF vars, requestVars, localVars, nodeVars, loginVars, DeviceInv, TypeOK, Adding,
     Numbered, Table, Ahead, NamedOrAdding, NameOf, Connecting, Loaded
<1>3. QED
  BY <1>1, <1>2

LEMMA DevicesAlways == Spec => []DeviceInv
<1>1. QED
  BY InitDevices, DevicesInductive, PTL DEF Spec

(* The variables of the devices stay in their types: no login is tried for *)
(* a node that is not there, and the count of logins stays in its range.   *)
THEOREM DevicesTypeCorrect == Spec => []TypeOK
<1>1. DeviceInv => TypeOK
  BY DEF DeviceInv
<1>2. QED
  BY <1>1, DevicesAlways, PTL

(* Frames carry the id of the device in the table and the number of their  *)
(* channel; those of the node that is being added the id 0 until it has    *)
(* one, and at first no number.  Only those of a dropped node may carry    *)
(* another name, for any number of devices and channels.                   *)
THEOREM FramesCarryTheirName == Spec => []FramesAreNamed
<1>1. DeviceInv => FramesAreNamed
  <2> SUFFICES ASSUME DeviceInv, NEW h \in open
               PROVE  \/ h[1] \in dropped
                      \/ h[1] = node /\ pc \in {"open", "stream"} /\ NameOf(h) = <<0, h[2]>>
                      \/ h = <<node, chan>> /\ pc = "stream" /\ NameOf(h) = <<0, 0>>
                      \/ h[1] = node /\ pc = "table" /\ NameOf(h) = <<conf, h[2]>>
                      \/ \E id \in Ids \ {0} : dvss[id] = h[1] /\ NameOf(h) = <<id, h[2]>>
    BY DEF FramesAreNamed
  <2>1. h = <<h[1], h[2]>> /\ h[1] \in Nodes
    BY DEF DeviceInv, TypeOK
  <2>2. CASE h[1] = node /\ pc = "table"
    <3>1. named[node] = conf /\ h \in streams
      BY <2>2 DEF DeviceInv, Adding, Loaded
    <3>2. QED
      BY <2>2, <3>1 DEF NameOf
  <2>3. CASE h[1] = node /\ pc \in {"open", "stream"}
    <3>1. named[node] = 0
      BY <2>1, <2>3 DEF DeviceInv, Numbered, Connecting
    <3>2. h \in streams \/ (pc = "stream" /\ h = <<node, chan>>)
      BY <2>1, <2>3 DEF DeviceInv, Adding, Loaded
    <3>3. QED
      BY <2>3, <3>1, <3>2 DEF NameOf
  <2>4. CASE ~(h[1] = node /\ pc \in Loaded)
    BY <2>4 DEF DeviceInv, NamedOrAdding
  <2>5. QED
    BY <2>2, <2>3, <2>4 DEF Loaded
<1>2. QED
  BY <1>1, DevicesAlways, PTL

(* An id the service chooses has not been given out, named or used before, *)
(* until the counter starts again.                                         *)
THEOREM FreshIdsAreFree == Spec => FreshIdIsFree
<1> DEFINE Free == /\ conf' \notin given /\ dvss[conf'] = None
                   /\ \A n \in 1 .. node : named[n] # conf'
           Chosen == pc = "idle" /\ pc' = "login" /\ ~explicit' /\ ~wrapped'
<1>1. DeviceInv /\ [Next]_vars => [Chosen => Free]_vars
  <2> SUFFICES ASSUME DeviceInv, Next, Chosen
               PROVE  Free
    OBVIOUS
  <2>1. PICK i \in Ids, b \in BOOLEAN : AddDVS(i, b)
    BY DEF Next, LoginSucceeds, LoginFails, OpenRealplay, AddStream, NameNode, InsertNode,
       Reply, RemoveDVS, CloseRealplay, Frame, RemoveNode
  <2>2. ~b
    BY <2>1 DEF AddDVS
  <2>3. conf' = did + 1 /\ conf' \in Ids /\ did \in Nat /\ ~wrapped
    BY <2>1, <2>2, NextId, DevicesAssumption DEF DeviceInv, TypeOK, Ids
  <2>4. /\ \A id \in given : id \in Nat /\ id <= did
        /\ \A n \in 1 .. node : named[n] \in Nat /\ named[n] <= did
    BY <2>3, DevicesAssumption DEF DeviceInv, Ahead, Adding, TypeOK, Ids, Nodes
  <2>5. dvss[conf'] \in 1 .. node \/ dvss[conf'] = None
    BY <2>3 DEF DeviceInv, TypeOK, Numbered, Nodes
  <2>6. dvss[conf'] # None => named[dvss[conf']] = conf'
    BY <2>3 DEF DeviceInv, Table
  <2>7. QED
    BY <2>3, <2>4, <2>5, <2>6
<1>2. QED
  BY <1>1, DevicesAlways, PTL DEF Spec, FreshIdIsFree

-----------------------------------------------------------------------------
(* A step that neither logs in or out nor changes the table.               *)
LEMMA CountedKept ==
  ASSUME Counted, UNCHANGED <<dvss, loggedIn, counter, inited, unpaired>>,
         pc' \in Loaded <=> pc \in Loaded, pc' \in Loaded => node' = node
  PROVE  Counted'
<1>1. Taken' = Taken /\ Pending' = Pending
  BY DEF Taken, Pending
<1>2. QED
  BY <1>1 DEF Counted

LEMMA TakenIsFinite == IsFiniteSet(Taken) /\ Cardinality(Taken) \in Nat
<1>1. IsFiniteSet(Ids)
  BY FS_Interval, DevicesAssumption DEF Ids
<1>2. QED
  BY <1>1, FS_Subset, FS_CardinalityType DEF Taken

(* Logins enter the count, and the node at hand is one of them until it is *)
(* in the table.                                                           *)
LEMMA CountedStep == DeviceInv /\ Counted /\ [Next]_vars => Counted'
<1> SUFFICES ASSUME DeviceInv, Counted, [Next]_vars
             PROVE  Counted'
  OBVIOUS
<1> USE DEF requestVars, localVars, nodeVars, loginVars
<1>1. ASSUME NEW i \in Ids, NEW b \in BOOLEAN, AddDVS(i, b)
      PROVE  Counted'
  BY <1>1, CountedKept DEF AddDVS, Loaded
<1>2. CASE OpenRealplay \/ AddStream \/ NameNode
  BY <1>2, CountedKept DEF OpenRealplay, AddStream, NameNode, Loaded
<1>3. CASE Reply
  BY <1>3, CountedKept DEF Reply, EndRequest, Loaded
<1>4. ASSUME NEW i \in Ids, RemoveDVS(i)
      PROVE  Counted'
  BY <1>4, CountedKept DEF RemoveDVS, Loaded
<1>5. ASSUME NEW h \in open, CloseRealplay(h) \/ Frame(h)
      PROVE  Counted'
  BY <1>5, CountedKept DEF CloseRealplay, Frame
<1>6. CASE UNCHANGED vars
  BY <1>6, CountedKept DEF vars
<1>7. counter \in Nat /\ Cardinality(Taken) \in Nat
  BY TakenIsFinite, DevicesAssumption DEF DeviceInv, TypeOK
<1>8. CASE LoginSucceeds
  <2>1. Taken' = Taken /\ Pending' = 1 /\ Pending = 0
    BY <1>8 DEF LoginSucceeds, Taken, Pending, Loaded
  <2>2. counter' = counter + 1 /\ unpaired' = unpaired
    BY <1>8 DEF LoginSucceeds
  <2>3. inited'
    <3>1. counter = 0 \/ counter > 0
      BY <1>7
    <3>2. QED
      BY <1>8, <3>1 DEF LoginSucceeds, Counted
  <2>4. node' \in loggedIn' /\ \A id \in Ids : dvss'[id] # None => dvss'[id] \in loggedIn'
    BY <1>8 DEF LoginSucceeds, Counted
  <2>5. counter' > 0
    BY <1>7, <2>2
  <2>6. /\ Cardinality(Taken') + Pending' <= counter'
        /\ ~unpaired' => Cardinality(Taken') + Pending' = counter'
    BY <1>7, <2>1, <2>2 DEF Counted
  <2>7. QED
    BY <2>3, <2>4, <2>5, <2>6 DEF Counted
<1>9. CASE LoginFails
  <2>1. Taken' = Taken /\ Pending' = 0 /\ Pending = 0
    BY <1>9 DEF LoginFails, Taken, Pending, Loaded
  <2>2. CASE counter' = counter + 1 /\ unpaired' /\ inited' = (inited \/ counter = 0)
    <3>1. inited' /\ counter' > 0
      <4>1. (counter = 0 \/ counter > 0) /\ counter + 1 > 0
        BY <1>7
      <4>2. QED
        BY <2>2, <4>1 DEF Counted
    <3>2. Cardinality(Taken') + Pending' <= counter'
      BY <1>7, <2>1, <2>2 DEF Counted
    <3>3. pc' \notin Loaded /\ UNCHANGED <<dvss, loggedIn>>
      BY <1>9 DEF LoginFails, Loaded
    <3>4. QED
      BY <2>2, <3>1, <3>2, <3>3 DEF Counted
  <2>3. CASE UNCHANGED <<inited, counter, unpaired>>
    BY <1>9, <2>3, CountedKept DEF LoginFails, Loaded
  <2>4. QED
    BY <1>9, <2>2, <2>3 DEF LoginFails
<1>10. CASE InsertNode
  <2>1. Pending' = 0 /\ Pending = 1 /\ pc' \notin Loaded /\ pc \in Loaded
    BY <1>10 DEF InsertNode, Pending, Loaded
  <2>2. UNCHANGED <<loggedIn, counter, inited, node>> /\ node \in loggedIn
    BY <1>10, <2>1 DEF InsertNode, Counted
  <2>3. CASE dvss[conf] = None
    <3>1. /\ conf \in Ids /\ node \in Nodes /\ unpaired' = unpaired
          /\ dvss' = [dvss EXCEPT ![conf] = node] /\ dvss \in [Ids -> Nodes \cup {None}]
      BY <1>10, <2>3 DEF InsertNode, DeviceInv, TypeOK, Adding, Connecting
    <3>2. Taken' = Taken \cup {conf} /\ conf \notin Taken
      BY <2>3, <3>1 DEF Taken, Nodes, None
    <3>3. Cardinality(Taken') = Cardinality(Taken) + 1
      BY <3>2, TakenIsFinite, FS_AddElement
    <3>4. \A id \in Ids : dvss'[id] # None => dvss'[id] \in loggedIn
      BY <2>2, <3>1 DEF Counted
    <3>5. QED
      BY <1>7, <2>1, <2>2, <3>1, <3>3, <3>4 DEF Counted
  <2>4. CASE dvss[conf] # None
    <3>1. dvss' = dvss /\ unpaired'
      BY <1>10, <2>4 DEF InsertNode
    <3>2. Taken' = Taken
      BY <3>1 DEF Taken
    <3>3. QED
      BY <1>7, <2>1, <2>2, <3>1, <3>2 DEF Counted
  <2>5. QED
    BY <2>3, <2>4
<1>11. CASE RemoveNode
  <2>1. /\ conf \in Ids /\ dvss[conf] # None /\ dvss \in [Ids -> Nodes \cup {None}]
        /\ pc' \notin Loaded /\ pc \notin Loaded
        /\ dvss' = [dvss EXCEPT ![conf] = None] /\ unpaired' = unpaired
    BY <1>11 DEF RemoveNode, EndRequest, DeviceInv, TypeOK, Adding, Loaded
  <2>2. Taken' = Taken \ {conf} /\ conf \in Taken /\ Pending = 0 /\ Pending' = 0
    BY <2>1 DEF Taken, Pending
  <2>3. Cardinality(Taken') = Cardinality(Taken) - 1 /\ Cardinality(Taken') \in Nat
    BY <2>2, TakenIsFinite, FS_RemoveElement, FS_CardinalityType
  <2>4. PICK succeeds \in BOOLEAN : Logout(succeeds)
    BY <1>11 DEF RemoveNode
  <2>5. counter > 0 /\ counter' = counter - 1
    BY <1>7, <2>2, <2>3, <2>4 DEF Logout, Counted
  <2>6. inited' <=> counter' > 0
    <3>1. inited
      BY <2>5 DEF Counted
    <3>2. counter # 1 <=> counter' > 0
      BY <1>7, <2>5
    <3>3. QED
      BY <2>4, <3>1, <3>2 DEF Logout
  <2>7. ASSUME NEW id \in Ids, dvss'[id] # None
        PROVE  dvss'[id] \in loggedIn'
    <3>1. id # conf /\ dvss'[id] = dvss[id]
      BY <2>1, <2>7
    <3>2. dvss[id] # dvss[conf]
      BY <2>1, <2>7, <3>1 DEF DeviceInv, Table
    <3>3. dvss[id] \in loggedIn
      BY <2>7, <3>1 DEF Counted
    <3>4. QED
      BY <2>4, <3>1, <3>2, <3>3 DEF Logout
  <2>8. QED
    BY <1>7, <2>1, <2>2, <2>3, <2>5, <2>6, <2>7 DEF Counted
<1>12. QED
  BY <1>1, <1>2, <1>3, <1>4, <1>5, <1>6, <1>8, <1>9, <1>10, <1>11 DEF Next

(* The vendor library is initialised as long as a device of the table uses *)
(* it, and released with the last one if every login that was counted has  *)
(* a logout, for any sequence of requests.                                 *)
THEOREM LibraryIsThere == Spec => []LibraryFollowsUse
<1>1. Init => Counted
  <2> SUFFICES ASSUME Init
               PROVE  Counted
    OBVIOUS
  <2>1. Taken = {} /\ Pending = 0
    BY DEF Init, Taken, Pending, Loaded
  <2>2. Cardinality(Taken) = 0
    BY <2>1, FS_EmptySet
  <2>3. QED
    BY <2>1, <2>2 DEF Init, Counted, Loaded
<1>2. DeviceInv /\ Counted => LibraryFollowsUse
  <2> SUFFICES ASSUME DeviceInv, Counted
               PROVE  LibraryFollowsUse
    OBVIOUS
  <2>1. counter \in Nat /\ Cardinality(Taken) \in Nat /\ Pending \in Nat
    BY TakenIsFinite, DevicesAssumption DEF DeviceInv, TypeOK, Pending
  <2>2. ASSUME NEW id \in Ids, dvss[id] # None
        PROVE  inited /\ dvss[id] \in loggedIn
    <3>1. id \in Taken
      BY <2>2 DEF Taken
    <3>2. Cardinality(Taken) # 0
      BY <3>1, TakenIsFinite, FS_EmptySet
    <3>3. QED
      BY <2>1, <2>2, <3>2 DEF Counted
  <2>3. ASSUME pc = "idle", \A id \in Ids : dvss[id] = None, ~unpaired
        PROVE  ~inited
    <3>1. Taken = {} /\ Pending = 0
      BY <2>3 DEF Taken, Pending, Loaded
    <3>2. Cardinality(Taken) = 0
      BY <3>1, FS_EmptySet
    <3>3. QED
      BY <2>1, <2>3, <3>1, <3>2 DEF Counted
  <2>4. QED
    BY <2>2, <2>3 DEF LibraryFollowsUse
<1>3. QED
  BY <1>1, <1>2, CountedStep, DevicesAlways, PTL DEF Spec

-----------------------------------------------------------------------------
(* An id that is never named by a request is the id of one node only.      *)
LEMMA OneNodeStep == DeviceInv /\ OneNode /\ [Next]_vars => OneNode'
<1> SUFFICES ASSUME DeviceInv, OneNode, [Next]_vars, dropped' = {}, ~wrapped'
             PROVE  OneNode'
  BY DEF OneNode
<1> USE DEF requestVars, localVars, nodeVars, loginVars
<1> DEFINE Sources == \A id \in Ids \ {0} : \A n \in sources[id] : n <= node /\ named[n] = id
           Single == \A n1, n2 \in 1 .. node :
                       named[n1] = named[n2] /\ named[n1] \notin given \cup {0} => n1 = n2
<1>1. node \in Nat /\ sources \in [Ids -> SUBSET Nodes] /\ named \in [Nodes -> Ids]
  BY DevicesAssumption DEF DeviceInv, TypeOK
<1>2. ASSUME dropped = {}, ~wrapped, UNCHANGED <<sources, named, given, node>>
      PROVE  OneNode'
  BY <1>2 DEF OneNode
<1>3. ASSUME NEW i \in Ids, NEW b \in BOOLEAN, AddDVS(i, b)
      PROVE  OneNode'
  <2>1. dropped = {} /\ ~wrapped /\ UNCHANGED <<sources, named>> /\ given \subseteq given'
    BY <1>3 DEF AddDVS
  <2>2. Sources /\ Single
    BY <2>1 DEF OneNode
  <2>3. node' = node \/ (node' = node + 1 /\ node + 1 \in Nodes)
    BY <1>1, <1>3, DevicesAssumption DEF AddDVS, Nodes
  <2>4. node' = node + 1 => named[node'] = 0
    BY <1>1, <2>3 DEF DeviceInv, Numbered
  <2>5. Sources'
    <3> SUFFICES ASSUME NEW id \in Ids \ {0}, NEW n \in sources[id]
                 PROVE  n <= node' /\ named[n] = id
      BY <2>1
    <3>1. n \in Nat
      BY <1>1 DEF Nodes
    <3>2. QED
      BY <1>1, <2>2, <2>3, <3>1
  <2>6. Single'
    <3> SUFFICES ASSUME NEW n1 \in 1 .. node', NEW n2 \in 1 .. node',
                        named[n1] = named[n2], named[n1] \notin given' \cup {0}
                 PROVE  n1 = n2
      BY <2>1
    <3>1. n1 \in 1 .. node /\ n2 \in 1 .. node
      BY <1>1, <2>3, <2>4
    <3>2. QED
      BY <2>1, <2>2, <3>1
  <2>7. QED
    BY <2>5, <2>6 DEF OneNode
<1>4. CASE LoginSucceeds \/ LoginFails \/ OpenRealplay \/ AddStream
  BY <1>2, <1>4 DEF LoginSucceeds, LoginFails, OpenRealplay, AddStream
<1>5. CASE InsertNode
  <2>1. dropped = {} /\ ~wrapped
    BY <1>5 DEF InsertNode
  <2>2. QED
    BY <1>2, <1>5, <2>1 DEF InsertNode
<1>6. CASE Reply \/ RemoveNode
  BY <1>2, <1>6 DEF Reply, RemoveNode, EndRequest
<1>7. ASSUME NEW i \in Ids, RemoveDVS(i)
      PROVE  OneNode'
  BY <1>2, <1>7 DEF RemoveDVS
<1>8. ASSUME NEW h \in open, CloseRealplay(h)
      PROVE  OneNode'
  BY <1>2, <1>8 DEF CloseRealplay
<1>9. ASSUME NEW h \in open, Frame(h)
      PROVE  OneNode'
  <2>1. dropped = {} /\ ~wrapped /\ UNCHANGED <<named, given, node>>
    BY <1>9 DEF Frame
  <2>2. sources' = [sources EXCEPT ![named[h[1]]] = @ \cup {h[1]}]
    BY <1>9, <2>1 DEF Frame, NameOf
  <2>3. h[1] <= node
    BY DEF DeviceInv, Numbered
  <2>4. Sources'
    BY <1>1, <2>1, <2>2, <2>3 DEF OneNode
  <2>5. QED
    BY <2>1, <2>4 DEF OneNode
<1>10. CASE NameNode
  <2>1. /\ dropped = {} /\ ~wrapped /\ UNCHANGED <<sources, given, node>>
        /\ named' = [named EXCEPT ![node] = conf] /\ pc = "open"
    BY <1>10 DEF NameNode
  <2>2. node \in Nodes /\ named[node] = 0
    BY <2>1 DEF DeviceInv, Adding, Numbered, Connecting
  <2>3. Sources'
    <3> SUFFICES ASSUME NEW id \in Ids \ {0}, NEW n \in sources[id]
                 PROVE  n <= node /\ named'[n] = id
      BY <2>1
    <3>1. n \in Nodes /\ n <= node /\ named[n] = id
      BY <1>1, <2>1 DEF OneNode
    <3>2. n # node
      BY <2>2, <3>1
    <3>3. QED
      BY <1>1, <2>1, <3>1, <3>2
  <2>4. Single'
    <3> SUFFICES ASSUME NEW n1 \in 1 .. node, NEW n2 \in 1 .. node,
                        named'[n1] = named'[n2], named'[n1] \notin given \cup {0}
                 PROVE  n1 = n2
      BY <2>1
    <3>1. n1 \in Nodes /\ n2 \in Nodes
      BY <1>1, <2>2, DevicesAssumption DEF Nodes
    <3>2. CASE explicit
      <4>1. conf \in given
        BY <2>1, <3>2 DEF DeviceInv, Ahead
      <4>2. n1 # node /\ n2 # node
        BY <1>1, <2>1, <3>1, <4>1
      <4>3. QED
        BY <1>1, <2>1, <3>1, <4>2 DEF OneNode
    <3>3. CASE ~explicit
      <4>1. \A n \in 1 .. node : named[n] # conf
        BY <2>1, <3>3 DEF DeviceInv, Ahead, Connecting
      <4>2. n1 # node /\ n2 # node => n1 = n2
        BY <1>1, <2>1, <3>1 DEF OneNode
      <4>3. QED
        BY <1>1, <2>1, <3>1, <4>1, <4>2
    <3>4. QED
      BY <3>2, <3>3
  <2>5. QED
    BY <2>3, <2>4 DEF OneNode
<1>11. CASE UNCHANGED vars
  BY <1>2, <1>11 DEF vars
<1>12. QED
  BY <1>3, <1>4, <1>5, <1>6, <1>7, <1>8, <1>9, <1>10, <1>11 DEF Next

(* All frames passed on under an id that no request has named come from    *)
(* one device, however often devices are removed and added.                *)
THEOREM NamesHaveOneSource == Spec => []NameHasOneSource
<1>1. Init => OneNode
  BY DEF Init, OneNode
<1>2. DeviceInv /\ OneNode => NameHasOneSource
  <2> SUFFICES ASSUME DeviceInv, OneNode, dropped = {}, ~wrapped,
                      NEW id \in Ids \ (given \cup {0})
               PROVE  Cardinality(sources[id]) <= 1
    BY DEF NameHasOneSource
  <2>1. \A n1, n2 \in sources[id] : n1 = n2
    <3> SUFFICES ASSUME NEW n1 \in sources[id], NEW n2 \in sources[id]
                 PROVE  n1 = n2
      OBVIOUS
    <3>1. /\ node \in Nat /\ n1 \in Nodes /\ n2 \in Nodes
          /\ n1 <= node /\ n2 <= node /\ named[n1] = id /\ named[n2] = id
      BY DevicesAssumption DEF DeviceInv, TypeOK, OneNode
    <3>2. n1 \in 1 .. node /\ n2 \in 1 .. node
      BY <3>1, DevicesAssumption DEF Nodes
    <3>3. QED
      BY <3>1, <3>2 DEF OneNode
  <2>2. CASE sources[id] = {}
    BY <2>2, FS_EmptySet
  <2>3. CASE sources[id] # {}
    <3>1. PICK n \in sources[id] : TRUE
      BY <2>3
    <3>2. sources[id] = {n}
      BY <2>1, <3>1
    <3>3. Cardinality({n}) = 1
      BY FS_Singleton
    <3>4. QED
      BY <3>2, <3>3
  <2>4. QED
    BY <2>2, <2>3
<1>3. QED
  BY <1>1, <1>2, OneNodeStep, DevicesAlways, PTL DEF Spec

=============================================================================
