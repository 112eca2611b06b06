------------------------ MODULE DvsStreaming_proofs ------------------------
(***************************************************************************)
(* Proofs about live streaming, for any number of channels, players and    *)
(* frames.                                                                 *)
(*                                                                         *)
(* The lists of targets have no duplicates, and a player to which a frame  *)
(* was sent is behind the position of the loop or has ended: only a player *)
(* that is still read from can join again, and such a player has not left. *)
(***************************************************************************)
EXTENDS DvsStreaming, SequenceTheorems, TLAPS

(* What a list keeps when c is removed: the others, in order, those behind *)
(* c one place further to the front.                                       *)
LEMMA WithoutPlaces ==
  ASSUME NEW q \in Seq(Conns), NEW c \in Conns, c \in ToSet(q)
  PROVE  \E p \in 1 .. Len(q) :
           /\ q[p] = c
           /\ Without(q, c) \in Seq(Conns)
           /\ Len(Without(q, c)) = Len(q) - 1
           /\ \A i \in 1 .. Len(q) - 1 :
                Without(q, c)[i] = IF i < p THEN q[i] ELSE q[i + 1]
<1>1. Len(q) \in Nat /\ DOMAIN q = 1 .. Len(q) /\ \A i \in 1 .. Len(q) : q[i] \in Conns
  BY LenProperties
<1> DEFINE p == CHOOSE i \in DOMAIN q : q[i] = c
           front == SubSeq(q, 1, p - 1)
           back == SubSeq(q, p + 1, Len(q))
<1>2. p \in 1 .. Len(q) /\ q[p] = c
  BY <1>1 DEF ToSet
<1>3. Without(q, c) = front \o back
  BY DEF Without, RemoveAt
<1> HIDE DEF p
<1>4. /\ front \in Seq(Conns) /\ Len(front) = p - 1
      /\ \A i \in 1 .. p - 1 : front[i] = q[i]
  <2>1. \A i \in 1 .. p - 1 : q[i] \in Conns
    BY <1>1, <1>2
  <2>2. QED
    BY <1>2, <2>1, SubSeqProperties
<1>5. /\ back \in Seq(Conns) /\ Len(back) = Len(q) - p
      /\ \A i \in 1 .. Len(q) - p : back[i] = q[p + i]
  <2>1. \A i \in p + 1 .. Len(q) : q[i] \in Conns
    BY <1>1, <1>2
  <2>2. /\ back \in Seq(Conns)
        /\ Len(back) = IF p + 1 <= Len(q) THEN Len(q) - (p + 1) + 1 ELSE 0
        /\ \A i \in 1 .. Len(q) - (p + 1) + 1 : back[i] = q[p + 1 + i - 1]
    BY <1>1, <1>2, <2>1, SubSeqProperties
  <2> HIDE DEF back
  <2>3. Len(back) = Len(q) - p
    <3>1. Len(q) \in Nat /\ p \in Nat /\ p <= Len(q)
      BY <1>1, <1>2
    <3>2. CASE p + 1 <= Len(q)
      <4>1. Len(back) = Len(q) - (p + 1) + 1
        BY <2>2, <3>2
      <4>2. QED
        BY <3>1, <4>1
    <3>3. CASE ~(p + 1 <= Len(q))
      <4>1. Len(back) = 0
        BY <2>2, <3>3
      <4>2. QED
        BY <3>1, <3>3, <4>1
    <3>4. QED
      BY <3>2, <3>3
  <2>4. ASSUME NEW i \in 1 .. Len(q) - p
        PROVE  back[i] = q[p + i]
    <3>1. i \in 1 .. Len(q) - (p + 1) + 1 /\ p + 1 + i - 1 = p + i
      BY <1>1, <1>2
    <3>2. QED
      BY <2>2, <3>1
  <2>5. QED
    BY <2>2, <2>3, <2>4
<1> HIDE DEF front, back
<1>6. /\ front \o back \in Seq(Conns) /\ Len(front \o back) = Len(q) - 1
      /\ \A i \in 1 .. Len(q) - 1 :
           (front \o back)[i] = IF i <= p - 1 THEN front[i] ELSE back[i - (p - 1)]
  <2>1. /\ front \o back \in Seq(Conns)
        /\ Len(front \o back) = Len(front) + Len(back)
        /\ \A i \in 1 .. Len(front) + Len(back) :
             (front \o back)[i] = IF i <= Len(front) THEN front[i] ELSE back[i - Len(front)]
    BY <1>4, <1>5, ConcatProperties
  <2>2. Len(front) = p - 1 /\ Len(front) + Len(back) = Len(q) - 1
    BY <1>1, <1>2, <1>4, <1>5
  <2>3. QED
    BY <2>1, <2>2
<1>7. ASSUME NEW i \in 1 .. Len(q) - 1
      PROVE  (front \o back)[i] = IF i < p THEN q[i] ELSE q[i + 1]
  <2>1. CASE i < p
    BY <1>1, <1>2, <1>4, <1>6, <2>1
  <2>2. CASE ~(i < p)
    <3>1. i - (p - 1) \in 1 .. Len(q) - p /\ p + (i - (p - 1)) = i + 1
      BY <1>1, <1>2, <2>2
    <3>2. QED
      BY <1>1, <1>2, <1>5, <1>6, <2>2, <3>1
  <2>3. QED
    BY <2>1, <2>2
<1>8. QED
  BY <1>2, <1>3, <1>6, <1>7

(* What holds of lists of targets when one is removed or not.              *)
LEMMA WithoutProperties ==
  ASSUME NEW q \in Seq(Conns), NEW c \in Conns
  PROVE  /\ Without(q, c) \in Seq(Conns)
         /\ c \notin ToSet(q) => Without(q, c) = q
         /\ \A k \in Nat, d \in Conns :
              (\A i \in k .. Len(q) : i > 0 => q[i] # d)
                => \A i \in k .. Len(Without(q, c)) : i > 0 => Without(q, c)[i] # d
         /\ (\A i, j \in 1 .. Len(q) : i # j => q[i] # q[j])
              => \A i, j \in 1 .. Len(Without(q, c)) :
                   i # j => Without(q, c)[i] # Without(q, c)[j]
         /\ \A d \in ToSet(q) : d = c \/ d \in ToSet(Without(q, c))
<1>1. CASE c \notin ToSet(q)
  BY <1>1 DEF Without
<1>2. CASE c \in ToSet(q)
  <2> DEFINE w == Without(q, c)
  <2>1. PICK p \in 1 .. Len(q) :
          /\ q[p] = c
          /\ w \in Seq(Conns) /\ Len(w) = Len(q) - 1
          /\ \A i \in 1 .. Len(q) - 1 : w[i] = IF i < p THEN q[i] ELSE q[i + 1]
    BY <1>2, WithoutPlaces
  <2>2. Len(q) \in Nat
    BY LenProperties
  <2> HIDE DEF w
  <2>3. ASSUME NEW k \in Nat, NEW d \in Conns, \A i \in k .. Len(q) : i > 0 => q[i] # d,
               NEW i \in k .. Len(w), i > 0
        PROVE  w[i] # d
    <3>1. i \in 1 .. Len(q) - 1 /\ i \in k .. Len(q) /\ i + 1 \in k .. Len(q)
      BY <2>1, <2>2, <2>3
    <3>2. w[i] = q[i] \/ w[i] = q[i + 1]
      BY <2>1, <3>1
    <3>3. QED
      BY <2>3, <3>1, <3>2
  <2>4. ASSUME \A i, j \in 1 .. Len(q) : i # j => q[i] # q[j],
               NEW i \in 1 .. Len(w), NEW j \in 1 .. Len(w), i # j
        PROVE  w[i] # w[j]
    <3> DEFINE at(n) == IF n < p THEN n ELSE n + 1
    <3>1. at(i) \in 1 .. Len(q) /\ at(j) \in 1 .. Len(q) /\ at(i) # at(j)
      BY <2>1, <2>2, <2>4
    <3>2. w[i] = q[at(i)] /\ w[j] = q[at(j)]
      BY <2>1, <2>2
    <3>3. QED
      BY <2>4, <3>1, <3>2
  <2>5. ASSUME NEW d \in ToSet(q), d # c
        PROVE  d \in ToSet(w)
    <3>1. DOMAIN q = 1 .. Len(q) /\ DOMAIN w = 1 .. Len(w)
      BY <2>1, LenProperties
    <3>2. PICK n \in 1 .. Len(q) : q[n] = d
      BY <3>1 DEF ToSet
    <3>3. n # p
      BY <2>1, <2>5, <3>2
    <3>4. CASE n < p
      <4>1. n \in 1 .. Len(w) /\ w[n] = d
        BY <2>1, <2>2, <3>2, <3>4
      <4>2. QED
        BY <3>1, <4>1 DEF ToSet
    <3>5. CASE n > p
      <4>1. n - 1 \in 1 .. Len(w) /\ ~(n - 1 < p) /\ n - 1 + 1 = n
        BY <2>1, <2>2, <3>5
      <4>2. w[n - 1] = d
        BY <2>1, <3>2, <4>1
      <4>3. QED
        BY <3>1, <4>1, <4>2 DEF ToSet
    <3>6. QED
      BY <3>3, <3>4, <3>5
  <2>6. QED
    BY <1>2, <2>1, <2>3, <2>4, <2>5 DEF w
<1>3. QED
  BY <1>1, <1>2
-----------------------------------------------------------------------------
(* The table of parsers.                                                   *)

(* A Session is found in the table under its own number only, and under    *)
(* the number of every Session, unless it is 0, there is one.              *)
Table ==
  /\ \A i \in Indices : nodes[i] # NoNode => index[nodes[i]] = i
  /\ \A s \in sss : index[s] # 0 => nodes[index[s]] # NoNode
  /\ \A s \in Streams \ sss : index[s] = 0

LEMMA CreateTypes ==
  ASSUME TypeOK, NEW s \in Streams, CreateSession(s)
  PROVE  /\ sss' \subseteq Streams /\ sss \subseteq sss'
         /\ index' \in [Streams -> Indices]
         /\ nodes' \in [Indices -> sss' \cup {NoNode}] /\ nodes'[0] = NoNode
<1>1. CASE s \in sss
  BY <1>1 DEF TypeOK, CreateSession, parserVars
<1>2. CASE s \notin sss
  <2>1. PICK i \in Indices : addConf(s, i)
    BY <1>2 DEF CreateSession
  <2>2. nodes' \in [Indices -> sss' \cup {NoNode}] /\ nodes'[0] = NoNode
    <3>1. CASE i = 0 \/ nodes[i] # NoNode
      BY <2>1, <3>1 DEF TypeOK, addConf
    <3>2. CASE ~(i = 0 \/ nodes[i] # NoNode)
      BY <2>1, <3>2 DEF TypeOK, addConf
    <3>3. QED
      BY <3>1, <3>2
  <2>3. QED
    BY <2>1, <2>2 DEF TypeOK, addConf
<1>3. QED
  BY <1>1, <1>2

(* Making a Session leaves the parsers of the others as they are, and      *)
(* keeps the table in order.                                               *)
LEMMA CreateTable ==
  ASSUME TypeOK, Table, NEW s \in Streams, CreateSession(s)
  PROVE  /\ Table'
         /\ \A t \in Streams \ {s} : Owner(t)' = Owner(t)
<1>0. 0 \in Indices /\ NoNode \notin Streams
  BY StreamingAssumption
<1>1. CASE s \in sss
  BY <1>1 DEF CreateSession, parserVars, Table, Owner
<1>2. CASE s \notin sss
  <2>1. PICK i \in Indices : addConf(s, i)
    BY <1>2 DEF CreateSession
  <2>2. /\ sss' = sss \cup {s}
        /\ index'[s] = i /\ \A t \in Streams \ {s} : index'[t] = index[t]
    BY <2>1 DEF TypeOK, addConf
  <2>3. CASE i = 0 \/ nodes[i] # NoNode
    <3>1. nodes' = nodes
      BY <2>1, <2>3 DEF addConf
    <3>2. \A j \in Indices : nodes[j] # NoNode => nodes[j] \in Streams \ {s}
      BY <1>2 DEF TypeOK
    <3>3. QED
      BY <2>2, <2>3, <3>1, <3>2 DEF Table, Owner, TypeOK
  <2>4. CASE ~(i = 0 \/ nodes[i] # NoNode)
    <3>1. nodes'[i] = s /\ \A j \in Indices \ {i} : nodes'[j] = nodes[j]
      BY <2>1, <2>4 DEF TypeOK, addConf
    <3>2. \A t \in Streams \ {s} : index[t] \in Indices \ {i}
      BY <2>4 DEF Table, TypeOK
    <3>3. \A t \in Streams \ {s} : Owner(t)' = Owner(t)
      BY <2>2, <3>1, <3>2 DEF Owner
    <3>4. \A j \in Indices : nodes'[j] # NoNode => index'[nodes'[j]] = j
      <4>1. \A j \in Indices \ {i} : nodes[j] # NoNode => nodes[j] \in Streams \ {s}
        BY <1>2 DEF TypeOK
      <4>2. QED
        BY <2>2, <3>1, <4>1 DEF Table
    <3>5. \A t \in sss' : index'[t] # 0 => nodes'[index'[t]] # NoNode
      <4>1. ASSUME NEW t \in sss, t # s, index[t] # 0
            PROVE  nodes'[index[t]] # NoNode
        <5>1. t \in Streams \ {s}
          BY <4>1 DEF TypeOK
        <5>2. QED
          BY <3>1, <3>2, <4>1, <5>1 DEF Table
      <4>2. s # NoNode
        BY <1>0
      <4>3. \A t \in sss : t # s => index'[t] = index[t]
        BY <2>2 DEF TypeOK
      <4>4. QED
        BY <2>2, <3>1, <4>1, <4>2, <4>3
    <3>6. \A t \in Streams \ sss' : index'[t] = 0
      BY <2>2 DEF Table
    <3>7. QED
      BY <3>3, <3>4, <3>5, <3>6 DEF Table
  <2>5. QED
    BY <2>3, <2>4
<1>3. QED
  BY <1>1, <1>2

(* So a Session with a number of its own has its own parser.               *)
LEMMA OwnIndexOwnParser ==
  ASSUME TypeOK, Table, NEW s \in sss, HasOwnIndex(s)
  PROVE  Owner(s) = s
<1>1. s \in Streams /\ index[s] \in Indices /\ index[s] # 0
  BY DEF TypeOK, HasOwnIndex
<1>2. Owner(s) \in sss /\ index[Owner(s)] = index[s]
  BY <1>1 DEF Table, TypeOK, Owner
<1>3. QED
  BY <1>2 DEF HasOwnIndex
-----------------------------------------------------------------------------
(* The lists a step leaves are lists of players.                           *)
LEMMA TypeStep ==
  ASSUME TypeOK, Next
  PROVE  TypeOK'
<1>1. ASSUME NEW s \in Streams, DeviceData(s)
      PROVE  TypeOK'
  <2>0. /\ sss' \subseteq Streams
        /\ index' \in [Streams -> Indices]
        /\ nodes' \in [Indices -> sss' \cup {NoNode}] /\ nodes'[0] = NoNode
    BY <1>1, CreateTypes DEF DeviceData
  <2>1. frame' \in [Streams -> 0 .. MaxFrames]
    BY <1>1, StreamingAssumption DEF TypeOK, DeviceData
  <2>2. /\ fanPc' \in [Streams -> {"idle", "check", "send", "runaway"}]
        /\ fanIndex' \in [Streams -> Nat \ {0}]
        /\ due' \in [Streams -> SUBSET Conns] /\ shrunk' \in [Streams -> BOOLEAN]
        /\ sent' \in [Streams -> [Conns -> 0 .. 2]]
    <3>1. CASE Owner(s)' = NoNode
      BY <1>1, <3>1 DEF TypeOK, DeviceData
    <3>2. CASE Owner(s)' # NoNode
      <4>1. BeginFanOut(s, 1)
        BY <1>1, <3>2 DEF DeviceData
      <4>2. ToSet(sids[s]) \cap Reachable \in SUBSET Conns
        BY DEF TypeOK, Reachable
      <4>3. QED
        BY <4>1, <4>2 DEF TypeOK, BeginFanOut
    <3>3. QED
      BY <3>1, <3>2
  <2>3. QED
    BY <1>1, <2>0, <2>1, <2>2 DEF TypeOK, DeviceData, connVars
<1>2. ASSUME NEW s \in Streams, FanCheck(s)
      PROVE  TypeOK'
  BY <1>2 DEF TypeOK, FanCheck, parserVars, connVars
<1>3. ASSUME NEW s \in Streams, FanSend(s)
      PROVE  TypeOK'
  <2>0. PICK c : sent' = [sent EXCEPT ![s][c] = IF c \in Reachable /\ @ < 2 THEN @ + 1 ELSE @]
    BY <1>3 DEF FanSend
  <2> DEFINE g == [sent[s] EXCEPT ![c] = IF c \in Reachable /\ @ < 2 THEN @ + 1 ELSE @]
  <2>a. g \in [Conns -> 0 .. 2]
    <3>1. sent[s] \in [Conns -> 0 .. 2]
      BY DEF TypeOK
    <3>2. CASE c \in Conns
      <4> DEFINE n == sent[s][c]
                 r == IF c \in Reachable /\ n < 2 THEN n + 1 ELSE n
      <4>1. n \in 0 .. 2
        BY <3>1, <3>2
      <4>2. r \in 0 .. 2
        BY <4>1
      <4>3. g = [sent[s] EXCEPT ![c] = r]
        OBVIOUS
      <4> HIDE DEF r, g
      <4>4. QED
        BY <3>1, <3>2, <4>2, <4>3
    <3>3. CASE c \notin Conns
      BY <3>1, <3>3
    <3>4. QED
      BY <3>2, <3>3
  <2>1. sent' \in [Streams -> [Conns -> 0 .. 2]]
    <3>1. sent' = [sent EXCEPT ![s] = g]
      BY <2>0
    <3> HIDE DEF g
    <3>2. QED
      BY <2>a, <3>1 DEF TypeOK
  <2>2. QED
    BY <1>3, <2>1 DEF TypeOK, FanSend, parserVars, connVars
<1>4. ASSUME NEW s \in Streams, FanOverrun(s) \/ FanRunaway(s)
      PROVE  TypeOK'
  <2>1. CASE FanOverrun(s)
    BY <2>1 DEF TypeOK, FanOverrun, parserVars, connVars
  <2>2. CASE FanRunaway(s)
    <3>1. sent' \in [Streams -> [Conns -> 0 .. 2]]
      BY <2>2 DEF TypeOK, FanRunaway, Reachable
    <3>2. QED
      BY <2>2, <3>1 DEF TypeOK, FanRunaway, parserVars, connVars
  <2>3. QED
    BY <1>4, <2>1, <2>2
<1>5. ASSUME NEW c \in Conns, NEW s \in Streams, Play(c, s)
      PROVE  TypeOK'
  BY <1>5, AppendProperties DEF TypeOK, Play, addTarget, parserVars, connVars, fanVars
<1>6. ASSUME NEW c \in Conns, NEW s \in Streams, Visit(c, s)
      PROVE  TypeOK'
  <2>1. Without(sids[s], c) \in Seq(Conns)
    BY WithoutProperties DEF TypeOK
  <2>2. shrunk' \in [Streams -> BOOLEAN]
    BY <1>6 DEF TypeOK, Visit, removeTarget
  <2>3. toVisit' \in [Conns -> SUBSET Streams]
    BY <1>6 DEF TypeOK, Visit
  <2>4. QED
    BY <1>6, <2>1, <2>2, <2>3 DEF TypeOK, Visit, removeTarget, parserVars, fanVars
<1>7. ASSUME NEW c \in Conns, Accept(c) \/ AcceptAdd(c) \/ WriteError(c) \/ ReadError(c) \/ EndVisit(c)
      PROVE  TypeOK'
  BY <1>7 DEF TypeOK, Accept, AcceptAdd, WriteError, ReadError, EndVisit, parserVars, fanVars, Reachable
<1>8. QED
  BY <1>1, <1>2, <1>3, <1>4, <1>5, <1>6, <1>7 DEF Next, FanOut

LEMMA InitTypes == Init => TypeOK
BY StreamingAssumption, EmptySeq DEF Init, TypeOK

(* The variables of live streaming stay in their types: the loop hands     *)
(* only players to sendframe while it is inside the list, for any number   *)
(* of channels, players and frames.                                        *)
THEOREM StreamingTypeCorrect == Spec => []TypeOK
<1>1. Init => TypeOK
  BY InitTypes
<1>2. TypeOK /\ [Next]_vars => TypeOK'
  <2>1. TypeOK /\ UNCHANGED vars => TypeOK'
    BY DEF TypeOK, vars, parserVars, fanVars, connVars
  <2>2. QED
    BY <2>1, TypeStep
<1>3. QED
  BY <1>1, <1>2, PTL DEF Spec
-----------------------------------------------------------------------------
(* A connection is read from only once it was accepted.                    *)
Unread(c) == acceptPc[c] = "none" => readPc[c] = "none"

OneEach(q) == \A i, j \in 1 .. Len(q) : i # j => q[i] # q[j]

Running(s) == fanPc[s] \in {"check", "send"}

(* A loop that has begun has a list.                                       *)
Owned(s) == fanPc[s] # "idle" => Owner(s) \in Streams

(* The loop is inside the list, or a target has left.                      *)
Inside(s) ==
  \/ shrunk[s]
  \/ fanPc[s] = "idle"
  \/ fanPc[s] = "check" /\ fanIndex[s] <= Len(Targets(s)) + 1
  \/ fanPc[s] = "send" /\ fanIndex[s] <= Len(Targets(s))

(* c is no target from the position of the loop on.                        *)
Passed(s, c) == \A i \in fanIndex[s] .. Len(Targets(s)) : i > 0 => Targets(s)[i] # c

(* c is a target still, or will be none again.                             *)
Stays(s, c) == c \in ToSet(Targets(s)) \/ readPc[c] \in {"visit", "done"}

(* The players that have the frame are behind the loop and cannot come     *)
(* before it again.                                                        *)
Behind(s) ==
  \A c \in Conns : sent[s][c] # 0 =>
    /\ fanPc[s] # "runaway" => sent[s][c] = 1
    /\ Running(s) => Passed(s, c) /\ Stays(s, c)

(* While none has left, the players of the channel that have not got it    *)
(* are before the loop, if it is their list that the loop goes through.    *)
AheadOf(s) ==
  Running(s) /\ ~shrunk[s] /\ Owner(s) = s =>
    \A c \in due[s] \ stopped : c \in sessions /\ (sent[s][c] = 1 \/ ~Passed(s, c))

StreamInv(s) == Owned(s) /\ Inside(s) /\ Behind(s) /\ AheadOf(s)

StreamingInv ==
  /\ TypeOK /\ Table
  /\ \A c \in Conns : Unread(c)
  /\ \A s \in Streams : OneEach(sids[s])
  /\ \A s \in Streams : StreamInv(s)

(* A step that leaves a loop and its list alone, brings no ended player    *)
(* back and drops none but those that have failed.                         *)
LEMMA QuietStep ==
  ASSUME NEW s \in Streams, StreamInv(s),
         Owner(s)' = Owner(s), Running(s) => Targets(s)' = Targets(s),
         shrunk'[s] = shrunk[s], fanPc'[s] = fanPc[s],
         fanIndex'[s] = fanIndex[s], due'[s] = due[s], sent'[s] = sent[s],
         \A c \in Conns : readPc[c] \in {"visit", "done"} => readPc'[c] \in {"visit", "done"},
         stopped \subseteq stopped', sessions \ stopped' \subseteq sessions',
         due[s] \subseteq Conns
  PROVE  StreamInv(s)'
<1>1. Running(s)' <=> Running(s)
  BY DEF Running
<1>2. Owned(s)' /\ Inside(s)'
  BY DEF StreamInv, Owned, Inside, Running
<1>3. Running(s) => \A c \in Conns : (Passed(s, c)' <=> Passed(s, c)) /\ (Stays(s, c) => Stays(s, c)')
  BY DEF Passed, Stays
<1>4. Behind(s)'
  BY <1>1, <1>3 DEF StreamInv, Behind
<1>5. AheadOf(s)'
  BY <1>1, <1>3 DEF StreamInv, AheadOf
<1>6. QED
  BY <1>2, <1>4, <1>5 DEF StreamInv

(* The same for the other channels in a step of one.                       *)
LEMMA OtherStep ==
  ASSUME TypeOK, Table, NEW s \in Streams, NEW t \in Streams, s # t, StreamInv(t),
         DeviceData(s) \/ FanOut(s)
  PROVE  StreamInv(t)'
<1>1. /\ sids' = sids /\ shrunk'[t] = shrunk[t] /\ fanPc'[t] = fanPc[t]
      /\ fanIndex'[t] = fanIndex[t] /\ due'[t] = due[t] /\ sent'[t] = sent[t]
      /\ UNCHANGED <<readPc, stopped, sessions>>
  BY DEF TypeOK, DeviceData, BeginFanOut, FanOut, FanCheck, FanSend, FanOverrun, FanRunaway,
         connVars
<1>2. Owner(t)' = Owner(t)
  <2>1. CASE DeviceData(s)
    BY <2>1, CreateTable DEF DeviceData
  <2>2. CASE FanOut(s)
    BY <2>2 DEF FanOut, FanCheck, FanSend, FanOverrun, FanRunaway, parserVars, Owner
  <2>3. QED
    BY <2>1, <2>2
<1>3. due[t] \subseteq Conns /\ Targets(t)' = Targets(t)
  BY <1>1, <1>2 DEF TypeOK, Targets
<1>4. QED
  BY <1>1, <1>2, <1>3, QuietStep

LEMMA DeviceStep ==
  ASSUME TypeOK, Table, NEW s \in Streams, StreamInv(s), DeviceData(s)
  PROVE  StreamInv(s)'
<1>1. CASE Owner(s)' = NoNode
  <2>1. fanPc'[s] = "idle" /\ fanPc[s] = "idle" /\ sent' = sent
    BY <1>1 DEF DeviceData
  <2>2. QED
    BY <2>1 DEF StreamInv, Owned, Inside, Behind, AheadOf, Running
<1>2. CASE Owner(s)' # NoNode
  <2>1. /\ sids' = sids /\ fanPc'[s] = "check" /\ fanIndex'[s] = 1
        /\ due'[s] = ToSet(sids[s]) \cap Reachable /\ shrunk'[s] = FALSE
        /\ sent'[s] = [c \in Conns |-> 0] /\ UNCHANGED <<sessions, stopped>>
    BY <1>2 DEF TypeOK, DeviceData, BeginFanOut, connVars
  <2>2. Owner(s)' \in Streams
    <3>1. /\ sss' \subseteq Streams /\ index' \in [Streams -> Indices]
          /\ nodes' \in [Indices -> sss' \cup {NoNode}]
      BY CreateTypes DEF DeviceData
    <3>2. QED
      BY <1>2, <3>1 DEF Owner
  <2>3. Len(Targets(s)') \in Nat
    BY <2>1, <2>2, LenProperties DEF TypeOK, Targets
  <2>4. Owned(s)' /\ Inside(s)'
    BY <2>1, <2>2, <2>3 DEF Owned, Inside
  <2>5. Behind(s)'
    BY <2>1 DEF Behind
  <2>6. ASSUME Owner(s)' = s, NEW c \in (due[s] \ stopped)'
        PROVE  c \in sessions' /\ ~Passed(s, c)'
    <3>1. c \in ToSet(sids[s]) /\ c \in sessions /\ Targets(s)' = sids[s]
      BY <2>1, <2>6 DEF Reachable, Targets
    <3>2. Len(sids[s]) \in Nat /\ DOMAIN sids[s] = 1 .. Len(sids[s])
      BY LenProperties DEF TypeOK
    <3>3. PICK i \in 1 .. Len(sids[s]) : sids[s][i] = c
      BY <3>1, <3>2 DEF ToSet
    <3>4. QED
      BY <2>1, <3>1, <3>2, <3>3 DEF Passed
  <2>7. QED
    BY <2>4, <2>5, <2>6 DEF StreamInv, AheadOf
<1>3. QED
  BY <1>1, <1>2

(* The list a loop goes through.                                           *)
LEMMA TargetsType ==
  ASSUME TypeOK, NEW s \in Streams, Owned(s), fanPc[s] # "idle"
  PROVE  /\ Owner(s) \in Streams
         /\ Targets(s) \in Seq(Conns)
         /\ Len(Targets(s)) \in Nat /\ DOMAIN Targets(s) = 1 .. Len(Targets(s))
         /\ \A i \in 1 .. Len(Targets(s)) : Targets(s)[i] \in Conns
         /\ fanIndex[s] \in Nat \ {0}
<1>1. Owner(s) \in Streams
  BY DEF Owned
<1>2. Targets(s) \in Seq(Conns) /\ fanIndex[s] \in Nat \ {0}
  BY <1>1 DEF TypeOK, Targets
<1>3. QED
  BY <1>1, <1>2, LenProperties, ElementOfSeq

LEMMA CheckStep ==
  ASSUME TypeOK, NEW s \in Streams, StreamInv(s), FanCheck(s)
  PROVE  StreamInv(s)'
<1>1. /\ UNCHANGED <<parserVars, sids, shrunk, fanIndex, due, sent, readPc, sessions, stopped>>
      /\ fanPc[s] = "check"
      /\ \/ fanPc'[s] = "idle"
         \/ fanPc'[s] = "send" /\ fanIndex[s] # Len(Targets(s)) + 1
  BY DEF TypeOK, FanCheck, connVars
<1>2. Owner(s)' = Owner(s) /\ Targets(s)' = Targets(s)
  BY <1>1 DEF parserVars, Owner, Targets
<1>3. Owned(s)' /\ Inside(s)'
  <2>1. Owner(s) \in Streams /\ Len(Targets(s)) \in Nat /\ fanIndex[s] \in Nat
    BY <1>1, TargetsType DEF StreamInv
  <2>2. QED
    BY <1>1, <1>2, <2>1 DEF StreamInv, Owned, Inside
<1>4. \A c \in Conns : (Passed(s, c)' <=> Passed(s, c)) /\ (Stays(s, c) <=> Stays(s, c)')
  BY <1>1, <1>2 DEF Passed, Stays
<1>5. Running(s)
  BY <1>1 DEF Running
<1>6. Behind(s)'
  BY <1>1, <1>4, <1>5 DEF StreamInv, Behind
<1>7. AheadOf(s)'
  BY <1>1, <1>2, <1>4, <1>5 DEF StreamInv, AheadOf, TypeOK
<1>8. QED
  BY <1>3, <1>6, <1>7 DEF StreamInv

LEMMA SendStep ==
  ASSUME TypeOK, NEW s \in Streams, OneEach(Targets(s)), StreamInv(s), FanSend(s)
  PROVE  StreamInv(s)'
<1> DEFINE q == Targets(s)
<1>0. /\ Owner(s) \in Streams /\ Len(q) \in Nat /\ DOMAIN q = 1 .. Len(q)
      /\ \A i \in 1 .. Len(q) : q[i] \in Conns
      /\ fanIndex[s] \in 1 .. Len(q)
  <2>1. fanPc[s] # "idle" /\ fanIndex[s] <= Len(q)
    BY DEF FanSend
  <2>2. QED
    BY <2>1, TargetsType DEF StreamInv
<1>a. PICK n \in 1 .. Len(q), c \in Conns : n = fanIndex[s] /\ c = q[n]
  BY <1>0
<1>1. /\ UNCHANGED <<parserVars, sids, shrunk, due, readPc, sessions, stopped>>
      /\ fanPc[s] = "send" /\ fanPc'[s] = "check" /\ fanIndex'[s] = n + 1
      /\ sent'[s] = [sent[s] EXCEPT ![c] = IF c \in Reachable /\ @ < 2 THEN @ + 1 ELSE @]
  BY <1>a DEF TypeOK, FanSend, connVars
<1>2. Owner(s)' = Owner(s) /\ Targets(s)' = q
  BY <1>1 DEF parserVars, Owner, Targets
<1>3. sent[s] \in [Conns -> 0 .. 2] /\ due[s] \subseteq Conns
  BY DEF TypeOK
<1> HIDE DEF q
<1>4. Owned(s)' /\ Inside(s)'
  BY <1>0, <1>a, <1>1, <1>2 DEF StreamInv, Owned, Inside, q
<1>5. \A d \in Conns : Passed(s, d) => Passed(s, d)'
  BY <1>0, <1>a, <1>1, <1>2 DEF Passed, q
<1>6. Passed(s, c)' /\ Stays(s, c)' /\ ~Passed(s, c)
  <2>1. OneEach(q) /\ c \in ToSet(q)
    BY <1>0, <1>a DEF q, ToSet
  <2>2. Passed(s, c)'
    BY <1>0, <1>a, <1>1, <1>2, <2>1 DEF Passed, OneEach
  <2>3. Stays(s, c)' /\ ~Passed(s, c)
    BY <1>0, <1>a, <1>1, <1>2, <2>1 DEF Passed, Stays, q
  <2>4. QED
    BY <2>2, <2>3
<1>7. \A d \in Conns : d # c => sent'[s][d] = sent[s][d]
  BY <1>1, <1>3
<1>8. sent[s][c] = 0
  BY <1>1, <1>6 DEF StreamInv, Behind, Running
<1>9. sent'[s][c] = IF c \in Reachable THEN 1 ELSE 0
  BY <1>1, <1>3, <1>8
<1>10. \A d \in Conns : Stays(s, d)' <=> Stays(s, d)
  BY <1>1, <1>2 DEF Stays, q
<1>11. Running(s) /\ fanPc[s] # "runaway"
  BY <1>1 DEF Running
<1>12. Behind(s)'
  BY <1>5, <1>6, <1>7, <1>9, <1>10, <1>11 DEF StreamInv, Behind
<1>13. AheadOf(s)'
  <2>1. ASSUME ~shrunk'[s], Owner(s)' = s, NEW d \in (due[s] \ stopped)'
        PROVE  d \in sessions' /\ (sent'[s][d] = 1 \/ ~Passed(s, d)')
    <3>1. d \in Conns /\ d \in sessions \ stopped /\ (sent[s][d] = 1 \/ ~Passed(s, d))
      BY <1>1, <1>2, <1>3, <1>11, <2>1 DEF StreamInv, AheadOf
    <3>2. CASE d = c
      BY <1>1, <1>9, <3>1, <3>2 DEF Reachable
    <3>3. CASE d # c
      <4>1. Passed(s, d)' => Passed(s, d)
        BY <1>0, <1>a, <1>1, <1>2, <3>3 DEF Passed, q
      <4>2. QED
        BY <1>1, <1>7, <3>1, <3>3, <4>1
    <3>4. QED
      BY <3>2, <3>3
  <2>2. QED
    BY <2>1 DEF AheadOf
<1>14. QED
  BY <1>4, <1>12, <1>13 DEF StreamInv

LEMMA OverrunStep ==
  ASSUME TypeOK, NEW s \in Streams, StreamInv(s), FanOverrun(s) \/ FanRunaway(s)
  PROVE  StreamInv(s)'
<1>1. /\ UNCHANGED <<parserVars, sids, shrunk>> /\ fanPc'[s] = "runaway"
      /\ fanPc[s] = "runaway" \/ (fanPc[s] = "send" /\ fanIndex[s] > Len(Targets(s)))
  BY DEF TypeOK, FanOverrun, FanRunaway
<1>2. Owner(s) \in Streams /\ Len(Targets(s)) \in Nat /\ fanIndex[s] \in Nat
  BY <1>1, TargetsType DEF StreamInv
<1>3. Owner(s)' = Owner(s)
  BY <1>1 DEF parserVars, Owner
<1>4. Owned(s)' /\ Inside(s)'
  BY <1>1, <1>2, <1>3 DEF StreamInv, Owned, Inside
<1>5. Behind(s)' /\ AheadOf(s)'
  BY <1>1 DEF Behind, AheadOf, Running
<1>6. QED
  BY <1>4, <1>5 DEF StreamInv

(* A list that a player was added to.                                      *)
LEMMA AddedPlaces ==
  ASSUME TypeOK, NEW t \in Streams, NEW c \in Conns, Play(c, t), c \notin ToSet(sids[t])
  PROVE  /\ Len(sids[t]) \in Nat /\ DOMAIN sids[t] = 1 .. Len(sids[t])
         /\ Len(sids'[t]) = Len(sids[t]) + 1
         /\ DOMAIN sids'[t] = 1 .. Len(sids[t]) + 1
         /\ \A i \in 1 .. Len(sids[t]) : sids'[t][i] = sids[t][i] /\ sids[t][i] # c
         /\ sids'[t][Len(sids[t]) + 1] = c
<1>1. sids[t] \in Seq(Conns) /\ sids'[t] = Append(sids[t], c)
  BY DEF TypeOK, Play, addTarget
<1>2. Len(sids[t]) \in Nat /\ DOMAIN sids[t] = 1 .. Len(sids[t])
  BY <1>1, LenProperties
<1>3. sids'[t] \in Seq(Conns)
  BY <1>1, AppendProperties
<1>4. \A i \in 1 .. Len(sids[t]) : sids[t][i] # c
  BY <1>2 DEF ToSet
<1>5. QED
  BY <1>1, <1>2, <1>3, <1>4, AppendProperties, LenProperties

(* No list ever has a player twice.                                        *)
LEMMA OneEachStep ==
  ASSUME TypeOK, Next, NEW t \in Streams, OneEach(sids[t])
  PROVE  OneEach(sids'[t])
<1>1. ASSUME NEW c \in Conns, NEW s \in Streams, Play(c, s)
      PROVE  OneEach(sids'[t])
  <2>1. CASE t = s /\ c \notin ToSet(sids[t])
    <3>1. ASSUME NEW i \in 1 .. Len(sids'[t]), NEW j \in 1 .. Len(sids'[t]), i # j
          PROVE  sids'[t][i] # sids'[t][j]
      <4>1. /\ Len(sids[t]) \in Nat /\ Len(sids'[t]) = Len(sids[t]) + 1
            /\ \A k \in 1 .. Len(sids[t]) : sids'[t][k] = sids[t][k] /\ sids[t][k] # c
            /\ sids'[t][Len(sids[t]) + 1] = c
        BY <1>1, <2>1, AddedPlaces
      <4>2. CASE i \in 1 .. Len(sids[t]) /\ j \in 1 .. Len(sids[t])
        BY <3>1, <4>1, <4>2 DEF OneEach
      <4>3. CASE ~(i \in 1 .. Len(sids[t]) /\ j \in 1 .. Len(sids[t]))
        BY <3>1, <4>1, <4>3
      <4>4. QED
        BY <4>2, <4>3
    <3>2. QED
      BY <3>1 DEF OneEach
  <2>2. CASE ~(t = s /\ c \notin ToSet(sids[t]))
    <3>1. sids'[t] = sids[t]
      BY <1>1, <2>2 DEF TypeOK, Play, addTarget
    <3>2. QED
      BY <3>1
  <2>3. QED
    BY <2>1, <2>2
<1>2. ASSUME NEW c \in Conns, NEW s \in Streams, Visit(c, s)
      PROVE  OneEach(sids'[t])
  <2>1. sids'[t] = sids[t] \/ sids'[t] = Without(sids[t], c)
    BY <1>2 DEF TypeOK, Visit, removeTarget
  <2>2. OneEach(Without(sids[t], c))
    <3>1. sids[t] \in Seq(Conns)
      BY DEF TypeOK
    <3>2. (\A i, j \in 1 .. Len(sids[t]) : i # j => sids[t][i] # sids[t][j])
            => \A i, j \in 1 .. Len(Without(sids[t], c)) :
                 i # j => Without(sids[t], c)[i] # Without(sids[t], c)[j]
      BY <3>1, WithoutProperties
    <3>3. QED
      BY <3>2 DEF OneEach
  <2>3. QED
    BY <2>1, <2>2
<1>3. ASSUME sids' = sids
      PROVE  OneEach(sids'[t])
  BY <1>3
<1>4. QED
  BY <1>1, <1>2, <1>3 DEF Next, DeviceData, FanOut, FanCheck, FanSend, FanOverrun, FanRunaway,
     Accept, AcceptAdd, WriteError, ReadError, EndVisit

(* A player that joins comes before the loops that go through its list,    *)
(* and has not got the frame of any: it is read from, and so would be a    *)
(* target already.                                                         *)
LEMMA PlayStep ==
  ASSUME TypeOK, NEW s \in Streams, NEW t \in Streams, NEW c \in Conns, StreamInv(s), Play(c, t)
  PROVE  StreamInv(s)'
<1>1. /\ sids' = [sids EXCEPT ![t] = IF c \in ToSet(sids[t]) THEN sids[t] ELSE Append(sids[t], c)]
      /\ UNCHANGED <<index, nodes, shrunk, fanPc, fanIndex, due, sent, readPc, sessions, stopped>>
      /\ readPc[c] = "read"
  BY DEF TypeOK, Play, addTarget, parserVars, fanVars, connVars
<1>2. due[s] \subseteq Conns /\ Owner(s)' = Owner(s)
  BY <1>1 DEF TypeOK, Owner
<1>3. CASE ~(Running(s) /\ Owner(s) = t /\ c \notin ToSet(sids[t]))
  <2>1. Running(s) => Targets(s)' = Targets(s)
    <3>1. Running(s) => Owner(s) \in Streams
      BY DEF StreamInv, Owned, Running
    <3>2. QED
      BY <1>1, <1>2, <1>3, <3>1 DEF TypeOK, Targets
  <2>2. QED
    BY <1>1, <1>2, <2>1, QuietStep
<1>4. CASE Running(s) /\ Owner(s) = t /\ c \notin ToSet(sids[t])
  <2> DEFINE q == sids[t]
             w == sids'[t]
  <2>1. /\ Len(q) \in Nat /\ DOMAIN q = 1 .. Len(q)
        /\ Len(w) = Len(q) + 1 /\ DOMAIN w = 1 .. Len(q) + 1
        /\ \A i \in 1 .. Len(q) : w[i] = q[i] /\ q[i] # c
        /\ w[Len(q) + 1] = c
    BY <1>4, AddedPlaces
  <2>2. fanIndex[s] \in Nat
    BY DEF TypeOK
  <2>3. Targets(s) = q /\ Targets(s)' = w
    BY <1>2, <1>4 DEF Targets
  <2> HIDE DEF q, w
  <2>4. Owned(s)' /\ Inside(s)'
    BY <1>1, <1>2, <2>1, <2>2, <2>3 DEF StreamInv, Owned, Inside
  <2>5. \A d \in Conns : d # c /\ Passed(s, d) => Passed(s, d)'
    BY <1>1, <2>1, <2>2, <2>3 DEF Passed
  <2>6. \A d \in Conns : Passed(s, d)' => Passed(s, d)
    BY <1>1, <2>1, <2>2, <2>3 DEF Passed
  <2>7. \A d \in Conns : Stays(s, d) => Stays(s, d)'
    <3>1. ToSet(q) \subseteq ToSet(w)
      BY <2>1 DEF ToSet
    <3>2. QED
      BY <1>1, <2>3, <3>1 DEF Stays
  <2>8. ~Stays(s, c)
    BY <1>1, <1>4, <2>3 DEF Stays, q
  <2>9. Running(s)' <=> Running(s)
    BY <1>1 DEF Running
  <2>10. Behind(s)'
    BY <1>1, <2>5, <2>7, <2>8, <2>9 DEF StreamInv, Behind
  <2>11. AheadOf(s)'
    BY <1>1, <1>2, <2>6, <2>9 DEF StreamInv, AheadOf
  <2>12. QED
    BY <2>4, <2>10, <2>11 DEF StreamInv
<1>5. QED
  BY <1>3, <1>4

LEMMA VisitStep ==
  ASSUME TypeOK, NEW s \in Streams, NEW t \in Streams, NEW c \in Conns, StreamInv(s), Visit(c, t)
  PROVE  StreamInv(s)'
<1>1. /\ sids' = [sids EXCEPT ![t] = Without(sids[t], c)]
      /\ shrunk'[s] = (shrunk[s] \/ (Owner(s) = t /\ c \in ToSet(sids[t])))
      /\ UNCHANGED <<index, nodes, fanPc, fanIndex, due, sent, readPc, sessions, stopped>>
      /\ readPc[c] = "visit"
  BY DEF TypeOK, Visit, removeTarget, parserVars, fanVars
<1>2. /\ due[s] \subseteq Conns /\ sids[t] \in Seq(Conns) /\ fanIndex[s] \in Nat
      /\ shrunk[s] \in BOOLEAN /\ Owner(s)' = Owner(s)
  BY <1>1 DEF TypeOK, Owner
<1>3. CASE ~(Owner(s) = t /\ c \in ToSet(sids[t]))
  <2>1. Running(s) => Targets(s)' = Targets(s)
    <3>1. Running(s) => Owner(s) \in Streams
      BY DEF StreamInv, Owned, Running
    <3>2. c \notin ToSet(sids[t]) => Without(sids[t], c) = sids[t]
      BY DEF Without
    <3>3. QED
      BY <1>1, <1>2, <1>3, <3>1, <3>2 DEF TypeOK, Targets
  <2>2. shrunk'[s] = shrunk[s]
    BY <1>1, <1>2, <1>3
  <2>3. QED
    BY <1>1, <1>2, <2>1, <2>2, QuietStep
<1>4. CASE Owner(s) = t /\ c \in ToSet(sids[t])
  <2>1. shrunk'[s]
    BY <1>1, <1>4
  <2> DEFINE q == sids[t]
             w == Without(sids[t], c)
  <2>2. \A d \in Conns :
          (\A i \in fanIndex[s] .. Len(q) : i > 0 => q[i] # d)
            => \A i \in fanIndex[s] .. Len(w) : i > 0 => w[i] # d
    <3>1. \A k \in Nat, d \in Conns :
            (\A i \in k .. Len(q) : i > 0 => q[i] # d)
              => \A i \in k .. Len(w) : i > 0 => w[i] # d
      BY <1>2, WithoutProperties
    <3> HIDE DEF q, w
    <3>2. QED
      BY <1>2, <3>1
  <2>3. Targets(s) = q /\ Targets(s)' = w
    BY <1>1, <1>2, <1>4 DEF Targets, TypeOK
  <2>4. Owned(s)' /\ Inside(s)' /\ AheadOf(s)'
    BY <1>1, <1>2, <2>1 DEF StreamInv, Owned, Inside, AheadOf
  <2>5. \A d \in Conns : Passed(s, d) => Passed(s, d)'
    <3> HIDE DEF q, w
    <3>1. QED
      BY <1>1, <2>2, <2>3 DEF Passed
  <2>6. \A d \in Conns : Stays(s, d) => Stays(s, d)'
    BY <1>1, <1>2, <2>3, WithoutProperties DEF Stays
  <2>7. Behind(s)'
    BY <1>1, <2>5, <2>6 DEF StreamInv, Behind, Running
  <2>8. QED
    BY <2>4, <2>7 DEF StreamInv
<1>5. QED
  BY <1>3, <1>4

LEMMA ConnStep ==
  ASSUME TypeOK, NEW s \in Streams, StreamInv(s), \A d \in Conns : Unread(d), NEW c \in Conns,
         Accept(c) \/ AcceptAdd(c) \/ WriteError(c) \/ ReadError(c) \/ EndVisit(c)
  PROVE  StreamInv(s)'
<1>1. UNCHANGED <<index, nodes, sids, shrunk, fanPc, fanIndex, due, sent>>
  BY DEF Accept, AcceptAdd, WriteError, ReadError, EndVisit, parserVars, fanVars
<1>2. \A d \in Conns : readPc[d] \in {"visit", "done"} => readPc'[d] \in {"visit", "done"}
  BY DEF TypeOK, Unread, Accept, AcceptAdd, WriteError, ReadError, EndVisit
<1>3. stopped \subseteq stopped' /\ sessions \ stopped' \subseteq sessions'
  BY DEF TypeOK, Accept, AcceptAdd, WriteError, ReadError, EndVisit
<1>4. due[s] \subseteq Conns /\ Owner(s)' = Owner(s) /\ Targets(s)' = Targets(s)
  BY <1>1 DEF TypeOK, Owner, Targets
<1>5. QED
  BY <1>1, <1>2, <1>3, <1>4, QuietStep

LEMMA TableStep ==
  ASSUME TypeOK, Table, Next
  PROVE  Table'
<1>1. ASSUME NEW s \in Streams, DeviceData(s)
      PROVE  Table'
  BY <1>1, CreateTable DEF DeviceData
<1>2. ASSUME UNCHANGED parserVars
      PROVE  Table'
  BY <1>2 DEF Table, parserVars
<1>3. QED
  BY <1>1, <1>2 DEF Next, FanOut, FanCheck, FanSend, FanOverrun, FanRunaway,
     Accept, AcceptAdd, WriteError, ReadError, EndVisit, Play, Visit

LEMMA StreamingIndInv == Spec => []StreamingInv
<1>1. Init => StreamingInv
  <2> SUFFICES ASSUME Init PROVE StreamingInv
    OBVIOUS
  <2>1. TypeOK
    BY InitTypes
  <2>2. \A c \in Conns : Unread(c)
    BY DEF Init, Unread
  <2>3. Table
    BY DEF Init, Table
  <2>4. ASSUME NEW s \in Streams
        PROVE  OneEach(sids[s]) /\ StreamInv(s)
    <3>1. OneEach(sids[s])
      BY EmptySeq DEF Init, OneEach
    <3>2. Owned(s) /\ Inside(s) /\ Behind(s) /\ AheadOf(s)
      BY DEF Init, Owned, Inside, Behind, AheadOf, Running
    <3>3. QED
      BY <3>1, <3>2 DEF StreamInv
  <2>5. QED
    BY <2>1, <2>2, <2>3, <2>4 DEF StreamingInv
<1>2. StreamingInv /\ [Next]_vars => StreamingInv'
  <2> SUFFICES ASSUME StreamingInv, [Next]_vars
               PROVE  StreamingInv'
    OBVIOUS
  <2> USE DEF StreamingInv
  <2>1. CASE Next
    <3>1. TypeOK' /\ Table'
      BY <2>1, TypeStep, TableStep
    <3>2. \A c \in Conns : Unread(c)'
      BY <2>1 DEF TypeOK, Unread, Next, DeviceData, FanOut, FanCheck, FanSend, FanOverrun,
             FanRunaway, Accept, AcceptAdd, WriteError, ReadError, EndVisit, Play, Visit, connVars
    <3>3. \A t \in Streams : OneEach(sids'[t])
      BY <2>1, OneEachStep
    <3>4. ASSUME NEW t \in Streams
          PROVE  StreamInv(t)'
      <4>1. ASSUME NEW s \in Streams, DeviceData(s) \/ FanOut(s)
            PROVE  StreamInv(t)'
        <5>1. CASE s # t
          BY <4>1, <5>1, OtherStep
        <5>2. CASE s = t
          <6>1. CASE FanSend(t)
            <7>1. Owner(t) \in Streams
              BY <6>1 DEF StreamInv, Owned, FanSend
            <7>2. OneEach(Targets(t))
              BY <7>1 DEF Targets
            <7>3. QED
              BY <6>1, <7>2, SendStep
          <6>2. CASE ~FanSend(t)
            BY <4>1, <5>2, <6>2, DeviceStep, CheckStep, OverrunStep DEF FanOut
          <6>3. QED
            BY <6>1, <6>2
        <5>3. QED
          BY <5>1, <5>2
      <4>2. ASSUME NEW c \in Conns, NEW s \in Streams, Play(c, s) \/ Visit(c, s)
            PROVE  StreamInv(t)'
        BY <4>2, PlayStep, VisitStep
      <4>3. ASSUME NEW c \in Conns,
                   Accept(c) \/ AcceptAdd(c) \/ WriteError(c) \/ ReadError(c) \/ EndVisit(c)
            PROVE  StreamInv(t)'
        BY <4>3, ConnStep
      <4>4. QED
        BY <2>1, <4>1, <4>2, <4>3 DEF Next
    <3>5. QED
      BY <3>1, <3>2, <3>3, <3>4
  <2>2. CASE UNCHANGED vars
    <3>1. /\ UNCHANGED parserVars /\ UNCHANGED <<sids, shrunk>>
          /\ UNCHANGED fanVars /\ UNCHANGED connVars
      BY <2>2 DEF vars
    <3>2. TypeOK' /\ Table'
      BY <3>1 DEF TypeOK, Table, parserVars, fanVars, connVars
    <3>3. \A c \in Conns : Unread(c)'
      BY <3>1 DEF Unread, connVars
    <3>4. \A t \in Streams : OneEach(sids'[t])
      BY <3>1
    <3>5. ASSUME NEW t \in Streams
          PROVE  StreamInv(t)'
      <4>1. due[t] \subseteq Conns /\ Owner(t)' = Owner(t) /\ Targets(t)' = Targets(t)
        BY <3>1 DEF TypeOK, parserVars, Owner, Targets
      <4>2. QED
        BY <3>1, <4>1, QuietStep DEF fanVars, connVars
    <3>6. QED
      BY <3>2, <3>3, <3>4, <3>5
  <2>3. QED
    BY <2>1, <2>2
<1>3. QED
  BY <1>1, <1>2, PTL DEF Spec

(* A frame is sent to no player twice while its loop is inside the list,   *)
(* whoever joins or leaves: Session::afterParsedDataNotification.          *)
THEOREM FrameOnce == Spec => []FrameAtMostOnce
<1>1. StreamingInv => FrameAtMostOnce
  <2>1. ASSUME StreamingInv, NEW s \in Streams, NEW c \in Conns, fanPc[s] # "runaway"
        PROVE  sent[s][c] <= 1
    <3>1. sent[s][c] \in 0 .. 2
      BY <2>1 DEF StreamingInv, TypeOK
    <3>2. sent[s][c] = 0 \/ sent[s][c] = 1
      BY <2>1 DEF StreamingInv, StreamInv, Behind
    <3>3. QED
      BY <3>2
  <2>2. QED
    BY <2>1 DEF FrameAtMostOnce
<1>2. QED
  BY <1>1, StreamingIndInv, PTL

(* Only the removal of a target can take the loop out of the list.         *)
THEOREM OnlyRemovalOverruns == Spec => []RunawayNeedsRemoval
<1>1. StreamingInv => RunawayNeedsRemoval
  BY DEF StreamingInv, StreamInv, Inside, RunawayNeedsRemoval
<1>2. QED
  BY <1>1, StreamingIndInv, PTL

(* Unless a target was removed during its fan-out, a frame of a channel    *)
(* whose Session has a number of its own has reached every player that was *)
(* a target when it came and can still be sent to.                         *)
THEOREM FramesReachAll == Spec => FrameReachesAll
<1>1. ASSUME StreamingInv, [Next]_vars
      PROVE  [\A s \in Streams :
                fanPc[s] = "check" /\ fanPc'[s] = "idle" /\ ~shrunk[s] /\ HasOwnIndex(s)
                  => \A c \in due[s] \cap Reachable : sent[s][c] = 1]_vars
  <2> SUFFICES ASSUME Next, NEW s \in Streams, fanPc[s] = "check", fanPc'[s] = "idle", ~shrunk[s],
                      HasOwnIndex(s), NEW c \in due[s] \cap Reachable
               PROVE  sent[s][c] = 1
    BY <1>1
  <2>1. fanIndex[s] = Len(Targets(s)) + 1
    BY <1>1 DEF StreamingInv, TypeOK, Next, DeviceData, FanOut, FanCheck, FanSend, FanOverrun,
           FanRunaway, Accept, AcceptAdd, WriteError, ReadError, EndVisit, Play, Visit,
           fanVars, BeginFanOut
  <2>2. Passed(s, c)
    <3>1. Len(Targets(s)) \in Nat
      BY <1>1, TargetsType DEF StreamingInv, StreamInv
    <3>2. QED
      BY <2>1, <3>1 DEF Passed
  <2>3. Owner(s) = s
    <3>1. s \in sss
      BY <1>1 DEF StreamingInv, Table, HasOwnIndex
    <3>2. QED
      BY <1>1, <3>1, OwnIndexOwnParser DEF StreamingInv
  <2>4. QED
    BY <1>1, <2>2, <2>3 DEF StreamingInv, StreamInv, AheadOf, Running, Reachable
<1>2. QED
  BY <1>1, StreamingIndInv, PTL DEF Spec, FrameReachesAll
=============================================================================
