------------------------------ MODULE HttpSync ------------------------------
(***************************************************************************)
(* The synchronous calls of http_host_server over the message bus.         *)
(*                                                                         *)
(* A handler of the HTTP server sends a request on the bus and polls a map *)
(* for the answer, which the poll thread of the bus puts there.  A request *)
(* is known by the millisecond it was made in (id), and its answer repeats *)
(* this number.  The poll thread keeps an answer that comes less than Keep *)
(* after the request; the handler looks for one until Wait has passed,     *)
(* sleeping between two looks.  Nothing is ever taken out of the map.      *)
(*                                                                         *)
(* The service that answers is not in this repository: it may answer late, *)
(* in any order, or never.                                                 *)
(***************************************************************************)
EXTENDS Integers, FiniteSets

CONSTANTS
  Calls,      \* the calls that may be made
  None,       \* no answer
  Threads,    \* how many handlers the HTTP server runs at a time
  Keep,       \* an answer that is older is dropped (8000 ms)
  Wait,       \* how long a handler looks for its answer (10000 ms)
  Pause,      \* how long it sleeps between two looks (1000 ms)
  MaxPause,   \* longest time between two looks, with all delays
  MaxTime     \* bound of the clock

(* A handler is not delayed by more than the difference of the timeouts.   *)
ASSUME SyncAssumption ==
  /\ None \notin Calls
  /\ Threads \in Nat /\ Keep \in Nat /\ Wait \in Nat /\ MaxTime \in Nat
  /\ Pause \in Nat /\ MaxPause \in Nat /\ Pause <= MaxPause
  /\ 0 < Keep /\ Keep + MaxPause <= Wait

VARIABLES
  now,             \* the clock
  pc,              \* where the handler of each call is
  id,              \* the number of its request
  start,           \* when it began to look
  look,            \* when it looked last
  inFlight,        \* calls whose request or answer is on its way
  asyncMessages,   \* the answer kept under each number
  rep              \* what each call returns

callVars == <<pc, id, start, look, rep>>
vars == <<now, callVars, inFlight, asyncMessages>>

TypeOK ==
  /\ now \in 0 .. MaxTime
  /\ pc \in [Calls -> {"idle", "send", "look", "sleep", "done"}]
  /\ id \in [Calls -> 0 .. MaxTime]
  /\ start \in [Calls -> 0 .. MaxTime]
  /\ look \in [Calls -> 0 .. MaxTime]
  /\ inFlight \subseteq Calls
  /\ asyncMessages \in [0 .. MaxTime -> Calls \cup {None}]
  /\ rep \in [Calls -> Calls \cup {None}]

Init ==
  /\ now = 0
  /\ pc = [c \in Calls |-> "idle"]
  /\ id = [c \in Calls |-> 0]
  /\ start = [c \in Calls |-> 0]
  /\ look = [c \in Calls |-> 0]
  /\ inFlight = {}
  /\ asyncMessages = [n \in 0 .. MaxTime |-> None]
  /\ rep = [c \in Calls |-> None]

-----------------------------------------------------------------------------
(* The handler. *)

Busy == {c \in Calls : pc[c] \in {"send", "look", "sleep"}}

(* Fault: the number is rounded up. *)
BeginRounded(c) ==
  /\ pc[c] = "idle"
  /\ Cardinality(Busy) < Threads
  /\ pc' = [pc EXCEPT ![c] = "send"]
  /\ id' = [id EXCEPT ![c] = now + 1]
  /\ UNCHANGED <<now, start, look, rep, inFlight, asyncMessages>>

(* getDvslist, addDvs and removeDvs number the request by the clock, *)
Begin(c) ==
  /\ pc[c] = "idle"
  /\ Cardinality(Busy) < Threads
  /\ pc' = [pc EXCEPT ![c] = "send"]
  /\ id' = [id EXCEPT ![c] = now]
  /\ UNCHANGED <<now, start, look, rep, inFlight, asyncMessages>>

(* and syncXMQMessageProcess reads it again before it sends the request.   *)
Send(c) ==
  /\ pc[c] = "send"
  /\ pc' = [pc EXCEPT ![c] = "look"]
  /\ start' = [start EXCEPT ![c] = now]
  /\ look' = [look EXCEPT ![c] = now]
  /\ inFlight' = inFlight \cup {c}
  /\ UNCHANGED <<now, id, rep, asyncMessages>>

(* Fault: the time is counted from the last look. *)
ExpiredIdle(c) == now - look[c] >= Wait

Expired(c) == now - start[c] >= Wait

(* A look at the map, unless the time has passed. *)
Look(c) ==
  /\ pc[c] = "look"
  /\ ~Expired(c)
  /\ look' = [look EXCEPT ![c] = now]
  /\ rep' = [rep EXCEPT ![c] = asyncMessages[id[c]]]
  /\ pc' = [pc EXCEPT ![c] = IF asyncMessages[id[c]] = None THEN "sleep" ELSE "done"]
  /\ UNCHANGED <<now, id, start, inFlight, asyncMessages>>

GiveUp(c) ==
  /\ pc[c] = "look"
  /\ Expired(c)
  /\ pc' = [pc EXCEPT ![c] = "done"]
  /\ UNCHANGED <<now, id, start, look, rep, inFlight, asyncMessages>>

Wake(c) ==
  /\ pc[c] = "sleep"
  /\ now >= look[c] + Pause
  /\ pc' = [pc EXCEPT ![c] = "look"]
  /\ UNCHANGED <<now, id, start, look, rep, inFlight, asyncMessages>>

Handle(c) == Send(c) \/ Look(c) \/ GiveUp(c) \/ Wake(c)

-----------------------------------------------------------------------------
(* The poll thread of the bus. *)

(* An answer sent at n is kept under n if it is younger than limit, unless *)
(* the map has one under n already: UnorderedMap::add does not replace it.  *)
Keeps(c, n, limit) ==
  /\ c \in inFlight
  /\ inFlight' = inFlight \ {c}
  /\ asyncMessages' =
       [asyncMessages EXCEPT ![n] = IF now - n < limit /\ @ = None THEN c ELSE @]
  /\ UNCHANGED <<now, callVars>>

(* Fault: an answer is kept as long as its caller might still look. *)
ReceiveLate(c) == Keeps(c, id[c], Wait + 1)

(* Fault: the time of the answer is taken for that of the request. *)
ReceiveUnstamped(c) == Keeps(c, now, Keep)

(* processConfigRequest *)
Receive(c) == Keeps(c, id[c], Keep)

-----------------------------------------------------------------------------
(* The environment. *)

(* A request or an answer is lost. *)
Lose(c) ==
  /\ c \in inFlight
  /\ inFlight' = inFlight \ {c}
  /\ UNCHANGED <<now, callVars, asyncMessages>>

(* Time passes, but a handler that looks is not held up for too long. *)
Tick ==
  /\ now < MaxTime
  /\ \A c \in Calls : pc[c] \in {"look", "sleep"} => now + 1 - look[c] <= MaxPause
  /\ now' = now + 1
  /\ UNCHANGED <<callVars, inFlight, asyncMessages>>

Next ==
  \/ \E c \in Calls : Begin(c) \/ Handle(c) \/ Receive(c) \/ Lose(c)
  \/ Tick

Spec == Init /\ [][Next]_vars

(* Handlers run and time passes.  Nothing makes an answer come. *)
FairSpec ==
  /\ Spec
  /\ \A c \in Calls : WF_vars(Handle(c))
  /\ WF_vars(Tick)

-----------------------------------------------------------------------------
(* A call that returns without an answer has none in the map: what the     *)
(* poll thread keeps, the handler that waits for it does find.  A late     *)
(* answer is not left in the map to be found by no one.                    *)
KeptIsReturned ==
  \A c \in Calls : pc[c] = "done" /\ rep[c] = None => asyncMessages[id[c]] = None

(* A call returns the answer to its own request, or to one that was made   *)
(* in the same millisecond.                                                *)
AnswerIsOwn ==
  \A c \in Calls : rep[c] # None => id[rep[c]] = id[c]

(* Every call returns, whether or not it is answered, unless the clock     *)
(* reaches its bound first.                                                *)
CallsReturn ==
  \A c \in Calls :
    pc[c] = "look" /\ start[c] + Wait + MaxPause <= MaxTime ~> pc[c] = "done"
=============================================================================
