--------------------------- MODULE HttpSync_proofs ---------------------------
(***************************************************************************)
(* What the synchronous calls of http_host_server return, for any number   *)
(* of calls and any timeouts that leave the handler room for one more look *)
(* after the last answer is accepted.                                      *)
(***************************************************************************)
EXTENDS HttpSync, TLAPS

(* Every reachable state of the calls has its variables in their types. *)
THEOREM SyncTypeCorrect == Spec => []TypeOK
<1>1. Init => TypeOK
  BY SyncAssumption DEF Init, TypeOK
<1>2. TypeOK /\ [Next]_vars => TypeOK'
  <2>1. ASSUME TypeOK, NEW c \in Calls, Begin(c)
        PROVE  TypeOK'
    BY <2>1 DEF TypeOK, Begin
  <2>2. ASSUME TypeOK, NEW c \in Calls, Send(c)
        PROVE  TypeOK'
    BY <2>2 DEF TypeOK, Send
  <2>3. ASSUME TypeOK, NEW c \in Calls, Look(c)
        PROVE  TypeOK'
    <3>1. asyncMessages[id[c]] \in Calls \cup {None}
      BY <2>3 DEF TypeOK
    <3>2. QED
      BY <2>3, <3>1 DEF TypeOK, Look
  <2>4. ASSUME TypeOK, NEW c \in Calls, GiveUp(c) \/ Wake(c)
        PROVE  TypeOK'
    BY <2>4 DEF TypeOK, GiveUp, Wake
  <2>5. ASSUME TypeOK, NEW c \in Calls, Receive(c) \/ Lose(c)
        PROVE  TypeOK'
    BY <2>5 DEF TypeOK, Receive, Keeps, Lose, callVars
  <2>6. ASSUME TypeOK, Tick
        PROVE  TypeOK'
    BY <2>6, SyncAssumption DEF TypeOK, Tick, callVars
  <2>7. ASSUME TypeOK, UNCHANGED vars
        PROVE  TypeOK'
    BY <2>7 DEF TypeOK, vars, callVars
  <2>8. QED
    BY <2>1, <2>2, <2>3, <2>4, <2>5, <2>6, <2>7 DEF Next, Handle
<1>3. QED
  BY <1>1, <1>2, PTL DEF Spec

-----------------------------------------------------------------------------
(* A call that has been sent: its number does not change any more. *)
Sent(c) == pc[c] \in {"look", "sleep", "done"}

(* The clock readings of a call are in the order the handler takes them,   *)
(* and a handler that looks has not been held up.                          *)
Ordered ==
  \A c \in Calls :
    /\ pc[c] # "idle" => id[c] <= now
    /\ pc[c] \in {"look", "sleep"} =>
         id[c] <= start[c] /\ start[c] <= look[c] /\ look[c] <= now /\ now - look[c] <= MaxPause

InFlightSent == \A c \in inFlight : Sent(c)

(* What is kept is kept under its own number, *)
Filed ==
  \A n \in 0 .. MaxTime :
    asyncMessages[n] # None => Sent(asyncMessages[n]) /\ id[asyncMessages[n]] = n

(* and so is what has been found. *)
Found == \A c \in Calls : rep[c] # None => Sent(c) /\ Sent(rep[c]) /\ id[rep[c]] = id[c]

(* A handler that has looked when no answer was accepted any more found    *)
(* nothing, and there is nothing since.                                    *)
Missed ==
  \A c \in Calls :
    pc[c] \in {"look", "sleep"} /\ start[c] < look[c] /\ id[c] + Keep <= look[c]
      => asyncMessages[id[c]] = None

Closed ==
  \A c \in Calls :
    pc[c] = "done" /\ rep[c] = None => asyncMessages[id[c]] = None /\ id[c] + Keep <= now

SyncInv == TypeOK /\ Ordered /\ InFlightSent /\ Filed /\ Found /\ Missed /\ Closed

(* No handler's clock readings get out of order. *)
LEMMA StepOrdered == SyncInv /\ [Next]_vars => Ordered'
<1> SUFFICES ASSUME SyncInv, [Next]_vars
             PROVE  Ordered'
  OBVIOUS
<1> USE SyncAssumption DEF SyncInv, TypeOK, Ordered
<1>1. ASSUME NEW c \in Calls, Begin(c) PROVE Ordered'
  BY <1>1 DEF Begin
<1>2. ASSUME NEW c \in Calls, Send(c) PROVE Ordered'
  BY <1>2 DEF Send
<1>3. ASSUME NEW c \in Calls, Look(c) PROVE Ordered'
  BY <1>3 DEF Look, Expired
<1>4. ASSUME NEW c \in Calls, GiveUp(c) \/ Wake(c) PROVE Ordered'
  BY <1>4 DEF GiveUp, Wake
<1>5. ASSUME NEW c \in Calls, Receive(c) \/ Lose(c) PROVE Ordered'
  BY <1>5 DEF Receive, Keeps, Lose, callVars
<1>6. CASE Tick
  BY <1>6 DEF Tick, callVars
<1>7. CASE UNCHANGED vars
  BY <1>7 DEF vars, callVars
<1>8. QED
  BY <1>1, <1>2, <1>3, <1>4, <1>5, <1>6, <1>7 DEF Next, Handle

(* The map and the results hold answers under their own numbers. *)
LEMMA StepFiled == SyncInv /\ [Next]_vars => (InFlightSent /\ Filed /\ Found)'
<1> SUFFICES ASSUME SyncInv, [Next]_vars
             PROVE  (InFlightSent /\ Filed /\ Found)'
  OBVIOUS
<1> USE SyncAssumption DEF SyncInv, TypeOK, InFlightSent, Filed, Found, Sent
<1>1. ASSUME NEW c \in Calls, Begin(c) PROVE (InFlightSent /\ Filed /\ Found)'
  BY <1>1 DEF Begin
<1>2. ASSUME NEW c \in Calls, Send(c) PROVE (InFlightSent /\ Filed /\ Found)'
  BY <1>2 DEF Send
<1>3. ASSUME NEW c \in Calls, Look(c) PROVE (InFlightSent /\ Filed /\ Found)'
  BY <1>3 DEF Look
<1>4. ASSUME NEW c \in Calls, GiveUp(c) \/ Wake(c) PROVE (InFlightSent /\ Filed /\ Found)'
  <2>1. /\ id' = id /\ rep' = rep /\ asyncMessages' = asyncMessages /\ inFlight' = inFlight
        /\ \A d \in Calls : Sent(d) => Sent(d)'
    BY <1>4 DEF GiveUp, Wake
  <2>2. InFlightSent'
    BY <2>1
  <2>3. Filed'
    <3>1. ASSUME NEW n \in 0 .. MaxTime, asyncMessages[n] # None
          PROVE  Sent(asyncMessages[n])' /\ id[asyncMessages[n]] = n
      BY <2>1, <3>1
    <3>2. QED
      BY <2>1, <3>1
  <2>4. Found'
    BY <2>1
  <2>5. QED
    BY <2>2, <2>3, <2>4
<1>5. ASSUME NEW c \in Calls, Receive(c) \/ Lose(c) PROVE (InFlightSent /\ Filed /\ Found)'
  BY <1>5 DEF Receive, Keeps, Lose, callVars
<1>6. CASE Tick
  BY <1>6 DEF Tick, callVars
<1>7. CASE UNCHANGED vars
  BY <1>7 DEF vars, callVars
<1>8. QED
  BY <1>1, <1>2, <1>3, <1>4, <1>5, <1>6, <1>7 DEF Next, Handle

(* An answer is accepted for no number under which a handler has looked    *)
(* too late, and a handler gives up only after such a look.                *)
LEMMA StepMissed == SyncInv /\ [Next]_vars => (Missed /\ Closed)'
<1> SUFFICES ASSUME SyncInv, [Next]_vars
             PROVE  (Missed /\ Closed)'
  OBVIOUS
<1> USE SyncAssumption DEF SyncInv, TypeOK, Ordered, Missed, Closed
<1>1. ASSUME NEW c \in Calls, Begin(c) PROVE (Missed /\ Closed)'
  BY <1>1 DEF Begin
<1>2. ASSUME NEW c \in Calls, Send(c) PROVE (Missed /\ Closed)'
  BY <1>2 DEF Send
<1>3. ASSUME NEW c \in Calls, Look(c) PROVE (Missed /\ Closed)'
  BY <1>3 DEF Look
<1>4. ASSUME NEW c \in Calls, GiveUp(c) PROVE (Missed /\ Closed)'
  <2>1. start[c] < look[c] /\ id[c] + Keep <= look[c] /\ id[c] + Keep <= now
    BY <1>4 DEF GiveUp, Expired
  <2>2. asyncMessages[id[c]] = None
    BY <1>4, <2>1 DEF GiveUp
  <2>3. QED
    BY <1>4, <2>1, <2>2 DEF GiveUp
<1>5. ASSUME NEW c \in Calls, Wake(c) PROVE (Missed /\ Closed)'
  BY <1>5 DEF Wake
<1>6. ASSUME NEW c \in Calls, Receive(c) PROVE (Missed /\ Closed)'
  <2>1. ASSUME NEW d \in Calls, id[d] + Keep <= now
        PROVE  asyncMessages'[id[d]] = asyncMessages[id[d]]
    BY <1>6, <2>1 DEF Receive, Keeps
  <2>2. UNCHANGED callVars /\ now' = now
    BY <1>6 DEF Receive, Keeps
  <2>3. Missed'
    <3> SUFFICES ASSUME NEW d \in Calls, pc[d] \in {"look", "sleep"}, start[d] < look[d],
                        id[d] + Keep <= look[d]
                 PROVE  asyncMessages'[id[d]] = None
      BY <2>2 DEF callVars
    <3>1. id[d] + Keep <= now
      OBVIOUS
    <3>2. asyncMessages[id[d]] = None
      OBVIOUS
    <3>3. QED
      BY <2>1, <3>1, <3>2
  <2>4. Closed'
    BY <2>1, <2>2 DEF callVars
  <2>5. QED
    BY <2>3, <2>4
<1>7. ASSUME NEW c \in Calls, Lose(c) PROVE (Missed /\ Closed)'
  BY <1>7 DEF Lose, callVars
<1>8. CASE Tick
  BY <1>8 DEF Tick, callVars
<1>9. CASE UNCHANGED vars
  BY <1>9 DEF vars, callVars
<1>10. QED
  BY <1>1, <1>2, <1>3, <1>4, <1>5, <1>6, <1>7, <1>8, <1>9 DEF Next, Handle

(* A call returns the answer to a request with its number, and one that    *)
(* returns with nothing leaves nothing behind in the map: the 8 s for      *)
(* which an answer is accepted and the 10 s for which a handler looks fit. *)
THEOREM AnswersAreFound == Spec => [](KeptIsReturned /\ AnswerIsOwn)
<1>1. Init => SyncInv
  BY SyncAssumption DEF Init, SyncInv, TypeOK, Ordered, InFlightSent, Filed, Found, Missed,
     Closed, Sent
<1>2. SyncInv /\ TypeOK' /\ [Next]_vars => SyncInv'
  BY StepOrdered, StepFiled, StepMissed DEF SyncInv
<1>3. SyncInv => KeptIsReturned /\ AnswerIsOwn
  BY DEF SyncInv, Closed, Found, KeptIsReturned, AnswerIsOwn
<1>4. QED
  BY <1>1, <1>2, <1>3, SyncTypeCorrect, PTL DEF Spec

(* Whatever a call returns answers a request with its own number.          *)
COROLLARY AnswersAreOwn == Spec => []AnswerIsOwn
<1>1. QED
  BY AnswersAreFound, PTL
=============================================================================
