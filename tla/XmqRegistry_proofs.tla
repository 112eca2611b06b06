------------------------ MODULE XmqRegistry_proofs ------------------------
(***************************************************************************)
(* Proofs about the service registry, for every set of services and every  *)
(* value of the timing constants that meets RegistryAssumption.            *)
(*                                                                         *)
(* SteadyStaysOnline is not inductive: it says nothing of how old an entry *)
(* is, nor of the verdict the check thread has already reached.  The       *)
(* strengthening RegistryInv adds that the entry of a steady service is    *)
(* close to its last heartbeat and that heartbeat is recent, that a scan   *)
(* is short, and that a steady service is never the one to be removed.     *)
(***************************************************************************)
EXTENDS XmqRegistry, TLAPS

(* Every reachable state of the registry has its variables in their types, *)
(* so that no interleaving of the worker thread and the check thread makes *)
(* a registration later than the clock.                                    *)
THEOREM TypeCorrect == Spec => []TypeOK
<1>1. Init => TypeOK
  <2>1. /\ Boot \in 1 .. MaxTime /\ 0 \in 0 .. MaxTime
        /\ 0 \in 0 .. MaxTime + MaxLead
    BY RegistryAssumption
  <2> SUFFICES ASSUME Init
               PROVE  TypeOK
    OBVIOUS
  <2>2. now \in 1 .. MaxTime
    BY <2>1 DEF Init
  <2>3. onlineServices \in [Names -> 0 .. MaxTime + MaxLead]
    BY <2>1 DEF Init
  <2>4. beat \in [Names -> 0 .. MaxTime]
    BY <2>1 DEF Init
  <2>5. startTick \in 0 .. MaxTime /\ diff \in Nat
    BY <2>1 DEF Init
  <2>6. scanPc \in {"sleep", "scan", "remove", "done"} /\ stopped \in BOOLEAN
    BY DEF Init
  <2>7. silent \subseteq Names \ Steady /\ keies \subseteq Names /\ key \in Names
    BY DEF Init
  <2>8. QED
    BY <2>2, <2>3, <2>4, <2>5, <2>6, <2>7 DEF TypeOK
<1>2. TypeOK /\ [Next]_vars => TypeOK'
  <2> SUFFICES ASSUME TypeOK, [Next]_vars
               PROVE  TypeOK'
    OBVIOUS
  <2> USE DEF TypeOK
  <2>1. ASSUME NEW n \in Names, SendHeartbeat(n)
        PROVE  TypeOK'
    BY <2>1 DEF SendHeartbeat, Register, processRegisterRequest, Timestamps, scanVars
  <2>2. CASE StartScan
    BY <2>2 DEF StartScan, OnlineNames
  <2>3. ASSUME NEW k \in Names, ReadEntry(k)
        PROVE  TypeOK'
    <3>1. onlineServices[k] \in Nat /\ startTick \in Nat
      BY RegistryAssumption
    <3>2. Distance(startTick, onlineServices[k]) \in Nat
      BY <3>1 DEF Distance
    <3>3. scanPc' \in {"scan", "remove"}
      BY <2>3 DEF ReadEntry
    <3>4. QED
      BY <2>3, <3>2, <3>3 DEF ReadEntry
  <2>4. CASE RemoveEntry
    BY <2>4, RegistryAssumption DEF RemoveEntry
  <2>5. CASE EndScan \/ ExitThread
    BY <2>5 DEF EndScan, ExitThread
  <2>6. CASE Tick
    BY <2>6, RegistryAssumption DEF Tick, scanVars
  <2>7. ASSUME NEW n \in Names, Silence(n)
        PROVE  TypeOK'
    BY <2>7 DEF Silence, scanVars
  <2>8. CASE Stop
    BY <2>8 DEF Stop, scanVars
  <2>9. CASE UNCHANGED vars
    BY <2>9 DEF vars, scanVars
  <2>10. QED
    BY <2>1, <2>2, <2>3, <2>4, <2>5, <2>6, <2>7, <2>8, <2>9 DEF Next, Scan
<1>3. QED
  BY <1>1, <1>2, PTL DEF Spec

-----------------------------------------------------------------------------
(* An entry exists only for a service that has been heard, and the entry   *)
(* of a steady service is as old as its last, recent, heartbeat.           *)
EntryHeard == \A n \in Names : existed(n) => beat[n] # 0

SteadyFresh ==
  \A n \in Steady : beat[n] # 0 =>
    /\ beat[n] - MaxLag <= onlineServices[n]
    /\ onlineServices[n] <= beat[n] + MaxLead
    /\ beat[n] <= now
    /\ now - beat[n] <= MaxGap

ScanShort ==
  scanPc \in {"scan", "remove"} => startTick <= now /\ now - startTick <= MaxScan

VerdictNotSteady == scanPc = "remove" => key \notin Steady

(* A key is visited once per scan. *)
KeyVisited == scanPc = "remove" => key \notin keies

RegistryInv ==
  /\ TypeOK
  /\ SteadyStaysOnline
  /\ ScannedKeysPresent
  /\ EntryHeard
  /\ SteadyFresh
  /\ ScanShort
  /\ VerdictNotSteady
  /\ KeyVisited

(* The comparison the check thread makes never condemns a steady service,  *)
(* on either side of the absolute value.                                   *)
LEMMA SteadyNotStale ==
  ASSUME RegistryInv, scanPc = "scan", NEW k \in Steady, existed(k)
  PROVE  ~ (Distance(startTick, onlineServices[k]) > Offline)
<1>1. k \in Names
  BY RegistryAssumption
<1>2. beat[k] # 0
  BY <1>1 DEF RegistryInv, EntryHeard
<1>3. /\ beat[k] - MaxLag <= onlineServices[k]
      /\ onlineServices[k] <= beat[k] + MaxLead
      /\ beat[k] <= now
      /\ now - beat[k] <= MaxGap
  BY <1>2 DEF RegistryInv, SteadyFresh
<1>4. startTick <= now /\ now - startTick <= MaxScan
  BY DEF RegistryInv, ScanShort
<1>5. /\ onlineServices[k] \in Int /\ beat[k] \in Int
      /\ now \in Int /\ startTick \in Int
  BY <1>1, RegistryAssumption DEF RegistryInv, TypeOK
<1>6. QED
  BY <1>3, <1>4, <1>5, RegistryAssumption DEF Distance

(* So the strengthening holds always. *)
LEMMA RegistryAlways == Spec => []RegistryInv
<1>1. TypeOK /\ Init => RegistryInv
  BY RegistryAssumption
  DEF Init, RegistryInv, SteadyStaysOnline, ScannedKeysPresent, existed,
      EntryHeard, SteadyFresh, ScanShort, VerdictNotSteady, KeyVisited
<1>2. TypeOK' /\ RegistryInv /\ [Next]_vars => RegistryInv'
  <2> SUFFICES ASSUME TypeOK', RegistryInv, [Next]_vars
               PROVE  RegistryInv'
    OBVIOUS
  <2>0. /\ onlineServices \in [Names -> Nat] /\ beat \in [Names -> Nat]
        /\ now \in Nat \ {0} /\ startTick \in Nat
    BY RegistryAssumption DEF RegistryInv, TypeOK
  <2>1. ASSUME NEW n \in Names, SendHeartbeat(n)
        PROVE  RegistryInv'
    <3> PICK ts \in Timestamps : Register(n, ts)
      BY <2>1 DEF SendHeartbeat
    <3>1. /\ ts \in Nat /\ 0 < ts /\ now - MaxLag <= ts /\ ts <= now + MaxLead
          /\ onlineServices' = [onlineServices EXCEPT ![n] = ts]
          /\ beat' = [beat EXCEPT ![n] = now]
          /\ UNCHANGED <<now, scanPc, startTick, keies, key, diff>>
      BY DEF Register, processRegisterRequest, Timestamps, scanVars
    <3>2. \A m \in Names : existed(m) => existed(m)'
      BY <2>0, <3>1 DEF existed
    <3>3. SteadyStaysOnline' /\ EntryHeard'
      BY <2>0, <3>1, <3>2, RegistryAssumption
      DEF RegistryInv, SteadyStaysOnline, EntryHeard, existed
    <3>4. ScannedKeysPresent'
      BY <3>1, <3>2 DEF RegistryInv, TypeOK, ScannedKeysPresent
    <3>5. SteadyFresh'
      BY <2>0, <3>1, RegistryAssumption DEF RegistryInv, SteadyFresh
    <3>6. ScanShort' /\ VerdictNotSteady' /\ KeyVisited'
      BY <3>1 DEF RegistryInv, ScanShort, VerdictNotSteady, KeyVisited
    <3>7. QED
      BY <3>3, <3>4, <3>5, <3>6 DEF RegistryInv
  <2>2. CASE StartScan
    BY <2>0, <2>2, RegistryAssumption
    DEF StartScan, RegistryInv, SteadyStaysOnline, ScannedKeysPresent, existed,
        OnlineNames, EntryHeard, SteadyFresh, ScanShort, VerdictNotSteady, KeyVisited
  <2>3. ASSUME NEW k \in Names, ReadEntry(k)
        PROVE  RegistryInv'
    <3>1. existed(k)
      BY <2>3 DEF ReadEntry, RegistryInv, ScannedKeysPresent
    <3>2. k \in Steady => scanPc' = "scan"
      BY <2>3, <3>1, SteadyNotStale DEF ReadEntry
    <3>3. VerdictNotSteady' /\ KeyVisited'
      BY <2>3, <3>2 DEF ReadEntry, VerdictNotSteady, KeyVisited
    <3>4. ScannedKeysPresent'
      BY <2>3, <3>1 DEF ReadEntry, RegistryInv, ScannedKeysPresent, existed
    <3>5. SteadyStaysOnline' /\ EntryHeard' /\ SteadyFresh'
      BY <2>3 DEF ReadEntry, RegistryInv, SteadyStaysOnline, EntryHeard,
                  SteadyFresh, existed
    <3>6. ScanShort'
      BY <2>3 DEF ReadEntry, RegistryInv, ScanShort
    <3>7. QED
      BY <3>3, <3>4, <3>5, <3>6 DEF RegistryInv
  <2>4. CASE RemoveEntry
    <3>1. key \notin Steady
      BY <2>4 DEF RemoveEntry, RegistryInv, VerdictNotSteady
    <3>2. QED
      BY <2>0, <2>4, <3>1 DEF RemoveEntry, RegistryInv, TypeOK, SteadyStaysOnline,
        existed, ScannedKeysPresent, EntryHeard, SteadyFresh, ScanShort,
        VerdictNotSteady, KeyVisited
  <2>5. CASE EndScan \/ ExitThread
    BY <2>5 DEF EndScan, ExitThread, RegistryInv, SteadyStaysOnline, existed,
      ScannedKeysPresent, EntryHeard, SteadyFresh, ScanShort, VerdictNotSteady, KeyVisited
  <2>6. CASE Tick
    <3>1. SteadyFresh' /\ ScanShort'
      BY <2>0, <2>6, RegistryAssumption
      DEF Tick, scanVars, RegistryInv, SteadyFresh, ScanShort
    <3>2. QED
      BY <2>6, <3>1 DEF Tick, scanVars, RegistryInv, SteadyStaysOnline, existed,
        ScannedKeysPresent, EntryHeard, VerdictNotSteady, KeyVisited
  <2>7. ASSUME NEW n \in Names, Silence(n)
        PROVE  RegistryInv'
    BY <2>7 DEF Silence, scanVars, RegistryInv, SteadyStaysOnline, existed,
      ScannedKeysPresent, EntryHeard, SteadyFresh, ScanShort, VerdictNotSteady, KeyVisited
  <2>8. CASE Stop
    BY <2>8 DEF Stop, scanVars, RegistryInv, SteadyStaysOnline, existed,
      ScannedKeysPresent, EntryHeard, SteadyFresh, ScanShort, VerdictNotSteady, KeyVisited
  <2>9. CASE UNCHANGED vars
    BY <2>9 DEF vars, scanVars, RegistryInv, SteadyStaysOnline, existed,
      ScannedKeysPresent, EntryHeard, SteadyFresh, ScanShort, VerdictNotSteady, KeyVisited
  <2>10. QED
    BY <2>1, <2>2, <2>3, <2>4, <2>5, <2>6, <2>7, <2>8, <2>9 DEF Next, Scan
<1>3. QED
  BY <1>1, <1>2, TypeCorrect, PTL DEF Spec

(* A service whose registrations come often enough is never removed, nor   *)
(* is a key read that the check thread has not just found in the map.      *)
THEOREM SteadyServicesStay == Spec => [](SteadyStaysOnline /\ ScannedKeysPresent)
<1>1. RegistryInv => SteadyStaysOnline /\ ScannedKeysPresent
  BY DEF RegistryInv
<1>2. QED
  BY <1>1, RegistryAlways, PTL

(* The check thread never asks the map for a key that is not in it, which  *)
(* at() would answer with the time 0.                                      *)
COROLLARY ScansReadEntries == Spec => []ScannedKeysPresent
<1>1. QED
  BY SteadyServicesStay, PTL

-----------------------------------------------------------------------------
(* The entry of any service is close to its last heartbeat, ahead of the   *)
(* clock by no more than the skew.                                         *)
EntryNear ==
  \A n \in Names : existed(n) =>
    /\ beat[n] - MaxLag <= onlineServices[n]
    /\ onlineServices[n] <= beat[n] + MaxLead

(* The check thread is about to remove a service that had been silent when *)
(* the scan began, or has been heard since.                                *)
VerdictJust ==
  scanPc = "remove" =>
    startTick - beat[key] > Offline - MaxLag \/ beat[key] >= startTick

(* A verdict is just when it is reached, and a heartbeat that comes before *)
(* the removal is later than the start of the scan.                        *)
LEMMA SilenceStep ==
  ASSUME RegistryInv, EntryNear, VerdictJust, [Next]_vars
  PROVE  /\ EntryNear' /\ VerdictJust'
         /\ \A n \in Names : existed(n) /\ ~existed(n)'
              => startTick - beat[n] > Offline - MaxLag \/ beat[n] >= startTick
<1>1. /\ onlineServices \in [Names -> Nat] /\ beat \in [Names -> Nat]
      /\ now \in Nat \ {0} /\ startTick \in Nat /\ key \in Names
      /\ Offline \in Nat /\ MaxLag \in Nat /\ MaxLead \in Nat /\ MaxScan \in Nat
      /\ MaxScan + MaxLead <= Offline
  BY RegistryAssumption DEF RegistryInv, TypeOK
<1>2. ASSUME NEW n \in Names, SendHeartbeat(n)
      PROVE  EntryNear' /\ VerdictJust' /\ \A m \in Names : existed(m) => existed(m)'
  <2> PICK ts \in Timestamps : Register(n, ts)
    BY <1>2 DEF SendHeartbeat
  <2>1. /\ ts \in Nat /\ 0 < ts /\ now - MaxLag <= ts /\ ts <= now + MaxLead
        /\ onlineServices' = [onlineServices EXCEPT ![n] = ts]
        /\ beat' = [beat EXCEPT ![n] = now]
        /\ UNCHANGED <<now, scanPc, startTick, key>>
    BY DEF Register, processRegisterRequest, Timestamps, scanVars
  <2>2. scanPc = "remove" => startTick <= now
    BY DEF RegistryInv, ScanShort
  <2>3. EntryNear' /\ \A m \in Names : existed(m) => existed(m)'
    BY <1>1, <2>1 DEF EntryNear, existed
  <2>4. VerdictJust'
    BY <1>1, <2>1, <2>2 DEF VerdictJust
  <2>5. QED
    BY <2>3, <2>4
<1>3. ASSUME NEW k \in Names, ReadEntry(k)
      PROVE  EntryNear' /\ VerdictJust' /\ UNCHANGED onlineServices
  <2>1. existed(k) /\ UNCHANGED <<onlineServices, beat, startTick>> /\ key' = k
    BY <1>3 DEF ReadEntry, RegistryInv, ScannedKeysPresent
  <2>2. EntryNear'
    BY <2>1 DEF EntryNear, existed
  <2>3. scanPc' = "remove" => Distance(startTick, onlineServices[k]) > Offline
    BY <1>3 DEF ReadEntry
  <2>4. beat[k] - MaxLag <= onlineServices[k] /\ onlineServices[k] <= beat[k] + MaxLead
    BY <2>1 DEF EntryNear
  <2>5. scanPc' = "remove" =>
          startTick - beat[k] > Offline - MaxLag \/ beat[k] >= startTick
    BY <1>1, <2>3, <2>4 DEF Distance
  <2>6. QED
    BY <2>1, <2>2, <2>5 DEF VerdictJust
<1>4. CASE RemoveEntry
  <2>1. /\ scanPc = "remove" /\ scanPc' = "scan" /\ UNCHANGED beat
        /\ onlineServices' = [onlineServices EXCEPT ![key] = 0]
    BY <1>4 DEF RemoveEntry
  <2>2. \A n \in Names : n # key => onlineServices'[n] = onlineServices[n]
    BY <1>1, <2>1
  <2>3. onlineServices'[key] = 0
    BY <1>1, <2>1
  <2>4. EntryNear' /\ VerdictJust'
    BY <2>1, <2>2, <2>3 DEF EntryNear, VerdictJust, existed
  <2>5. \A n \in Names : existed(n) /\ ~existed(n)' => n = key
    BY <2>2 DEF existed
  <2>6. QED
    BY <2>1, <2>4, <2>5 DEF VerdictJust
<1>5. CASE StartScan \/ EndScan \/ ExitThread
  <2>1. UNCHANGED <<onlineServices, beat>> /\ scanPc' # "remove"
    BY <1>5 DEF StartScan, EndScan, ExitThread
  <2>2. QED
    BY <2>1 DEF EntryNear, VerdictJust, existed
<1>6. CASE Tick \/ Stop \/ UNCHANGED vars \/ \E n \in Names : Silence(n)
  <2>1. UNCHANGED <<onlineServices, beat, scanPc, startTick, key>>
    BY <1>6 DEF Tick, Stop, Silence, vars, scanVars
  <2>2. QED
    BY <2>1 DEF EntryNear, VerdictJust, existed
<1>7. ASSUME UNCHANGED onlineServices
      PROVE  \A n \in Names : ~(existed(n) /\ ~existed(n)')
  BY <1>7 DEF existed
<1>8. QED
  BY <1>2, <1>3, <1>4, <1>5, <1>6, <1>7 DEF Next, Scan, StartScan, EndScan, ExitThread, Tick,
     Stop, Silence, vars

(* A service that is taken off the record had been silent for the timeout  *)
(* when the scan began, up to the lag of its timestamps, or has come back  *)
(* after that: the interval between reading an entry and removing it hurts *)
(* no other service.                                                       *)
THEOREM OnlyTheSilentGo == Spec => RemovesOnlyAfterSilence
<1>1. Init => EntryNear /\ VerdictJust
  BY DEF Init, EntryNear, VerdictJust, existed
<1>2. RegistryInv /\ EntryNear /\ VerdictJust /\ [Next]_vars => EntryNear' /\ VerdictJust'
  BY SilenceStep
<1>3. RegistryInv /\ EntryNear /\ VerdictJust /\ [Next]_vars
        => [\A n \in Names : existed(n) /\ ~existed(n)'
              => \/ startTick - beat[n] > Offline - MaxLag
                 \/ beat[n] >= startTick]_vars
  BY SilenceStep
<1>4. QED
  BY <1>1, <1>2, <1>3, RegistryAlways, PTL DEF Spec, RemovesOnlyAfterSilence
=============================================================================
