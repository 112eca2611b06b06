---------------------------- MODULE XmqRegistry ----------------------------
(***************************************************************************)
(* The service registry of the message broker (xmq_host_server).           *)
(*                                                                         *)
(* Server::onlineServices maps the name of a service to the timestamp its  *)
(* last register:// request carried.  Two threads share it: the consumer   *)
(* thread, which handles one request at a time and makes one locked map    *)
(* call per request, and the offline check thread, which scans the map     *)
(* once a second and makes one locked call per key to read it and another  *)
(* to remove it.  Nothing holds the lock from the read to the removal.     *)
(*                                                                         *)
(* Time is counted in ticks of the broker's clock.  The timestamps are     *)
(* taken from the clocks of the services, which may lag behind the         *)
(* broker's when the request is handled (network delay, skew) or lead it   *)
(* (skew).  0 stands for "no entry": UnorderedMap::at returns 0 for an     *)
(* absent key, and no request with timestamp 0 is accepted.                *)
(***************************************************************************)
EXTENDS Integers

CONSTANTS
  Names,      \* the names services register under
  Steady,     \* the services that keep sending heartbeats in time
  Offline,    \* an entry further away than this is removed (90000 ms)
  MaxGap,     \* largest time between two heartbeats of a steady service
  MaxLag,     \* how far a timestamp may be behind the broker's clock
  MaxLead,    \* how far a timestamp may be ahead of the broker's clock
  MaxScan,    \* longest duration of one scan of the offline check thread
  Boot,       \* what the clock shows when the broker starts
  MaxTime     \* bound of the clock

(* A steady service is one the timeout was chosen for: its heartbeats are  *)
(* frequent, its clock is close and the scan is not suspended for as long  *)
(* as the timeout.                                                         *)
ASSUME RegistryAssumption ==
  /\ Steady \subseteq Names
  /\ Offline \in Nat /\ MaxGap \in Nat /\ MaxLag \in Nat
  /\ MaxLead \in Nat /\ MaxScan \in Nat
  /\ MaxTime \in Nat /\ Boot \in 1 .. MaxTime
  /\ MaxGap + MaxLag <= Offline
  /\ MaxScan + MaxLead <= Offline

VARIABLES
  now,             \* the broker's clock, never 0
  onlineServices,  \* timestamp of each service, 0 when it has no entry
  beat,            \* history: when the last request of a service was handled
  silent,          \* the services that have died and send nothing more
  scanPc,          \* where the offline check thread is
  startTick,       \* startTickCount of the current scan
  keies,           \* keys of the scan that are still to be looked at
  key,             \* the key whose entry the thread has read
  diff,            \* distance of that entry from startTick
  stopped          \* Server::stop has been called

scanVars == <<scanPc, startTick, keies, key, diff>>
vars == <<now, onlineServices, beat, silent, scanVars, stopped>>

(* Timestamps the requests handled now may carry. *)
Timestamps == {ts \in 1 .. MaxTime + MaxLead :
                 now - MaxLag <= ts /\ ts <= now + MaxLead}

existed(n) == 0 < onlineServices[n]

(* The keys of the map: what a query is answered with, what a scan visits. *)
OnlineNames == {n \in Names : existed(n)}

(* Fault: the unsigned difference taken as it is. *)
DistanceSigned(start, tick) == start - tick

(* Fault: the difference is taken the wrong way round, cut off at zero. *)
DistanceAhead(start, tick) == IF tick > start THEN tick - start ELSE 0

(* The absolute value the check thread computes by hand, because its       *)
(* operands are unsigned.                                                  *)
Distance(start, tick) == IF start > tick THEN start - tick ELSE tick - start

TypeOK ==
  /\ now \in 1 .. MaxTime
  /\ onlineServices \in [Names -> 0 .. MaxTime + MaxLead]
  /\ beat \in [Names -> 0 .. MaxTime]
  /\ silent \subseteq Names \ Steady
  /\ scanPc \in {"sleep", "scan", "remove", "done"}
  /\ startTick \in 0 .. MaxTime
  /\ keies \subseteq Names
  /\ key \in Names
  /\ diff \in Nat
  /\ stopped \in BOOLEAN

Init ==
  /\ now = Boot
  /\ onlineServices = [n \in Names |-> 0]
  /\ beat = [n \in Names |-> 0]
  /\ silent = {}
  /\ scanPc = "sleep"
  /\ startTick = 0
  /\ keies = {}
  /\ key \in Names
  /\ diff = 0
  /\ stopped = FALSE

-----------------------------------------------------------------------------
(* The consumer thread.                                                    *)

(* Fault: the request inserts an entry and never replaces one. *)
InsertIfAbsent(n, ts) ==
  /\ 0 < ts
  /\ onlineServices' = [onlineServices EXCEPT ![n] = IF existed(n) THEN @ ELSE ts]

(* processRegisterRequest refuses a request without a timestamp; otherwise *)
(* the entry is replaced, or inserted when there is none.                  *)
processRegisterRequest(n, ts) ==
  /\ 0 < ts
  /\ onlineServices' = [onlineServices EXCEPT ![n] = ts]

Register(n, ts) ==
  /\ n \notin silent
  /\ processRegisterRequest(n, ts)
  /\ beat' = [beat EXCEPT ![n] = now]
  /\ UNCHANGED <<now, silent, scanVars, stopped>>

-----------------------------------------------------------------------------
(* The offline check thread.                                               *)

StartScan ==
  /\ scanPc = "sleep"
  /\ ~stopped
  /\ startTick' = now
  /\ keies' = OnlineNames
  /\ scanPc' = "scan"
  /\ UNCHANGED <<now, onlineServices, beat, silent, key, diff, stopped>>

(* Fault: an entry at the timeout exactly is removed. *)
ReadEntryEarly(k) ==
  /\ scanPc = "scan"
  /\ k \in keies
  /\ keies' = keies \ {k}
  /\ key' = k
  /\ diff' = Distance(startTick, onlineServices[k])
  /\ scanPc' = IF diff' >= Offline THEN "remove" ELSE "scan"
  /\ UNCHANGED <<now, onlineServices, beat, silent, startTick, stopped>>

(* at(): the entry is read under the lock, and compared without it. *)
ReadEntry(k) ==
  /\ scanPc = "scan"
  /\ k \in keies
  /\ keies' = keies \ {k}
  /\ key' = k
  /\ diff' = Distance(startTick, onlineServices[k])
  /\ scanPc' = IF diff' > Offline THEN "remove" ELSE "scan"
  /\ UNCHANGED <<now, onlineServices, beat, silent, startTick, stopped>>

(* Fault: one expired entry empties the map. *)
RemoveAll ==
  /\ scanPc = "remove"
  /\ onlineServices' = [n \in Names |-> 0]
  /\ scanPc' = "scan"
  /\ UNCHANGED <<now, beat, silent, startTick, keies, key, diff, stopped>>

(* remove(): erases whatever the map holds for the key by now. *)
RemoveEntry ==
  /\ scanPc = "remove"
  /\ onlineServices' = [onlineServices EXCEPT ![key] = 0]
  /\ scanPc' = "scan"
  /\ UNCHANGED <<now, beat, silent, startTick, keies, key, diff, stopped>>

EndScan ==
  /\ scanPc = "scan"
  /\ keies = {}
  /\ scanPc' = "sleep"
  /\ UNCHANGED <<now, onlineServices, beat, silent, startTick, keies, key, diff, stopped>>

ExitThread ==
  /\ scanPc = "sleep"
  /\ stopped
  /\ scanPc' = "done"
  /\ UNCHANGED <<now, onlineServices, beat, silent, startTick, keies, key, diff, stopped>>

Scan ==
  \/ StartScan
  \/ \E k \in Names : ReadEntry(k)
  \/ RemoveEntry
  \/ EndScan
  \/ ExitThread

-----------------------------------------------------------------------------
(* The environment.                                                        *)

(* Time passes unless a steady service would be late with its heartbeat,   *)
(* or a scan would last too long.                                          *)
Tick ==
  /\ now < MaxTime
  /\ \A n \in Steady : beat[n] # 0 => now + 1 - beat[n] <= MaxGap
  /\ scanPc \in {"scan", "remove"} => now + 1 - startTick <= MaxScan
  /\ now' = now + 1
  /\ UNCHANGED <<onlineServices, beat, silent, scanVars, stopped>>

(* A service that is not steady dies. *)
Silence(n) ==
  /\ n \notin Steady
  /\ silent' = silent \cup {n}
  /\ UNCHANGED <<now, onlineServices, beat, scanVars, stopped>>

(* Server::stop sets the flag and does not wait for the thread. *)
Stop ==
  /\ stopped' = TRUE
  /\ UNCHANGED <<now, onlineServices, beat, silent, scanVars>>

SendHeartbeat(n) == \E ts \in Timestamps : Register(n, ts)

Next ==
  \/ \E n \in Names : SendHeartbeat(n)
  \/ Scan
  \/ Tick
  \/ \E n \in Names : Silence(n)
  \/ Stop

Spec == Init /\ [][Next]_vars

(* The check thread keeps running, steady services keep sending, and time  *)
(* passes.  Nothing makes an unsteady service send, die, or the server     *)
(* stop.                                                                   *)
FairSpec ==
  /\ Spec
  /\ WF_vars(Scan)
  /\ WF_vars(Tick)
  /\ \A n \in Steady : WF_vars(SendHeartbeat(n))

-----------------------------------------------------------------------------
(* A steady service that has registered is never missing from the map,     *)
(* whatever the interleaving of its heartbeats with the scans: messages    *)
(* to it are always forwarded and queries always list it.                  *)
SteadyStaysOnline ==
  \A n \in Steady : beat[n] # 0 => existed(n)

(* The keys a scan still has to visit are in the map: the check thread is  *)
(* the only one to remove entries, so at() never answers it with the 0 of  *)
(* an absent key, which would count as a timestamp at the epoch.           *)
ScannedKeysPresent ==
  /\ \A k \in keies : existed(k)
  /\ scanPc = "remove" => existed(key)

(* What is removed had been silent: a service loses its entry only if the  *)
(* scan that removes it began after a silence longer than the timeout, or  *)
(* the entry has been replaced since that silence was noticed.             *)
RemovesOnlyAfterSilence ==
  [][\A n \in Names : existed(n) /\ ~existed(n)'
        => \/ startTick - beat[n] > Offline - MaxLag
           \/ beat[n] >= startTick]_vars

(* A service that dies is removed in the end, unless the server is stopped *)
(* first or the clock reaches its bound before the timeout.                *)
DeadIsRemoved ==
  \A n \in Names :
    n \in silent /\ onlineServices[n] + Offline < MaxTime
      ~> ~existed(n) \/ stopped
=============================================================================
