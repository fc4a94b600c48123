-------------------------- MODULE RuntimeProperties --------------------------
(***************************************************************************)
(* What litmoe/runtime.py must guarantee whatever the order in which       *)
(* requests, switches, the initial load and the shutdown interleave.       *)
(***************************************************************************)
EXTENDS Runtime

(* Owner of the lock and of the queue places, as the tasks see it: the     *)
(* lock is held by exactly the task that is between an acquire and its     *)
(* release, and the FIFO holds each suspended task once.  A lost release,  *)
(* a release by a task that does not hold the lock and a waiter nobody     *)
(* will wake all break it (Lease.close and acquire release in different    *)
(* tasks from the one that took the lock).                                 *)
LockMatchesTasks ==
  /\ \A t \in Task : pc[t] \in Holding <=> holder = t
  /\ \A t \in Task : pc[t] = "queued" <=> \E i \in DOMAIN waiters : waiters[i] = t
  /\ \A i, j \in DOMAIN waiters : waiters[i] = waiters[j] => i = j

(* At most one engine process is alive, and the runtime has its handle or  *)
(* a thread is about to return it: no process escapes ownership.           *)
OneOwnedProcess ==
  /\ \A p, q \in live : p = q
  /\ live \subseteq {engine, spawned}

(* An open lease is for the resident engine, which runs the model that was *)
(* asked for and that is still selected, and its request holds the lock.   *)
LeaseIsCurrent ==
  \A r \in Request : lease[r] # NoProc =>
    /\ holder = r
    /\ engine = lease[r]
    /\ ModelOf[engine] = target[r]
    /\ target[r] = selected

(* queue_depth counts the admissions that have not been granted or given   *)
(* up, the loading one included, and never exceeds the configured bound by *)
(* more than the one admission that needs no waiting.                      *)
QueueDepthIsExact ==
  /\ queueDepth = Cardinality({r \in Request : pc[r] \in Admitting})
  /\ queueDepth <= MaxQueueSize + 1

(* The published state tells the truth about ownership: an engine of the   *)
(* selected model when ready or draining, none when stopped, a load under  *)
(* way exactly when loading; and draining ends with the last switch.       *)
StateTellsTruth ==
  /\ state \in {"ready", "draining"} => engine # NoProc /\ ModelOf[engine] = selected
  /\ state = "stopped" => engine = NoProc
  /\ state = "loading" <=> \E t \in Task : pc[t] \in Starting
  /\ state = "draining" => switching > 0

(***************************************************************************)
(* What makes the properties of ownership inductive: the target of every   *)
(* task that has one, and what the code between two awaits of _start, of a *)
(* switch and of a lease relies on.                                        *)
(***************************************************************************)
TargetsKnown ==
  \A t \in Request \cup SwitchTask : pc[t] \notin {"idle", "done"} => target[t] \in Model

StartsCoherent ==
  /\ \A t \in Request \cup SwitchTask : pc[t] \in Starting =>
       /\ state = "loading"
       /\ selected = target[t]
       /\ pc[t] \in {"spawning", "recovering"} =>
            engine = NoProc /\ (spawned # NoProc => ModelOf[spawned] = target[t])
       /\ pc[t] \in {"readying", "aborting", "reaping"} =>
            engine # NoProc /\ ModelOf[engine] = target[t]
  /\ pc[Shutdown] \in {"serving", "joining", "queued", "stopping", "done"}
  /\ \A t \in SwitchTask : pc[t] \notin {"reserved", "admitted", "probing", "loaded"} \cup Leasing
  /\ state = "loading" => \E t \in Task : pc[t] \in Starting
  /\ spawned # NoProc => \E t \in Task : pc[t] \in {"spawning", "recovering"}

StateCoherent ==
  /\ state \in {"ready", "draining"} => engine # NoProc /\ ModelOf[engine] = selected
  /\ state = "stopped" => engine = NoProc
  /\ \A t \in Task : pc[t] = "stopping" => engine # NoProc

LeasesCoherent ==
  \A r \in Request :
    /\ pc[r] \in Leasing <=> lease[r] # NoProc
    /\ pc[r] \in {"probing", "loaded"} => target[r] = selected
    /\ lease[r] # NoProc => /\ engine = lease[r]
                            /\ ModelOf[engine] = target[r]
                            /\ target[r] = selected

Coherent == TargetsKnown /\ StartsCoherent /\ StateCoherent /\ LeasesCoherent

(* switching counts the switches under way.                                *)
SwitchingIsExact ==
  switching = Cardinality({s \in Switcher : pc[s] # "idle"})
              + (IF pc[Startup] \in Starting THEN 1 ELSE 0)

(* Only a switch changes the selection, and only to the model it names: a  *)
(* request's reload never substitutes another model.                       *)
OnlySwitchSelects ==
  [][selected' # selected =>
       \E s \in Switcher : pc'[s] = "spawning" /\ target'[s] = selected']_vars

(* A switch drains: nobody but the request that holds a lease stops the    *)
(* engine it was granted.                                                  *)
LeasedEngineStays ==
  [][\A r \in Request : lease[r] # NoProc /\ engine' # engine => pc[r] = "resetting"]_vars

(* Once shutdown() has returned, nothing is loading or being served and    *)
(* the only process that can be alive is one whose stop failed.            *)
NothingAfterShutdown ==
  pc[Shutdown] = "done" =>
    /\ closing
    /\ \A t \in Task : pc[t] \notin Starting \cup Leasing \cup {"stopping", "warming"}
    /\ spawned = NoProc
    /\ engine # NoProc => state = "failed"

(* Work an engine may still be doing when another request can be admitted, *)
(* by its cancellation mode: none when cancellation is acknowledged; what  *)
(* an in-band error severed, where the gateway cannot see it; for WARP an  *)
(* accepted chat stream the client left and an unfinished warm-up too.     *)
Tolerated(mode) ==
  CASE mode = "prefill-chunked" -> {}
    [] mode = "restart" -> {"severed"}
    [] mode = "stream-disconnect" -> {"severed", "left", "warmup"}

(* The lock is free and the engine ready only when no other work runs in   *)
(* it: a client that leaves never has its generation overlap the next one. *)
ReadyEngineIsQuiet ==
  holder = NoTask /\ state \in {"ready", "draining"} /\ Running
    => native[engine] \subseteq Tolerated(Mode(engine))

(* The process alive, the request whose lease is open with the model it    *)
(* asked for, and whether shutdown() has returned.                         *)
Resident == IF live = {} THEN NoProc ELSE CHOOSE p \in Proc : p \in live
Client == IF \E r \in Request : lease[r] # NoProc
            THEN CHOOSE r \in Request : lease[r] # NoProc ELSE NoTask
Wish == IF Client = NoTask THEN NoProc ELSE target[Client]
Closed == pc[Shutdown] = "done"

(* The runtime implements the service its callers are promised.            *)
Service == INSTANCE ResidentService WITH
  resident <- Resident, client <- Client, wish <- Wish, closed <- Closed,
  Nobody <- NoTask, Nothing <- NoProc
ImplementsService == Service!Spec

----------------------------------------------------------------------------
(* Liveness, under FairSpec.                                               *)

(* A request that was admitted is granted or given up: nobody waits        *)
(* forever, even if no client disconnects and no queue timeout expires.    *)
AdmissionEnds == \A r \in Request : pc[r] \in Admitting ~> pc[r] \in {"leased", "idle"}

(* A lease ends, so the lock comes back.                                   *)
LeaseEnds == \A r \in Request : lease[r] # NoProc ~> lease[r] = NoProc

(* A switch ends however many requests keep arriving.                      *)
SwitchEnds == \A s \in Switcher : pc[s] # "idle" ~> pc[s] = "idle"

(* Shutdown completes whatever the tasks were doing when it began.         *)
ShutdownEnds == closing ~> pc[Shutdown] = "done"

----------------------------------------------------------------------------
(* What the documentation says and the code does not do.                   *)

(* runtime.py, LeasedStream: that the stream finished is not evidence that *)
(* the engine is idle, so the lease decides whether to restart it; here,   *)
(* for an upstream error that ends the stream of an engine that cannot     *)
(* acknowledge a cancellation.                                             *)
SeveredWorkIsStopped ==
  holder = NoTask /\ state = "ready" /\ Running => "severed" \notin native[engine]

(* docs/plans: a disconnected client's engine is stopped and reloaded for  *)
(* a subsequent request; here, when the client leaves during the reload    *)
(* and the stop succeeds.                                                  *)
LeavingReloadKeepsReloadable ==
  [][\A r \in Request :
       pc[r] = "reaping" /\ pc'[r] = "idle" /\ engine' = NoProc => state' = "stopped"]_vars

============================================================================
