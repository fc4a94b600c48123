------------------------------ MODULE Runtime ------------------------------
(***************************************************************************)
(* One resident engine and one inference lease: litmoe/runtime.py with the *)
(* callers that drive it, litmoe/server.py's lifespan, proxy, warm-up and  *)
(* engine start, and Engine.start / Engine.stop seen from the event loop.  *)
(*                                                                         *)
(* Each asyncio task is an element of Task and pc[t] is the await it is    *)
(* suspended at; an action is the code a task runs from one await to the   *)
(* next, which the event loop never interrupts.  Work handed to a thread   *)
(* (Popen, SIGTERM and wait), the processes themselves and the HTTP        *)
(* clients may act between any two such actions.                           *)
(***************************************************************************)
EXTENDS Integers, Sequences, FiniteSets, SequencesExt

CONSTANTS
  Request,         \* inference calls (POST /v1/chat/completions, ...)
  Switcher,        \* explicit selections (POST /v1/runtime/model)
  Startup,         \* the lifespan's initial_load task
  Shutdown,        \* the lifespan's exit path
  Model,           \* configured models
  InitialModel,    \* the model `litmoe serve` selects
  Proc,            \* process handles: each one an Engine with its subprocess
  ModelOf,         \* the model a process was started for (engine.model)
  Cancellation,    \* Runtime._cancellation_mode of each model's engine
  MaxQueueSize,    \* config.max_queue_size
  CleanupCanFail,  \* may engine.stop() raise while a failed start is cleaned up
  NoTask, NoProc, NoModel

SwitchTask == Switcher \cup {Startup}
Task == Request \cup Switcher \cup {Startup, Shutdown}

ASSUME TasksDiffer ==
  /\ Request \cap Switcher = {}
  /\ Startup \notin Request \cup Switcher
  /\ Shutdown \notin Request \cup Switcher \cup {Startup}
  /\ NoTask \notin Task
ASSUME ModelsAndProcs ==
  /\ InitialModel \in Model
  /\ NoModel \notin Model
  /\ NoProc \notin Proc
  /\ ModelOf \in [Proc -> Model]
  /\ Cancellation \in [Model -> {"prefill-chunked", "stream-disconnect", "restart"}]
ASSUME FiniteTasks == IsFiniteSet(Request) /\ IsFiniteSet(Switcher)
ASSUME Limits == MaxQueueSize \in Nat /\ CleanupCanFail \in BOOLEAN

VARIABLES
  selected,    \* Runtime.selected
  engine,      \* Runtime.engine: the handle of the resident engine, or NoProc
  state,       \* Runtime.state
  closing,     \* Runtime.closing
  switching,   \* Runtime.switching
  queueDepth,  \* Runtime.queue_depth
  holder,      \* who holds Runtime.lock (asyncio keeps only a flag)
  waiters,     \* the FIFO of tasks suspended in Runtime.lock.acquire()
  pc,          \* where each task is suspended
  target,      \* the model a task asked for
  lease,       \* Lease.engine of an open lease
  live,        \* processes that have not exited
  native,      \* work running inside each process, by what became of its caller
  spawned      \* process created by a start_engine thread that has not returned

runtimeVars == <<selected, engine, state, closing, switching, queueDepth>>
lockVars == <<holder, waiters>>
taskVars == <<pc, target, lease>>
procVars == <<live, native, spawned>>
vars == <<runtimeVars, lockVars, taskVars, procVars>>

(***************************************************************************)
(* "active" work has a caller holding the lease; "left" is an accepted     *)
(* WARP chat stream whose client closed its socket; "severed" is work      *)
(* whose relay ended with an in-band error event; "warmup" is the WARP     *)
(* warm-up call.                                                           *)
(***************************************************************************)
Work == {"active", "left", "severed", "warmup"}
States == {"stopped", "loading", "ready", "draining", "failed"}

Queueing == {"reserved", "queued"}            \* inside while_connected(take_lock)
Starting == {"spawning", "recovering", "readying", "aborting", "reaping"}  \* inside _start
Relaying == {"forwarding", "streaming", "chat"}   \* the caller is being answered
Leasing == {"leased", "quiescing", "resetting"} \cup Relaying
Admitting == {"reserved", "queued", "admitted", "probing", "loaded"} \cup Starting
Holding == {"admitted", "probing", "loaded", "stopping", "warming"} \cup Starting \cup Leasing
PCs == {"idle", "serving", "joining", "done"} \cup Queueing \cup Holding

TypeOK ==
  /\ selected \in Model
  /\ engine \in Proc \cup {NoProc}
  /\ state \in States
  /\ closing \in BOOLEAN
  /\ switching \in Nat
  /\ queueDepth \in Nat
  /\ holder \in Task \cup {NoTask}
  /\ waiters \in Seq(Task)
  /\ pc \in [Task -> PCs]
  /\ target \in [Task -> Model \cup {NoModel}]
  /\ lease \in [Request -> Proc \cup {NoProc}]
  /\ live \in SUBSET Proc
  /\ native \in [Proc -> SUBSET Work]
  /\ spawned \in Proc \cup {NoProc}

----------------------------------------------------------------------------
(* asyncio.Lock: release() wakes the first waiter, which takes the lock    *)
(* when its task next runs; until then the lock is free but a newcomer     *)
(* queues behind it.                                                       *)

Locked == holder # NoTask
LockIsFree == ~Locked /\ waiters = <<>>
IsNext(t) == ~Locked /\ waiters # <<>> /\ Head(waiters) = t

Enqueue(t) == waiters' = Append(waiters, t) /\ UNCHANGED holder
Dequeue(t) == \E i \in DOMAIN waiters :
  waiters[i] = t /\ waiters' = RemoveAt(waiters, i) /\ UNCHANGED holder

Running == engine \in live
Refreshed(st) == IF st = "ready" /\ ~Running THEN "failed" ELSE st
Mode(p) == Cancellation[ModelOf[p]]

Goto(t, label) == pc' = [pc EXCEPT ![t] = label]
Kill(p) == live' = live \ {p} /\ native' = [native EXCEPT ![p] = {}]

(* Faulty variants, named F_..., stand before the operator they replace;   *)
(* they show which mistake in the code each property would reveal.         *)

(* The finally clause of acquire forgets the lock.                         *)
F_RefuseKeepsLock(r, st) ==
  /\ state' = st
  /\ queueDepth' = queueDepth - 1
  /\ Goto(r, "idle")
  /\ target' = [target EXCEPT ![r] = NoModel]
  /\ UNCHANGED <<selected, closing, switching, holder, lease>>

(* The request's task ends: its place in the queue is given back and so is *)
(* the lock, when it holds it.                                             *)
Refuse(r, st) ==
  /\ state' = st
  /\ queueDepth' = queueDepth - 1
  /\ holder' = IF holder = r THEN NoTask ELSE holder
  /\ Goto(r, "idle")
  /\ target' = [target EXCEPT ![r] = NoModel]
  /\ UNCHANGED <<selected, closing, switching, lease>>

(* switching is incremented under the lock, after an early exit.           *)
F_EndSwitchUncounted(s, st, sw) ==
  /\ switching' = switching - 1
  /\ state' = st
  /\ holder' = IF holder = s THEN NoTask ELSE holder
  /\ Goto(s, IF s = Startup THEN "done" ELSE "idle")
  /\ target' = [target EXCEPT ![s] = NoModel]

(* The finally clause of switch leaves the draining state.                 *)
F_EndSwitchDraining(s, st, sw) ==
  /\ switching' = sw - 1
  /\ state' = st
  /\ holder' = IF holder = s THEN NoTask ELSE holder
  /\ Goto(s, IF s = Startup THEN "done" ELSE "idle")
  /\ target' = [target EXCEPT ![s] = NoModel]

(* A switch ends, holding the lock or not, leaving state st behind.        *)
EndSwitch(s, st, sw) ==
  /\ switching' = sw - 1
  /\ state' = IF sw = 1 /\ st = "draining" /\ engine # NoProc
                THEN IF Running THEN "ready" ELSE "failed"
                ELSE st
  /\ holder' = IF holder = s THEN NoTask ELSE holder
  /\ Goto(s, IF s = Startup THEN "done" ELSE "idle")
  /\ target' = [target EXCEPT ![s] = NoModel]

----------------------------------------------------------------------------
(* Runtime._start, run by the holder of the lock.                          *)

BeginStart(t, m) ==
  /\ selected' = m
  /\ state' = "loading"
  /\ Goto(t, "spawning")

(* Popen inside the start_engine thread, which no cancellation reaches.    *)
Popen(t) ==
  /\ pc[t] \in {"spawning", "recovering"}
  /\ spawned = NoProc
  /\ \E p \in Proc \ live :
       /\ p # engine
       /\ ModelOf[p] = target[t]
       /\ live' = live \cup {p}
       /\ spawned' = p
  /\ UNCHANGED <<runtimeVars, lockVars, taskVars, native>>

(* The thread returns its handle; a cancelled _start keeps it to stop it.  *)
EngineStarted(t) ==
  /\ pc[t] \in {"spawning", "recovering"}
  /\ spawned # NoProc
  /\ engine' = spawned
  /\ spawned' = NoProc
  /\ Goto(t, IF pc[t] = "spawning" THEN "readying" ELSE "reaping")
  /\ UNCHANGED <<selected, state, closing, switching, queueDepth, lockVars,
                 target, lease, live, native>>

(* What a failed _start does to its caller, _stop having been tried.       *)
Unwind(t) ==
  /\ \/ t \in Request /\ Refuse(t, "failed")
     \/ /\ t \in SwitchTask
        /\ EndSwitch(t, "failed", switching)
        /\ UNCHANGED <<selected, closing, queueDepth, lease>>
  /\ UNCHANGED waiters

(* start_engine raises, before Popen or after it; the engine it had        *)
(* created is stopped and dropped, even when that stop itself raises.      *)
StartRaises(t) ==
  /\ pc[t] \in {"spawning", "recovering"}
  /\ spawned' = NoProc
  /\ \/ spawned = NoProc /\ UNCHANGED <<live, native>>
     \/ spawned # NoProc /\ Kill(spawned)
     \/ spawned # NoProc /\ CleanupCanFail /\ UNCHANGED <<live, native>>
  /\ UNCHANGED engine
  /\ Unwind(t)

(* wait_ready() succeeded and the process is still there: a request goes   *)
(* on to its status check, a switch ends, the initial load goes on to its  *)
(* warm-up.                                                                *)
EngineReady(t) ==
  /\ pc[t] = "readying"
  /\ t = Startup => ~closing
  /\ Running
  /\ \/ /\ t \in Request
        /\ state' = "ready"
        /\ Goto(t, "loaded")
        /\ UNCHANGED <<switching, lockVars, target, native>>
     \/ /\ t \in Switcher
        /\ EndSwitch(t, "ready", switching)
        /\ UNCHANGED <<waiters, native>>
     \/ /\ t = Startup
        /\ state' = "ready"
        /\ switching' = switching - 1
        /\ UNCHANGED target
        /\ \/ /\ waiters # <<>>
              /\ waiters' = Append(waiters, t)
              /\ holder' = NoTask
              /\ Goto(t, "queued")
              /\ UNCHANGED native
           \/ /\ waiters = <<>>
              /\ Mode(engine) = "stream-disconnect"
              /\ Goto(t, "warming")
              /\ native' = [native EXCEPT ![engine] = @ \cup {"warmup"}]
              /\ UNCHANGED lockVars
           \/ /\ waiters = <<>>
              /\ Mode(engine) # "stream-disconnect"
              /\ holder' = NoTask
              /\ Goto(t, "done")
              /\ UNCHANGED <<waiters, native>>
  /\ UNCHANGED <<selected, engine, closing, queueDepth, lease, live, spawned>>

(* wait_ready() fails, times out, or the process has exited.               *)
EngineNotReady(t) ==
  /\ pc[t] = "readying"
  /\ Goto(t, "aborting")
  /\ UNCHANGED <<runtimeVars, lockVars, target, lease, procVars>>

(* The caller of _start leaves: a request's client disconnects, or the     *)
(* lifespan cancels the initial load.                                      *)
CancelStart(t) ==
  /\ t \in Request \/ (t = Startup /\ closing)
  /\ \/ pc[t] = "spawning" /\ Goto(t, "recovering")
     \/ pc[t] = "readying" /\ Goto(t, "reaping")
  /\ UNCHANGED <<runtimeVars, lockVars, target, lease, procVars>>

(* _stop inside _start's except clause, after a failure or a cancellation. *)
AbortStart(t) ==
  /\ pc[t] \in {"aborting", "reaping"}
  /\ Kill(engine)
  /\ engine' = NoProc
  /\ Unwind(t)
  /\ UNCHANGED spawned

(* _stop drops the handle although the process is still running.           *)
F_AbortDropsHandle(t) ==
  /\ pc[t] \in {"aborting", "reaping"}
  /\ engine' = NoProc
  /\ Unwind(t)
  /\ UNCHANGED procVars

(* That _stop raises, or is itself cancelled while its thread goes on: the *)
(* handle is kept.                                                         *)
AbortFails(t) ==
  /\ pc[t] \in {"aborting", "reaping"}
  /\ Unwind(t)
  /\ UNCHANGED <<engine, procVars>>

----------------------------------------------------------------------------
(* Runtime.acquire.                                                        *)

(* The selection is checked without regard to a shutdown.                  *)
F_SelectableClosing(m) == m = selected /\ switching = 0

Selectable(m) == m = selected /\ ~closing /\ switching = 0

(* The queue bound is compared with > instead of >=.                       *)
F_ArriveOverfills(r, m) ==
  /\ pc[r] = "idle"
  /\ Selectable(m)
  /\ queueDepth <= MaxQueueSize + (IF Locked THEN 0 ELSE 1)
  /\ queueDepth' = queueDepth + 1
  /\ Goto(r, "reserved")
  /\ target' = [target EXCEPT ![r] = m]
  /\ UNCHANGED <<selected, engine, state, closing, switching, lockVars, lease, procVars>>

Arrive(r, m) ==
  /\ pc[r] = "idle"
  /\ Selectable(m)
  /\ queueDepth < MaxQueueSize + (IF Locked THEN 0 ELSE 1)
  /\ queueDepth' = queueDepth + 1
  /\ Goto(r, "reserved")
  /\ target' = [target EXCEPT ![r] = m]
  /\ UNCHANGED <<selected, engine, state, closing, switching, lockVars, lease, procVars>>

(* take_lock runs in a task of its own, a loop iteration after Arrive.     *)
TakeLock(r) ==
  /\ r \in Request
  /\ \/ /\ pc[r] = "reserved" /\ LockIsFree
        /\ holder' = r
        /\ Goto(r, "admitted")
        /\ UNCHANGED waiters
     \/ /\ pc[r] = "reserved" /\ ~LockIsFree
        /\ Enqueue(r)
        /\ Goto(r, "queued")
     \/ /\ pc[r] = "queued" /\ IsNext(r)
        /\ holder' = r
        /\ waiters' = Tail(waiters)
        /\ Goto(r, "admitted")
  /\ UNCHANGED <<runtimeVars, target, lease, procVars>>

(* queue_timeout expires or the client disconnects before the lock comes.  *)
LeaveQueue(r) ==
  /\ r \in Request
  /\ \/ pc[r] = "reserved" /\ UNCHANGED waiters
     \/ pc[r] = "queued" /\ Dequeue(r)
  /\ Refuse(r, state)
  /\ UNCHANGED <<engine, procVars>>

(* The selection is not checked again after the wait.                      *)
F_RecheckOmitted(r) ==
  /\ pc[r] = "admitted"
  /\ Goto(r, "probing")
  /\ UNCHANGED <<runtimeVars, lockVars, target, lease, procVars>>

(* The request's own task resumes with the lock and checks again.          *)
Recheck(r) ==
  /\ pc[r] = "admitted"
  /\ \/ /\ Selectable(target[r])
        /\ Goto(r, "probing")
        /\ UNCHANGED <<runtimeVars, holder, target, lease>>
     \/ ~Selectable(target[r]) /\ Refuse(r, state) /\ UNCHANGED engine
  /\ UNCHANGED <<waiters, procVars>>

(* request.is_disconnected() answered yes.                                 *)
FoundDisconnected(r) ==
  /\ pc[r] = "probing"
  /\ Refuse(r, state)
  /\ UNCHANGED <<engine, waiters, procVars>>

Reload(r) ==
  /\ pc[r] = "probing"
  /\ state = "stopped"
  /\ BeginStart(r, target[r])
  /\ UNCHANGED <<engine, closing, switching, queueDepth, lockVars, target, lease, procVars>>

(* acquired stays set, so the finally clause releases the lease's lock.    *)
F_GrantReleases(r) ==
  /\ \/ pc[r] = "probing" /\ state # "stopped"
     \/ pc[r] = "loaded"
  /\ \/ /\ Refreshed(state) = "ready"
        /\ lease' = [lease EXCEPT ![r] = engine]
        /\ queueDepth' = queueDepth - 1
        /\ holder' = NoTask
        /\ Goto(r, "leased")
        /\ UNCHANGED <<selected, state, closing, switching, target>>
     \/ Refreshed(state) # "ready" /\ Refuse(r, Refreshed(state))
  /\ UNCHANGED <<engine, waiters, procVars>>

(* The last check; a ready engine is leased to the request.                *)
Grant(r) ==
  /\ \/ pc[r] = "probing" /\ state # "stopped"
     \/ pc[r] = "loaded"
  /\ \/ /\ Refreshed(state) = "ready"
        /\ lease' = [lease EXCEPT ![r] = engine]
        /\ queueDepth' = queueDepth - 1
        /\ Goto(r, "leased")
        /\ UNCHANGED <<selected, state, closing, switching, holder, target>>
     \/ Refreshed(state) # "ready" /\ Refuse(r, Refreshed(state))
  /\ UNCHANGED <<engine, waiters, procVars>>

----------------------------------------------------------------------------
(* Gateway._proxy and _forward, LeasedStream, Lease.close.                 *)

(* Lease.close up to its first await: an engine with acknowledged          *)
(* cancellation is asked to confirm it is idle, another one is stopped     *)
(* when reset says so; otherwise the lock is released at once.             *)
ReleaseLease(r) ==
  /\ holder' = NoTask
  /\ lease' = [lease EXCEPT ![r] = NoProc]
  /\ target' = [target EXCEPT ![r] = NoModel]
  /\ Goto(r, "idle")

CloseLease(r, reset) ==
  /\ IF Mode(lease[r]) = "prefill-chunked"
       THEN Goto(r, "quiescing") /\ UNCHANGED <<holder, lease, target>>
       ELSE IF reset
         THEN Goto(r, "resetting") /\ UNCHANGED <<holder, lease, target>>
         ELSE ReleaseLease(r)
  /\ UNCHANGED <<runtimeVars, waiters, live, spawned>>

(* What becomes of the work a caller leaves behind in the engine.          *)
WorkBecomes(p, tags) ==
  native' = [native EXCEPT ![p] = IF "active" \in @ THEN (@ \ {"active"}) \cup tags ELSE @]

Forward(r) ==
  /\ pc[r] = "leased"
  /\ Running
  /\ native' = [native EXCEPT ![engine] = @ \cup {"active"}]
  /\ Goto(r, "forwarding")
  /\ UNCHANGED <<runtimeVars, lockVars, target, lease, live, spawned>>

(* count_tokens without native Messages is answered by the gateway.        *)
Estimate(r) ==
  /\ pc[r] = "leased"
  /\ Mode(lease[r]) # "prefill-chunked"
  /\ CloseLease(r, FALSE)
  /\ UNCHANGED native

(* _forward raises or is cancelled: the engine is gone, the payload cannot *)
(* be translated, the upstream call fails, the client disconnects.         *)
ForwardFails(r) ==
  /\ pc[r] \in {"leased", "forwarding"}
  /\ CloseLease(r, TRUE)
  /\ UNCHANGED native

(* A blocking answer, or the upstream's refusal of a stream.               *)
Answered(r) ==
  /\ pc[r] = "forwarding"
  /\ Running
  /\ WorkBecomes(lease[r], {})
  /\ CloseLease(r, FALSE)

(* The stream is accepted; a WARP chat stream needs no restart if left.    *)
StreamOpens(r) ==
  /\ pc[r] = "forwarding"
  /\ Running
  /\ \/ Goto(r, "streaming")
     \/ Mode(lease[r]) = "stream-disconnect" /\ Goto(r, "chat")
  /\ UNCHANGED <<runtimeVars, lockVars, target, lease, procVars>>

StreamEnds(r) ==
  /\ pc[r] \in {"streaming", "chat"}
  /\ Running
  /\ WorkBecomes(lease[r], {})
  /\ CloseLease(r, FALSE)

(* The upstream connection fails: an error event is relayed and the        *)
(* iterator ends as if the stream had finished.                            *)
StreamErrs(r) ==
  /\ pc[r] \in {"streaming", "chat"}
  /\ WorkBecomes(lease[r], {"severed"})
  /\ CloseLease(r, FALSE)

(* A relay cut short by its client counts as finished.                     *)
F_AbandonedAsFinished(r) ==
  /\ pc[r] \in {"streaming", "chat"}
  /\ IF pc[r] = "chat" THEN WorkBecomes(lease[r], {"left"}) ELSE UNCHANGED native
  /\ CloseLease(r, FALSE)

(* The client goes away in the middle of the stream.                       *)
StreamAbandoned(r) ==
  /\ pc[r] \in {"streaming", "chat"}
  /\ IF pc[r] = "chat" THEN WorkBecomes(lease[r], {"left"}) ELSE UNCHANGED native
  /\ CloseLease(r, pc[r] = "streaming")

(* The end of the stream is taken for the end of the work.                 *)
F_QuiescedAtEof(r) ==
  /\ pc[r] = "quiescing"
  /\ lease[r] \in live
  /\ ReleaseLease(r)
  /\ UNCHANGED <<runtimeVars, waiters, procVars>>

(* wait_idle() confirms that nothing runs, or does not within 10 seconds.  *)
Quiesced(r) ==
  /\ pc[r] = "quiescing"
  /\ lease[r] \in live
  /\ native[lease[r]] = {}
  /\ ReleaseLease(r)
  /\ UNCHANGED <<runtimeVars, waiters, procVars>>

(* wait_idle() has no timeout.                                             *)
F_WaitIdleForever(r) ==
  /\ pc[r] = "quiescing"
  /\ lease[r] \in live
  /\ native[lease[r]] = {}
  /\ Goto(r, "resetting")
  /\ UNCHANGED <<runtimeVars, lockVars, target, lease, procVars>>

NotQuiesced(r) ==
  /\ pc[r] = "quiescing"
  /\ Goto(r, "resetting")
  /\ UNCHANGED <<runtimeVars, lockVars, target, lease, procVars>>

(* The release is not in a finally clause: a failed stop keeps the lock.   *)
F_ResetKeepsLock(r) ==
  /\ pc[r] = "resetting"
  /\ \/ /\ Kill(engine)
        /\ engine' = NoProc
        /\ state' = "stopped"
        /\ ReleaseLease(r)
     \/ /\ state' = "failed"
        /\ lease' = [lease EXCEPT ![r] = NoProc]
        /\ target' = [target EXCEPT ![r] = NoModel]
        /\ Goto(r, "idle")
        /\ UNCHANGED <<engine, holder, live, native>>
  /\ UNCHANGED <<selected, closing, switching, queueDepth, waiters, spawned>>

(* _stop_with_reset: the process is stopped and only then is the lock      *)
(* released; when the stop fails the handle is kept and the lock released. *)
ResetEngine(r) ==
  /\ pc[r] = "resetting"
  /\ \/ /\ Kill(engine)
        /\ engine' = NoProc
        /\ state' = "stopped"
     \/ state' = "failed" /\ UNCHANGED <<engine, live, native>>
  /\ ReleaseLease(r)
  /\ UNCHANGED <<selected, closing, switching, queueDepth, waiters, spawned>>

----------------------------------------------------------------------------
(* Runtime.switch.                                                         *)

(* From the lock to the first await; sw is the value of switching.         *)
SwitchLocked(s, m, sw) ==
  /\ \/ /\ closing
        /\ EndSwitch(s, state, sw)
        /\ UNCHANGED selected
     \/ /\ ~closing
        /\ state \in {"ready", "draining"} /\ Running /\ ModelOf[engine] = m
        /\ EndSwitch(s, "ready", sw)
        /\ UNCHANGED selected
     \/ /\ ~closing
        /\ ~(state \in {"ready", "draining"} /\ Running /\ ModelOf[engine] = m)
        /\ holder' = s
        /\ switching' = sw
        /\ target' = [target EXCEPT ![s] = m]
        /\ \/ engine # NoProc /\ Goto(s, "stopping") /\ UNCHANGED <<selected, state>>
           \/ engine = NoProc /\ BeginStart(s, m)
  /\ UNCHANGED <<engine, closing, queueDepth, lease, procVars>>

SwitchBegins(s, m) ==
  /\ pc[s] = "idle"
  /\ ~closing
  /\ \/ /\ LockIsFree
        /\ SwitchLocked(s, m, switching + 1)
        /\ UNCHANGED waiters
     \/ /\ ~LockIsFree
        /\ state' = IF Locked /\ state = "ready" THEN "draining" ELSE state
        /\ switching' = switching + 1
        /\ Enqueue(s)
        /\ Goto(s, "queued")
        /\ target' = [target EXCEPT ![s] = m]
        /\ UNCHANGED <<selected, engine, closing, queueDepth, lease, procVars>>

SwitchResumes(s) ==
  /\ s \in Switcher
  /\ pc[s] = "queued"
  /\ IsNext(s)
  /\ waiters' = Tail(waiters)
  /\ SwitchLocked(s, target[s], switching)

(* _stop of the resident engine; the new one is started right after it.    *)
OldStopped(s) ==
  /\ s \in Switcher
  /\ pc[s] = "stopping"
  /\ Kill(engine)
  /\ engine' = NoProc
  /\ BeginStart(s, target[s])
  /\ UNCHANGED <<closing, switching, queueDepth, lockVars, target, lease, spawned>>

(* A failed stop loses the handle.                                         *)
F_StopDropsHandle(s) ==
  /\ s \in Switcher
  /\ pc[s] = "stopping"
  /\ engine' = NoProc
  /\ Unwind(s)
  /\ UNCHANGED procVars

StopFails(s) ==
  /\ s \in Switcher
  /\ pc[s] = "stopping"
  /\ Unwind(s)
  /\ UNCHANGED <<engine, procVars>>

----------------------------------------------------------------------------
(* The lifespan: the initial load's warm-up, and the exit path.            *)

WarmupResumes ==
  /\ pc[Startup] = "queued"
  /\ IsNext(Startup)
  /\ ~closing
  /\ waiters' = Tail(waiters)
  /\ \/ /\ state = "ready" /\ Cancellation[selected] = "stream-disconnect"
        /\ holder' = Startup
        /\ Goto(Startup, "warming")
        /\ native' = IF Running THEN [native EXCEPT ![engine] = @ \cup {"warmup"}] ELSE native
     \/ /\ ~(state = "ready" /\ Cancellation[selected] = "stream-disconnect")
        /\ Goto(Startup, "done")
        /\ UNCHANGED <<holder, native>>
  /\ UNCHANGED <<runtimeVars, target, lease, live, spawned>>

(* The warm-up does not give the lock back when its call raises.           *)
F_WarmupKeepsLock ==
  /\ pc[Startup] = "warming"
  /\ Goto(Startup, "done")
  /\ UNCHANGED <<runtimeVars, lockVars, target, lease, procVars>>

(* The warm-up call returns, or raises with its generation unfinished.     *)
WarmupEnds ==
  /\ pc[Startup] = "warming"
  /\ \/ ~closing /\ native' = [native EXCEPT ![engine] = @ \ {"warmup"}]
     \/ UNCHANGED native
  /\ holder' = NoTask
  /\ Goto(Startup, "done")
  /\ UNCHANGED <<runtimeVars, waiters, target, lease, live, spawned>>

WarmupCancelled ==
  /\ closing
  /\ pc[Startup] = "queued"
  /\ Dequeue(Startup)
  /\ Goto(Startup, "done")
  /\ UNCHANGED <<runtimeVars, target, lease, procVars>>

LifespanExits ==
  /\ pc[Shutdown] = "serving"
  /\ closing' = TRUE
  /\ Goto(Shutdown, "joining")
  /\ UNCHANGED <<selected, engine, state, switching, queueDepth, lockVars,
                 target, lease, procVars>>

ShutdownLocked ==
  \/ /\ engine # NoProc
     /\ holder' = Shutdown
     /\ Goto(Shutdown, "stopping")
     /\ UNCHANGED state
  \/ /\ engine = NoProc
     /\ state' = "stopped"
     /\ Goto(Shutdown, "done")
     /\ UNCHANGED holder

(* Runtime.shutdown, once the cancelled initial load has ended.            *)
ShutdownBegins ==
  /\ pc[Shutdown] = "joining"
  /\ pc[Startup] = "done"
  /\ \/ LockIsFree /\ ShutdownLocked /\ UNCHANGED waiters
     \/ ~LockIsFree /\ Enqueue(Shutdown) /\ Goto(Shutdown, "queued") /\ UNCHANGED state
  /\ UNCHANGED <<selected, engine, closing, switching, queueDepth, target, lease, procVars>>

ShutdownResumes ==
  /\ pc[Shutdown] = "queued"
  /\ IsNext(Shutdown)
  /\ waiters' = Tail(waiters)
  /\ ShutdownLocked
  /\ UNCHANGED <<selected, engine, closing, switching, queueDepth, target, lease, procVars>>

ShutdownStops ==
  /\ pc[Shutdown] = "stopping"
  /\ \/ /\ Kill(engine)
        /\ engine' = NoProc
        /\ state' = "stopped"
     \/ state' = "failed" /\ UNCHANGED <<engine, live, native>>
  /\ holder' = NoTask
  /\ Goto(Shutdown, "done")
  /\ UNCHANGED <<selected, closing, switching, queueDepth, waiters, target, lease, spawned>>

----------------------------------------------------------------------------
(* What happens to the processes by themselves, and GET /health.           *)

Exits(p) ==
  /\ p \in live
  /\ Kill(p)
  /\ UNCHANGED <<runtimeVars, lockVars, taskVars, spawned>>

WorkFinishes(p, w) ==
  /\ w \in native[p]
  /\ native' = [native EXCEPT ![p] = @ \ {w}]
  /\ UNCHANGED <<runtimeVars, lockVars, taskVars, live, spawned>>

Status ==
  /\ Refreshed(state) # state
  /\ state' = Refreshed(state)
  /\ UNCHANGED <<selected, engine, closing, switching, queueDepth, lockVars, taskVars, procVars>>

----------------------------------------------------------------------------

(* The initial load takes the lock before any request can be accepted.     *)
Init ==
  /\ selected = InitialModel
  /\ engine = NoProc
  /\ state = "loading"
  /\ closing = FALSE
  /\ switching = 1
  /\ queueDepth = 0
  /\ holder = Startup
  /\ waiters = <<>>
  /\ pc = [t \in Task |-> CASE t = Startup -> "spawning"
                            [] t = Shutdown -> "serving"
                            [] OTHER -> "idle"]
  /\ target = [t \in Task |-> IF t = Startup THEN InitialModel ELSE NoModel]
  /\ lease = [r \in Request |-> NoProc]
  /\ live = {}
  /\ native = [p \in Proc |-> {}]
  /\ spawned = NoProc

StartStep(t) ==
  \/ Popen(t) \/ EngineStarted(t) \/ StartRaises(t) \/ EngineReady(t)
  \/ EngineNotReady(t) \/ CancelStart(t) \/ AbortStart(t) \/ AbortFails(t)

AcquireStep(r) ==
  TakeLock(r) \/ LeaveQueue(r) \/ Recheck(r) \/ FoundDisconnected(r) \/ Reload(r) \/ Grant(r)

LeaseStep(r) ==
  \/ Forward(r) \/ Estimate(r) \/ ForwardFails(r) \/ Answered(r) \/ StreamOpens(r)
  \/ StreamEnds(r) \/ StreamErrs(r) \/ StreamAbandoned(r)
  \/ Quiesced(r) \/ NotQuiesced(r) \/ ResetEngine(r)

SwitchStep(s) == SwitchResumes(s) \/ OldStopped(s) \/ StopFails(s)

LifespanStep ==
  \/ WarmupResumes \/ WarmupEnds \/ WarmupCancelled
  \/ ShutdownBegins \/ ShutdownResumes \/ ShutdownStops

Environment ==
  \/ LifespanExits \/ Status
  \/ \E r \in Request, m \in Model : Arrive(r, m)
  \/ \E s \in Switcher, m \in Model : SwitchBegins(s, m)
  \/ \E p \in Proc : Exits(p) \/ \E w \in Work : WorkFinishes(p, w)

Next ==
  \/ \E t \in Request \cup SwitchTask : StartStep(t)
  \/ \E r \in Request : AcquireStep(r) \/ LeaseStep(r)
  \/ \E s \in Switcher : SwitchStep(s)
  \/ LifespanStep
  \/ Environment

Spec == Init /\ [][Next]_vars

(***************************************************************************)
(* A task that can run is run, a thread returns (SIGTERM and SIGKILL have  *)
(* their timeouts, wait_ready has ready_timeout), and an upstream call     *)
(* ends (httpx has read timeouts).  Nothing obliges a client to call, an   *)
(* operator to switch, a process to exit or the lifespan to end; nothing   *)
(* obliges a client to leave its place in the queue either, so LeaveQueue  *)
(* is not part of a fair step.                                             *)
(***************************************************************************)
FairAcquireStep(r) == TakeLock(r) \/ Recheck(r) \/ Reload(r) \/ Grant(r)

Fairness ==
  /\ \A t \in Request \cup SwitchTask : WF_vars(StartStep(t))
  /\ \A r \in Request : WF_vars(FairAcquireStep(r)) /\ WF_vars(LeaseStep(r))
  /\ \A s \in Switcher : WF_vars(SwitchStep(s))
  /\ WF_vars(LifespanStep)

FairSpec == Spec /\ Fairness

============================================================================
