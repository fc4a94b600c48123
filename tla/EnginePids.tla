------------------------------ MODULE EnginePids ------------------------------
(***************************************************************************)
(* The files <model>.pid in the run directory (Engine._record_pid and      *)
(* Engine._clear_pid), the processes they name, the threads that run       *)
(* Engine.stop, and litmoe stop, which knows the engines by these files    *)
(* only.  Gateways share the directory; an engine is a session of its own  *)
(* and survives the gateway that started it.                               *)
(***************************************************************************)
EXTENDS Naturals, FiniteSets

CONSTANTS
  Gateway, Model,
  Pid,      \* engines' numbers; a number is an engine's once
  Thread,   \* worker threads
  None,     \* no file, no process
  Blank,    \* a file that was opened and not yet written
  Reuse     \* may another program get the number of an engine that is gone

ASSUME Names == {None, Blank} \cap (Pid \cup Model \cup Gateway) = {} /\ None # Blank
ASSUME Sizes == IsFiniteSet(Pid) /\ IsFiniteSet(Thread) /\ Reuse \in BOOLEAN

VARIABLES
  process,   \* of each number: unused, running, exited (not reaped), gone, other
  model,     \* the model of each engine
  file,      \* what <model>.pid holds
  pc,        \* of each gateway: idle, opening, recording, up or stopping
  handle,    \* its Popen object
  stopper,   \* Engine.stop in each thread: how far it is, and for which process
  cli,       \* litmoe stop: off, loop, aborted, done, or what it does to a file
  todo,      \* the files it has found and not handled
  told,      \* auxiliary: the processes litmoe stop has signalled
  struck,    \* auxiliary: has it signalled another program
  found,     \* auxiliary: the engines its glob found the file of
  recorded,  \* auxiliary: the engines whose number was written
  survived,  \* auxiliary: engines that outlived the SIGKILL of a stop
  orphaned,  \* auxiliary: engines whose gateway was killed
  contested  \* auxiliary: engines started beside another owner of their file

system == <<process, model, file>>
gateways == <<pc, handle, stopper>>
command == <<cli, todo, told, struck, found>>
causes == <<recorded, survived, orphaned, contested>>
vars == <<system, gateways, command, causes>>

NoStop == [at |-> "none", pid |-> None]
Off == [at |-> "off", model |-> None, pid |-> None]
Running(p) == process[p] = "running"
Reaped(p) == process[p] \in {"gone", "other"}

Init ==
  /\ process = [p \in Pid |-> "unused"]
  /\ model = [p \in Pid |-> None]
  /\ file = [m \in Model |-> None]
  /\ pc = [g \in Gateway |-> "idle"]
  /\ handle = [g \in Gateway |-> None]
  /\ stopper = [t \in Thread |-> NoStop]
  /\ cli = Off /\ todo = {} /\ told = {} /\ struck = FALSE /\ found = {}
  /\ recorded = {} /\ survived = {} /\ orphaned = {} /\ contested = {}

-------------------------------------------------------------------------------
(* The engines and the operating system.                                   *)

(* A child stays a zombie until its gateway polls it; an orphan does not.  *)
Exits(p) ==
  /\ Running(p)
  /\ process' = [process EXCEPT ![p] = IF p \in orphaned THEN "gone" ELSE "exited"]
  /\ UNCHANGED <<model, file, gateways, command, causes>>

(* Only of interest while somebody remembers the number.                   *)
Reused(p) ==
  /\ Reuse /\ process[p] = "gone"
  /\ \/ p = cli.pid
     \/ \E m \in Model : p = file[m]
     \/ \E t \in Thread : p = stopper[t].pid
  /\ process' = [process EXCEPT ![p] = "other"]
  /\ UNCHANGED <<model, file, gateways, command, causes>>

-------------------------------------------------------------------------------
(* A gateway: start, record the PID, notice an exit, stop.                 *)

(* Who else reads, writes or removes the file of a model.                  *)
Rivals(m) ==
  \/ \E g \in Gateway : handle[g] # None /\ model[handle[g]] = m
  \/ \E t \in Thread : stopper[t].pid # None /\ model[stopper[t].pid] = m
  \/ \E p \in orphaned : Running(p) /\ model[p] = m
  \/ m \in todo

Start(g, m, p) ==
  /\ pc[g] = "idle" /\ handle[g] = None /\ process[p] = "unused"
  /\ process' = [process EXCEPT ![p] = "running"]
  /\ model' = [model EXCEPT ![p] = m]
  /\ handle' = [handle EXCEPT ![g] = p]
  /\ pc' = [pc EXCEPT ![g] = "opening"]
  /\ contested' = contested \cup
       IF Rivals(m) THEN {p} \cup {q \in Pid : model[q] = m} ELSE {}
  /\ UNCHANGED <<file, stopper, command, recorded, survived, orphaned>>

(* write_text opens the file, which empties it, and writes.                *)
OpenFile(g) ==
  /\ pc[g] = "opening"
  /\ file' = [file EXCEPT ![model[handle[g]]] = Blank]
  /\ pc' = [pc EXCEPT ![g] = "recording"]
  /\ UNCHANGED <<process, model, handle, stopper, command, causes>>

(* If litmoe stop has removed the empty file the text goes nowhere.        *)
Record(g) ==
  /\ pc[g] = "recording"
  /\ file' = [file EXCEPT ![model[handle[g]]] = IF @ = None THEN None ELSE handle[g]]
  /\ recorded' = recorded \cup {handle[g]}
  /\ pc' = [pc EXCEPT ![g] = "up"]
  /\ UNCHANGED <<process, model, handle, stopper, command, survived, orphaned, contested>>

(* Popen.poll in is_running.                                               *)
Poll(g) ==
  /\ handle[g] # None /\ process[handle[g]] = "exited"
  /\ process' = [process EXCEPT ![handle[g]] = "gone"]
  /\ UNCHANGED <<model, file, gateways, command, causes>>

(* Engine.stop runs in a worker thread and first polls.  The clean-up of a *)
(* start whose _record_pid raised runs in the start's own.                 *)
StopIn(g, t) ==
  LET p == handle[g] IN
  /\ pc[g] \in {"up", "opening", "recording"} /\ stopper[t] = NoStop
  /\ process' = [process EXCEPT ![p] = IF @ = "exited" THEN "gone" ELSE @]
  /\ stopper' = [stopper EXCEPT ![t] = [at |-> IF Running(p) THEN "term" ELSE "clear", pid |-> p]]
  /\ pc' = [pc EXCEPT ![g] = "stopping"]
  /\ UNCHANGED <<model, handle, command, causes>>

(* The file is removed before the process is signalled.                    *)
F_BeginStopClears(g, t) ==
  StopIn(g, t) /\ file' = [file EXCEPT ![model[handle[g]]] = None]

BeginStop(g, t) == StopIn(g, t) /\ UNCHANGED file

(* The task that waits for the thread is cancelled; the thread goes on.    *)
CancelStop(g) ==
  /\ pc[g] = "stopping"
  /\ pc' = [pc EXCEPT ![g] = "up"]
  /\ UNCHANGED <<system, handle, stopper, command, causes>>

At(t, where) == stopper[t].at = where
To(t, where) == stopper' = [stopper EXCEPT ![t].at = where]

(* os.killpg of the number: the process may have been reaped meanwhile.    *)
Terminate(t) ==
  /\ At(t, "term")
  /\ To(t, IF process[stopper[t].pid] = "gone" THEN "clear" ELSE "wait")
  /\ UNCHANGED <<system, pc, handle, command, causes>>

(* wait() finds that it has ended.                                         *)
Reap(t) ==
  LET p == stopper[t].pid IN
  /\ stopper[t].at \in {"wait", "wait again"} /\ ~Running(p)
  /\ process' = [process EXCEPT ![p] = IF @ = "exited" THEN "gone" ELSE @]
  /\ To(t, "clear")
  /\ UNCHANGED <<model, file, pc, handle, command, causes>>

(* wait() times out: SIGKILL, and another wait.                            *)
Escalate(t) ==
  /\ At(t, "wait") /\ Running(stopper[t].pid)
  /\ To(t, "wait again")
  /\ UNCHANGED <<system, pc, handle, command, causes>>

(* The second one times out and raises.                                    *)
Survives(t) ==
  /\ At(t, "wait again") /\ Running(stopper[t].pid)
  /\ survived' = survived \cup {stopper[t].pid}
  /\ To(t, "clear")
  /\ UNCHANGED <<system, pc, handle, command, recorded, orphaned, contested>>

Cleared(t) == [file EXCEPT ![model[stopper[t].pid]] = None]

(* The gateway, if it still waits for this stop, gives the handle up,      *)
(* unless the process runs.                                                *)
Released(t) ==
  LET p == stopper[t].pid
      waiting == {g \in Gateway : pc[g] = "stopping" /\ handle[g] = p} IN
  /\ At(t, "clear")
  /\ stopper' = [stopper EXCEPT ![t] = NoStop]
  /\ pc' = [g \in Gateway |-> IF g \notin waiting THEN pc[g] ELSE IF Running(p) THEN "up" ELSE "idle"]
  /\ handle' = [g \in Gateway |-> IF g \in waiting /\ ~Running(p) THEN None ELSE handle[g]]
  /\ UNCHANGED <<process, model, command, causes>>

(* The file is removed only if the process was still there to be signalled. *)
F_ClearSignalled(t) ==
  Released(t) /\ file' = IF Reaped(stopper[t].pid) THEN file ELSE Cleared(t)

(* finally: the file goes, whoever it names by now.                        *)
Clear(t) == Released(t) /\ file' = Cleared(t)

(* SIGKILL to a gateway, then perhaps another one in its place.            *)
Die(g) ==
  LET p == handle[g] IN
  /\ p # None
  /\ pc' = [pc EXCEPT ![g] = "idle"]
  /\ handle' = [handle EXCEPT ![g] = None]
  /\ stopper' = [t \in Thread |-> IF stopper[t].pid = p THEN NoStop ELSE stopper[t]]
  /\ process' = [process EXCEPT ![p] = IF @ = "exited" THEN "gone" ELSE @]
  /\ orphaned' = orphaned \cup {p}
  /\ UNCHANGED <<model, file, command, recorded, survived, contested>>

-------------------------------------------------------------------------------
(* litmoe stop.                                                            *)

Glob ==
  /\ cli.at = "off" /\ \E m \in Model : file[m] # None
  /\ cli' = [Off EXCEPT !.at = "loop"]
  /\ todo' = {m \in Model : file[m] # None}
  /\ found' = {p \in Pid : Running(p) /\ file[model[p]] = p}
  /\ contested' = contested \cup
       {handle[g] : g \in {h \in Gateway : pc[h] \in {"opening", "recording"}}}
  /\ UNCHANGED <<system, gateways, told, struck, recorded, survived, orphaned>>

(* A file without a number is removed; one that is gone ends the command   *)
(* with the error of read_text.                                            *)
ReadFile(m) ==
  /\ cli.at = "loop" /\ m \in todo
  /\ CASE file[m] = None -> cli' = [Off EXCEPT !.at = "aborted"] /\ todo' = {}
       [] file[m] = Blank -> cli' = [at |-> "unlink", model |-> m, pid |-> None] /\ UNCHANGED todo
       [] file[m] \in Pid -> cli' = [at |-> "signal", model |-> m, pid |-> file[m]] /\ UNCHANGED todo
  /\ UNCHANGED <<system, gateways, told, struck, found, causes>>

Signal ==
  /\ cli.at = "signal"
  /\ cli' = [cli EXCEPT !.at = "unlink"]
  /\ told' = told \cup {cli.pid}
  /\ struck' = (struck \/ process[cli.pid] = "other")
  /\ UNCHANGED <<system, gateways, todo, found, causes>>

(* The command ends with the first file whose process is gone.             *)
F_UnlinkLast ==
  /\ cli.at = "unlink"
  /\ file' = [file EXCEPT ![cli.model] = None]
  /\ todo' = IF cli.pid # None /\ ~Running(cli.pid) THEN {} ELSE todo \ {cli.model}
  /\ cli' = [Off EXCEPT !.at = "loop"]
  /\ UNCHANGED <<process, model, gateways, told, struck, found, causes>>

Unlink ==
  /\ cli.at = "unlink"
  /\ file' = [file EXCEPT ![cli.model] = None]
  /\ todo' = todo \ {cli.model}
  /\ cli' = [Off EXCEPT !.at = "loop"]
  /\ UNCHANGED <<process, model, gateways, told, struck, found, causes>>

(* --all signals every process that is called like an engine.              *)
Done ==
  /\ cli.at = "loop" /\ todo = {}
  /\ cli' = [Off EXCEPT !.at = "done"]
  /\ told' \in {told, told \cup {p \in Pid : Running(p)}}
  /\ UNCHANGED <<system, gateways, todo, struck, found, causes>>

Next ==
  \/ \E p \in Pid : Exits(p) \/ Reused(p)
  \/ \E g \in Gateway :
       \/ \E m \in Model, p \in Pid : Start(g, m, p)
       \/ OpenFile(g) \/ Record(g) \/ Poll(g) \/ CancelStop(g) \/ Die(g)
       \/ \E t \in Thread : BeginStop(g, t)
  \/ \E t \in Thread : Terminate(t) \/ Reap(t) \/ Escalate(t) \/ Survives(t) \/ Clear(t)
  \/ Glob \/ (\E m \in Model : ReadFile(m)) \/ Signal \/ Unlink \/ Done

Spec == Init /\ [][Next]_vars

-------------------------------------------------------------------------------
TypeOK ==
  /\ process \in [Pid -> {"unused", "running", "exited", "gone", "other"}]
  /\ model \in [Pid -> Model \cup {None}]
  /\ file \in [Model -> Pid \cup {None, Blank}]
  /\ pc \in [Gateway -> {"idle", "opening", "recording", "up", "stopping"}]
  /\ handle \in [Gateway -> Pid \cup {None}]
  /\ \A t \in Thread : stopper[t].pid \in Pid \cup {None}
  /\ \A t \in Thread : stopper[t].at \in {"none", "term", "wait", "wait again", "clear"}
  /\ \A g \in Gateway : pc[g] # "idle" => handle[g] # None
  /\ todo \subseteq Model /\ UNION {told, found, recorded, survived, orphaned, contested} \subseteq Pid

(* An engine that runs is, once recorded, named by the file of its model,  *)
(* so that litmoe stop reaches it, unless litmoe stop has signalled it, it *)
(* survived a stop, or somebody else had the file of this model when it    *)
(* started.                                                                *)
Tracked ==
  \A p \in recorded \ (told \cup survived \cup contested) :
    Running(p) => file[model[p]] = p

(* A file names a process that is gone only as long as a gateway has yet   *)
(* to stop its engine, or if the gateway was killed: an orderly stop       *)
(* leaves no number behind that another program may get.                   *)
LeftoversAreExpected ==
  \A m \in Model : file[m] \in Pid /\ Reaped(file[m])
    => file[m] \in orphaned \cup {handle[g] : g \in Gateway}

(* A litmoe stop that was not cut short has signalled every engine whose   *)
(* file it found, unless the engine ended by itself.                       *)
StopReachesAll ==
  cli.at = "done" => \A p \in found \ contested : Running(p) => p \in told

(* pid_dir's docstring (base.py:22-24): litmoe stop never touches a        *)
(* process that litmoe did not start.                                      *)
NeverTouchesOthers == ~struck
===============================================================================
