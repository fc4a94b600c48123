----------------------------- MODULE WarpInstall -----------------------------
(***************************************************************************)
(* install_model (litmoe/cli/warp_models.py) with the stage runner         *)
(* _run_warp_stage (litmoe/cli/install.py): several runs of the same       *)
(* install, their lock file, their signals, the process groups of the      *)
(* upstream download and conversion scripts, and the ledger of the shards  *)
(* that were downloaded.                                                   *)
(*                                                                         *)
(* A stage is a leader (the script) and at times a worker that handles one *)
(* shard.  Both stages download what is missing.                           *)
(***************************************************************************)
EXTENDS Naturals, FiniteSets, Functions

CONSTANTS
  Installer,    \* runs of litmoe install, each a process with a PID of its own
  Shard,
  Nobody,       \* no lock file, no shard
  Blank         \* a lock file that was opened and not yet written

ASSUME Names == Nobody \notin Installer \cup Shard /\ Blank \notin Installer \cup {Nobody}
ASSUME Finite == IsFiniteSet(Installer) /\ IsFiniteSet(Shard)

VARIABLES
  other,        \* the runs of another user, who may not signal the rest, nor they them
  pc, outcome,
  phase,        \* the stage a run is at
  copy,         \* the shards listed in the ledger that a run is about to rewrite
  lock,         \* what install.lock holds
  group,        \* the living processes of each run's stage
  doing,        \* the shard its worker handles
  exit,         \* how its leader ended
  ledger,       \* how often .download-state lists each shard
  have,         \* the shards that were downloaded to the end
  contested,    \* auxiliary: runs whose lock another may have overwritten or removed
  unseen,       \* auxiliary: <<i, j>> where i did not see j's stage when it looked
  disturbed     \* auxiliary: runs that found the ledger clean before another changed it

run == <<pc, outcome, phase, copy>>
stages == <<group, doing, exit>>
files == <<ledger, have, disturbed>>
vars == <<other, run, lock, stages, files, contested, unseen>>

Before == {"look", "look again", "prepare", "dedupe", "rewrite", "read lock"}
Locking == {"open lock", "write lock"}
Staging == {"start", "run", "terminate"}
Unlocking == {"unlock", "unlink", "leave"}
Ended == {"done", "dead"}

Living(i) == pc[i] \notin {"idle"} \cup Ended
Busy(i) == group[i] # {}
Lines == FoldFunction(+, 0, ledger)
Listed == {s \in Shard : ledger[s] > 0}
Fetched == have = Shard

Goto(i, p) == pc' = [pc EXCEPT ![i] = p]
End(i, o) == Goto(i, "done") /\ outcome' = [outcome EXCEPT ![i] = o]

(* A run that counts on what it read in the ledger; one that has looked.   *)
Counting(i) == pc[i] \in {"rewrite", "read lock"} \cup Locking \cup Staging
Looked(i) == Counting(i) \/ pc[i] \in {"prepare", "dedupe"}

(* What i writes in the ledger, the others did not reckon with; the stage  *)
(* it starts, those that have looked do not see.                           *)
WriteLedger(i, new) ==
  /\ ledger' = new
  /\ disturbed' = IF new = ledger THEN disturbed
                  ELSE disturbed \cup {j \in Installer \ {i} : Counting(j)}
Unnoticed(i) == unseen' = unseen \cup {<<j, i>> : j \in {k \in Installer \ {i} : Looked(k)}}

Init ==
  /\ other \in SUBSET Installer
  /\ pc = [i \in Installer |-> "idle"]
  /\ outcome = [i \in Installer |-> "none"]
  /\ phase = [i \in Installer |-> "fetch"]
  /\ copy = [i \in Installer |-> {}]
  /\ lock = Nobody
  /\ group = [i \in Installer |-> {}]
  /\ doing = [i \in Installer |-> Nobody]
  /\ exit = [i \in Installer |-> "none"]
  /\ ledger \in [Shard -> 0..2] /\ have = Listed
  /\ contested = {} /\ unseen = {} /\ disturbed = {}

Begin(i) ==
  /\ pc[i] = "idle"
  /\ Goto(i, "look")
  /\ UNCHANGED <<outcome, phase, copy, lock, stages, files, contested, unseen>>

(* A process counts if its command names a path of the plan and a script:  *)
(* the worker's does, the leader gets the paths in its environment and     *)
(* counts as the worker's ancestor.                                        *)
Seen == \E j \in Installer : "worker" \in group[j]

(* The command looks before it asks for a confirmation and before it       *)
(* installs the model.  Where ps fails, or /proc cannot be read, there are *)
(* no processes.                                                           *)
Look(i) ==
  /\ pc[i] \in {"look", "look again"}
  /\ \/ Seen /\ End(i, "refused") /\ UNCHANGED unseen
     \/ \E failed \in BOOLEAN :
          /\ ~Seen \/ failed
          /\ Goto(i, IF pc[i] = "look" THEN "look again" ELSE "prepare")
          /\ unseen' = {p \in unseen : p[1] # i} \cup {<<i, j>> : j \in {k \in Installer : Busy(k)}}
          /\ UNCHANGED outcome
  /\ UNCHANGED <<phase, copy, lock, stages, files, contested>>

(* The download is left out if its ledgers prove the source complete.  The *)
(* disk may be too small.                                                  *)
Prepare(i) ==
  /\ pc[i] = "prepare"
  /\ \/ End(i, "failed") /\ UNCHANGED phase
     \/ /\ Goto(i, "dedupe")
        /\ \E p \in {"fetch", "pipeline"} :
             (p = "pipeline" => Listed = Shard) /\ phase' = [phase EXCEPT ![i] = p]
        /\ UNCHANGED outcome
  /\ UNCHANGED <<copy, lock, stages, files, contested, unseen>>

(* A shard keeps all its lines in the ledger.                              *)
F_DedupeNothing(i) ==
  /\ pc[i] = "dedupe"
  /\ Goto(i, "read lock")
  /\ UNCHANGED <<outcome, phase, copy, lock, stages, files, contested, unseen>>

(* The ledger is read, ...                                                 *)
Dedupe(i) ==
  /\ pc[i] = "dedupe"
  /\ IF \E s \in Shard : ledger[s] > 1
       THEN Goto(i, "rewrite") /\ copy' = [copy EXCEPT ![i] = Listed]
       ELSE Goto(i, "read lock") /\ UNCHANGED copy
  /\ UNCHANGED <<outcome, phase, lock, stages, files, contested, unseen>>

(* ... and written if it lists a shard twice.                              *)
Rewrite(i) ==
  /\ pc[i] = "rewrite"
  /\ WriteLedger(i, [s \in Shard |-> IF s \in copy[i] THEN 1 ELSE 0])
  /\ copy' = [copy EXCEPT ![i] = {}]
  /\ Goto(i, "read lock")
  /\ UNCHANGED <<outcome, phase, lock, have, stages, contested, unseen>>

(* Between reading the lock and writing it, or removing it.                *)
Changing(i) == pc[i] \in Locking \cup {"unlink"}

(* os.kill answers for a process of another user as it does for none.      *)
Alive(i, j) == Living(j) /\ (i \in other <=> j \in other)

(* Auxiliary: who may lose the lock because i goes on.                     *)
Contend(i) ==
  LET others == {j \in Installer \ {i} : Changing(j) \/ (j = lock /\ Living(j) /\ ~Alive(i, j))}
  IN contested' = IF others = {} THEN contested ELSE contested \cup {i} \cup others

(* A lock is taken for stale whoever wrote it.                             *)
F_ReadLockIgnored(i) ==
  /\ pc[i] = "read lock"
  /\ Goto(i, "open lock") /\ Contend(i)
  /\ UNCHANGED <<outcome, phase, copy, lock, stages, files, unseen>>

ReadLock(i) ==
  /\ pc[i] = "read lock"
  /\ IF lock \in Installer /\ Alive(i, lock)
       THEN End(i, "refused") /\ UNCHANGED contested
       ELSE Goto(i, "open lock") /\ Contend(i) /\ UNCHANGED outcome
  /\ UNCHANGED <<phase, copy, lock, stages, files, unseen>>

(* open truncates the file, or is denied.                                  *)
OpenLock(i) ==
  /\ pc[i] = "open lock"
  /\ \/ lock' = Blank /\ Goto(i, "write lock") /\ UNCHANGED outcome
     \/ End(i, "failed") /\ UNCHANGED lock
  /\ UNCHANGED <<phase, copy, stages, files, contested, unseen>>

(* The disk may be full; what was written by then stays.                   *)
WriteLock(i) ==
  /\ pc[i] = "write lock"
  /\ \/ lock' = i /\ Goto(i, "start") /\ UNCHANGED outcome
     \/ lock' \in {lock, i} /\ End(i, "failed")
  /\ UNCHANGED <<phase, copy, stages, files, contested, unseen>>

(* Popen in a session of its own.                                          *)
Start(i) ==
  /\ pc[i] = "start"
  /\ group' = [group EXCEPT ![i] = {"leader"}]
  /\ exit' = [exit EXCEPT ![i] = "none"]
  /\ Goto(i, "run") /\ Unnoticed(i)
  /\ UNCHANGED <<outcome, phase, copy, lock, doing, files, contested>>

(* A directory or the process cannot be created.                           *)
StartFails(i) ==
  /\ pc[i] = "start"
  /\ Goto(i, "unlock")
  /\ outcome' = [outcome EXCEPT ![i] = "failed"]
  /\ UNCHANGED <<phase, copy, lock, stages, files, contested, unseen>>

(* The leader was reaped and its output has ended: no process holds it.    *)
StageEnds(i) ==
  /\ pc[i] = "run" /\ group[i] = {}
  /\ \/ /\ exit[i] # "ok"
        /\ Goto(i, "unlock")
        /\ outcome' = [outcome EXCEPT ![i] = "failed"]
        /\ UNCHANGED phase
     \/ /\ exit[i] = "ok" /\ phase[i] = "fetch"
        /\ Goto(i, "start")
        /\ phase' = [phase EXCEPT ![i] = "pipeline"]
        /\ UNCHANGED outcome
     \/ /\ exit[i] = "ok" /\ phase[i] = "pipeline"
        /\ Goto(i, "unlock") /\ UNCHANGED <<phase, outcome>>
  /\ UNCHANGED <<copy, lock, stages, files, contested, unseen>>

Interrupted(i) == outcome' = [outcome EXCEPT ![i] = "interrupted"]

(* A process that is created after the signal is nobody's.                 *)
F_SignalForgets(i) ==
  /\ pc[i] \in {"start", "run"}
  /\ IF pc[i] = "start"
       THEN /\ Goto(i, "unlock") /\ Unnoticed(i)
            /\ group' = [group EXCEPT ![i] = {"leader"}] /\ exit' = [exit EXCEPT ![i] = "none"]
       ELSE Goto(i, "terminate") /\ UNCHANGED <<group, exit, unseen>>
  /\ Interrupted(i)
  /\ UNCHANGED <<phase, copy, lock, doing, files, contested>>

(* SIGINT, SIGTERM or SIGHUP while a stage is created or runs.  One that   *)
(* comes before the process exists takes effect when it does.              *)
Signal(i) ==
  /\ \/ /\ pc[i] = "start" /\ Unnoticed(i)
        /\ group' = [group EXCEPT ![i] = {"leader"}]
        /\ exit' = [exit EXCEPT ![i] = "none"]
     \/ pc[i] = "run" /\ UNCHANGED <<group, exit, unseen>>
  /\ Goto(i, "terminate") /\ Interrupted(i)
  /\ UNCHANGED <<phase, copy, lock, doing, files, contested>>

(* The group is signalled and its leader waited for: a worker may outlast  *)
(* it, and is not signalled if the leader was reaped before.               *)
Terminate(i) ==
  /\ pc[i] = "terminate"
  /\ \E rest \in SUBSET (group[i] \ {"leader"}) :
       /\ group' = [group EXCEPT ![i] = rest]
       /\ doing' = [doing EXCEPT ![i] = IF rest = {} THEN Nobody ELSE @]
  /\ Goto(i, "unlock")
  /\ UNCHANGED <<outcome, phase, copy, lock, exit, files, contested, unseen>>

Unlock(i) ==
  /\ pc[i] = "unlock"
  /\ Goto(i, IF lock = i THEN "unlink" ELSE "leave")
  /\ UNCHANGED <<outcome, phase, copy, lock, stages, files, contested, unseen>>

Unlink(i) ==
  /\ pc[i] = "unlink"
  /\ lock' \in {Nobody, lock}
  /\ Goto(i, "leave")
  /\ UNCHANGED <<outcome, phase, copy, stages, files, contested, unseen>>

(* The container is validated after the lock was released.                 *)
Leave(i) ==
  /\ pc[i] = "leave"
  /\ \E verdict \in {"installed", "failed"} :
       End(i, IF outcome[i] = "none" THEN verdict ELSE outcome[i])
  /\ UNCHANGED <<phase, copy, lock, stages, files, contested, unseen>>

(* A run that ends while it writes the ledger may leave it empty.          *)
LeaveLedger(i) ==
  \/ UNCHANGED files
  \/ pc[i] = "rewrite" /\ WriteLedger(i, [s \in Shard |-> 0]) /\ UNCHANGED have

(* Ctrl-C outside a stage unwinds the run, from where the lock is guarded  *)
(* by its release.                                                         *)
Interrupt(i) ==
  /\ \/ pc[i] \in Before \cup Locking \cup Unlocking /\ Goto(i, "done")
     \/ pc[i] = "start" /\ Goto(i, "unlock")
  /\ Interrupted(i) /\ LeaveLedger(i)
  /\ UNCHANGED <<phase, copy, lock, stages, contested, unseen>>

(* SIGTERM and SIGHUP outside a stage, and SIGKILL at any time, unwind     *)
(* nothing.                                                                *)
Die(i) ==
  /\ Living(i)
  /\ Goto(i, "dead") /\ LeaveLedger(i)
  /\ UNCHANGED <<outcome, phase, copy, lock, stages, contested, unseen>>

(* The worker of a shard that the ledger does not list, and its end.       *)
Work(i) ==
  /\ group[i] = {"leader"}
  /\ \E s \in Shard \ Listed : doing' = [doing EXCEPT ![i] = s]
  /\ group' = [group EXCEPT ![i] = @ \cup {"worker"}]
  /\ UNCHANGED <<run, lock, exit, files, contested, unseen>>

Worked(i) ==
  /\ "worker" \in group[i]
  /\ group' = [group EXCEPT ![i] = @ \ {"worker"}]
  /\ doing' = [doing EXCEPT ![i] = Nobody]
  /\ \/ have' = have \cup {doing[i]} /\ WriteLedger(i, [ledger EXCEPT ![doing[i]] = @ + 1])
     \/ UNCHANGED files
  /\ UNCHANGED <<run, lock, exit, contested, unseen>>

(* The script ends: well only if its ledger has as many lines as there are *)
(* shards.                                                                 *)
LeaderExits(i) ==
  /\ "leader" \in group[i]
  /\ group' = [group EXCEPT ![i] = @ \ {"leader"}]
  /\ \E e \in {"ok", "error"} :
       /\ e = "ok" => Lines >= Cardinality(Shard) /\ "worker" \notin group[i]
       /\ exit' = [exit EXCEPT ![i] = e]
  /\ UNCHANGED <<run, lock, doing, files, contested, unseen>>

Step(i) ==
  \/ Begin(i) \/ Look(i) \/ Prepare(i) \/ Dedupe(i) \/ Rewrite(i)
  \/ ReadLock(i) \/ OpenLock(i) \/ WriteLock(i) \/ Start(i) \/ StartFails(i) \/ StageEnds(i)
  \/ Signal(i) \/ Terminate(i) \/ Unlock(i) \/ Unlink(i) \/ Leave(i) \/ Interrupt(i) \/ Die(i)
  \/ Work(i) \/ Worked(i) \/ LeaderExits(i)

Next == (\E i \in Installer : Step(i)) /\ UNCHANGED other
Spec == Init /\ [][Next]_vars

----------------------------------------------------------------------------
TypeOK ==
  /\ other \subseteq Installer
  /\ pc \in [Installer -> {"idle"} \cup Before \cup Locking \cup Staging \cup Unlocking \cup Ended]
  /\ outcome \in [Installer -> {"none", "refused", "failed", "interrupted", "installed"}]
  /\ phase \in [Installer -> {"fetch", "pipeline"}]
  /\ copy \in [Installer -> SUBSET Shard]
  /\ lock \in Installer \cup {Nobody, Blank}
  /\ group \in [Installer -> SUBSET {"leader", "worker"}]
  /\ doing \in [Installer -> Shard \cup {Nobody}]
  /\ exit \in [Installer -> {"none", "ok", "error"}]
  /\ ledger \in [Shard -> 0..Cardinality(Installer) + 1] /\ have \subseteq Shard
  /\ contested \cup disturbed \subseteq Installer /\ unseen \subseteq Installer \X Installer

Orphaned(i) == Busy(i) /\ pc[i] \notin {"run", "terminate"}

(* Two downloads or conversions write the same files at once only where    *)
(* two runs read or change the lock at the same time, a lock of another    *)
(* user's run is taken for stale, or the run of one stage is over and the  *)
(* other's had looked before that stage began or could not see it          *)
(* (warp_models.py:175-184, 220-243).                                      *)
OneStage ==
  \A i, j \in Installer : Busy(i) /\ Busy(j) /\ i # j =>
    \/ {i, j} \cap contested # {}
    \/ Orphaned(i) /\ <<j, i>> \in unseen
    \/ Orphaned(j) /\ <<i, j>> \in unseen

(* What README.md:150 and docs/ARCHITECTURE.md:87 say, that the second     *)
(* install is refused; the code does not keep it.                          *)
SecondIsRefused == \A i, j \in Installer : Busy(i) /\ Busy(j) => i = j

(* A run has the lock as long as it may have a stage, unless it shares it. *)
LockedWhileStaging == \A i \in Installer : pc[i] \in Staging /\ i \notin contested => lock = i

(* A run that ends leaves no script running, however it was interrupted,   *)
(* and a worker only if it was (install.py:236-273).                       *)
NothingLeftRunning ==
  \A i \in Installer : pc[i] \in Unlocking \cup {"done"} =>
    "leader" \notin group[i] /\ (Busy(i) => outcome[i] = "interrupted")

(* Counting the lines of a ledger that earlier runs wrote twice does not   *)
(* end an install with shards missing, if no other run writes it meanwhile *)
(* (warp_models.py:104-125).                                               *)
FinishedMeansFetched ==
  \A i \in Installer : outcome[i] = "installed" /\ i \notin disturbed => Fetched

===============================================================================
