----------------------------- MODULE InstallProofs -----------------------------
(***************************************************************************)
(* What the lock and the looks for other stages give, for any runs and     *)
(* shards, where they race, are interrupted and killed: two stages at once *)
(* have one of the causes that OneStage lists, and a run that nobody       *)
(* disturbed ends with every shard.                                        *)
(***************************************************************************)
EXTENDS WarpInstall, FiniteSetTheorems, WellFoundedInduction, TLAPS

(* Where a run has the lock, and where it has or is about to have it.      *)
Holding == Staging \cup {"unlock", "unlink"}
Critical == Locking \cup Holding

Positions == {"idle"} \cup Before \cup Locking \cup Staging \cup Unlocking \cup Ended
Outcomes == {"none", "refused", "failed", "interrupted", "installed"}

Functional ==
  /\ pc \in [Installer -> Positions]
  /\ outcome \in [Installer -> Outcomes]
  /\ copy \in [Installer -> SUBSET Shard]
  /\ group \in [Installer -> SUBSET {"leader", "worker"}]
  /\ doing \in [Installer -> Shard \cup {Nobody}]
  /\ exit \in [Installer -> {"none", "ok", "error"}]

(* The lock of a run that nobody contests names it, and no other run is    *)
(* between reading the lock and changing it, or could come there: where it *)
(* is not yet written, it names no other living run.                       *)
Undisputed(i) ==
  /\ pc[i] \in Critical => \A j \in Installer \ {i} : ~Changing(j)
  /\ pc[i] \in Holding => lock = i
  /\ pc[i] \in Locking => \A j \in Installer \ {i} : Living(j) => lock # j

Exclusive ==
  /\ \A i \in Installer \ contested : Undisputed(i)
  /\ lock \in Installer => pc[lock] \in Holding \cup {"leave"} \cup Ended

(* A run has a stage while it looks after it, and is without it when it    *)
(* leaves it, but for a worker after a signal.                             *)
Attended ==
  /\ NothingLeftRunning
  /\ \A i \in Installer : /\ Busy(i) => pc[i] \in {"run", "terminate"} \cup Unlocking \cup Ended
                          /\ pc[i] = "terminate" => outcome[i] = "interrupted"

(* A run that has looked did not see the stages there are.                 *)
Unaware == \A i, j \in Installer : i # j /\ Busy(i) /\ Looked(j) => <<j, i>> \in unseen

InstallInv == Functional /\ Exclusive /\ Attended /\ Unaware /\ OneStage

LEMMA InstallInit == Init => InstallInv
<1> SUFFICES ASSUME Init PROVE InstallInv
  OBVIOUS
<1> USE DEF Init
<1>1. Functional
  BY DEF Functional, Positions, Outcomes
<1>2. Exclusive
  BY Names DEF Exclusive, Undisputed, Critical, Holding, Locking, Staging
<1>3. Attended /\ Unaware /\ OneStage
  BY DEF Attended, NothingLeftRunning, Unlocking, Busy, Unaware, OneStage
<1> QED BY <1>1, <1>2, <1>3 DEF InstallInv

(* Each step is of a stage, which leaves the run alone, or moves the run   *)
(* to a place that follows.                                                *)
StageStep(i) == Work(i) \/ Worked(i) \/ LeaderExits(i)

(* What every step does to the other runs and the other runs' stages.      *)
LEMMA StepMoves ==
  ASSUME Functional, NEW i \in Installer, Step(i)
  PROVE  /\ Functional'
         /\ \A j \in Installer \ {i} :
              /\ pc'[j] = pc[j] /\ outcome'[j] = outcome[j] /\ copy'[j] = copy[j]
              /\ group'[j] = group[j] /\ doing'[j] = doing[j] /\ exit'[j] = exit[j]
<1> USE DEF Functional, Positions, Outcomes, Before, Locking, Staging, Unlocking, Ended, Goto, End,
        Interrupted, run, stages, Living
<1>1. CASE Begin(i) \/ Look(i) \/ Prepare(i)
  BY <1>1 DEF Begin, Look, Prepare
<1>2. CASE Dedupe(i)
  <2>1. /\ copy' \in {copy, [copy EXCEPT ![i] = Listed]} /\ UNCHANGED <<outcome, group, doing, exit>>
        /\ pc' \in {[pc EXCEPT ![i] = "rewrite"], [pc EXCEPT ![i] = "read lock"]}
    BY <1>2 DEF Dedupe
  <2>2. Listed \in SUBSET Shard
    BY DEF Listed
  <2>3. copy' \in [Installer -> SUBSET Shard] /\ \A j \in Installer \ {i} : copy'[j] = copy[j]
    BY <2>1, <2>2
  <2>4. pc' \in [Installer -> Positions] /\ \A j \in Installer \ {i} : pc'[j] = pc[j]
    BY <2>1
  <2> QED BY <2>1, <2>3, <2>4
<1>3. CASE Rewrite(i)
  BY <1>3 DEF Rewrite
<1>4. CASE ReadLock(i) \/ OpenLock(i) \/ WriteLock(i)
  BY <1>4 DEF ReadLock, OpenLock, WriteLock
<1>5. CASE Start(i)
  BY <1>5 DEF Start
<1>6. CASE StartFails(i)
  BY <1>6 DEF StartFails
<1>7. CASE StageEnds(i)
  BY <1>7 DEF StageEnds
<1>8. CASE Signal(i)
  <2>1. UNCHANGED <<copy, doing>> /\ pc' = [pc EXCEPT ![i] = "terminate"]
        /\ outcome' = [outcome EXCEPT ![i] = "interrupted"]
        /\ group' \in {group, [group EXCEPT ![i] = {"leader"}]} /\ exit' \in {exit, [exit EXCEPT ![i] = "none"]}
    BY <1>8 DEF Signal
  <2>2. group' \in [Installer -> SUBSET {"leader", "worker"}] /\ \A j \in Installer \ {i} : group'[j] = group[j]
    <3>1. {"leader"} \in SUBSET {"leader", "worker"}
      OBVIOUS
    <3>2. PICK g \in {group[i], {"leader"}} : group' = [group EXCEPT ![i] = g]
      <4>1. group = [group EXCEPT ![i] = group[i]]
        OBVIOUS
      <4> QED BY <2>1, <4>1
    <3> QED BY <3>1, <3>2
  <2>3. exit' \in [Installer -> {"none", "ok", "error"}] /\ \A j \in Installer \ {i} : exit'[j] = exit[j]
    BY <2>1
  <2> QED BY <2>1, <2>2, <2>3
<1>9. CASE Terminate(i)
  <2>1. PICK rest \in SUBSET (group[i] \ {"leader"}) :
          /\ group' = [group EXCEPT ![i] = rest]
          /\ doing' = [doing EXCEPT ![i] = IF rest = {} THEN Nobody ELSE doing[i]]
          /\ pc' = [pc EXCEPT ![i] = "unlock"] /\ UNCHANGED <<outcome, copy, exit>>
    BY <1>9 DEF Terminate
  <2>2. rest \in SUBSET {"leader", "worker"}
    BY <2>1
  <2> QED BY <2>1, <2>2
<1>10. CASE Unlock(i) \/ Unlink(i) \/ Leave(i)
  BY <1>10 DEF Unlock, Unlink, Leave
<1>11. CASE Interrupt(i) \/ Die(i)
  BY <1>11 DEF Interrupt, Die
<1>12. CASE Work(i)
  <2>1. PICK s \in Shard : doing' = [doing EXCEPT ![i] = s]
    BY <1>12 DEF Work
  <2>2. group' = [group EXCEPT ![i] = group[i] \cup {"worker"}] /\ UNCHANGED <<pc, outcome, copy, exit>>
    BY <1>12 DEF Work
  <2> QED BY <2>1, <2>2
<1>13. CASE Worked(i)
  <2>1. /\ group' = [group EXCEPT ![i] = group[i] \ {"worker"}] /\ doing' = [doing EXCEPT ![i] = Nobody]
        /\ UNCHANGED <<pc, outcome, copy, exit>>
    BY <1>13 DEF Worked
  <2> QED BY <2>1
<1>14. CASE LeaderExits(i)
  <2>1. PICK e \in {"ok", "error"} :
          /\ exit' = [exit EXCEPT ![i] = e] /\ group' = [group EXCEPT ![i] = group[i] \ {"leader"}]
          /\ UNCHANGED <<pc, outcome, copy, doing>>
    BY <1>14 DEF LeaderExits
  <2> QED BY <2>1
<1> QED
  BY <1>1, <1>2, <1>3, <1>4, <1>5, <1>6, <1>7, <1>8, <1>9, <1>10, <1>11, <1>12, <1>13, <1>14 DEF Step

(* A step of a run that does not come to read or write the lock.           *)
LEMMA LockLeft ==
  ASSUME Functional, Exclusive, NEW i \in Installer, Functional',
         \A j \in Installer \ {i} : pc'[j] = pc[j],
         UNCHANGED lock, contested \subseteq contested',
         pc'[i] \in Critical => (pc[i] \in Holding /\ pc'[i] \in Holding \ {"unlink"}) \/ pc'[i] = pc[i],
         pc[i] \in Holding \cup {"leave"} \cup Ended => pc'[i] \in Holding \cup {"leave"} \cup Ended,
         pc[i] \in Ended => pc'[i] \in Ended
  PROVE  Exclusive'
<1> USE DEF Critical, Holding, Locking, Staging, Ended
<1>1. lock' \in Installer => pc'[lock'] \in Holding \cup {"leave"} \cup Ended
  BY DEF Exclusive
<1>2. ASSUME NEW k \in Installer \ contested' PROVE Undisputed(k)'
  <2>1. Undisputed(k)
    BY <1>2 DEF Exclusive
  <2>2. CASE k = i
    <3>1. pc'[i] \in Critical => pc[i] \in Critical /\ (pc'[i] \in Holding <=> pc[i] \in Holding)
      OBVIOUS
    <3> QED BY <2>1, <2>2, <3>1 DEF Undisputed, Changing, Living
  <2>3. CASE k # i
    <3>1. pc'[k] = pc[k]
      BY <2>3
    <3>2. ASSUME NEW j \in Installer, Changing(j)' PROVE Changing(j)
      BY <3>2 DEF Changing
    <3>3. ASSUME lock = i, Living(i)' PROVE Living(i)
      <4>1. pc[i] \in Holding \cup {"leave"} \cup Ended /\ pc'[i] \notin Ended
        BY <3>3 DEF Living, Exclusive
      <4> QED BY <4>1 DEF Living
    <3> QED BY <2>1, <2>3, <3>1, <3>2, <3>3 DEF Undisputed, Living
  <2> QED BY <2>2, <2>3
<1> QED BY <1>1, <1>2 DEF Exclusive

(* A run that changes the lock is contested or alone in it.                *)
LEMMA LockWritten ==
  ASSUME Functional, Exclusive, NEW i \in Installer, Functional', Changing(i),
         \A j \in Installer \ {i} : pc'[j] = pc[j],
         UNCHANGED contested,
         i \notin contested => Undisputed(i)',
         lock' \in Installer => pc'[lock'] \in Holding \cup {"leave"} \cup Ended
  PROVE  Exclusive'
<1>1. ASSUME NEW k \in Installer \ contested' PROVE Undisputed(k)'
  <2>1. CASE k # i
    <3>1. pc'[k] = pc[k] /\ pc[k] \notin Critical
      BY <1>1, <2>1 DEF Exclusive, Undisputed
    <3> QED BY <3>1 DEF Undisputed, Critical
  <2> QED BY <1>1, <2>1
<1> QED BY <1>1 DEF Exclusive

(* Who goes on from reading the lock finds nobody there, or contests.      *)
LEMMA LockStep == ASSUME Functional, Exclusive, [Next]_vars PROVE Exclusive'
<1>1. CASE UNCHANGED vars
  BY <1>1 DEF vars, run, Exclusive, Undisputed, Changing, Living
<1>2. ASSUME NEW i \in Installer, Step(i) PROVE Exclusive'
  <2>0. Functional' /\ \A j \in Installer \ {i} : pc'[j] = pc[j]
    BY <1>2, StepMoves
  <2> USE DEF Functional, Positions, Critical, Holding, Before, Locking, Staging, Unlocking, Ended, Goto, End
  <2>1. CASE StageStep(i)
    <3>1. UNCHANGED <<pc, lock, contested>>
      BY <2>1 DEF StageStep, Work, Worked, LeaderExits, run
    <3> QED BY <2>0, <3>1, LockLeft
  <2>2. CASE Begin(i) \/ Look(i) \/ Prepare(i) \/ Dedupe(i) \/ Rewrite(i) \/ Leave(i) \/ Die(i)
    <3>1. UNCHANGED <<lock, contested>>
      BY <2>2 DEF Begin, Look, Prepare, Dedupe, Rewrite, Leave, Die
    <3>2. pc'[i] \notin Critical /\ (pc[i] \in Holding \cup {"leave"} \cup Ended => pc'[i] \in Ended)
      BY <2>2 DEF Begin, Look, Prepare, Dedupe, Rewrite, Leave, Die, Living
    <3> QED BY <2>0, <3>1, <3>2, LockLeft
  <2>3. CASE Start(i) \/ StartFails(i) \/ StageEnds(i) \/ Signal(i) \/ Terminate(i) \/ Interrupt(i)
    <3>1. UNCHANGED <<lock, contested>>
      BY <2>3 DEF Start, StartFails, StageEnds, Signal, Terminate, Interrupt
    <3>2. pc'[i] = "done" \/ (pc[i] \in Staging /\ pc'[i] \in Staging \cup {"unlock"})
      BY <2>3 DEF Start, StartFails, StageEnds, Signal, Terminate, Interrupt
    <3> QED BY <2>0, <3>1, <3>2, LockLeft
  <2>4. CASE ReadLock(i)
    <3>1. CASE lock \in Installer /\ Alive(i, lock)
      <4>1. UNCHANGED <<lock, contested>> /\ pc[i] = "read lock" /\ pc'[i] = "done"
        BY <2>4, <3>1 DEF ReadLock
      <4> QED BY <2>0, <4>1, LockLeft
    <3>2. CASE ~(lock \in Installer /\ Alive(i, lock))
      <4> DEFINE others == {j \in Installer \ {i} : Changing(j) \/ (j = lock /\ Living(j) /\ ~Alive(i, j))}
      <4>1. /\ pc[i] = "read lock" /\ pc'[i] = "open lock" /\ UNCHANGED lock
            /\ contested' = IF others = {} THEN contested ELSE contested \cup {i} \cup others
        BY <2>4, <3>2 DEF ReadLock, Contend
      <4>2. ASSUME others = {} PROVE \A j \in Installer \ {i} : ~Changing(j) /\ (Living(j) => lock # j)
        BY <3>2, <4>2
      <4>3. i \notin contested' => Undisputed(i)'
        <5>1. ASSUME i \notin contested' PROVE others = {}
          BY <4>1, <5>1
        <5> QED BY <2>0, <4>1, <4>2, <5>1 DEF Undisputed, Changing, Living
      <4>4. ASSUME NEW k \in Installer \ contested', k # i PROVE Undisputed(k)'
        <5>1. Undisputed(k) /\ k \notin others
          BY <4>1, <4>4 DEF Exclusive
        <5>2. pc[k] \notin Critical
          <6>1. pc[k] \notin Locking
            BY <4>4, <5>1 DEF Changing
          <6>2. pc[k] \in Holding => k = lock /\ Living(k) /\ ~Alive(i, k)
            BY <3>2, <5>1 DEF Undisputed, Living
          <6> QED BY <4>4, <5>1, <6>1, <6>2
        <5> QED BY <2>0, <4>4, <5>2 DEF Undisputed
      <4>5. lock' \in Installer => pc'[lock'] \in Holding \cup {"leave"} \cup Ended
        BY <2>0, <4>1 DEF Exclusive
      <4> QED BY <4>3, <4>4, <4>5 DEF Exclusive
    <3> QED BY <3>1, <3>2
  <2>5. CASE OpenLock(i)
    <3>1. UNCHANGED contested /\ Changing(i)
      BY <2>5 DEF OpenLock, Changing
    <3>2. CASE lock' = Blank /\ pc'[i] = "write lock"
      <4>1. lock' \notin Installer
        BY <3>2, Names
      <4>2. i \notin contested => Undisputed(i)'
        <5>1. ASSUME i \notin contested, NEW j \in Installer \ {i} PROVE ~Changing(j)
          BY <2>5, <5>1 DEF OpenLock, Exclusive, Undisputed
        <5> QED BY <2>0, <3>2, <4>1, <5>1 DEF Undisputed, Changing
      <4> QED BY <2>0, <3>1, <4>1, <4>2, LockWritten
    <3>3. CASE pc'[i] = "done" /\ UNCHANGED lock
      BY <2>0, <2>5, <3>1, <3>3, LockLeft DEF OpenLock
    <3> QED BY <2>5, <3>2, <3>3 DEF OpenLock
  <2>6. CASE WriteLock(i)
    <3>1. UNCHANGED contested /\ Changing(i) /\ pc[i] = "write lock"
      BY <2>6 DEF WriteLock, Changing
    <3>2. CASE lock' = i /\ pc'[i] \in {"start", "done"}
      <4>1. i \notin contested => Undisputed(i)'
        <5>1. ASSUME i \notin contested, NEW j \in Installer \ {i} PROVE ~Changing(j)
          BY <3>1, <5>1 DEF Exclusive, Undisputed
        <5> QED BY <2>0, <3>2, <5>1 DEF Undisputed, Changing
      <4> QED BY <2>0, <3>1, <3>2, <4>1, LockWritten
    <3>3. CASE pc'[i] = "done" /\ UNCHANGED lock
      BY <2>0, <3>1, <3>3, LockLeft
    <3> QED BY <2>6, <3>2, <3>3 DEF WriteLock
  <2>7. CASE Unlock(i)
    <3>1. UNCHANGED <<lock, contested>> /\ pc[i] = "unlock" /\ pc'[i] = IF lock = i THEN "unlink" ELSE "leave"
      BY <2>7 DEF Unlock
    <3>2. CASE lock # i
      BY <2>0, <3>1, <3>2, LockLeft
    <3>3. CASE lock = i
      <4>1. i \notin contested => Undisputed(i)'
        <5>1. ASSUME i \notin contested, NEW j \in Installer \ {i} PROVE ~Changing(j)
          BY <3>1, <5>1 DEF Exclusive, Undisputed
        <5> QED BY <2>0, <3>1, <3>3, <5>1 DEF Undisputed, Changing
      <4>2. ASSUME NEW k \in Installer \ contested, k # i PROVE pc[k] \notin Critical
        BY <3>1, <3>3, <4>2 DEF Exclusive, Undisputed, Living
      <4>3. ASSUME NEW k \in Installer \ contested, k # i PROVE Undisputed(k)'
        BY <2>0, <4>2, <4>3 DEF Undisputed
      <4> QED BY <2>0, <3>1, <3>3, <4>1, <4>3 DEF Exclusive
    <3> QED BY <3>2, <3>3
  <2>8. CASE Unlink(i)
    <3>1. UNCHANGED contested /\ Changing(i) /\ pc'[i] = "leave" /\ lock' \in {Nobody, lock}
      BY <2>8 DEF Unlink, Changing
    <3>2. lock' \in Installer => pc'[lock'] \in Holding \cup {"leave"} \cup Ended
      BY <2>0, <3>1, Names DEF Exclusive
    <3>3. Undisputed(i)'
      BY <3>1 DEF Undisputed
    <3> QED BY <2>0, <3>1, <3>2, <3>3, LockWritten
  <2> QED
    BY <1>2, <2>1, <2>2, <2>3, <2>4, <2>5, <2>6, <2>7, <2>8 DEF Step, StageStep
<1> QED  BY <1>1, <1>2 DEF Next

(* A run leaves its stage when nothing is left of it, or after a signal.   *)
LEMMA StageStays == ASSUME Functional, Attended, [Next]_vars PROVE Attended'
<1>1. CASE UNCHANGED vars
  BY <1>1 DEF vars, run, stages, Attended, NothingLeftRunning, Busy
<1>2. ASSUME NEW i \in Installer, Step(i) PROVE Attended'
  <2>0. Functional' /\ \A j \in Installer \ {i} :
                         pc'[j] = pc[j] /\ group'[j] = group[j] /\ outcome'[j] = outcome[j]
    BY <1>2, StepMoves
  <2> SUFFICES /\ group'[i] # {} => pc'[i] \in {"run", "terminate"} \cup Unlocking \cup Ended
               /\ pc'[i] = "terminate" => outcome'[i] = "interrupted"
               /\ pc'[i] \in Unlocking \cup {"done"} =>
                    "leader" \notin group'[i] /\ (group'[i] # {} => outcome'[i] = "interrupted")
    BY <2>0 DEF Attended, NothingLeftRunning, Busy
  <2> USE DEF Functional, Positions, Before, Locking, Staging, Unlocking, Ended, Goto, End, Interrupted
  <2>1. CASE StageStep(i)
    <3>1. UNCHANGED <<pc, outcome>> /\ Busy(i)
      BY <2>1 DEF StageStep, Work, Worked, LeaderExits, Busy, run
    <3>2. "leader" \in group'[i] => "leader" \in group[i]
      <4>1. PICK g \in {group[i] \cup {"worker"}, group[i] \ {"worker"}, group[i] \ {"leader"}} :
              group' = [group EXCEPT ![i] = g]
        BY <2>1 DEF StageStep, Work, Worked, LeaderExits
      <4>2. group'[i] = g
        BY <4>1
      <4> QED BY <4>1, <4>2
    <3> QED  BY <3>1, <3>2 DEF Attended, NothingLeftRunning
  <2>2. CASE Begin(i) \/ Look(i) \/ Prepare(i) \/ Dedupe(i) \/ Rewrite(i) \/ ReadLock(i) \/ OpenLock(i)
             \/ WriteLock(i) \/ StartFails(i)
    <3>1. UNCHANGED group /\ pc'[i] # "terminate" /\ pc[i] \in {"idle", "start"} \cup Before \cup Locking
      BY <2>2 DEF Begin, Look, Prepare, Dedupe, Rewrite, ReadLock, OpenLock, WriteLock, StartFails, stages
    <3>2. group'[i] = {}
      BY <3>1 DEF Attended, Busy
    <3> QED BY <3>1, <3>2
  <2>3. CASE Start(i)
    BY <2>3 DEF Start
  <2>4. CASE StageEnds(i)
    BY <2>4 DEF StageEnds, stages
  <2>5. CASE Signal(i)
    BY <2>5 DEF Signal
  <2>6. CASE Terminate(i)
    BY <2>6 DEF Terminate, Attended
  <2>7. CASE Unlock(i) \/ Unlink(i) \/ Leave(i)
    <3>1. /\ UNCHANGED group /\ pc[i] \in Unlocking /\ pc'[i] \in Unlocking \cup {"done"}
          /\ outcome[i] = "interrupted" => outcome'[i] = "interrupted"
      BY <2>7 DEF Unlock, Unlink, Leave, stages
    <3> QED BY <3>1 DEF Attended, NothingLeftRunning, Busy
  <2>8. CASE Interrupt(i)
    <3>1. UNCHANGED group /\ outcome'[i] = "interrupted" /\ pc'[i] \in {"done", "unlock"}
          /\ pc[i] \in {"start"} \cup Before \cup Locking \cup Unlocking
      BY <2>8 DEF Interrupt, stages
    <3> QED BY <3>1 DEF Attended, NothingLeftRunning, Busy
  <2>9. CASE Die(i)
    BY <2>9 DEF Die
  <2> QED BY <1>2, <2>1, <2>2, <2>3, <2>4, <2>5, <2>6, <2>7, <2>8, <2>9 DEF Step, StageStep
<1> QED  BY <1>1, <1>2 DEF Next

(* What becomes of stages and of the pairs of runs that missed each other. *)
LEMMA StageMoves ==
  ASSUME Functional, Attended, NEW i \in Installer, Step(i)
  PROVE  /\ Busy(i)' => Busy(i) \/ (pc[i] = "start" /\ pc'[i] \in {"run", "terminate"} /\ Unnoticed(i))
         /\ contested \subseteq contested'
         /\ \A p \in unseen : p \in unseen' \/ (p[1] = i /\ pc[i] \in {"look", "look again"})
         /\ Looked(i)' => Looked(i) \/ \A j \in Installer \ {i} : Busy(j) => <<i, j>> \in unseen'
         /\ Orphaned(i) /\ Busy(i)' => Orphaned(i)'
<1> USE DEF Functional, Positions, Before, Locking, Staging, Unlocking, Ended, Goto, End, Interrupted, Busy,
        Looked, Counting, Orphaned
<1>1. CASE StageStep(i)
  BY <1>1 DEF StageStep, Work, Worked, LeaderExits, run
<1>2. CASE Begin(i) \/ Prepare(i) \/ Dedupe(i) \/ Rewrite(i) \/ OpenLock(i) \/ WriteLock(i) \/ StartFails(i)
           \/ StageEnds(i) \/ Unlock(i) \/ Unlink(i) \/ Leave(i) \/ Interrupt(i) \/ Die(i)
  <2>1. UNCHANGED <<group, contested, unseen>>
    BY <1>2 DEF Begin, Prepare, Dedupe, Rewrite, OpenLock, WriteLock, StartFails, StageEnds, Unlock, Unlink, Leave,
           Interrupt, Die, stages
  <2>2. Looked(i)' => Looked(i)
    BY <1>2 DEF Begin, Prepare, Dedupe, Rewrite, OpenLock, WriteLock, StartFails, StageEnds, Unlock, Unlink, Leave,
           Interrupt, Die
  <2>3. Busy(i) /\ pc[i] \notin {"run", "terminate"} => pc'[i] \notin {"run", "terminate"}
    BY <1>2 DEF Begin, Prepare, Dedupe, Rewrite, OpenLock, WriteLock, StartFails, StageEnds, Unlock, Unlink, Leave,
           Interrupt, Die
  <2> QED BY <2>1, <2>2, <2>3
<1>3. CASE Look(i)
  <2>1. UNCHANGED <<group, contested>> /\ pc[i] \in {"look", "look again"}
    BY <1>3 DEF Look, stages
  <2>2. \A p \in unseen : p \in unseen' \/ p[1] = i
    BY <1>3 DEF Look
  <2>3. ASSUME Looked(i)', NEW j \in Installer \ {i}, Busy(j) PROVE <<i, j>> \in unseen'
    <3>1. pc'[i] \notin {"look", "look again", "done"}
      BY <2>3
    <3>2. unseen' = {p \in unseen : p[1] # i} \cup {<<i, k>> : k \in {l \in Installer : group[l] # {}}}
      BY <1>3, <3>1 DEF Look
    <3> QED BY <2>3, <3>2
  <2>4. ~Busy(i)
    BY <2>1 DEF Attended
  <2> QED BY <2>1, <2>2, <2>3, <2>4
<1>4. CASE ReadLock(i)
  BY <1>4 DEF ReadLock, Contend, stages
<1>5. CASE (Start(i) \/ Signal(i)) /\ pc[i] = "start"
  <2>1. Unnoticed(i) /\ UNCHANGED contested /\ pc[i] = "start" /\ pc'[i] \in {"run", "terminate"}
    BY <1>5 DEF Start, Signal, files
  <2>2. unseen \subseteq unseen' /\ Looked(i)
    BY <2>1 DEF Unnoticed
  <2>3. ~Busy(i)
    BY <2>1 DEF Attended
  <2> HIDE DEF Unnoticed, Looked, Busy
  <2> QED BY <2>1, <2>2, <2>3
<1>7. CASE Signal(i) /\ pc[i] = "run"
  BY <1>7 DEF Signal
<1>6. CASE Terminate(i)
  BY <1>6 DEF Terminate
<1>8. Start(i) \/ Signal(i) => pc[i] \in {"start", "run"} /\ (Start(i) => pc[i] = "start")
  BY DEF Start, Signal
<1> QED BY <1>1, <1>2, <1>3, <1>4, <1>5, <1>6, <1>7, <1>8 DEF Step, StageStep

(* A stage that begins was not seen by those that have looked, and its own *)
(* run saw no other; of two it holds the lock, or shares it.               *)
LEMMA SeenStep == ASSUME InstallInv, [Next]_vars PROVE Unaware' /\ OneStage'
<1>1. CASE UNCHANGED vars
  BY <1>1 DEF vars, run, stages, InstallInv, Unaware, OneStage, Orphaned, Busy, Looked, Counting
<1>2. ASSUME NEW i \in Installer, Step(i) PROVE Unaware' /\ OneStage'
  <2> USE DEF InstallInv
  <2>0. \A j \in Installer \ {i} : /\ pc'[j] = pc[j] /\ (Busy(j)' <=> Busy(j))
                                   /\ (Looked(j)' <=> Looked(j)) /\ (Orphaned(j)' <=> Orphaned(j))
    BY <1>2, StepMoves DEF Busy, Looked, Counting, Orphaned
  <2>1. /\ Busy(i)' => Busy(i) \/ (pc[i] = "start" /\ pc'[i] \in {"run", "terminate"} /\ Unnoticed(i))
        /\ contested \subseteq contested'
        /\ \A p \in unseen : p \in unseen' \/ (p[1] = i /\ pc[i] \in {"look", "look again"})
        /\ Looked(i)' => Looked(i) \/ \A j \in Installer \ {i} : Busy(j) => <<i, j>> \in unseen'
        /\ Orphaned(i) /\ Busy(i)' => Orphaned(i)'
    BY <1>2, StageMoves
  <2>2. pc[i] \in {"look", "look again"} => ~Busy(i) /\ ~Looked(i)
    BY DEF Attended, Looked, Counting, Before, Locking, Staging, Unlocking, Ended
  <2>3. ASSUME NEW j \in Installer \ {i}, Busy(j)', Looked(i)' PROVE <<i, j>> \in unseen'
    BY <2>0, <2>1, <2>2, <2>3 DEF Unaware
  <2>4. ASSUME NEW j \in Installer \ {i}, Busy(i)', Looked(j)' PROVE <<j, i>> \in unseen'
    <3>1. CASE Busy(i)
      BY <2>0, <2>1, <2>4, <3>1 DEF Unaware
    <3>2. CASE Unnoticed(i)
      BY <2>0, <2>4, <3>2 DEF Unnoticed
    <3> QED BY <2>1, <2>4, <3>1, <3>2
  <2>5. Unaware'
    BY <2>0, <2>1, <2>3, <2>4 DEF Unaware
  <2> DEFINE Caused(j, k) == \/ {j, k} \cap contested # {}
                             \/ Orphaned(j) /\ <<k, j>> \in unseen
                             \/ Orphaned(k) /\ <<j, k>> \in unseen
  <2>6. ASSUME NEW j \in Installer \ {i}, Busy(i)', Busy(j)' PROVE Caused(i, j)'
    <3>1. CASE Busy(i)
      <4>1. Caused(i, j)
        BY <2>0, <2>6, <3>1 DEF OneStage
      <4> QED BY <2>0, <2>1, <2>2, <2>6, <3>1, <4>1
    <3>2. CASE ~Busy(i)
      <4>1. pc[i] = "start" /\ Looked(i)
        BY <2>1, <2>6, <3>2 DEF Looked, Counting, Staging
      <4>2. <<i, j>> \in unseen'
        <5>1. <<i, j>> \in unseen
          BY <2>0, <2>6, <4>1 DEF Unaware
        <5> QED BY <2>1, <4>1, <5>1
      <4>3. CASE i \notin contested' /\ j \notin contested'
        <5>1. Undisputed(i) /\ Undisputed(j)
          BY <2>1, <4>3 DEF Exclusive
        <5>2. pc[j] \notin Holding
          BY <2>6, <4>1, <5>1 DEF Undisputed, Holding, Staging
        <5>3. Orphaned(j)
          BY <2>0, <2>6, <5>2 DEF Orphaned, Holding, Staging
        <5> QED BY <2>0, <4>2, <5>3
      <4> QED BY <4>3
    <3> QED BY <3>1, <3>2
  <2>7. ASSUME NEW j \in Installer \ {i}, NEW k \in Installer \ {i}, j # k, Busy(j)', Busy(k)'
        PROVE  Caused(j, k)'
    <3>1. Caused(j, k)
      BY <2>0, <2>7 DEF OneStage
    <3> QED BY <2>0, <2>1, <2>7, <3>1
  <2>8. \A j, k \in Installer : Caused(j, k)' => Caused(k, j)'
    OBVIOUS
  <2>9. \A j, k \in Installer : Busy(j)' /\ Busy(k)' /\ j # k => Caused(j, k)'
    BY <2>6, <2>7, <2>8
  <2>10. OneStage'
    BY <2>9 DEF OneStage
  <2> QED BY <2>5, <2>10
<1> QED  BY <1>1, <1>2 DEF Next

LEMMA FunctionalStep == ASSUME Functional, [Next]_vars PROVE Functional'
<1>1. CASE UNCHANGED vars
  BY <1>1 DEF vars, run, stages, Functional
<1> QED  BY <1>1, StepMoves DEF Next

(* The invariant of the lock and the stages.                               *)
THEOREM InstallSafe == Spec => []InstallInv
<1>1. InstallInv /\ [Next]_vars => InstallInv'
  BY FunctionalStep, LockStep, StageStays, SeenStep DEF InstallInv
<1> QED  BY <1>1, InstallInit, PTL DEF Spec

(* Two stages at a time have one of the causes that OneStage lists,        *)
(* whatever races, is killed or straggles.                                 *)
THEOREM StagesExclude == Spec => []OneStage
<1>1. InstallInv => OneStage
  BY DEF InstallInv
<1> QED  BY <1>1, InstallSafe, PTL

(* A run at a stage is the one the lock names, unless it is contested; two *)
(* living runs at their stages are not both uncontested.                   *)
THEOREM StageIsLocked ==
  Spec => [](LockedWhileStaging /\ \A i, j \in Installer \ contested : {pc[i], pc[j]} \subseteq Staging => i = j)
<1>1. InstallInv =>
        LockedWhileStaging /\ \A i, j \in Installer \ contested : {pc[i], pc[j]} \subseteq Staging => i = j
  BY DEF InstallInv, Exclusive, Undisputed, LockedWhileStaging, Holding
<1> QED  BY <1>1, InstallSafe, PTL

(* A run that ends leaves no script, and a worker only after a signal.     *)
THEOREM NoOrphans == Spec => []NothingLeftRunning
<1>1. InstallInv => NothingLeftRunning
  BY DEF InstallInv, Attended
<1> QED  BY <1>1, InstallSafe, PTL

----------------------------------------------------------------------------
(* Counting the lines of the ledger.  A statement about every set of       *)
(* shards is proved from its smallest counterexample: among natural        *)
(* numbers there is a least.                                               *)

LEMMA Least ==
  ASSUME NEW T \in SUBSET Nat, T # {}
  PROVE  \E x \in T : \A y \in T : x <= y
<1> DEFINE R == {ss \in Nat \X Nat : ss[1] < ss[2]}
<1>1. IsWellFoundedOn(R, Nat)
  BY NatLessThanWellFounded DEF OpToRel
<1> HIDE DEF R
<1>2. \E x \in T : \A y \in T : ~ (<<y, x>> \in R)
  BY <1>1, WFMin
<1>3. \A x, y \in T : ~ (<<y, x>> \in R) => x <= y
  BY DEF R
<1> QED BY <1>2, <1>3

(* The element a fold takes next.                                          *)
Pick(s) == CHOOSE x \in s : TRUE
LEMMA PickIn == \A s : s # {} => Pick(s) \in s
BY DEF Pick

(* g adds up f over each set in D, as the fold does.                       *)
Adds(g, f, D) == g = [s \in D |-> IF s = {} THEN 0 ELSE f[Pick(s)] + g[s \ {Pick(s)}]]

(* There is such a sum: for the sets of n elements once there is for those *)
(* of n - 1.                                                               *)
LEMMA SumExists ==
  ASSUME NEW S, IsFiniteSet(S), NEW f
  PROVE  \E g : Adds(g, f, SUBSET S)
<1> DEFINE Small(n) == {s \in SUBSET S : Cardinality(s) <= n}
           Bad == {n \in Nat : ~ \E g : Adds(g, f, Small(n))}
<1>0. \A s \in SUBSET S : IsFiniteSet(s) /\ Cardinality(s) \in Nat
  BY FS_Subset, FS_CardinalityType
<1>1. SUFFICES Bad = {}
  <2>1. Cardinality(S) \in Nat /\ Small(Cardinality(S)) = SUBSET S
    BY <1>0, FS_Subset
  <2> QED BY <1>1, <2>1
<1>2. SUFFICES ASSUME NEW n \in Bad, \A m \in Bad : n <= m PROVE FALSE
  BY Least
<1>3. CASE n = 0
  <2>1. Small(0) = {{}}
    BY <1>0, FS_EmptySet, <1>3
  <2> DEFINE g == [s \in {{}} |-> 0]
  <2>2. Adds(g, f, {{}})
    BY DEF Adds
  <2> QED BY <2>1, <2>2, <1>3
<1>4. CASE n # 0
  <2>1. PICK h : Adds(h, f, Small(n - 1))
    BY <1>2, <1>4
  <2> DEFINE g == [s \in Small(n) |-> IF s = {} THEN 0 ELSE f[Pick(s)] + h[s \ {Pick(s)}]]
  <2>2. \A s \in Small(n) : s # {} => s \ {Pick(s)} \in Small(n - 1)
    BY <1>0, PickIn, FS_RemoveElement
  <2>3. \A s \in Small(n - 1) : s \in Small(n) /\ g[s] = h[s]
    <3>1. \A s \in Small(n - 1) : s \in Small(n)
      BY <1>0
    <3>2. \A s \in Small(n - 1) : h[s] = IF s = {} THEN 0 ELSE f[Pick(s)] + h[s \ {Pick(s)}]
      <4> HIDE DEF Small
      <4> QED BY <2>1 DEF Adds
    <3> HIDE DEF Small
    <3> QED BY <3>1, <3>2
  <2>4. Adds(g, f, Small(n))
    <3>1. \A s \in Small(n) : g[s] = IF s = {} THEN 0 ELSE f[Pick(s)] + g[s \ {Pick(s)}]
      BY <2>2, <2>3
    <3> QED BY <3>1 DEF Adds
  <2> QED BY <2>4
<1> QED BY <1>3, <1>4

(* FoldFunction(+, 0, f) is the sum.                                       *)
LEMMA SumIs ==
  ASSUME NEW f, IsFiniteSet(DOMAIN f)
  PROVE  \E g : Adds(g, f, SUBSET DOMAIN f) /\ FoldFunction(+, 0, f) = g[DOMAIN f]
<1> DEFINE it == CHOOSE g : Adds(g, f, SUBSET DOMAIN f)
<1>1. Adds(it, f, SUBSET DOMAIN f)
  BY SumExists
<1>2. FoldFunction(+, 0, f) = it[DOMAIN f]
  BY DEF FoldFunction, MapThenFoldSet, FoldFunctionOnSet, Adds, Pick
<1> QED BY <1>1, <1>2

(* A sum of zeros and ones that is as large as their number has no zero.   *)
LEMMA SumOfBits ==
  ASSUME NEW S, IsFiniteSet(S), NEW f \in [S -> {0, 1}],
         NEW g, Adds(g, f, SUBSET S), g[S] >= Cardinality(S)
  PROVE  \A x \in S : f[x] = 1
<1>0. \A s \in SUBSET S : IsFiniteSet(s) /\ Cardinality(s) \in Nat
  BY FS_Subset, FS_CardinalityType
<1>2. \A s \in SUBSET S : g[s] = IF s = {} THEN 0 ELSE f[Pick(s)] + g[s \ {Pick(s)}]
  BY DEF Adds
<1> DEFINE Good(s) == /\ g[s] \in Nat /\ g[s] <= Cardinality(s)
                      /\ g[s] = Cardinality(s) => \A x \in s : f[x] = 1
           Bad == {s \in SUBSET S : ~ Good(s)}
<1>3. ASSUME NEW s \in Bad, \A r \in Bad : Cardinality(s) <= Cardinality(r) PROVE FALSE
  <2>1. CASE s = {}
    <3>1. g[{}] = 0 /\ Cardinality({}) = 0
      BY <1>2, FS_EmptySet
    <3> QED BY <1>3, <2>1, <3>1
  <2>2. CASE s # {}
    <3> DEFINE r == s \ {Pick(s)}
    <3>1. Pick(s) \in s /\ r \in SUBSET S /\ Cardinality(r) = Cardinality(s) - 1
      BY <1>0, <2>2, PickIn, FS_RemoveElement
    <3>2. Good(r)
      <4>1. Cardinality(r) < Cardinality(s)
        BY <1>0, <3>1
      <4>2. r \notin Bad
        BY <1>0, <1>3, <3>1, <4>1
      <4> QED BY <3>1, <4>2
    <3>3. g[s] = f[Pick(s)] + g[r] /\ f[Pick(s)] \in {0, 1}
      BY <1>2, <2>2, <3>1
    <3> QED BY <1>0, <1>3, <3>1, <3>2, <3>3
  <2> QED BY <2>1, <2>2
<1>4. Bad = {}
  <2> DEFINE Sizes == {Cardinality(s) : s \in Bad}
  <2>1. Sizes \in SUBSET Nat
    BY <1>0
  <2>2. ASSUME Sizes # {} PROVE FALSE
    <3> HIDE DEF Bad
    <3>1. PICK n \in Sizes : \A m \in Sizes : n <= m
      BY <2>1, <2>2, Least
    <3> QED BY <1>3, <3>1
  <2> QED BY <2>2
<1>5. Good(S)
  BY <1>4
<1> QED BY <1>0, <1>5

(* The lines of a ledger that lists nothing twice.                         *)
LEMMA LinesOfBits ==
  ASSUME NEW S, IsFiniteSet(S), NEW f \in [S -> {0, 1}], FoldFunction(+, 0, f) >= Cardinality(S)
  PROVE  \A x \in S : f[x] = 1
<1>1. DOMAIN f = S
  OBVIOUS
<1>2. PICK g : Adds(g, f, SUBSET S) /\ FoldFunction(+, 0, f) = g[S]
  BY <1>1, SumIs
<1>3. g[S] >= Cardinality(S)
  BY <1>2
<1> QED BY <1>2, <1>3, SumOfBits

----------------------------------------------------------------------------
(* What a run that nobody disturbed knows of the ledger: from when it read *)
(* or cleaned it, no shard is listed twice, nor the one its worker         *)
(* handles; so as many lines as shards are all the shards.                 *)

Clean == {"read lock"} \cup Locking \cup Staging

Shards(i) == copy[i] \subseteq have /\ ("worker" \in group[i] => doing[i] \in Shard)

Tidy(i) ==
  i \notin disturbed /\ pc[i] \in Clean =>
    ledger \in [Shard -> {0, 1}] /\ ("worker" \in group[i] => ledger[doing[i]] = 0)

Finishes(i) ==
  i \notin disturbed =>
    /\ pc[i] = "run" /\ exit[i] = "ok" => Fetched
    /\ pc[i] \in Unlocking /\ outcome[i] = "none" => Fetched
    /\ outcome[i] = "installed" => Fetched

FetchInv ==
  /\ ledger \in [Shard -> Nat] /\ Listed \subseteq have /\ have \subseteq Shard
  /\ \A i \in Installer : Shards(i) /\ Tidy(i) /\ Finishes(i)

LEMMA FetchInit == Init => FetchInv
<1> SUFFICES ASSUME Init PROVE FetchInv
  OBVIOUS
<1>1. ledger \in [Shard -> Nat] /\ Listed \subseteq have /\ have \subseteq Shard
  BY DEF Init, Listed
<1>2. \A i \in Installer : Shards(i) /\ Tidy(i) /\ Finishes(i)
  BY DEF Init, Shards, Tidy, Finishes, Clean, Locking, Staging, Unlocking
<1> QED BY <1>1, <1>2 DEF FetchInv

(* What another run's step leaves of that.                                 *)
LEMMA OthersKeep ==
  ASSUME FetchInv, NEW i \in Installer, NEW j \in Installer \ {i},
         /\ pc'[j] = pc[j] /\ outcome'[j] = outcome[j] /\ copy'[j] = copy[j]
         /\ group'[j] = group[j] /\ doing'[j] = doing[j] /\ exit'[j] = exit[j],
         have \subseteq have', have' \subseteq Shard, disturbed \subseteq disturbed',
         UNCHANGED ledger \/ (Counting(j) => j \in disturbed')
  PROVE  Shards(j)' /\ Tidy(j)' /\ Finishes(j)'
<1>1. Shards(j) /\ Tidy(j) /\ Finishes(j)
  BY DEF FetchInv
<1>2. Fetched => Fetched'
  BY DEF Fetched
<1>3. Shards(j)'
  BY <1>1 DEF Shards
<1>4. Tidy(j)'
  BY <1>1 DEF Tidy, Clean, Counting
<1>5. Finishes(j)'
  BY <1>1, <1>2 DEF Finishes
<1> QED BY <1>3, <1>4, <1>5

LEMMA FetchStep == ASSUME Functional, Attended, FetchInv, [Next]_vars PROVE FetchInv'
<1>1. CASE UNCHANGED vars
  <2>1. UNCHANGED <<run, stages, files>>
    BY <1>1 DEF vars
  <2> QED BY <2>1 DEF run, stages, files, FetchInv, Shards, Tidy, Finishes, Listed, Fetched
<1>2. ASSUME NEW i \in Installer, Step(i) PROVE FetchInv'
  <2>0. /\ Functional'
        /\ \A j \in Installer \ {i} :
             /\ pc'[j] = pc[j] /\ outcome'[j] = outcome[j] /\ copy'[j] = copy[j]
             /\ group'[j] = group[j] /\ doing'[j] = doing[j] /\ exit'[j] = exit[j]
    BY <1>2, StepMoves
  <2>1. /\ ledger \in [Shard -> Nat] /\ Listed \subseteq have /\ have \subseteq Shard
        /\ Shards(i) /\ Tidy(i) /\ Finishes(i)
    BY DEF FetchInv
  <2> DEFINE Own == Shards(i)' /\ Tidy(i)' /\ Finishes(i)'
  <2>2. ASSUME UNCHANGED files, Own PROVE FetchInv'
    <3>1. UNCHANGED <<ledger, have, disturbed>>
      BY <2>2 DEF files
    <3>2. \A j \in Installer \ {i} : Shards(j)' /\ Tidy(j)' /\ Finishes(j)'
      BY <2>0, <2>1, <3>1, OthersKeep
    <3> QED BY <2>1, <2>2, <3>1, <3>2 DEF FetchInv, Listed
  <2>3. ASSUME NEW new \in [Shard -> Nat], WriteLedger(i, new), {s \in Shard : new[s] > 0} \subseteq have',
               have \subseteq have', have' \subseteq Shard, Own
        PROVE  FetchInv'
    <3>1. ledger' = new /\ disturbed \subseteq disturbed'
      BY <2>3 DEF WriteLedger
    <3>2. \A j \in Installer \ {i} : UNCHANGED ledger \/ (Counting(j) => j \in disturbed')
      BY <2>3 DEF WriteLedger
    <3>3. \A j \in Installer \ {i} : Shards(j)' /\ Tidy(j)' /\ Finishes(j)'
      BY <2>0, <2>3, <3>1, <3>2, OthersKeep
    <3>4. Listed' \subseteq have'
      BY <2>3, <3>1 DEF Listed
    <3> QED BY <2>3, <3>1, <3>3, <3>4 DEF FetchInv
  <2> USE DEF Functional, Positions, Before, Locking, Staging, Unlocking, Ended, Goto, End, Interrupted, Clean
  <2>4. CASE Begin(i) \/ Look(i) \/ Prepare(i) \/ ReadLock(i) \/ OpenLock(i) \/ WriteLock(i) \/ Unlock(i) \/ Unlink(i)
    <3>1. UNCHANGED <<files, copy, group, doing, exit>>
      BY <2>4 DEF Begin, Look, Prepare, ReadLock, OpenLock, WriteLock, Unlock, Unlink, run, stages
    <3>2. /\ pc'[i] \in Clean => pc[i] \in Clean
          /\ pc'[i] # "run" /\ (pc'[i] \in Unlocking => pc[i] \in Unlocking)
          /\ outcome'[i] \in {outcome[i], "refused", "failed"}
      BY <2>4 DEF Begin, Look, Prepare, ReadLock, OpenLock, WriteLock, Unlock, Unlink
    <3>3. Own
      BY <2>1, <3>1, <3>2 DEF Shards, Tidy, Finishes, files, Fetched
    <3> QED BY <2>2, <3>1, <3>3
  <2>5. CASE Dedupe(i)
    <3>1. UNCHANGED <<files, group, doing, exit, outcome>> /\ pc[i] = "dedupe"
      BY <2>5 DEF Dedupe, stages
    <3>2. copy'[i] \subseteq have /\ pc'[i] \in {"rewrite", "read lock"}
      BY <2>1, <2>5 DEF Dedupe, Shards
    <3>3. pc'[i] = "read lock" => ledger \in [Shard -> {0, 1}]
      <4>1. pc'[i] = "read lock" => \A s \in Shard : ~(ledger[s] > 1)
        BY <2>5 DEF Dedupe
      <4>2. ASSUME pc'[i] = "read lock" PROVE \A s \in Shard : ledger[s] \in {0, 1}
        <5> HIDE DEF Functional
        <5>1. \A s \in Shard : ledger[s] \in Nat /\ ~(ledger[s] > 1)
          BY <2>1, <4>1, <4>2
        <5> QED BY <5>1
      <4> QED BY <2>1, <4>2
    <3>4. "worker" \notin group[i]
      BY <3>1 DEF Attended, Busy
    <3>5. Own
      BY <2>1, <3>1, <3>2, <3>3, <3>4 DEF Shards, Tidy, Finishes, files, Fetched
    <3> QED BY <2>2, <3>1, <3>5
  <2>6. CASE Rewrite(i)
    <3> DEFINE new == [s \in Shard |-> IF s \in copy[i] THEN 1 ELSE 0]
    <3>1. /\ UNCHANGED <<have, outcome, group, doing, exit>> /\ WriteLedger(i, new)
          /\ pc[i] = "rewrite" /\ pc'[i] = "read lock" /\ copy'[i] = {}
      BY <2>6 DEF Rewrite, stages
    <3>2. ledger' = new /\ new \in [Shard -> {0, 1}] /\ (disturbed \subseteq disturbed')
      BY <3>1 DEF WriteLedger
    <3>3. {s \in Shard : new[s] > 0} \subseteq have'
      <4> HIDE DEF Functional
      <4>1. \A s \in Shard : new[s] > 0 => s \in copy[i]
        OBVIOUS
      <4> QED BY <2>1, <3>1, <4>1 DEF Shards
    <3>4. "worker" \notin group[i]
      BY <3>1 DEF Attended, Busy
    <3>5. Own
      BY <2>1, <3>1, <3>2, <3>4 DEF Shards, Tidy, Finishes, Fetched
    <3>6. new \in [Shard -> Nat]
      OBVIOUS
    <3> QED BY <2>1, <2>3, <3>1, <3>3, <3>5, <3>6
  <2>7. CASE Start(i) \/ (Signal(i) /\ pc[i] = "start")
    <3>1. /\ UNCHANGED <<files, copy, doing>> /\ pc[i] = "start" /\ pc'[i] \in {"run", "terminate"}
          /\ group'[i] = {"leader"} /\ exit'[i] = "none" /\ outcome'[i] \in {outcome[i], "interrupted"}
      BY <2>7 DEF Start, Signal
    <3>2. Own
      BY <2>1, <3>1 DEF Shards, Tidy, Finishes, files, Fetched
    <3> QED BY <2>2, <3>1, <3>2
  <2>8. CASE StartFails(i) \/ StageEnds(i) \/ (Signal(i) /\ pc[i] = "run")
    <3>1. /\ UNCHANGED <<files, copy, group, doing, exit>> /\ pc[i] \in Clean /\ pc'[i] # "run"
      BY <2>8 DEF StartFails, StageEnds, Signal, stages
    <3>2. /\ outcome'[i] \in {outcome[i], "failed", "interrupted"}
          /\ pc'[i] \in Unlocking /\ outcome'[i] = "none" => pc[i] = "run" /\ exit[i] = "ok"
      BY <2>8 DEF StartFails, StageEnds, Signal
    <3>3. Own
      BY <2>1, <3>1, <3>2 DEF Shards, Tidy, Finishes, files, Fetched
    <3> QED BY <2>2, <3>1, <3>3
  <2>9. CASE Terminate(i)
    <3>1. UNCHANGED <<files, copy, exit, outcome>> /\ pc[i] = "terminate" /\ pc'[i] = "unlock"
      BY <2>9 DEF Terminate
    <3>2. outcome[i] = "interrupted"
      BY <3>1 DEF Attended
    <3>3. "worker" \in group'[i] => "worker" \in group[i] /\ doing'[i] = doing[i]
      <4>1. PICK rest \in SUBSET (group[i] \ {"leader"}) :
              /\ group' = [group EXCEPT ![i] = rest]
              /\ doing' = [doing EXCEPT ![i] = IF rest = {} THEN Nobody ELSE doing[i]]
        BY <2>9 DEF Terminate
      <4>2. group'[i] = rest
        BY <4>1
      <4>3. doing'[i] = IF rest = {} THEN Nobody ELSE doing[i]
        BY <4>1
      <4> QED BY <4>1, <4>2, <4>3
    <3>4. Own
      BY <2>1, <3>1, <3>2, <3>3 DEF Shards, Tidy, Finishes, files, Fetched
    <3> QED BY <2>2, <3>1, <3>4
  <2>10. CASE Leave(i)
    <3>1. UNCHANGED <<files, copy, group, doing, exit>> /\ pc[i] = "leave" /\ pc'[i] = "done"
      BY <2>10 DEF Leave, stages
    <3>2. outcome'[i] = "installed" => outcome[i] \in {"none", "installed"}
      BY <2>10 DEF Leave
    <3>3. Own
      BY <2>1, <3>1, <3>2 DEF Shards, Tidy, Finishes, files, Fetched
    <3> QED BY <2>2, <3>1, <3>3
  <2>11. CASE Interrupt(i) \/ Die(i)
    <3>1. UNCHANGED <<copy, group, doing, exit>> /\ LeaveLedger(i)
      BY <2>11 DEF Interrupt, Die, stages
    <3>2. /\ pc'[i] \in {"done", "dead", "unlock"} /\ (pc'[i] = "unlock" => outcome'[i] = "interrupted")
          /\ outcome'[i] \in {outcome[i], "interrupted"}
      BY <2>11 DEF Interrupt, Die
    <3>3. UNCHANGED have /\ disturbed \subseteq disturbed'
      BY <3>1 DEF LeaveLedger, WriteLedger, files
    <3>4. Own
      BY <2>1, <3>1, <3>2, <3>3 DEF Shards, Tidy, Finishes, Fetched
    <3>5. CASE UNCHANGED files
      BY <2>2, <3>4, <3>5
    <3>6. CASE WriteLedger(i, [s \in Shard |-> 0])
      <4> HIDE DEF Functional
      <4> DEFINE none == [s \in Shard |-> 0]
      <4>1. none \in [Shard -> Nat] /\ \A s \in Shard : ~(none[s] > 0)
        OBVIOUS
      <4>2. {s \in Shard : none[s] > 0} \subseteq have'
        BY <4>1
      <4> QED BY <2>1, <2>3, <3>3, <3>4, <3>6, <4>1, <4>2
    <3> QED BY <3>1, <3>5, <3>6 DEF LeaveLedger
  <2>12. CASE Work(i)
    <3>1. PICK s \in Shard \ Listed : doing' = [doing EXCEPT ![i] = s]
      BY <2>12 DEF Work
    <3>2. UNCHANGED <<files, pc, outcome, copy, exit>>
      BY <2>12 DEF Work, run
    <3>3. ledger[s] = 0
      <4> HIDE DEF Functional
      <4>1. ledger[s] \in Nat /\ ~(ledger[s] > 0)
        BY <2>1 DEF Listed
      <4> QED BY <4>1
    <3>5. doing'[i] = s
      BY <3>1
    <3>4. Own
      BY <2>1, <3>2, <3>3, <3>5 DEF Shards, Tidy, Finishes, files, Fetched
    <3> QED BY <2>2, <3>2, <3>4
  <2>13. CASE Worked(i)
    <3>1. /\ UNCHANGED <<pc, outcome, copy, exit>> /\ "worker" \in group[i] /\ "worker" \notin group'[i]
          /\ doing[i] \in Shard
      BY <2>1, <2>13 DEF Worked, run, Shards
    <3>2. CASE UNCHANGED files
      <4>1. Own
        BY <2>1, <3>1, <3>2 DEF Shards, Tidy, Finishes, files, Fetched
      <4> QED BY <2>2, <3>2, <4>1
    <3>3. CASE have' = have \cup {doing[i]} /\ WriteLedger(i, [ledger EXCEPT ![doing[i]] = @ + 1])
      <4> DEFINE new == [ledger EXCEPT ![doing[i]] = @ + 1]
      <4> HIDE DEF Functional
      <4>0. new = [s \in Shard |-> IF s = doing[i] THEN ledger[s] + 1 ELSE ledger[s]]
        BY <2>1
      <4>1. ledger' = new /\ new \in [Shard -> Nat] /\ disturbed \subseteq disturbed'
        <5>1. \A s \in Shard : ledger[s] \in Nat /\ ledger[s] + 1 \in Nat
          BY <2>1
        <5>2. new \in [Shard -> Nat]
          BY <4>0, <5>1
        <5>3. ledger' = new /\ disturbed \subseteq disturbed'
          BY <3>3 DEF WriteLedger
        <5> QED BY <5>2, <5>3
      <4>2. \A s \in Shard : s # doing[i] => new[s] = ledger[s]
        BY <4>0
      <4>3. {s \in Shard : new[s] > 0} \subseteq have'
        BY <2>1, <3>3, <4>2 DEF Listed
      <4>4. i \notin disturbed /\ pc[i] \in Clean => ledger' \in [Shard -> {0, 1}]
        <5>1. ASSUME i \notin disturbed, pc[i] \in Clean PROVE ledger' \in [Shard -> {0, 1}]
          <6>1. ledger \in [Shard -> {0, 1}] /\ ledger[doing[i]] = 0
            BY <2>1, <3>1, <5>1 DEF Tidy
          <6>2. \A s \in Shard : ledger[s] \in {0, 1} /\ (s = doing[i] => ledger[s] + 1 \in {0, 1})
            BY <6>1
          <6>3. new \in [Shard -> {0, 1}]
            BY <4>0, <6>2
          <6> QED BY <4>1, <6>3
        <5> QED BY <5>1
      <4>5. have \subseteq have' /\ have' \subseteq Shard /\ (Fetched => Fetched')
        BY <2>1, <3>1, <3>3 DEF Fetched
      <4>6. Own
        BY <2>1, <3>1, <4>1, <4>4, <4>5 DEF Shards, Tidy, Finishes
      <4> QED BY <2>3, <3>3, <4>1, <4>3, <4>5, <4>6
    <3> QED BY <2>13, <3>2, <3>3 DEF Worked
  <2>14. CASE LeaderExits(i)
    <3>1. UNCHANGED <<files, pc, outcome, copy, doing>> /\ ("worker" \in group'[i] => "worker" \in group[i])
      BY <2>14 DEF LeaderExits, run
    <3>2. exit'[i] = "ok" => Lines >= Cardinality(Shard)
      BY <2>14 DEF LeaderExits
    <3>3. i \notin disturbed /\ pc[i] = "run" /\ exit'[i] = "ok" => Fetched
      <4>1. ASSUME i \notin disturbed, pc[i] = "run", exit'[i] = "ok" PROVE Fetched
        <5> HIDE DEF Functional
        <5>1. ledger \in [Shard -> {0, 1}]
          BY <2>1, <4>1 DEF Tidy
        <5>2. Lines >= Cardinality(Shard) => \A s \in Shard : ledger[s] = 1
          BY <5>1, Finite, LinesOfBits DEF Lines
        <5>3. \A s \in Shard : ledger[s] > 0
          BY <3>2, <4>1, <5>2
        <5>4. Listed = Shard
          BY <5>3 DEF Listed
        <5> QED BY <2>1, <5>4 DEF Fetched
      <4> QED BY <4>1
    <3>4. Own
      BY <2>1, <3>1, <3>3 DEF Shards, Tidy, Finishes, files, Fetched
    <3> QED BY <2>2, <3>1, <3>4
  <2>15. Signal(i) => pc[i] \in {"start", "run"}
    BY DEF Signal
  <2> QED
    BY <1>2, <2>4, <2>5, <2>6, <2>7, <2>8, <2>9, <2>10, <2>11, <2>12, <2>13, <2>14, <2>15 DEF Step
<1> QED  BY <1>1, <1>2 DEF Next

(* An install that ends well has every shard, whatever earlier runs left   *)
(* in the ledger, unless another run wrote it after this one had read it.  *)
THEOREM InstalledIsFetched == Spec => []FinishedMeansFetched
<1>1. InstallInv /\ FetchInv /\ [Next]_vars => FetchInv'
  BY FetchStep DEF InstallInv
<1>2. FetchInv => FinishedMeansFetched
  BY DEF FetchInv, Finishes, FinishedMeansFetched
<1> QED  BY <1>1, <1>2, FetchInit, InstallSafe, PTL DEF Spec

=============================================================================
