---------------------------- MODULE RuntimeProofs ----------------------------
(***************************************************************************)
(* Theorems about Runtime, for every set of tasks, models and processes.   *)
(* The lock comes first: who holds it, who waits for it.  Everything else  *)
(* rests on the fact that one task at a time runs the code under it.       *)
(* Ownership of the engine follows: types, the state and the handle the    *)
(* runtime publishes, the leases; then what follows for the selection, a   *)
(* shutdown, the counters, the work in an engine, the abstract service.   *)
(***************************************************************************)
EXTENDS RuntimeProperties, SequencesExt, SequenceTheorems, FiniteSetTheorems, TLAPS

----------------------------------------------------------------------------
(* What Append, Tail and RemoveAt do to a queue that holds nobody twice,   *)
(* as asyncio.Lock's deque of waiters does.                                *)

(* t is somewhere in the queue w, and no task is in it twice.              *)
In(t, w) == \E i \in DOMAIN w : w[i] = t
NoneTwice(w) == \A i, j \in DOMAIN w : w[i] = w[j] => i = j

(* Append adds its task, and no other, at the end.                         *)
LEMMA AppendQueue ==
  ASSUME NEW S, NEW w \in Seq(S), NEW t \in S
  PROVE  /\ Append(w, t) \in Seq(S)
         /\ \A u : In(u, Append(w, t)) <=> In(u, w) \/ u = t
         /\ NoneTwice(w) /\ ~In(t, w) => NoneTwice(Append(w, t))
<1> DEFINE v == Append(w, t)
<1>1. /\ Len(w) \in Nat /\ DOMAIN w = 1..Len(w)
      /\ v \in Seq(S) /\ DOMAIN v = 1..(Len(w) + 1)
      /\ \A i \in 1..(Len(w) + 1) : v[i] = IF i <= Len(w) THEN w[i] ELSE t
  OBVIOUS
<1> HIDE DEF v
<1>2. ASSUME NEW u PROVE In(u, v) <=> In(u, w) \/ u = t
  <2>1. ASSUME In(u, v) PROVE In(u, w) \/ u = t
    BY <1>1, <2>1 DEF In
  <2>2. ASSUME In(u, w) PROVE In(u, v)
    BY <1>1, <2>2 DEF In
  <2>3. t = v[Len(w) + 1] /\ Len(w) + 1 \in DOMAIN v
    BY <1>1
  <2> QED BY <2>1, <2>2, <2>3 DEF In
<1>3. ASSUME NoneTwice(w), ~In(t, w) PROVE NoneTwice(v)
  BY <1>1, <1>3 DEF In, NoneTwice
<1> QED BY <1>1, <1>2, <1>3 DEF v

(* Tail removes the head, and no other task.                               *)
LEMMA TailQueue ==
  ASSUME NEW S, NEW w \in Seq(S), w # <<>>
  PROVE  /\ Tail(w) \in Seq(S)
         /\ Head(w) \in S
         /\ In(Head(w), w)
         /\ NoneTwice(w) => /\ NoneTwice(Tail(w))
                            /\ \A u : In(u, Tail(w)) <=> In(u, w) /\ u # Head(w)
<1>1. /\ Tail(w) \in Seq(S) /\ Head(w) \in S /\ Head(w) = w[1]
      /\ Len(w) \in Nat /\ Len(w) >= 1
      /\ DOMAIN w = 1..Len(w) /\ DOMAIN Tail(w) = 1..(Len(w) - 1)
      /\ \A i \in 1..(Len(w) - 1) : Tail(w)[i] = w[i+1]
  BY HeadTailProperties
<1>2. In(Head(w), w)
  BY <1>1 DEF In
<1>3. ASSUME NoneTwice(w) PROVE NoneTwice(Tail(w))
  BY <1>1, <1>3 DEF NoneTwice
<1>4. ASSUME NoneTwice(w), NEW u PROVE In(u, Tail(w)) <=> In(u, w) /\ u # Head(w)
  <2>1. ASSUME In(u, Tail(w)) PROVE In(u, w) /\ u # Head(w)
    BY <1>1, <1>4, <2>1 DEF In, NoneTwice
  <2>2. ASSUME In(u, w), u # Head(w) PROVE In(u, Tail(w))
    <3>1. PICK i \in DOMAIN w : w[i] = u
      BY <2>2 DEF In
    <3>2. i - 1 \in DOMAIN Tail(w) /\ Tail(w)[i-1] = u
      BY <1>1, <2>2, <3>1
    <3> QED BY <3>2 DEF In
  <2> QED BY <2>1, <2>2
<1> QED BY <1>1, <1>2, <1>3, <1>4

(* RemoveAt takes the task at a place out and moves the later ones up.     *)
LEMMA RemovedIs ==
  ASSUME NEW S, NEW w \in Seq(S), NEW k \in DOMAIN w
  PROVE  /\ RemoveAt(w, k) \in Seq(S) /\ Len(RemoveAt(w, k)) = Len(w) - 1
         /\ \A i \in 1..(Len(w)-1) : RemoveAt(w, k)[i] = IF i < k THEN w[i] ELSE w[i+1]
<1> DEFINE a == SubSeq(w, 1, k-1)
           b == SubSeq(w, k+1, Len(w))
           v == RemoveAt(w, k)
<1>1. /\ Len(w) \in Nat /\ DOMAIN w = 1..Len(w) /\ k \in 1..Len(w)
      /\ \A i \in 1..Len(w) : w[i] \in S
  OBVIOUS
<1>2. /\ a \in Seq(S) /\ Len(a) = k-1
      /\ \A i \in 1..(k-1) : a[i] = w[i]
  BY <1>1, SubSeqProperties
<1>3. /\ b \in Seq(S) /\ Len(b) = Len(w) - k
      /\ \A i \in 1..(Len(w)-k) : b[i] = w[k+i]
  BY <1>1, SubSeqProperties
<1>4. /\ v \in Seq(S) /\ Len(v) = Len(w) - 1
      /\ \A i \in 1..(Len(w)-1) : v[i] = IF i < k THEN w[i] ELSE w[i+1]
  <2> HIDE DEF a, b
  <2>1. /\ a \o b \in Seq(S)
        /\ Len(a \o b) = Len(a) + Len(b)
        /\ \A i \in 1..(Len(a) + Len(b)) : (a \o b)[i] = IF i <= Len(a) THEN a[i] ELSE b[i-Len(a)]
    BY <1>2, <1>3, ConcatProperties
  <2>2. v = a \o b
    BY DEF RemoveAt, a, b
  <2> HIDE DEF v
  <2>3. v \in Seq(S) /\ Len(v) = Len(w) - 1
    <3>1. v \in Seq(S) /\ Len(v) = Len(a) + Len(b)
      BY <2>1, <2>2, Zenon
    <3>2. Len(a) + Len(b) = Len(w) - 1
      BY <1>1, <1>2, <1>3
    <3> QED BY <3>1, <3>2, Zenon
  <2>4. ASSUME NEW i \in 1..(Len(w)-1)
        PROVE  v[i] = IF i < k THEN w[i] ELSE w[i+1]
    <3>1. CASE i < k
      <4>1. i \in 1..(Len(a) + Len(b)) /\ i <= Len(a) /\ i \in 1..(k-1)
        BY <1>1, <1>2, <1>3, <3>1
      <4> QED BY <1>2, <2>1, <2>2, <3>1, <4>1
    <3>2. CASE i >= k
      <4>1. /\ i \in 1..(Len(a) + Len(b)) /\ ~(i <= Len(a))
            /\ i - Len(a) \in 1..(Len(w)-k) /\ k + (i - Len(a)) = i + 1
        BY <1>1, <1>2, <1>3, <3>2
      <4>2. v[i] = b[i - Len(a)]
        BY <2>1, <2>2, <4>1
      <4>3. b[i - Len(a)] = w[i + 1]
        BY <1>3, <4>1
      <4> QED BY <1>1, <3>2, <4>2, <4>3
    <3> QED BY <1>1, <3>1, <3>2
  <2> QED BY <2>3, <2>4
<1> QED BY <1>4 DEF v

(* RemoveAt removes the task at that place, and no other.                  *)
LEMMA RemoveFromQueue ==
  ASSUME NEW S, NEW w \in Seq(S), NEW k \in DOMAIN w
  PROVE  /\ RemoveAt(w, k) \in Seq(S)
         /\ NoneTwice(w) => /\ NoneTwice(RemoveAt(w, k))
                            /\ \A u : In(u, RemoveAt(w, k)) <=> In(u, w) /\ u # w[k]
<1> DEFINE v == RemoveAt(w, k)
<1>1. Len(w) \in Nat /\ DOMAIN w = 1..Len(w) /\ k \in 1..Len(w)
  OBVIOUS
<1>4. /\ v \in Seq(S) /\ Len(v) = Len(w) - 1
      /\ \A i \in 1..(Len(w)-1) : v[i] = IF i < k THEN w[i] ELSE w[i+1]
  BY RemovedIs
<1> HIDE DEF v
<1>5. DOMAIN v = 1..(Len(w)-1)
  BY <1>4
<1>6. ASSUME NoneTwice(w) PROVE NoneTwice(v)
  <2> SUFFICES ASSUME NEW i \in 1..(Len(w)-1), NEW j \in 1..(Len(w)-1), v[i] = v[j]
               PROVE  i = j
    BY <1>5, Zenon DEF NoneTwice
  <2> DEFINE pos(x) == IF x < k THEN x ELSE x + 1
  <2>1. pos(i) \in 1..Len(w) /\ pos(j) \in 1..Len(w)
    BY <1>1
  <2>2. v[i] = w[pos(i)] /\ v[j] = w[pos(j)]
    BY <1>4
  <2>3. pos(i) = pos(j)
    BY <1>1, <1>6, <2>1, <2>2, Zenon DEF NoneTwice
  <2> QED BY <1>1, <2>3
<1>7. ASSUME NoneTwice(w), NEW u PROVE In(u, v) <=> In(u, w) /\ u # w[k]
  <2>1. ASSUME In(u, v) PROVE In(u, w) /\ u # w[k]
    <3>1. PICK i \in 1..(Len(w)-1) : v[i] = u
      BY <1>5, <2>1, Zenon DEF In
    <3> DEFINE pos == IF i < k THEN i ELSE i + 1
    <3>2. pos \in 1..Len(w) /\ pos # k
      BY <1>1
    <3>3. w[pos] = u
      BY <1>4, <3>1
    <3> QED BY <1>1, <1>7, <3>2, <3>3, Zenon DEF In, NoneTwice
  <2>2. ASSUME In(u, w), u # w[k] PROVE In(u, v)
    <3>1. PICK i \in DOMAIN w : w[i] = u
      BY <2>2 DEF In
    <3>2. CASE i < k
      BY <1>1, <1>4, <1>5, <3>1, <3>2 DEF In
    <3>3. CASE i > k
      <4>1. i-1 \in 1..(Len(w)-1) /\ v[i-1] = u
        BY <1>1, <1>4, <3>1, <3>3
      <4> QED BY <1>5, <4>1 DEF In
    <3> QED BY <1>1, <2>2, <3>1, <3>2, <3>3
  <2> QED BY <2>1, <2>2
<1> QED BY <1>4, <1>6, <1>7 DEF v

(* What is at a place after RemoveAt was there before, or at the next one. *)
LEMMA RemoveMoves ==
  ASSUME NEW S, NEW w \in Seq(S), NEW n \in DOMAIN w, NEW k \in DOMAIN RemoveAt(w, n)
  PROVE  \E m \in {k, k + 1} : m \in DOMAIN w /\ RemoveAt(w, n)[k] = w[m]
<1>1. /\ Len(w) \in Nat /\ DOMAIN w = 1..Len(w)
      /\ RemoveAt(w, n) \in Seq(S) /\ Len(RemoveAt(w, n)) = Len(w) - 1
      /\ \A i \in 1..(Len(w)-1) : RemoveAt(w, n)[i] = IF i < n THEN w[i] ELSE w[i+1]
  BY RemovedIs
<1>2. k \in 1..(Len(w)-1)
  BY <1>1
<1> QED BY <1>1, <1>2

----------------------------------------------------------------------------
(* The lock and its queue.                                                 *)

LockTypes ==
  /\ holder \in Task \cup {NoTask}
  /\ waiters \in Seq(Task)
  /\ pc \in [Task -> PCs]

LockInv == LockTypes /\ LockMatchesTasks

----------------------------------------------------------------------------
(* The ways in which a step of one task touches the lock.                  *)

LEMMA Queue ==
  LockInv <=> /\ LockTypes
              /\ \A t \in Task : pc[t] \in Holding <=> holder = t
              /\ \A t \in Task : pc[t] = "queued" <=> In(t, waiters)
              /\ NoneTwice(waiters)
BY DEF LockInv, LockMatchesTasks, In, NoneTwice

LEMMA HoldingTasks ==
  /\ "queued" \notin Holding
  /\ Holding \subseteq PCs
  /\ NoTask \notin Task
BY TasksDiffer DEF Holding, Starting, Leasing, Relaying, PCs

(* The task keeps the lock, or goes on without it.                         *)
LEMMA MovesOn ==
  ASSUME LockInv, NEW t \in Task, NEW l \in PCs,
         pc' = [pc EXCEPT ![t] = l],
         pc[t] \in Holding <=> l \in Holding,
         pc[t] = "queued" <=> l = "queued",
         UNCHANGED lockVars
  PROVE  LockInv'
BY Queue DEF LockTypes, lockVars, LockInv, LockMatchesTasks

LEMMA Releases ==
  ASSUME LockInv, NEW t \in Task, NEW l \in PCs \ (Holding \cup {"queued"}),
         pc' = [pc EXCEPT ![t] = l],
         pc[t] \in Holding,
         holder' = NoTask, UNCHANGED waiters
  PROVE  LockInv'
BY HoldingTasks DEF LockTypes, LockInv, LockMatchesTasks

LEMMA Enters ==
  ASSUME LockInv, NEW t \in Task, NEW l \in Holding,
         pc' = [pc EXCEPT ![t] = l],
         pc[t] # "queued",
         holder = NoTask, holder' = t, UNCHANGED waiters
  PROVE  LockInv'
BY HoldingTasks DEF LockTypes, LockInv, LockMatchesTasks

LEMMA Suspends ==
  ASSUME LockInv, NEW t \in Task,
         pc' = [pc EXCEPT ![t] = "queued"],
         pc[t] # "queued",
         holder' = IF holder = t THEN NoTask ELSE holder,
         waiters' = Append(waiters, t)
  PROVE  LockInv'
<1>1. LockTypes' /\ NoneTwice(waiters)' /\ \A u \in Task : In(u, waiters)' <=> In(u, waiters) \/ u = t
  <2>1. waiters \in Seq(Task) /\ ~In(t, waiters) /\ NoneTwice(waiters)
    BY Queue DEF LockTypes
  <2>2. /\ Append(waiters, t) \in Seq(Task)
        /\ NoneTwice(Append(waiters, t))
        /\ \A u \in Task : In(u, Append(waiters, t)) <=> In(u, waiters) \/ u = t
    BY <2>1, AppendQueue
  <2>3. LockTypes'
    BY <2>2 DEF LockTypes, LockInv, PCs, Queueing
  <2> QED BY <2>2, <2>3 DEF In, NoneTwice
<1>2. \A u \in Task : pc'[u] \in Holding <=> holder' = u
  BY HoldingTasks DEF LockTypes, LockInv, LockMatchesTasks
<1>3. \A u \in Task : pc'[u] = "queued" <=> In(u, waiters)'
  BY <1>1, Queue DEF LockTypes
<1> QED BY <1>1, <1>2, <1>3 DEF LockInv, LockMatchesTasks, In, NoneTwice

(* The first waiter takes the lock, or goes on without it.                 *)
LEMMA Resumes ==
  ASSUME LockInv, NEW t \in Task, NEW l \in PCs \ {"queued"},
         pc' = [pc EXCEPT ![t] = l],
         pc[t] = "queued", IsNext(t),
         waiters' = Tail(waiters),
         holder' = IF l \in Holding THEN t ELSE NoTask
  PROVE  LockInv'
<1>1. LockTypes' /\ NoneTwice(waiters)' /\ \A u \in Task : In(u, waiters)' <=> In(u, waiters) /\ u # t
  <2>1. waiters \in Seq(Task) /\ waiters # <<>> /\ Head(waiters) = t /\ NoneTwice(waiters)
    BY Queue DEF LockTypes, IsNext
  <2>2. /\ Tail(waiters) \in Seq(Task)
        /\ NoneTwice(Tail(waiters))
        /\ \A u \in Task : In(u, Tail(waiters)) <=> In(u, waiters) /\ u # t
    BY <2>1, TailQueue
  <2>3. LockTypes'
    BY <2>2 DEF LockTypes, LockInv
  <2> QED BY <2>2, <2>3 DEF In, NoneTwice
<1>2. \A u \in Task : pc'[u] \in Holding <=> holder' = u
  BY HoldingTasks DEF LockTypes, LockInv, LockMatchesTasks, IsNext, Locked
<1>3. \A u \in Task : pc'[u] = "queued" <=> In(u, waiters)'
  BY <1>1, Queue DEF LockTypes
<1> QED BY <1>1, <1>2, <1>3 DEF LockInv, LockMatchesTasks, In, NoneTwice

(* A waiter leaves the queue wherever it stands.                           *)
LEMMA GivesUp ==
  ASSUME LockInv, NEW t \in Task, NEW l \in PCs \ (Holding \cup {"queued"}),
         pc' = [pc EXCEPT ![t] = l],
         pc[t] = "queued", Dequeue(t)
  PROVE  LockInv'
<1>1. LockTypes' /\ NoneTwice(waiters)' /\ \A u \in Task : In(u, waiters)' <=> In(u, waiters) /\ u # t
  <2>1. PICK k \in DOMAIN waiters : waiters[k] = t /\ waiters' = RemoveAt(waiters, k)
    BY DEF Dequeue
  <2>2. waiters \in Seq(Task) /\ NoneTwice(waiters)
    BY Queue DEF LockTypes
  <2>3. /\ RemoveAt(waiters, k) \in Seq(Task)
        /\ NoneTwice(RemoveAt(waiters, k))
        /\ \A u \in Task : In(u, RemoveAt(waiters, k)) <=> In(u, waiters) /\ u # t
    BY <2>1, <2>2, RemoveFromQueue
  <2>4. LockTypes'
    BY <2>1, <2>3 DEF LockTypes, LockInv, Dequeue
  <2> QED BY <2>1, <2>3, <2>4 DEF In, NoneTwice
<1>2. \A u \in Task : pc'[u] \in Holding <=> holder' = u
  BY HoldingTasks DEF LockTypes, LockInv, LockMatchesTasks, Dequeue
<1>3. \A u \in Task : pc'[u] = "queued" <=> In(u, waiters)'
  BY <1>1, Queue DEF LockTypes
<1> QED BY <1>1, <1>2, <1>3 DEF LockInv, LockMatchesTasks, In, NoneTwice

----------------------------------------------------------------------------
(* Every action touches the lock in one of these ways.                     *)

LEMMA LockInit == Init => LockInv
BY TasksDiffer, HoldingTasks
   DEF Init, LockInv, LockTypes, LockMatchesTasks, Task, PCs, Holding, Starting, Leasing, Relaying

(* A refused request had a place in the queue, the lock, or neither.       *)
LEMMA RefuseKeepsLock ==
  ASSUME LockInv, NEW r \in Request, NEW st, Refuse(r, st), UNCHANGED waiters,
         pc[r] # "queued"
  PROVE  LockInv'
<1>1. r \in Task /\ "idle" \in PCs \ (Holding \cup {"queued"})
  BY DEF Task, PCs, Holding, Starting, Leasing, Relaying
<1>2. CASE pc[r] \in Holding
  BY <1>1, <1>2, Releases DEF Refuse, Goto, LockInv, LockMatchesTasks
<1>3. CASE pc[r] \notin Holding
  <2>1. holder # r
    BY <1>1, <1>3 DEF LockInv, LockMatchesTasks
  <2> QED BY <1>1, <1>3, <2>1, MovesOn DEF Refuse, Goto, lockVars
<1> QED BY <1>2, <1>3

LEMMA EndSwitchKeepsLock ==
  ASSUME LockInv, NEW s \in SwitchTask, NEW st, NEW sw, EndSwitch(s, st, sw),
         UNCHANGED waiters, pc[s] # "queued"
  PROVE  LockInv'
<1>1. s \in Task /\ {"idle", "done"} \subseteq PCs \ (Holding \cup {"queued"})
  BY DEF Task, SwitchTask, PCs, Holding, Starting, Leasing, Relaying
<1> DEFINE l == IF s = Startup THEN "done" ELSE "idle"
<1>2. l \in PCs \ (Holding \cup {"queued"}) /\ pc' = [pc EXCEPT ![s] = l]
  BY <1>1 DEF EndSwitch, Goto
<1> HIDE DEF l
<1>3. CASE pc[s] \in Holding
  BY <1>1, <1>2, <1>3, Releases DEF EndSwitch, LockInv, LockMatchesTasks
<1>4. CASE pc[s] \notin Holding
  <2>1. holder # s
    BY <1>1, <1>4 DEF LockInv, LockMatchesTasks
  <2> QED BY <1>1, <1>2, <1>4, <2>1, MovesOn DEF EndSwitch, lockVars
<1> QED BY <1>3, <1>4

LEMMA UnwindKeepsLock ==
  ASSUME LockInv, NEW t \in Request \cup SwitchTask, Unwind(t), pc[t] # "queued"
  PROVE  LockInv'
BY RefuseKeepsLock, EndSwitchKeepsLock DEF Unwind

LEMMA StartStepKeepsLock ==
  ASSUME LockInv, NEW t \in Request \cup SwitchTask, StartStep(t)
  PROVE  LockInv'
<1> USE DEF PCs, Holding, Starting
<1>0. t \in Task
  BY DEF Task, SwitchTask
<1>1. CASE Popen(t)
  BY <1>1 DEF Popen, taskVars, lockVars, LockInv, LockTypes, LockMatchesTasks
<1>2. CASE EngineStarted(t)
  <2> DEFINE l == IF pc[t] = "spawning" THEN "readying" ELSE "reaping"
  <2>1. pc' = [pc EXCEPT ![t] = l] /\ l \in Starting /\ pc[t] \in Starting /\ UNCHANGED lockVars
    BY <1>2 DEF EngineStarted, Goto
  <2> HIDE DEF l
  <2> QED BY <1>0, <2>1, MovesOn
<1>3. CASE StartRaises(t)
  BY <1>3, UnwindKeepsLock DEF StartRaises
<1>4. CASE EngineReady(t)
  <2>1. CASE t \in Request
    <3>1. t # Startup /\ t \notin Switcher
      BY <2>1, TasksDiffer
    <3>2. pc' = [pc EXCEPT ![t] = "loaded"] /\ pc[t] = "readying" /\ UNCHANGED lockVars
      BY <1>4, <3>1 DEF EngineReady, Goto
    <3> QED BY <1>0, <3>2, MovesOn
  <2>2. CASE t \in Switcher
    <3>1. t # Startup /\ t \notin Request
      BY <2>2, TasksDiffer
    <3>2. EndSwitch(t, "ready", switching) /\ pc[t] = "readying" /\ UNCHANGED waiters
      BY <1>4, <3>1 DEF EngineReady
    <3> QED BY <2>2, <3>2, EndSwitchKeepsLock DEF SwitchTask
  <2>3. CASE t = Startup
    <3>1. t \notin Request /\ t \notin Switcher
      BY <2>3, TasksDiffer
    <3>2. pc[t] = "readying" /\ holder = t
      BY <1>0, <1>4 DEF EngineReady, LockInv, LockMatchesTasks
    <3>3. CASE /\ waiters' = Append(waiters, t)
               /\ holder' = NoTask
               /\ Goto(t, "queued")
      BY <1>0, <3>2, <3>3, Suspends DEF Goto
    <3>4. CASE Goto(t, "warming") /\ UNCHANGED lockVars
      BY <1>0, <3>2, <3>4, MovesOn DEF Goto
    <3>5. CASE holder' = NoTask /\ Goto(t, "done") /\ UNCHANGED waiters
      BY <1>0, <3>2, <3>5, Releases, HoldingTasks DEF Goto, Leasing, Relaying
    <3> QED BY <1>4, <3>1, <3>3, <3>4, <3>5 DEF EngineReady
  <2> QED BY <2>1, <2>2, <2>3 DEF SwitchTask
<1>5. CASE EngineNotReady(t)
  BY <1>0, <1>5, MovesOn DEF EngineNotReady, Goto
<1>6. CASE CancelStart(t)
  BY <1>0, <1>6, MovesOn DEF CancelStart, Goto
<1>7. CASE AbortStart(t)
  BY <1>7, UnwindKeepsLock DEF AbortStart
<1>8. CASE AbortFails(t)
  BY <1>8, UnwindKeepsLock DEF AbortFails
<1> QED BY <1>1, <1>2, <1>3, <1>4, <1>5, <1>6, <1>7, <1>8 DEF StartStep

LEMMA AcquireStepKeepsLock ==
  ASSUME LockInv, NEW r \in Request, AcquireStep(r)
  PROVE  LockInv'
<1> USE DEF PCs, Holding, Starting, Queueing
<1>0. r \in Task
  BY DEF Task
<1>1. CASE TakeLock(r)
  <2>1. CASE pc[r] = "reserved" /\ LockIsFree /\ holder' = r /\ Goto(r, "admitted") /\ UNCHANGED waiters
    BY <1>0, <2>1, Enters DEF Goto, LockIsFree, Locked
  <2>2. CASE pc[r] = "reserved" /\ Enqueue(r) /\ Goto(r, "queued")
    <3>1. holder # r
      BY <1>0, <2>2, HoldingTasks DEF LockInv, LockMatchesTasks, Leasing, Relaying
    <3> QED BY <1>0, <2>2, <3>1, Suspends DEF Goto, Enqueue
  <2>3. CASE pc[r] = "queued" /\ IsNext(r) /\ holder' = r /\ waiters' = Tail(waiters) /\ Goto(r, "admitted")
    BY <1>0, <2>3, Resumes DEF Goto
  <2> QED BY <1>1, <2>1, <2>2, <2>3 DEF TakeLock
<1>2. CASE LeaveQueue(r)
  <2>1. CASE pc[r] = "reserved" /\ UNCHANGED waiters
    BY <1>2, <2>1, RefuseKeepsLock DEF LeaveQueue
  <2>2. CASE pc[r] = "queued" /\ Dequeue(r)
    <3>1. "idle" \in PCs \ (Holding \cup {"queued"})
      BY DEF Leasing, Relaying
    <3> QED BY <1>0, <1>2, <2>2, <3>1, GivesUp DEF LeaveQueue, Refuse, Goto
  <2> QED BY <1>2, <2>1, <2>2 DEF LeaveQueue
<1>3. CASE Recheck(r)
  <2>1. CASE Goto(r, "probing") /\ UNCHANGED <<runtimeVars, holder, target, lease>>
    BY <1>0, <1>3, <2>1, MovesOn DEF Recheck, Goto, lockVars
  <2>2. CASE Refuse(r, state)
    BY <1>3, <2>2, RefuseKeepsLock DEF Recheck
  <2> QED BY <1>3, <2>1, <2>2 DEF Recheck
<1>4. CASE FoundDisconnected(r)
  BY <1>4, RefuseKeepsLock DEF FoundDisconnected
<1>5. CASE Reload(r)
  BY <1>0, <1>5, MovesOn DEF Reload, BeginStart, Goto
<1>6. CASE Grant(r)
  <2>1. CASE Goto(r, "leased") /\ UNCHANGED holder
    BY <1>0, <1>6, <2>1, MovesOn DEF Grant, Goto, lockVars, Leasing
  <2>2. CASE Refuse(r, Refreshed(state))
    BY <1>6, <2>2, RefuseKeepsLock DEF Grant
  <2> QED BY <1>6, <2>1, <2>2 DEF Grant
<1> QED BY <1>1, <1>2, <1>3, <1>4, <1>5, <1>6 DEF AcquireStep

(* A lease is closed by moving on under the lock or by releasing it.       *)
LEMMA ReleaseLeaseKeepsLock ==
  ASSUME LockInv, NEW r \in Request, ReleaseLease(r), pc[r] \in Leasing, UNCHANGED waiters
  PROVE  LockInv'
<1>1. /\ r \in Task /\ pc[r] \in Holding
      /\ "idle" \in PCs \ (Holding \cup {"queued"})
  BY DEF Task, PCs, Holding, Starting, Leasing, Relaying
<1> QED BY <1>1, Releases DEF ReleaseLease, Goto

LEMMA CloseLeaseKeepsLock ==
  ASSUME LockInv, NEW r \in Request, NEW reset, CloseLease(r, reset), pc[r] \in Leasing
  PROVE  LockInv'
<1>1. CASE ReleaseLease(r)
  BY <1>1, ReleaseLeaseKeepsLock DEF CloseLease
<1>2. ASSUME NEW l \in {"quiescing", "resetting"}, Goto(r, l), UNCHANGED holder
      PROVE  LockInv'
  <2>1. r \in Task /\ pc[r] \in Holding /\ l \in Holding /\ l \in PCs
    BY DEF Task, PCs, Holding, Leasing
  <2>2. pc[r] # "queued" /\ l # "queued"
    BY <2>1, HoldingTasks
  <2> QED BY <1>2, <2>1, <2>2, MovesOn DEF CloseLease, Goto, lockVars
<1> QED BY <1>1, <1>2 DEF CloseLease

LEMMA LeaseStepKeepsLock ==
  ASSUME LockInv, NEW r \in Request, LeaseStep(r)
  PROVE  LockInv'
<1> USE DEF Leasing, Relaying
<1>0. r \in Task
  BY DEF Task
<1>1. CASE Forward(r)
  BY <1>0, <1>1, MovesOn DEF Forward, Goto, PCs, Holding
<1>2. CASE Estimate(r)
  BY <1>2, CloseLeaseKeepsLock DEF Estimate
<1>3. CASE ForwardFails(r)
  BY <1>3, CloseLeaseKeepsLock DEF ForwardFails
<1>4. CASE Answered(r)
  BY <1>4, CloseLeaseKeepsLock DEF Answered
<1>5. CASE StreamOpens(r)
  BY <1>0, <1>5, MovesOn DEF StreamOpens, Goto, PCs, Holding
<1>6. CASE StreamEnds(r)
  BY <1>6, CloseLeaseKeepsLock DEF StreamEnds
<1>7. CASE StreamErrs(r)
  BY <1>7, CloseLeaseKeepsLock DEF StreamErrs
<1>8. CASE StreamAbandoned(r)
  BY <1>8, CloseLeaseKeepsLock DEF StreamAbandoned
<1>9. CASE Quiesced(r)
  BY <1>9, ReleaseLeaseKeepsLock DEF Quiesced
<1>10. CASE NotQuiesced(r)
  BY <1>0, <1>10, MovesOn DEF NotQuiesced, Goto, PCs, Holding
<1>11. CASE ResetEngine(r)
  BY <1>11, ReleaseLeaseKeepsLock DEF ResetEngine
<1> QED BY <1>1, <1>2, <1>3, <1>4, <1>5, <1>6, <1>7, <1>8, <1>9, <1>10, <1>11 DEF LeaseStep

(* The body of `async with self.lock` runs with the lock free to take.     *)
LEMMA SwitchLockedKeepsLock ==
  ASSUME LockInv, NEW s \in Switcher, NEW m, NEW sw, SwitchLocked(s, m, sw), holder = NoTask,
         \/ pc[s] = "idle" /\ UNCHANGED waiters
         \/ pc[s] = "queued" /\ IsNext(s) /\ waiters' = Tail(waiters)
  PROVE  LockInv'
<1>1. s \in Task /\ s # Startup /\ holder # s
  BY TasksDiffer DEF Task
<1>2. /\ "idle" \in PCs \ (Holding \cup {"queued"})
      /\ {"stopping", "spawning"} \subseteq Holding
      /\ {"stopping", "spawning"} \subseteq PCs \ {"queued"}
  BY DEF PCs, Holding, Starting, Leasing, Relaying
<1>3. ASSUME NEW st, EndSwitch(s, st, sw) PROVE LockInv'
  <2>1. pc' = [pc EXCEPT ![s] = "idle"] /\ holder' = NoTask
    BY <1>1, <1>3 DEF EndSwitch, Goto
  <2>2. CASE pc[s] = "idle" /\ UNCHANGED waiters
    BY <1>1, <1>2, <2>1, <2>2, MovesOn DEF lockVars
  <2>3. CASE pc[s] = "queued" /\ IsNext(s) /\ waiters' = Tail(waiters)
    BY <1>1, <1>2, <2>1, <2>3, Resumes
  <2> QED BY <2>2, <2>3
<1>4. ASSUME NEW l \in {"stopping", "spawning"}, Goto(s, l), holder' = s PROVE LockInv'
  <2>1. CASE pc[s] = "idle" /\ UNCHANGED waiters
    BY <1>1, <1>2, <1>4, <2>1, Enters DEF Goto
  <2>2. CASE pc[s] = "queued" /\ IsNext(s) /\ waiters' = Tail(waiters)
    BY <1>1, <1>2, <1>4, <2>2, Resumes DEF Goto
  <2> QED BY <2>1, <2>2
<1> QED BY <1>3, <1>4 DEF SwitchLocked, BeginStart

LEMMA SwitchStepKeepsLock ==
  ASSUME LockInv, NEW s \in Switcher, SwitchStep(s) \/ \E m \in Model : SwitchBegins(s, m)
  PROVE  LockInv'
<1>0. s \in Task /\ s \in SwitchTask /\ s # Startup
  BY TasksDiffer DEF Task, SwitchTask
<1>1. CASE SwitchResumes(s)
  BY <1>1, SwitchLockedKeepsLock DEF SwitchResumes, IsNext, Locked
<1>2. CASE OldStopped(s)
  BY <1>0, <1>2, MovesOn DEF OldStopped, BeginStart, Goto, PCs, Holding, Starting
<1>3. CASE StopFails(s)
  BY <1>3, UnwindKeepsLock, <1>0 DEF StopFails
<1>4. ASSUME NEW m \in Model, SwitchBegins(s, m) PROVE LockInv'
  <2>1. CASE LockIsFree /\ SwitchLocked(s, m, switching + 1) /\ UNCHANGED waiters
    BY <1>4, <2>1, SwitchLockedKeepsLock DEF SwitchBegins, LockIsFree, Locked
  <2>2. CASE Enqueue(s) /\ Goto(s, "queued")
    <3>1. pc[s] = "idle" /\ holder # s
      BY <1>0, <1>4 DEF SwitchBegins, LockInv, LockMatchesTasks, Holding, Starting, Leasing, Relaying
    <3> QED BY <1>0, <2>2, <3>1, Suspends DEF Goto, Enqueue
  <2> QED BY <1>4, <2>1, <2>2 DEF SwitchBegins
<1> QED BY <1>1, <1>2, <1>3, <1>4 DEF SwitchStep

LEMMA LifespanStepKeepsLock ==
  ASSUME LockInv, LifespanStep \/ LifespanExits
  PROVE  LockInv'
<1> USE DEF PCs, Holding, Starting, Leasing, Relaying
<1>0. {Startup, Shutdown} \subseteq Task /\ Startup # Shutdown
  BY TasksDiffer DEF Task
<1>1. CASE WarmupResumes
  <2>1. holder = NoTask /\ pc[Startup] = "queued" /\ waiters' = Tail(waiters)
    BY <1>1 DEF WarmupResumes, IsNext, Locked
  <2>2. CASE holder' = Startup /\ Goto(Startup, "warming")
    BY <1>0, <1>1, <2>1, <2>2, Resumes DEF Goto, WarmupResumes
  <2>3. CASE Goto(Startup, "done") /\ UNCHANGED holder
    BY <1>0, <1>1, <2>1, <2>3, Resumes DEF Goto, WarmupResumes
  <2> QED BY <1>1, <2>2, <2>3 DEF WarmupResumes
<1>2. CASE WarmupEnds
  BY <1>0, <1>2, Releases DEF WarmupEnds, Goto
<1>3. CASE WarmupCancelled
  BY <1>0, <1>3, GivesUp DEF WarmupCancelled, Goto
<1>4. CASE LifespanExits
  BY <1>0, <1>4, MovesOn DEF LifespanExits, Goto
<1>5. ASSUME ShutdownLocked, holder = NoTask,
             \/ pc[Shutdown] = "joining" /\ UNCHANGED waiters
             \/ pc[Shutdown] = "queued" /\ IsNext(Shutdown) /\ waiters' = Tail(waiters)
      PROVE  LockInv'
  <2>1. CASE holder' = Shutdown /\ Goto(Shutdown, "stopping")
    BY <1>0, <1>5, <2>1, Enters, Resumes DEF Goto
  <2>2. CASE Goto(Shutdown, "done") /\ UNCHANGED holder
    BY <1>0, <1>5, <2>2, MovesOn, Resumes DEF Goto, lockVars
  <2> QED BY <1>5, <2>1, <2>2 DEF ShutdownLocked
<1>6. CASE ShutdownBegins
  <2>1. CASE LockIsFree /\ ShutdownLocked /\ UNCHANGED waiters
    BY <1>5, <1>6, <2>1 DEF ShutdownBegins, LockIsFree, Locked
  <2>2. CASE Enqueue(Shutdown) /\ Goto(Shutdown, "queued")
    <3>1. pc[Shutdown] = "joining" /\ holder # Shutdown
      BY <1>0, <1>6 DEF ShutdownBegins, LockInv, LockMatchesTasks
    <3> QED BY <1>0, <2>2, <3>1, Suspends DEF Goto, Enqueue
  <2> QED BY <1>6, <2>1, <2>2 DEF ShutdownBegins
<1>7. CASE ShutdownResumes
  BY <1>5, <1>7 DEF ShutdownResumes, IsNext, Locked
<1>8. CASE ShutdownStops
  BY <1>0, <1>8, Releases DEF ShutdownStops, Goto
<1> QED BY <1>1, <1>2, <1>3, <1>4, <1>6, <1>7, <1>8 DEF LifespanStep

LEMMA LockStep == LockInv /\ [Next]_vars => LockInv'
<1> SUFFICES ASSUME LockInv, [Next]_vars PROVE LockInv'
  OBVIOUS
<1>1. CASE UNCHANGED vars
  BY <1>1 DEF vars, lockVars, taskVars, LockInv, LockTypes, LockMatchesTasks
<1>2. ASSUME NEW r \in Request, NEW m \in Model, Arrive(r, m) PROVE LockInv'
  BY <1>2, MovesOn DEF Arrive, Goto, Task, PCs, Queueing, Holding, Starting, Leasing, Relaying
<1>3. CASE Status \/ \E p \in Proc : Exits(p) \/ \E w \in Work : WorkFinishes(p, w)
  BY <1>3 DEF Status, Exits, WorkFinishes, lockVars, taskVars, LockInv, LockTypes, LockMatchesTasks
<1> QED BY <1>1, <1>2, <1>3, StartStepKeepsLock, AcquireStepKeepsLock, LeaseStepKeepsLock,
           SwitchStepKeepsLock, LifespanStepKeepsLock DEF Next, Environment

(* The lock is held by exactly the task that runs under it and its queue   *)
(* holds each suspended task once, in every reachable state.               *)
THEOREM LockSafe == Spec => []LockMatchesTasks
<1>1. Init => LockInv
  BY LockInit
<1>2. LockInv /\ [Next]_vars => LockInv'
  BY LockStep
<1>3. LockInv => LockMatchesTasks
  BY DEF LockInv
<1> QED BY <1>1, <1>2, <1>3, PTL DEF Spec

----------------------------------------------------------------------------
(* The order of the lock: what SwitchEnds and AdmissionEnds rest on        *)
(* besides fairness.                                                       *)

(* What a step does to the queue, and to the lock with it.                 *)
Turn ==
  \/ waiters' = waiters /\ (holder' \in {holder, NoTask} \/ LockIsFree)
  \/ holder' \in {holder, NoTask} /\ \E t \in Task : waiters' = Append(waiters, t)
  \/ ~Locked /\ waiters # <<>> /\ waiters' = Tail(waiters) /\ holder' \in {Head(waiters), NoTask}
  \/ holder' = holder /\ \E i \in DOMAIN waiters : waiters' = RemoveAt(waiters, i)

(* Whoever waits moves up and never back, and a free lock goes to the      *)
(* first: of those that come later nobody is served before a task that     *)
(* stays, and a task at place n is passed n - 1 times at most              *)
(* (runtime.py:239, 272-289: asyncio.Lock is fair).                        *)
NobodyOvertakes ==
  /\ \A i \in DOMAIN waiters : pc'[waiters[i]] = "queued" => \E j \in 1..i : waiters'[j] = waiters[i]
  /\ holder' \notin {holder, NoTask} /\ waiters # <<>> => holder' = Head(waiters) /\ waiters' = Tail(waiters)

LEMMA TurnsOf == LockInv /\ [Next]_vars => [Turn]_vars
<1> SUFFICES ASSUME LockInv, Next PROVE Turn
  BY DEF vars
<1> USE DEF Turn
<1>1. ASSUME UNCHANGED waiters, holder' \in {holder, NoTask} PROVE Turn
  BY <1>1
<1>2. ASSUME NEW st, NEW r, Refuse(r, st), UNCHANGED waiters PROVE Turn
  BY <1>2 DEF Refuse
<1>3. ASSUME NEW s, NEW st, NEW sw, EndSwitch(s, st, sw) PROVE holder' \in {holder, NoTask}
  BY <1>3 DEF EndSwitch
<1>4. ASSUME NEW t, Unwind(t) PROVE Turn
  BY <1>2, <1>3, <1>4 DEF Unwind
<1>5. ASSUME NEW t \in Request \cup SwitchTask, StartStep(t) PROVE Turn
  <2>1. CASE StartRaises(t) \/ AbortStart(t) \/ AbortFails(t)
    BY <1>4, <2>1 DEF StartRaises, AbortStart, AbortFails
  <2>2. CASE EngineReady(t)
    BY <1>3, <2>2 DEF EngineReady, lockVars, Task, SwitchTask
  <2>3. CASE Popen(t) \/ EngineStarted(t) \/ EngineNotReady(t) \/ CancelStart(t)
    BY <1>1, <2>3 DEF Popen, EngineStarted, EngineNotReady, CancelStart, lockVars
  <2> QED BY <1>5, <2>1, <2>2, <2>3 DEF StartStep
<1>6. ASSUME NEW r \in Request, AcquireStep(r) PROVE Turn
  <2>1. CASE TakeLock(r)
    BY <2>1 DEF TakeLock, Enqueue, IsNext, Task
  <2>2. CASE LeaveQueue(r)
    BY <1>2, <2>2 DEF LeaveQueue, Dequeue
  <2>3. CASE Recheck(r) \/ FoundDisconnected(r) \/ Reload(r) \/ Grant(r)
    BY <1>1, <1>2, <2>3 DEF Recheck, FoundDisconnected, Reload, Grant, lockVars
  <2> QED BY <1>6, <2>1, <2>2, <2>3 DEF AcquireStep
<1>7. ASSUME NEW r \in Request, LeaseStep(r) PROVE Turn
  BY <1>1, <1>7 DEF LeaseStep, Forward, Estimate, ForwardFails, Answered, StreamOpens, StreamEnds, StreamErrs,
                    StreamAbandoned, Quiesced, NotQuiesced, ResetEngine, CloseLease, ReleaseLease, lockVars
<1>8. ASSUME NEW s \in Switcher, NEW m, NEW sw, SwitchLocked(s, m, sw) PROVE holder' \in {holder, NoTask, s}
  BY <1>3, <1>8 DEF SwitchLocked
<1>9. ASSUME NEW s \in Switcher, SwitchStep(s) PROVE Turn
  <2>1. CASE SwitchResumes(s)
    BY <1>8, <2>1 DEF SwitchResumes, IsNext, Locked
  <2>2. CASE OldStopped(s) \/ StopFails(s)
    BY <1>1, <1>4, <2>2 DEF OldStopped, StopFails, lockVars
  <2> QED BY <1>9, <2>1, <2>2 DEF SwitchStep
<1>10. ASSUME NEW s \in Switcher, NEW m \in Model, SwitchBegins(s, m) PROVE Turn
  BY <1>8, <1>10 DEF SwitchBegins, Enqueue, Task
<1>11. CASE LifespanStep
  BY <1>1, <1>11 DEF LifespanStep, WarmupResumes, WarmupEnds, WarmupCancelled, ShutdownBegins, ShutdownResumes,
                     ShutdownStops, ShutdownLocked, Enqueue, Dequeue, IsNext, Locked, Task
<1>12. CASE Environment
  BY <1>1, <1>10, <1>12 DEF Environment, LifespanExits, Status, Arrive, Exits, WorkFinishes, lockVars
<1> QED BY <1>5, <1>6, <1>7, <1>9, <1>11, <1>12 DEF Next

LEMMA TurnIsFair == LockInv /\ LockInv' /\ Turn => NobodyOvertakes
<1> SUFFICES ASSUME LockInv, LockInv', Turn PROVE NobodyOvertakes
  OBVIOUS
<1>1. /\ waiters \in Seq(Task) /\ Len(waiters) \in Nat /\ DOMAIN waiters = 1..Len(waiters)
      /\ waiters' \in Seq(Task) /\ DOMAIN waiters' = 1..Len(waiters')
  BY DEF LockInv, LockTypes
<1>2. ASSUME NEW i \in DOMAIN waiters, pc'[waiters[i]] = "queued"
      PROVE  \E j \in 1..i : waiters'[j] = waiters[i]
  <2>1. i \in Nat /\ i >= 1 /\ i <= Len(waiters) /\ i \in 1..i /\ waiters[i] \in Task
    BY <1>1
  <2>2. CASE waiters' = waiters
    BY <2>1, <2>2
  <2>3. CASE \E t \in Task : waiters' = Append(waiters, t)
    <3>1. waiters'[i] = waiters[i]
      BY <1>1, <2>1, <2>3
    <3> QED BY <2>1, <3>1
  <2>4. PICK k \in DOMAIN waiters' : waiters'[k] = waiters[i]
    BY <1>2, <2>1 DEF LockInv, LockMatchesTasks
  <2>5. CASE waiters # <<>> /\ waiters' = Tail(waiters)
    <3>1. waiters'[k] = waiters[k + 1] /\ k + 1 \in DOMAIN waiters /\ k \in Nat /\ k >= 1
      BY <1>1, <2>5, HeadTailProperties
    <3>2. k + 1 = i
      BY <2>4, <3>1 DEF LockInv, LockMatchesTasks
    <3> QED BY <2>1, <2>4, <3>1, <3>2
  <2>6. ASSUME NEW n \in DOMAIN waiters, waiters' = RemoveAt(waiters, n)
        PROVE  \E j \in 1..i : waiters'[j] = waiters[i]
    <3>1. \E m \in {k, k + 1} : m \in DOMAIN waiters /\ waiters'[k] = waiters[m]
      BY <1>1, <2>4, <2>6, RemoveMoves
    <3>2. PICK m \in {k, k + 1} : m \in DOMAIN waiters /\ waiters'[k] = waiters[m]
      BY <3>1
    <3>3. m = i
      BY <2>4, <3>2 DEF LockInv, LockMatchesTasks
    <3>4. k \in Nat /\ k >= 1
      BY <1>1, <2>4
    <3> QED BY <2>1, <2>4, <3>2, <3>3, <3>4
  <2> QED BY <2>2, <2>3, <2>5, <2>6 DEF Turn
<1>3. holder' \notin {holder, NoTask} /\ waiters # <<>> => holder' = Head(waiters) /\ waiters' = Tail(waiters)
  BY DEF Turn, LockIsFree
<1> QED BY <1>2, <1>3 DEF NobodyOvertakes

(* The lock is fair, in every behaviour.                                   *)
THEOREM FairQueue == Spec => [][NobodyOvertakes]_vars
<1>1. LockInv /\ LockInv' /\ [Next]_vars => [NobodyOvertakes]_vars
  BY TurnsOf, TurnIsFair
<1> QED BY <1>1, LockInit, LockStep, PTL DEF Spec

----------------------------------------------------------------------------
(* Ownership of the engine.                                                *)

Types ==
  /\ selected \in Model
  /\ engine \in Proc \cup {NoProc}
  /\ state \in States
  /\ closing \in BOOLEAN
  /\ switching \in Int
  /\ queueDepth \in Int
  /\ target \in [Task -> Model \cup {NoModel}]
  /\ lease \in [Request -> Proc \cup {NoProc}]
  /\ live \in SUBSET Proc
  /\ native \in [Proc -> SUBSET Work]
  /\ spawned \in Proc \cup {NoProc}

Ownership == LockInv /\ Types /\ Coherent

USE DEF States

(* Nobody else runs under the lock.                                        *)
LEMMA Alone ==
  ASSUME LockInv, NEW t \in Task, pc[t] \in Holding
  PROVE  \A u \in Task : u # t => pc[u] \notin Holding
BY DEF LockInv, LockMatchesTasks

LEMMA TaskSets ==
  /\ Request \subseteq Task /\ SwitchTask \subseteq Task
  /\ Request \cap SwitchTask = {}
  /\ Switcher \subseteq SwitchTask
  /\ Startup \in SwitchTask /\ Startup \notin Switcher
  /\ Shutdown \in Task /\ Shutdown \notin Request /\ Shutdown \notin SwitchTask
  /\ Task = Request \cup SwitchTask \cup {Shutdown}
BY TasksDiffer DEF Task, SwitchTask

LEMMA KillTypes ==
  ASSUME Types, NEW p, Kill(p)
  PROVE  live' \in SUBSET Proc /\ native' \in [Proc -> SUBSET Work]
BY DEF Types, Kill

LEMMA OwnershipInit == Init => Types /\ Coherent
<1> SUFFICES ASSUME Init PROVE Types /\ Coherent
  OBVIOUS
<1>1. Types
  <2>1. target \in [Task -> Model \cup {NoModel}]
    BY ModelsAndProcs DEF Init
  <2>2. lease \in [Request -> Proc \cup {NoProc}] /\ native \in [Proc -> SUBSET Work]
    BY DEF Init
  <2>3. selected \in Model /\ state \in States /\ switching \in Int /\ queueDepth \in Int
    BY ModelsAndProcs DEF Init
  <2> QED BY <2>1, <2>2, <2>3 DEF Init, Types
<1>2. /\ pc[Startup] = "spawning" /\ pc[Shutdown] = "serving"
      /\ \A t \in Task \ {Startup, Shutdown} : pc[t] = "idle"
      /\ target[Startup] = InitialModel
  BY TasksDiffer, TaskSets DEF Init
<1>3. TargetsKnown /\ StateCoherent
  BY <1>2, ModelsAndProcs, TaskSets DEF Init, TargetsKnown, StateCoherent
<1>4. StartsCoherent
  BY <1>2, TaskSets DEF Init, StartsCoherent, Starting, Leasing, Relaying
<1>5. LeasesCoherent
  BY <1>2, TasksDiffer, TaskSets DEF Init, LeasesCoherent, Leasing, Relaying
<1> QED BY <1>1, <1>3, <1>4, <1>5 DEF Coherent

LEMMA PopenOwns ==
  ASSUME Ownership, NEW t \in Request \cup SwitchTask, Popen(t)
  PROVE  Types' /\ Coherent'
<1>1. t \in Task /\ pc[t] \in Starting /\ pc[t] \in Holding
  BY TaskSets DEF Popen, Starting, Holding
<1>2. \A u \in Task : u # t => pc[u] \notin Starting
  BY <1>1, Alone DEF Ownership, Holding
<1>3. Types'
  BY <1>1, ModelsAndProcs DEF Ownership, Types, Popen, runtimeVars, lockVars, taskVars
<1>4. TargetsKnown' /\ StateCoherent' /\ LeasesCoherent'
  BY DEF Ownership, Coherent, TargetsKnown, StateCoherent, LeasesCoherent, Popen, runtimeVars, lockVars, taskVars
<1>5. StartsCoherent'
  BY <1>1, <1>2, TaskSets DEF Ownership, Coherent, StartsCoherent, Popen, runtimeVars, lockVars, taskVars, Starting
<1> QED BY <1>3, <1>4, <1>5 DEF Coherent

LEMMA EngineStartedOwns ==
  ASSUME Ownership, NEW t \in Request \cup SwitchTask, EngineStarted(t)
  PROVE  Types' /\ Coherent'
<1>1. t \in Task /\ pc[t] \in Starting /\ pc[t] \in Holding
  BY TaskSets DEF EngineStarted, Starting, Holding
<1>2. \A u \in Task : u # t => pc[u] \notin Holding
  BY <1>1, Alone DEF Ownership
<1>3. pc \in [Task -> PCs]
  BY DEF Ownership, LockInv, LockTypes
<1>4. Types'
  BY DEF Ownership, Types, EngineStarted, lockVars
<1>5. TargetsKnown'
  BY <1>1, <1>3, TaskSets DEF Ownership, Coherent, TargetsKnown, EngineStarted, Goto
<1>6. StartsCoherent'
  BY <1>1, <1>2, <1>3, TaskSets DEF Ownership, Coherent, StartsCoherent, EngineStarted, Goto, Starting, Holding, Leasing, Relaying, lockVars
<1>7. StateCoherent'
  BY <1>1, <1>2, <1>3, TaskSets DEF Ownership, Coherent, StartsCoherent, StateCoherent, EngineStarted, Goto, Starting, Holding
<1>8. LeasesCoherent'
  BY <1>1, <1>2, <1>3, TaskSets DEF Ownership, Coherent, StartsCoherent, LeasesCoherent, EngineStarted, Goto, Starting, Holding, Leasing, Relaying
<1> QED BY <1>4, <1>5, <1>6, <1>7, <1>8 DEF Coherent

(* A step of the lock's holder out of _start: its caller is told and no    *)
(* start is left.                                                          *)
LEMMA UnwindOwns ==
  ASSUME Ownership, NEW t \in Request \cup SwitchTask, Unwind(t),
         pc[t] \in Starting \cup {"stopping"},
         spawned' = NoProc, engine' \in {engine, NoProc},
         live' \in SUBSET Proc, native' \in [Proc -> SUBSET Work]
  PROVE  Types' /\ Coherent'
<1>1. t \in Task /\ pc[t] \in Holding /\ pc[t] \notin Leasing /\ pc[t] \notin {"probing", "loaded"}
  BY TaskSets DEF Starting, Holding, Leasing, Relaying
<1>2. \A u \in Task : u # t => pc[u] \notin Holding
  BY <1>1, Alone DEF Ownership
<1>3. pc \in [Task -> PCs]
  BY DEF Ownership, LockInv, LockTypes
<1>4. /\ state' = "failed" /\ pc' = [pc EXCEPT ![t] = pc'[t]] /\ pc'[t] \in {"idle", "done"}
      /\ UNCHANGED <<selected, closing, lease>> /\ target' = [target EXCEPT ![t] = NoModel]
      /\ switching' \in Int /\ queueDepth' \in Int
  <2>1. CASE t \in Request
    BY <1>1, <1>3, <2>1, TaskSets DEF Unwind, Refuse, Goto, Ownership, Types
  <2>2. CASE t \in SwitchTask
    BY <1>1, <1>3, <2>2, TaskSets DEF Unwind, EndSwitch, Goto, Ownership, Types
  <2> QED BY <2>1, <2>2
<1>5. Types'
  BY <1>4 DEF Ownership, Types
<1>6. TargetsKnown'
  BY <1>1, <1>3, <1>4, TaskSets DEF Ownership, Coherent, Types, TargetsKnown
<1>7. StartsCoherent'
  BY <1>1, <1>2, <1>3, <1>4, TaskSets DEF Ownership, Coherent, StartsCoherent, Starting, Holding, Leasing, Relaying
<1>8. StateCoherent'
  BY <1>1, <1>2, <1>3, <1>4, TaskSets DEF Ownership, Coherent, StateCoherent, Holding
<1>9. LeasesCoherent'
  BY <1>1, <1>2, <1>3, <1>4, TaskSets DEF Ownership, Coherent, LeasesCoherent, Holding, Leasing, Relaying
<1> QED BY <1>5, <1>6, <1>7, <1>8, <1>9 DEF Coherent

(* In _start no thread is left once the engine's handle has been adopted.  *)
LEMMA NoThread ==
  ASSUME Ownership, NEW t \in Task, pc[t] \in Holding, pc[t] \notin {"spawning", "recovering"}
  PROVE  spawned = NoProc
BY Alone DEF Ownership, Coherent, StartsCoherent, Holding, Starting

LEMMA StartStepOwns ==
  ASSUME Ownership, NEW t \in Request \cup SwitchTask, StartStep(t)
  PROVE  Types' /\ Coherent'
<1>0. /\ t \in Task /\ pc \in [Task -> PCs]
      /\ live \in SUBSET Proc /\ native \in [Proc -> SUBSET Work]
  BY TaskSets DEF Ownership, LockInv, LockTypes, Types
<1>1. CASE Popen(t)
  BY <1>1, PopenOwns
<1>2. CASE EngineStarted(t)
  BY <1>2, EngineStartedOwns
<1>3. CASE StartRaises(t)
  BY <1>0, <1>3, UnwindOwns, KillTypes DEF StartRaises, Starting, Ownership
<1>4. CASE EngineReady(t)
  <2>1. /\ pc[t] = "readying" /\ pc[t] \in Holding /\ pc[t] \in Starting
        /\ \A u \in Task : u # t => pc[u] \notin Holding
    BY <1>0, <1>4, Alone DEF EngineReady, Ownership, Holding, Starting
  <2>2. /\ state' = "ready" /\ switching' \in Int
        /\ pc' = [pc EXCEPT ![t] = pc'[t]]
        /\ native' \in [Proc -> SUBSET Work]
        /\ UNCHANGED <<selected, engine, closing, queueDepth, lease, live, spawned>>
        /\ \/ t \in Request /\ pc'[t] = "loaded" /\ UNCHANGED target
           \/ t \in SwitchTask /\ pc'[t] \in {"queued", "warming", "done"} /\ UNCHANGED target
           \/ t \in SwitchTask /\ pc'[t] = "idle" /\ target' = [target EXCEPT ![t] = NoModel]
    <3>1. CASE t \in Request
      BY <1>0, <1>4, <3>1, TaskSets DEF EngineReady, Goto, Ownership, Types
    <3>2. CASE t \in Switcher
      BY <1>0, <1>4, <3>2, TaskSets DEF EngineReady, EndSwitch, Goto, Ownership, Types
    <3>3. CASE t = Startup
      <4>1. [native EXCEPT ![engine] = @ \cup {"warmup"}] \in [Proc -> SUBSET Work]
        BY <1>0 DEF Work
      <4> QED BY <1>0, <1>4, <3>3, <4>1, TaskSets DEF EngineReady, Goto, Ownership, Types
    <3> QED BY <3>1, <3>2, <3>3 DEF SwitchTask
  <2>3. Types'
    BY <2>2, <1>0, TaskSets DEF Ownership, Types
  <2>4. TargetsKnown'
    BY <1>0, <2>1, <2>2, TaskSets DEF Ownership, Coherent, TargetsKnown, Types
  <2>5. StartsCoherent'
    BY <1>0, <2>1, <2>2, TaskSets DEF Ownership, Coherent, StartsCoherent, Starting, Holding, Leasing, Relaying
  <2>6. StateCoherent'
    BY <1>0, <2>1, <2>2, TaskSets DEF Ownership, Coherent, StartsCoherent, StateCoherent, Holding
  <2>7. LeasesCoherent'
    BY <1>0, <2>1, <2>2, TaskSets DEF Ownership, Coherent, StartsCoherent, LeasesCoherent, Holding, Starting, Leasing, Relaying
  <2> QED BY <2>3, <2>4, <2>5, <2>6, <2>7 DEF Coherent
<1>5. CASE EngineNotReady(t) \/ CancelStart(t)
  <2>1. /\ pc[t] \in Starting /\ pc[t] \in Holding
        /\ \A u \in Task : u # t => pc[u] \notin Holding
    BY <1>0, <1>5, Alone DEF EngineNotReady, CancelStart, Ownership, Holding, Starting
  <2>2. /\ pc' = [pc EXCEPT ![t] = pc'[t]]
        /\ \/ pc[t] = "spawning" /\ pc'[t] = "recovering"
           \/ pc[t] = "readying" /\ pc'[t] \in {"aborting", "reaping"}
        /\ UNCHANGED <<runtimeVars, target, lease, procVars>>
    BY <1>0, <1>5 DEF EngineNotReady, CancelStart, Goto
  <2>3. Types' /\ TargetsKnown'
    BY <1>0, <2>2, TaskSets DEF Ownership, Types, Coherent, TargetsKnown, runtimeVars, procVars
  <2>4. StartsCoherent'
    BY <1>0, <2>1, <2>2, TaskSets DEF Ownership, Coherent, StartsCoherent, Starting, Holding, Leasing, Relaying, runtimeVars, procVars
  <2>5. StateCoherent' /\ LeasesCoherent'
    BY <1>0, <2>1, <2>2, TaskSets DEF Ownership, Coherent, StateCoherent, LeasesCoherent, Starting, Holding, Leasing, Relaying, runtimeVars, procVars
  <2> QED BY <2>3, <2>4, <2>5 DEF Coherent
<1>6. CASE AbortStart(t)
  BY <1>0, <1>6, UnwindOwns, KillTypes, NoThread DEF AbortStart, Starting, Holding, Ownership
<1>7. CASE AbortFails(t)
  BY <1>0, <1>7, UnwindOwns, NoThread DEF AbortFails, Starting, Holding, procVars
<1> QED BY <1>1, <1>2, <1>3, <1>4, <1>5, <1>6, <1>7 DEF StartStep

----------------------------------------------------------------------------
(* Requests outside _start.                                                *)

(* A request gives its place back; it was neither loading nor leased.      *)
LEMMA RefuseOwns ==
  ASSUME Ownership, NEW r \in Request, NEW st, Refuse(r, st), st \in {state, Refreshed(state)},
         pc[r] \notin Starting \cup Leasing, UNCHANGED engine, UNCHANGED procVars
  PROVE  Types' /\ Coherent'
<1>1. r \in Task /\ pc \in [Task -> PCs]
  BY TaskSets DEF Ownership, LockInv, LockTypes
<1>2. /\ pc' = [pc EXCEPT ![r] = "idle"] /\ target' = [target EXCEPT ![r] = NoModel]
      /\ UNCHANGED <<selected, closing, switching, lease, engine, live, native, spawned>>
      /\ queueDepth' \in Int
      /\ state' = state \/ (state = "ready" /\ state' = "failed")
  BY DEF Refuse, Goto, Refreshed, procVars, Ownership, Types
<1>3. Types'
  BY <1>2, TaskSets DEF Ownership, Types
<1>4. TargetsKnown'
  BY <1>1, <1>2, TaskSets DEF Ownership, Types, Coherent, TargetsKnown
<1>5. StartsCoherent'
  BY <1>1, <1>2, TaskSets DEF Ownership, Types, Coherent, StartsCoherent, Starting, Leasing, Relaying
<1>6. StateCoherent'
  BY <1>1, <1>2 DEF Ownership, Coherent, StateCoherent
<1>7. LeasesCoherent'
  BY <1>1, <1>2, TaskSets DEF Ownership, Types, Coherent, LeasesCoherent, Leasing, Relaying
<1> QED BY <1>3, <1>4, <1>5, <1>6, <1>7 DEF Coherent

(* A request moves on and changes nothing of the runtime.                  *)
LEMMA GoesOnOwns ==
  ASSUME Ownership, NEW r \in Request, NEW l \in PCs,
         pc' = [pc EXCEPT ![r] = l],
         pc[r] \notin Starting \cup {"idle", "done"}, l \notin Starting \cup {"stopping"},
         pc[r] \in Leasing <=> l \in Leasing,
         l \in {"probing", "loaded"} => target[r] = selected,
         UNCHANGED <<runtimeVars, target, lease, live, spawned>>,
         native' \in [Proc -> SUBSET Work]
  PROVE  Types' /\ Coherent'
<1>1. r \in Task /\ pc \in [Task -> PCs]
  BY TaskSets DEF Ownership, LockInv, LockTypes
<1>2. UNCHANGED <<selected, engine, state, closing, switching, queueDepth, target, lease, live, spawned>>
  BY DEF runtimeVars
<1>3. Types' /\ TargetsKnown'
  BY <1>1, <1>2, TaskSets DEF Ownership, Types, Coherent, TargetsKnown
<1>4. StartsCoherent'
  BY <1>1, <1>2, TaskSets DEF Ownership, Types, Coherent, StartsCoherent, Starting
<1>5. StateCoherent' /\ LeasesCoherent'
  BY <1>1, <1>2, TaskSets DEF Ownership, Coherent, StateCoherent, LeasesCoherent
<1> QED BY <1>3, <1>4, <1>5 DEF Coherent

LEMMA AcquireStepOwns ==
  ASSUME Ownership, NEW r \in Request, AcquireStep(r)
  PROVE  Types' /\ Coherent'
<1> USE DEF Starting, Leasing, Relaying
<1>0. r \in Task /\ pc \in [Task -> PCs] /\ native \in [Proc -> SUBSET Work] /\ selected \in Model
  BY TaskSets DEF Ownership, LockInv, LockTypes, Types
<1>1. CASE TakeLock(r)
  <2>1. PICK l \in {"admitted", "queued"} : pc' = [pc EXCEPT ![r] = l]
    BY <1>1 DEF TakeLock, Goto
  <2> QED BY <1>0, <1>1, <2>1, GoesOnOwns DEF TakeLock, procVars, PCs, Queueing, Holding
<1>2. CASE LeaveQueue(r)
  BY <1>2, RefuseOwns DEF LeaveQueue
<1>3. CASE Recheck(r)
  <2>1. CASE Selectable(target[r]) /\ Goto(r, "probing") /\ UNCHANGED <<runtimeVars, target, lease>>
    BY <1>0, <1>3, <2>1, GoesOnOwns DEF Recheck, Selectable, Goto, procVars, PCs, Holding
  <2>2. CASE Refuse(r, state) /\ UNCHANGED engine
    BY <1>3, <2>2, RefuseOwns DEF Recheck
  <2> QED BY <1>3, <2>1, <2>2 DEF Recheck
<1>4. CASE FoundDisconnected(r)
  BY <1>4, RefuseOwns DEF FoundDisconnected
<1>5. CASE Reload(r)
  <2>1. /\ pc[r] = "probing" /\ state = "stopped" /\ engine = NoProc
        /\ target[r] = selected /\ lease[r] = NoProc
        /\ \A u \in Task : u # r => pc[u] \notin Holding
    BY <1>0, <1>5, Alone DEF Reload, Ownership, Coherent, StateCoherent, LeasesCoherent, Holding
  <2>2. spawned = NoProc
    BY <1>0, <2>1, NoThread DEF Holding
  <2>3. /\ pc' = [pc EXCEPT ![r] = "spawning"] /\ state' = "loading" /\ selected' = selected
        /\ UNCHANGED <<engine, closing, switching, queueDepth, target, lease, live, native, spawned>>
    BY <1>5, <2>1 DEF Reload, BeginStart, Goto, procVars
  <2>4. Types' /\ TargetsKnown'
    BY <1>0, <2>1, <2>3, TaskSets DEF Ownership, Types, Coherent, TargetsKnown
  <2>5. StartsCoherent'
    BY <1>0, <2>1, <2>2, <2>3, TaskSets DEF Ownership, Coherent, StartsCoherent, Holding
  <2>6. StateCoherent' /\ LeasesCoherent'
    BY <1>0, <2>1, <2>3, TaskSets DEF Ownership, Coherent, StateCoherent, LeasesCoherent
  <2> QED BY <2>4, <2>5, <2>6 DEF Coherent
<1>6. CASE Grant(r)
  <2>1. CASE Refuse(r, Refreshed(state))
    BY <1>6, <2>1, RefuseOwns DEF Grant
  <2>2. CASE /\ Refreshed(state) = "ready" /\ lease' = [lease EXCEPT ![r] = engine]
             /\ Goto(r, "leased") /\ queueDepth' = queueDepth - 1
             /\ UNCHANGED <<selected, state, closing, switching, target>>
    <3>1. /\ state = "ready" /\ engine \in Proc /\ ModelOf[engine] = selected
          /\ target[r] = selected /\ pc[r] \in {"probing", "loaded"}
      BY <1>6, <2>2 DEF Grant, Refreshed, Ownership, Types, Coherent, StateCoherent, LeasesCoherent
    <3>2. /\ pc' = [pc EXCEPT ![r] = "leased"] /\ queueDepth' \in Int
          /\ UNCHANGED <<engine, live, native, spawned>>
      BY <1>6, <2>2 DEF Grant, Goto, procVars, Ownership, Types
    <3>3. Types' /\ TargetsKnown'
      BY <1>0, <2>2, <3>1, <3>2, TaskSets DEF Ownership, Types, Coherent, TargetsKnown
    <3>4. StartsCoherent'
      BY <1>0, <2>2, <3>1, <3>2, TaskSets DEF Ownership, Coherent, StartsCoherent
    <3>5. StateCoherent' /\ LeasesCoherent'
      BY <1>0, <2>2, <3>1, <3>2, ModelsAndProcs, TaskSets
         DEF Ownership, Types, Coherent, StateCoherent, LeasesCoherent
    <3> QED BY <3>3, <3>4, <3>5 DEF Coherent
  <2> QED BY <1>6, <2>1, <2>2 DEF Grant
<1> QED BY <1>1, <1>2, <1>3, <1>4, <1>5, <1>6 DEF AcquireStep

----------------------------------------------------------------------------
(* Leases.                                                                 *)

(* A lease ends, with the engine as it was, stopped, or refusing to stop.  *)
LEMMA ReleaseLeaseOwns ==
  ASSUME Ownership, NEW r \in Request, ReleaseLease(r), pc[r] \in Leasing,
         UNCHANGED <<selected, closing, switching, queueDepth, spawned>>,
         \/ UNCHANGED <<engine, state>>
         \/ engine' = engine /\ state' = "failed"
         \/ engine' = NoProc /\ state' = "stopped",
         live' \in SUBSET Proc, native' \in [Proc -> SUBSET Work]
  PROVE  Types' /\ Coherent'
<1> USE DEF Starting, Leasing, Relaying
<1>1. /\ r \in Task /\ pc \in [Task -> PCs] /\ pc[r] \in Holding
      /\ \A u \in Task : u # r => pc[u] \notin Holding
      /\ lease \in [Request -> Proc \cup {NoProc}] /\ target \in [Task -> Model \cup {NoModel}]
  BY TaskSets, Alone DEF Ownership, LockInv, LockTypes, Types, Holding
<1>2. /\ pc' = [pc EXCEPT ![r] = "idle"] /\ target' = [target EXCEPT ![r] = NoModel]
      /\ lease' = [lease EXCEPT ![r] = NoProc]
  BY DEF ReleaseLease, Goto
<1>3. Types' /\ TargetsKnown'
  BY <1>1, <1>2, TaskSets DEF Ownership, Types, Coherent, TargetsKnown
<1>4. StartsCoherent'
  BY <1>1, <1>2, TaskSets DEF Ownership, Coherent, StartsCoherent, Holding
<1>5. StateCoherent'
  BY <1>1, <1>2, TaskSets DEF Ownership, Coherent, StateCoherent, Holding
<1>6. LeasesCoherent'
  BY <1>1, <1>2, TaskSets DEF Ownership, Coherent, LeasesCoherent, Holding
<1> QED BY <1>3, <1>4, <1>5, <1>6 DEF Coherent

LEMMA CloseLeaseOwns ==
  ASSUME Ownership, NEW r \in Request, NEW reset, CloseLease(r, reset), pc[r] \in Leasing,
         native' \in [Proc -> SUBSET Work]
  PROVE  Types' /\ Coherent'
<1>1. r \in Task /\ pc \in [Task -> PCs] /\ live \in SUBSET Proc
  BY TaskSets DEF Ownership, LockInv, LockTypes, Types
<1>2. UNCHANGED <<runtimeVars, waiters, live, spawned>>
  BY DEF CloseLease
<1>3. CASE ReleaseLease(r)
  BY <1>1, <1>2, <1>3, ReleaseLeaseOwns DEF runtimeVars
<1>4. ASSUME NEW l \in {"quiescing", "resetting"}, Goto(r, l), UNCHANGED <<holder, lease, target>>
      PROVE  Types' /\ Coherent'
  BY <1>1, <1>2, <1>4, GoesOnOwns DEF Goto, PCs, Holding, Starting, Leasing, Relaying
<1> QED BY <1>3, <1>4 DEF CloseLease

LEMMA WorkTypes ==
  ASSUME Types, NEW p, NEW tags \in SUBSET Work, WorkBecomes(p, tags)
  PROVE  native' \in [Proc -> SUBSET Work]
BY DEF Types, WorkBecomes, Work

LEMMA LeaseStepOwns ==
  ASSUME Ownership, NEW r \in Request, LeaseStep(r)
  PROVE  Types' /\ Coherent'
<1> USE DEF Leasing, Relaying
<1>0. /\ r \in Task /\ pc \in [Task -> PCs] /\ Types
      /\ live \in SUBSET Proc /\ native \in [Proc -> SUBSET Work]
  BY TaskSets DEF Ownership, LockInv, LockTypes, Types
<1>1. CASE Forward(r)
  <2>1. native' \in [Proc -> SUBSET Work]
    BY <1>0, <1>1 DEF Forward, Work
  <2> QED BY <1>0, <1>1, <2>1, GoesOnOwns DEF Forward, Goto, PCs, Holding, Starting
<1>2. CASE Estimate(r) \/ ForwardFails(r)
  BY <1>0, <1>2, CloseLeaseOwns DEF Estimate, ForwardFails
<1>3. CASE Answered(r) \/ StreamEnds(r) \/ StreamErrs(r)
  BY <1>0, <1>3, CloseLeaseOwns, WorkTypes DEF Answered, StreamEnds, StreamErrs, Work
<1>4. CASE StreamOpens(r)
  <2>1. PICK l \in {"streaming", "chat"} : Goto(r, l)
    BY <1>4 DEF StreamOpens
  <2> QED BY <1>0, <1>4, <2>1, GoesOnOwns DEF StreamOpens, Goto, procVars, PCs, Holding, Starting
<1>5. CASE StreamAbandoned(r)
  <2>1. native' \in [Proc -> SUBSET Work]
    BY <1>0, <1>5, WorkTypes DEF StreamAbandoned, Work
  <2> QED BY <1>0, <1>5, <2>1, CloseLeaseOwns DEF StreamAbandoned
<1>6. CASE Quiesced(r)
  BY <1>0, <1>6, ReleaseLeaseOwns DEF Quiesced, runtimeVars, procVars
<1>7. CASE NotQuiesced(r)
  BY <1>0, <1>7, GoesOnOwns DEF NotQuiesced, Goto, procVars, PCs, Holding, Starting
<1>8. CASE ResetEngine(r)
  <2>1. live' \in SUBSET Proc /\ native' \in [Proc -> SUBSET Work]
    BY <1>0, <1>8, KillTypes DEF ResetEngine
  <2> QED BY <1>0, <1>8, <2>1, ReleaseLeaseOwns DEF ResetEngine
<1> QED BY <1>1, <1>2, <1>3, <1>4, <1>5, <1>6, <1>7, <1>8 DEF LeaseStep

----------------------------------------------------------------------------
(* Switches and the lifespan.                                              *)

(* The task that runs without the lock, or takes it free, finds nobody in  *)
(* _start, no lease open and no thread running.                            *)
LEMMA NobodyRuns ==
  ASSUME Ownership, holder = NoTask
  PROVE  /\ \A t \in Task : pc[t] \notin Holding
         /\ \A r \in Request : lease[r] = NoProc
         /\ spawned = NoProc /\ state # "loading"
<1>1. \A t \in Task : pc[t] \notin Holding
  BY HoldingTasks DEF Ownership, LockInv, LockMatchesTasks
<1>2. \A r \in Request : lease[r] = NoProc
  BY <1>1, TaskSets DEF Ownership, Coherent, LeasesCoherent, Holding
<1>3. \A t \in Task : pc[t] \notin Starting
  BY <1>1 DEF Holding
<1>4. spawned = NoProc /\ state # "loading"
  BY <1>3 DEF Ownership, Coherent, StartsCoherent, Starting
<1> QED BY <1>1, <1>2, <1>4

LEMMA SwitchLockedOwns ==
  ASSUME Ownership, NEW s \in Switcher, NEW m \in Model, NEW sw \in Int, SwitchLocked(s, m, sw),
         holder = NoTask
  PROVE  Types' /\ Coherent'
<1> USE DEF Starting, Leasing, Relaying
<1>1. /\ s \in Task /\ s \in SwitchTask /\ s \notin Request /\ s # Startup /\ s # Shutdown
      /\ pc \in [Task -> PCs]
      /\ lease \in [Request -> Proc \cup {NoProc}] /\ target \in [Task -> Model \cup {NoModel}]
  BY TaskSets DEF Ownership, LockInv, LockTypes, Types
<1>2. UNCHANGED <<engine, closing, queueDepth, lease, live, native, spawned>>
  BY DEF SwitchLocked, procVars
<1>3. CASE /\ UNCHANGED selected
           /\ \/ EndSwitch(s, state, sw)
              \/ engine # NoProc /\ EndSwitch(s, "ready", sw) /\ ModelOf[engine] = m /\ state \in {"ready", "draining"}
  <2>1. /\ pc' = [pc EXCEPT ![s] = "idle"] /\ target' = [target EXCEPT ![s] = NoModel]
        /\ switching' \in Int
        /\ state' \in {state, "ready", "failed"}
        /\ state' = "ready" => state \in {"ready", "draining"}
    BY <1>1, <1>3 DEF EndSwitch, Goto
  <2>2. Types' /\ TargetsKnown'
    BY <1>1, <1>2, <1>3, <2>1, TaskSets DEF Ownership, Types, Coherent, TargetsKnown
  <2>3. StartsCoherent'
    BY <1>1, <1>2, <2>1, NobodyRuns, TaskSets DEF Ownership, Coherent, StartsCoherent, Holding
  <2>4. StateCoherent' /\ LeasesCoherent'
    BY <1>1, <1>2, <1>3, <2>1, NobodyRuns, TaskSets DEF Ownership, Coherent, StateCoherent, LeasesCoherent, Holding
  <2> QED BY <2>2, <2>3, <2>4 DEF Coherent
<1>4. CASE /\ target' = [target EXCEPT ![s] = m] /\ switching' = sw
           /\ engine # NoProc /\ Goto(s, "stopping") /\ UNCHANGED <<selected, state>>
  <2>1. pc' = [pc EXCEPT ![s] = "stopping"]
    BY <1>4 DEF Goto
  <2>2. Types' /\ TargetsKnown'
    BY <1>1, <1>2, <1>4, <2>1, TaskSets DEF Ownership, Types, Coherent, TargetsKnown
  <2>3. StartsCoherent'
    BY <1>1, <1>2, <1>4, <2>1, NobodyRuns, TaskSets DEF Ownership, Coherent, StartsCoherent, Holding
  <2>4. StateCoherent' /\ LeasesCoherent'
    BY <1>1, <1>2, <1>4, <2>1, NobodyRuns, TaskSets DEF Ownership, Coherent, StateCoherent, LeasesCoherent, Holding
  <2> QED BY <2>2, <2>3, <2>4 DEF Coherent
<1>5. CASE /\ target' = [target EXCEPT ![s] = m] /\ switching' = sw
           /\ engine = NoProc /\ BeginStart(s, m)
  <2>1. pc' = [pc EXCEPT ![s] = "spawning"] /\ state' = "loading" /\ selected' = m
    BY <1>5 DEF BeginStart, Goto
  <2>2. Types' /\ TargetsKnown'
    BY <1>1, <1>2, <1>5, <2>1, TaskSets DEF Ownership, Types, Coherent, TargetsKnown
  <2>3. StartsCoherent'
    BY <1>1, <1>2, <1>5, <2>1, NobodyRuns, TaskSets DEF Ownership, Coherent, StartsCoherent, Holding
  <2>4. StateCoherent' /\ LeasesCoherent'
    BY <1>1, <1>2, <1>5, <2>1, NobodyRuns, TaskSets DEF Ownership, Coherent, StateCoherent, LeasesCoherent, Holding
  <2> QED BY <2>2, <2>3, <2>4 DEF Coherent
<1> QED BY <1>3, <1>4, <1>5, ModelsAndProcs DEF SwitchLocked, Running, Ownership, Types, Coherent, StateCoherent

LEMMA SwitchStepOwns ==
  ASSUME Ownership, NEW s \in Switcher, SwitchStep(s) \/ \E m \in Model : SwitchBegins(s, m)
  PROVE  Types' /\ Coherent'
<1> USE DEF Starting, Leasing, Relaying
<1>1. /\ s \in Task /\ s \in SwitchTask /\ s \notin Request /\ s # Startup /\ s # Shutdown
      /\ pc \in [Task -> PCs] /\ switching \in Int /\ Types
  BY TaskSets DEF Ownership, LockInv, LockTypes, Types
<1>2. CASE SwitchResumes(s)
  <2>1. target[s] \in Model /\ holder = NoTask
    BY <1>1, <1>2 DEF SwitchResumes, IsNext, Locked, Ownership, Coherent, TargetsKnown
  <2> QED BY <1>1, <1>2, <2>1, SwitchLockedOwns DEF SwitchResumes
<1>3. CASE OldStopped(s)
  <2>1. /\ \A u \in Task : u # s => pc[u] \notin Holding
        /\ spawned = NoProc /\ target[s] \in Model
    BY <1>1, <1>3, Alone, NoThread DEF OldStopped, Ownership, Coherent, TargetsKnown, Holding
  <2>2. /\ pc' = [pc EXCEPT ![s] = "spawning"] /\ state' = "loading" /\ selected' = target[s]
        /\ UNCHANGED <<closing, switching, queueDepth, target, lease, spawned>>
        /\ engine' = NoProc /\ pc[s] = "stopping"
        /\ live' \in SUBSET Proc /\ native' \in [Proc -> SUBSET Work]
    BY <1>1, <1>3, KillTypes DEF OldStopped, BeginStart, Goto
  <2>3. \A r \in Request : lease[r] = NoProc
    BY <1>1, <2>1, TaskSets DEF Ownership, Coherent, LeasesCoherent, Holding
  <2>4. Types' /\ TargetsKnown'
    BY <1>1, <2>1, <2>2, TaskSets DEF Types, Ownership, Coherent, TargetsKnown
  <2>5. StartsCoherent'
    BY <1>1, <2>1, <2>2, TaskSets DEF Ownership, Coherent, StartsCoherent, Holding
  <2>6. StateCoherent' /\ LeasesCoherent'
    BY <1>1, <2>1, <2>2, <2>3, TaskSets DEF Ownership, Coherent, StateCoherent, LeasesCoherent, Holding
  <2> QED BY <2>4, <2>5, <2>6 DEF Coherent
<1>4. CASE StopFails(s)
  BY <1>1, <1>4, UnwindOwns, NoThread DEF StopFails, procVars, Holding, Types
<1>5. ASSUME NEW m \in Model, SwitchBegins(s, m) PROVE Types' /\ Coherent'
  <2>1. CASE LockIsFree /\ SwitchLocked(s, m, switching + 1)
    BY <1>1, <2>1, SwitchLockedOwns DEF LockIsFree, Locked
  <2>2. CASE /\ state' = IF Locked /\ state = "ready" THEN "draining" ELSE state
             /\ switching' = switching + 1 /\ Goto(s, "queued")
             /\ target' = [target EXCEPT ![s] = m]
             /\ UNCHANGED <<selected, engine, closing, queueDepth, lease, procVars>>
    <3>1. /\ pc' = [pc EXCEPT ![s] = "queued"] /\ pc[s] = "idle"
          /\ UNCHANGED <<live, native, spawned>>
          /\ state' = state \/ (state = "ready" /\ state' = "draining")
      BY <1>5, <2>2 DEF SwitchBegins, Goto, procVars
    <3>2. Types' /\ TargetsKnown'
      BY <1>1, <2>2, <3>1, TaskSets DEF Types, Ownership, Coherent, TargetsKnown
    <3>3. StartsCoherent'
      BY <1>1, <2>2, <3>1, TaskSets DEF Ownership, Types, Coherent, StartsCoherent
    <3>4. StateCoherent' /\ LeasesCoherent'
      BY <1>1, <2>2, <3>1, TaskSets DEF Ownership, Types, Coherent, StateCoherent, LeasesCoherent
    <3> QED BY <3>2, <3>3, <3>4 DEF Coherent
  <2> QED BY <1>5, <2>1, <2>2 DEF SwitchBegins
<1> QED BY <1>2, <1>3, <1>4, <1>5 DEF SwitchStep

(* The shutdown and the warm-up leave the handle alone, but for the stop   *)
(* the shutdown makes under the lock.                                      *)
LEMMA LifespanStepOwns ==
  ASSUME Ownership, LifespanStep \/ LifespanExits
  PROVE  Types' /\ Coherent'
<1> USE DEF Starting, Leasing, Relaying
<1>1. /\ Startup \in Task /\ Startup \in SwitchTask /\ Startup \notin Request /\ Startup # Shutdown
      /\ Shutdown \in Task /\ Shutdown \notin Request /\ Shutdown \notin SwitchTask
      /\ pc \in [Task -> PCs] /\ Types
      /\ live \in SUBSET Proc /\ native \in [Proc -> SUBSET Work]
  BY TaskSets DEF Ownership, LockInv, LockTypes, Types
(* The warm-up task moves on.                                              *)
<1>2. ASSUME NEW l \in {"warming", "done"}, pc' = [pc EXCEPT ![Startup] = l],
             pc[Startup] \in {"queued", "warming"},
             UNCHANGED <<runtimeVars, target, lease, live, spawned>>,
             native' \in [Proc -> SUBSET Work]
      PROVE  Types' /\ Coherent'
  <2>1. UNCHANGED <<selected, engine, state, closing, switching, queueDepth>>
    BY <1>2 DEF runtimeVars
  <2>2. Types' /\ TargetsKnown'
    BY <1>1, <1>2, <2>1, TaskSets DEF Types, Ownership, Coherent, TargetsKnown
  <2>3. StartsCoherent'
    BY <1>1, <1>2, <2>1, TaskSets DEF Ownership, Coherent, StartsCoherent
  <2>4. StateCoherent' /\ LeasesCoherent'
    BY <1>1, <1>2, <2>1, TaskSets DEF Ownership, Coherent, StateCoherent, LeasesCoherent
  <2> QED BY <2>2, <2>3, <2>4 DEF Coherent
<1>3. CASE WarmupResumes
  <2>1. native' \in [Proc -> SUBSET Work]
    BY <1>1, <1>3 DEF WarmupResumes, Work
  <2> QED BY <1>2, <1>3, <2>1 DEF WarmupResumes, Goto
<1>4. CASE WarmupEnds
  <2>1. native' \in [Proc -> SUBSET Work]
    BY <1>1, <1>4 DEF WarmupEnds
  <2> QED BY <1>2, <1>4, <2>1 DEF WarmupEnds, Goto
<1>5. CASE WarmupCancelled
  BY <1>1, <1>2, <1>5 DEF WarmupCancelled, Goto, procVars
(* The shutdown task moves on.                                             *)
<1>6. ASSUME NEW l \in {"joining", "queued", "stopping", "done"}, pc' = [pc EXCEPT ![Shutdown] = l],
             l = "stopping" => engine' # NoProc,
             UNCHANGED <<selected, switching, queueDepth, target, lease, spawned>>,
             closing' \in BOOLEAN,
             live' \in SUBSET Proc, native' \in [Proc -> SUBSET Work],
             \/ UNCHANGED <<engine, state>>
             \/ /\ \A t \in Task \ {Shutdown} : pc[t] \notin Holding
                /\ \/ engine' = NoProc /\ state' = "stopped"
                   \/ engine' = engine /\ state' = "failed"
      PROVE  Types' /\ Coherent'
  <2>1. Types' /\ TargetsKnown'
    BY <1>1, <1>6, TaskSets DEF Types, Ownership, Coherent, TargetsKnown
  <2>2. StartsCoherent'
    BY <1>1, <1>6, TaskSets DEF Ownership, Types, Coherent, StartsCoherent, Holding
  <2>3. StateCoherent'
    BY <1>1, <1>6, TaskSets DEF Ownership, Types, Coherent, StateCoherent, Holding
  <2>4. LeasesCoherent'
    BY <1>1, <1>6, TaskSets DEF Ownership, Types, Coherent, LeasesCoherent, Holding
  <2> QED BY <2>1, <2>2, <2>3, <2>4 DEF Coherent
<1>7. CASE LifespanExits
  BY <1>1, <1>6, <1>7 DEF LifespanExits, Goto, procVars
<1>8. CASE ShutdownBegins \/ ShutdownResumes
  <2>1. CASE ShutdownLocked /\ holder = NoTask
    BY <1>1, <1>6, <1>8, <2>1, NobodyRuns DEF ShutdownBegins, ShutdownResumes, ShutdownLocked, Goto, procVars, Types
  <2>2. CASE Goto(Shutdown, "queued") /\ UNCHANGED state
    BY <1>1, <1>6, <1>8, <2>2 DEF ShutdownBegins, ShutdownResumes, Goto, procVars, Types
  <2> QED BY <1>8, <2>1, <2>2 DEF ShutdownBegins, ShutdownResumes, LockIsFree, IsNext, Locked
<1>9. CASE ShutdownStops
  <2>1. /\ \A t \in Task \ {Shutdown} : pc[t] \notin Holding
        /\ live' \in SUBSET Proc /\ native' \in [Proc -> SUBSET Work]
    BY <1>1, <1>9, Alone, KillTypes DEF ShutdownStops, Ownership, Holding
  <2> QED BY <1>1, <1>6, <1>9, <2>1 DEF ShutdownStops, Goto, Types
<1> QED BY <1>3, <1>4, <1>5, <1>7, <1>8, <1>9 DEF LifespanStep

----------------------------------------------------------------------------

LEMMA OwnershipStep == Ownership /\ [Next]_vars => Ownership'
<1> SUFFICES ASSUME Ownership, [Next]_vars PROVE Types' /\ Coherent'
  BY LockStep DEF Ownership
<1> USE DEF Starting, Leasing, Relaying
<1>1. CASE UNCHANGED vars
  BY <1>1 DEF vars, runtimeVars, lockVars, taskVars, procVars, Ownership, Types, Coherent,
              TargetsKnown, StartsCoherent, StateCoherent, LeasesCoherent
<1>2. ASSUME NEW r \in Request, NEW m \in Model, Arrive(r, m) PROVE Types' /\ Coherent'
  <2>1. /\ r \in Task /\ pc \in [Task -> PCs] /\ pc[r] = "idle"
        /\ pc' = [pc EXCEPT ![r] = "reserved"] /\ target' = [target EXCEPT ![r] = m]
        /\ UNCHANGED <<selected, engine, state, closing, switching, lease, live, native, spawned>>
        /\ queueDepth' \in Int
    BY <1>2, TaskSets DEF Arrive, Goto, procVars, Ownership, LockInv, LockTypes, Types
  <2>2. Types' /\ TargetsKnown'
    BY <2>1, TaskSets DEF Ownership, Types, Coherent, TargetsKnown
  <2>3. StartsCoherent'
    BY <2>1, TaskSets DEF Ownership, Types, Coherent, StartsCoherent
  <2>4. StateCoherent' /\ LeasesCoherent'
    BY <2>1, TaskSets DEF Ownership, Types, Coherent, StateCoherent, LeasesCoherent
  <2> QED BY <2>2, <2>3, <2>4 DEF Coherent
<1>3. CASE Status
  <2>1. /\ state = "ready" /\ state' = "failed"
        /\ UNCHANGED <<selected, engine, closing, switching, queueDepth, pc, target, lease, live, native, spawned>>
    BY <1>3 DEF Status, Refreshed, lockVars, taskVars, procVars
  <2> QED BY <2>1 DEF Ownership, Types, Coherent, TargetsKnown, StartsCoherent, StateCoherent, LeasesCoherent
<1>4. ASSUME NEW p \in Proc, Exits(p) \/ \E w \in Work : WorkFinishes(p, w) PROVE Types' /\ Coherent'
  <2>1. /\ live' \in SUBSET Proc /\ native' \in [Proc -> SUBSET Work]
        /\ UNCHANGED <<selected, engine, state, closing, switching, queueDepth, pc, target, lease, spawned>>
    BY <1>4, KillTypes DEF Exits, WorkFinishes, runtimeVars, taskVars, Ownership, Types
  <2> QED BY <2>1 DEF Ownership, Types, Coherent, TargetsKnown, StartsCoherent, StateCoherent, LeasesCoherent
<1> QED BY <1>1, <1>2, <1>3, <1>4, StartStepOwns, AcquireStepOwns, LeaseStepOwns,
           SwitchStepOwns, LifespanStepOwns DEF Next, Environment

(* Every lease that is open is for the resident engine, which runs the     *)
(* model the request asked for and that is still selected, and its request *)
(* holds the lock.                                                         *)
THEOREM LeaseSafe == Spec => []LeaseIsCurrent
<1>1. Init => Ownership
  BY LockInit, OwnershipInit DEF Ownership
<1>2. Ownership /\ [Next]_vars => Ownership'
  BY OwnershipStep
<1>3. Ownership => LeaseIsCurrent
  BY TaskSets DEF Ownership, LockInv, LockMatchesTasks, Coherent, LeasesCoherent, LeaseIsCurrent, Holding
<1> QED BY <1>1, <1>2, <1>3, PTL DEF Spec

(* Ownership itself holds in every reachable state: the theorems about     *)
(* shutdown, processes and steps rest on it.                               *)
THEOREM OwnershipSafe == Spec => []Ownership
<1>1. Init => Ownership
  BY LockInit, OwnershipInit DEF Ownership
<1> QED BY <1>1, OwnershipStep, PTL DEF Spec

----------------------------------------------------------------------------
(* Processes.  Only the clean-up of a failed start can lose one.           *)

ProcessesOwned == live \subseteq {engine, spawned}
Unowned == live \ {engine, spawned}

(* start_engine raised after Popen and the stop after it raised as well.   *)
CleanupFails == \E t \in Request \cup SwitchTask : StartRaises(t) /\ CleanupCanFail /\ spawned \in live'

(* A process escapes in no other step, and in that one no other does.      *)
EscapesInCleanup == [][Unowned' \subseteq Unowned \/ (CleanupFails /\ Unowned' = Unowned \cup {spawned})]_vars

LEMMA OneOf == Ownership => engine = NoProc \/ spawned = NoProc
BY TaskSets DEF Ownership, Coherent, StartsCoherent, Starting

LEMMA EscapeStep ==
  ASSUME Ownership, [Next]_vars
  PROVE  Unowned' \subseteq Unowned \/ (CleanupFails /\ Unowned' = Unowned \cup {spawned})
<1>1. ASSUME UNCHANGED <<live, engine, spawned>> PROVE Unowned' \subseteq Unowned
  BY <1>1 DEF Unowned
<1>2. ASSUME NEW t \in Request \cup SwitchTask, StartStep(t)
      PROVE  Unowned' \subseteq Unowned \/ (CleanupFails /\ Unowned' = Unowned \cup {spawned})
  <2>1. engine = NoProc \/ spawned = NoProc
    BY OneOf
  <2>2. NoProc \notin live
    BY ModelsAndProcs DEF Ownership, Types
  <2>3. CASE Popen(t)
    <3>1. engine = NoProc
      BY <2>3, TaskSets DEF Popen, Ownership, Coherent, StartsCoherent, Starting
    <3> QED BY <2>2, <2>3, <3>1 DEF Popen, Unowned
  <2>4. CASE EngineStarted(t)
    BY <2>1, <2>2, <2>4 DEF EngineStarted, Unowned
  <2>5. CASE StartRaises(t)
    <3>1. CASE spawned \notin live'
      BY <2>1, <2>2, <2>5, <3>1 DEF StartRaises, Kill, Unowned
    <3>2. CASE spawned \in live'
      <4>1. engine = NoProc /\ CleanupCanFail /\ spawned # NoProc
            /\ UNCHANGED <<live, engine>> /\ spawned' = NoProc
        BY <2>1, <2>2, <2>5, <3>2 DEF StartRaises, Kill
      <4>2. Unowned' = Unowned \cup {spawned}
        BY <2>2, <3>2, <4>1 DEF Unowned
      <4> QED  BY <2>5, <3>2, <4>1, <4>2 DEF CleanupFails
    <3> QED  BY <3>1, <3>2
  <2>6. CASE AbortStart(t)
    BY <2>1, <2>2, <2>6 DEF AbortStart, Kill, Unowned
  <2>7. CASE EngineReady(t) \/ EngineNotReady(t) \/ CancelStart(t) \/ AbortFails(t)
    BY <1>1, <2>7 DEF EngineReady, EngineNotReady, CancelStart, AbortFails, runtimeVars, procVars
  <2> QED BY <1>2, <2>3, <2>4, <2>5, <2>6, <2>7 DEF StartStep
<1>3. ASSUME NEW r \in Request, AcquireStep(r) PROVE Unowned' \subseteq Unowned
  BY <1>1, <1>3 DEF AcquireStep, TakeLock, LeaveQueue, Recheck, FoundDisconnected, Reload, Grant, runtimeVars, procVars
<1>4. ASSUME NEW r \in Request, LeaseStep(r) PROVE Unowned' \subseteq Unowned
  <2>1. CASE ResetEngine(r)
    BY <1>1, <2>1 DEF ResetEngine, Kill, Unowned
  <2>2. CASE LeaseStep(r) /\ ~ResetEngine(r)
    BY <1>1, <2>2 DEF LeaseStep, Forward, Estimate, ForwardFails, Answered, StreamOpens, StreamEnds,
                      StreamErrs, StreamAbandoned, Quiesced, NotQuiesced, CloseLease, runtimeVars, procVars
  <2> QED BY <1>4, <2>1, <2>2
<1>5. ASSUME NEW s \in Switcher, SwitchStep(s) \/ \E m \in Model : SwitchBegins(s, m) PROVE Unowned' \subseteq Unowned
  <2>1. CASE OldStopped(s)
    BY <2>1 DEF OldStopped, Kill, Unowned
  <2>2. CASE SwitchResumes(s) \/ StopFails(s) \/ \E m \in Model : SwitchBegins(s, m)
    BY <1>1, <2>2 DEF SwitchResumes, StopFails, SwitchBegins, SwitchLocked, procVars
  <2> QED BY <1>5, <2>1, <2>2 DEF SwitchStep
<1>6. CASE LifespanStep
  <2>1. CASE ShutdownStops
    BY <1>1, <2>1 DEF ShutdownStops, Kill, Unowned
  <2>2. CASE LifespanStep /\ ~ShutdownStops
    BY <1>1, <2>2 DEF LifespanStep, WarmupResumes, WarmupEnds, WarmupCancelled, ShutdownBegins, ShutdownResumes, runtimeVars, procVars
  <2> QED BY <1>6, <2>1, <2>2
<1>7. CASE Environment
  BY <1>1, <1>5, <1>7 DEF Environment, LifespanExits, Status, Arrive, Exits, WorkFinishes, Kill, runtimeVars, procVars, Unowned
<1>8. CASE UNCHANGED vars
  BY <1>1, <1>8 DEF vars, runtimeVars, procVars
<1> QED BY <1>2, <1>3, <1>4, <1>5, <1>6, <1>7, <1>8 DEF Next

(* A process escapes ownership only in the step in which a failed start is *)
(* cleaned up and that stop raises (runtime.py:211-216, server.py:502-506),*)
(* and of those it owns never more than one is alive.                      *)
THEOREM EscapeSafe ==
  Spec => EscapesInCleanup /\ [](\A p, q \in live : {p, q} \subseteq {engine, spawned} => p = q)
<1>1. Ownership /\ [Next]_vars =>
        [Unowned' \subseteq Unowned \/ (CleanupFails /\ Unowned' = Unowned \cup {spawned})]_vars
  BY EscapeStep
<1>2. Ownership => \A p, q \in live : {p, q} \subseteq {engine, spawned} => p = q
  BY OneOf, ModelsAndProcs DEF Ownership, Types
<1> QED BY <1>1, <1>2, OwnershipSafe, PTL DEF Spec, EscapesInCleanup

LEMMA ProcessStep ==
  ASSUME CleanupCanFail = FALSE, Ownership, ProcessesOwned, [Next]_vars
  PROVE  ProcessesOwned'
BY EscapeStep DEF Unowned, ProcessesOwned, CleanupFails

(* If a failed start can always be cleaned up, at most one engine process  *)
(* is ever alive and the runtime, or a thread of its own, has its handle.  *)
THEOREM OneProcess == ASSUME CleanupCanFail = FALSE PROVE Spec => []OneOwnedProcess
<1>1. Init => Ownership /\ ProcessesOwned
  BY LockInit, OwnershipInit DEF Ownership, Init, ProcessesOwned
<1>2. Ownership /\ ProcessesOwned /\ [Next]_vars => Ownership' /\ ProcessesOwned'
  BY OwnershipStep, ProcessStep
<1>3. Ownership /\ ProcessesOwned => OneOwnedProcess
  BY OneOf, ModelsAndProcs DEF Ownership, Types, ProcessesOwned, OneOwnedProcess
<1> QED BY <1>1, <1>2, <1>3, PTL DEF Spec

----------------------------------------------------------------------------
(* Only a switch changes the selection, and only to the model it names.    *)
LEMMA StepSelects ==
  ASSUME Ownership, [Next]_vars, selected' # selected
  PROVE  \E s \in Switcher : pc'[s] = "spawning" /\ target'[s] = selected'
<1>1. ASSUME NEW t \in Request \cup SwitchTask, StartStep(t) PROVE FALSE
  BY <1>1 DEF StartStep, Popen, EngineStarted, StartRaises, EngineReady, EngineNotReady, CancelStart,
              AbortStart, AbortFails, Unwind, Refuse, runtimeVars
<1>2. ASSUME NEW r \in Request, AcquireStep(r) PROVE FALSE
  <2>1. CASE Reload(r)
    BY <2>1 DEF Reload, BeginStart, Ownership, Coherent, LeasesCoherent
  <2>2. CASE AcquireStep(r) /\ ~Reload(r)
    BY <2>2 DEF AcquireStep, TakeLock, LeaveQueue, Recheck, FoundDisconnected, Grant, Refuse, runtimeVars
  <2> QED BY <1>2, <2>1, <2>2
<1>3. ASSUME NEW r \in Request, LeaseStep(r) PROVE FALSE
  BY <1>3 DEF LeaseStep, Forward, Estimate, ForwardFails, Answered, StreamOpens, StreamEnds, StreamErrs,
              StreamAbandoned, Quiesced, NotQuiesced, ResetEngine, CloseLease, runtimeVars
<1>4. CASE LifespanStep \/ Status \/ LifespanExits
  BY <1>4 DEF LifespanStep, WarmupResumes, WarmupEnds, WarmupCancelled, ShutdownBegins, ShutdownResumes,
              ShutdownStops, Status, LifespanExits, runtimeVars
<1>5. ASSUME NEW s \in Switcher, SwitchStep(s) \/ \E m \in Model : SwitchBegins(s, m)
      PROVE  pc'[s] = "spawning" /\ target'[s] = selected'
  <2>1. s \in Task /\ pc \in [Task -> PCs] /\ target \in [Task -> Model \cup {NoModel}]
    BY TaskSets DEF Ownership, LockInv, LockTypes, Types
  <2>2. CASE StopFails(s)
    BY <2>2, TaskSets DEF StopFails, Unwind, Refuse
  <2>3. CASE OldStopped(s)
    BY <2>1, <2>3 DEF OldStopped, BeginStart, Goto
  <2>4. ASSUME NEW m, NEW sw, SwitchLocked(s, m, sw) PROVE pc'[s] = "spawning" /\ target'[s] = selected'
    BY <2>1, <2>4 DEF SwitchLocked, BeginStart, Goto
  <2> QED BY <1>5, <2>2, <2>3, <2>4 DEF SwitchStep, SwitchResumes, SwitchBegins
<1>6. CASE UNCHANGED vars
  BY <1>6 DEF vars, runtimeVars
<1> QED BY <1>1, <1>2, <1>3, <1>4, <1>5, <1>6
        DEF Next, Environment, Arrive, Exits, WorkFinishes, runtimeVars

(* No request substitutes another model: only a switch changes selected.   *)
THEOREM SelectionSafe == Spec => OnlySwitchSelects
<1>1. Ownership /\ [Next]_vars =>
        [selected' # selected => \E s \in Switcher : pc'[s] = "spawning" /\ target'[s] = selected']_vars
  BY StepSelects
<1> QED BY <1>1, OwnershipSafe, PTL DEF Spec, OnlySwitchSelects

(* Only the request that holds a lease stops the engine it was granted.    *)
LEMMA StepKeepsLeased ==
  ASSUME Ownership, [Next]_vars, NEW r \in Request, lease[r] # NoProc, engine' # engine
  PROVE  pc[r] = "resetting"
<1>1. /\ pc[r] \in Leasing /\ pc[r] \in Holding /\ r \in Task
      /\ \A u \in Task : u # r => pc[u] \notin Holding
  BY TaskSets, Alone DEF Ownership, Coherent, LeasesCoherent, Holding
<1>2. ASSUME NEW t \in Request \cup SwitchTask, StartStep(t) PROVE FALSE
  <2>1. t \in Task /\ pc[t] \notin Starting
    BY <1>1, TaskSets DEF Holding, Starting, Leasing, Relaying
  <2> QED BY <1>2, <2>1 DEF StartStep, Popen, EngineStarted, StartRaises, EngineReady, EngineNotReady,
              CancelStart, AbortStart, AbortFails, Starting
<1>3. ASSUME NEW u \in Request, AcquireStep(u) PROVE FALSE
  BY <1>3 DEF AcquireStep, TakeLock, LeaveQueue, Recheck, FoundDisconnected, Reload, Grant, runtimeVars
<1>4. ASSUME NEW u \in Request, LeaseStep(u) PROVE pc[r] = "resetting"
  <2>1. CASE ResetEngine(u)
    BY <1>1, <2>1, TaskSets DEF ResetEngine, Holding, Leasing
  <2>2. CASE LeaseStep(u) /\ ~ResetEngine(u)
    BY <2>2 DEF LeaseStep, Forward, Estimate, ForwardFails, Answered, StreamOpens, StreamEnds, StreamErrs,
                StreamAbandoned, Quiesced, NotQuiesced, CloseLease, runtimeVars, procVars
  <2> QED BY <1>4, <2>1, <2>2
<1>5. ASSUME NEW s \in Switcher, SwitchStep(s) \/ \E m \in Model : SwitchBegins(s, m) PROVE FALSE
  <2>1. pc[s] # "stopping"
    BY <1>1, TaskSets DEF Holding
  <2> QED BY <1>5, <2>1 DEF SwitchStep, SwitchResumes, OldStopped, StopFails, SwitchBegins, SwitchLocked
<1>6. CASE LifespanStep \/ LifespanExits \/ Status
  <2>1. pc[Shutdown] # "stopping"
    BY <1>1, TaskSets DEF Holding
  <2> QED BY <1>6, <2>1 DEF LifespanStep, WarmupResumes, WarmupEnds, WarmupCancelled, ShutdownBegins,
              ShutdownResumes, ShutdownStops, Status, LifespanExits, runtimeVars
<1>7. CASE UNCHANGED vars
  BY <1>7 DEF vars, runtimeVars
<1> QED BY <1>2, <1>3, <1>4, <1>5, <1>6, <1>7
        DEF Next, Environment, Arrive, Exits, WorkFinishes, runtimeVars

(* A switch and a shutdown drain: while a lease is open nobody else stops  *)
(* or replaces the engine.                                                 *)
THEOREM LeasedSafe == Spec => LeasedEngineStays
<1>1. Ownership /\ [Next]_vars =>
        [\A r \in Request : lease[r] # NoProc /\ engine' # engine => pc[r] = "resetting"]_vars
  BY StepKeepsLeased
<1> QED BY <1>1, OwnershipSafe, PTL DEF Spec, LeasedEngineStays

----------------------------------------------------------------------------
(* Shutdown.                                                               *)

(* After it only requests that were already queued still get the lock.     *)
AfterShutdown ==
  /\ pc[Shutdown] # "serving" => closing
  /\ pc[Shutdown] = "done" =>
       /\ \A t \in Task : pc[t] \in Holding => pc[t] = "admitted"
       /\ engine # NoProc => state = "failed"

(* The steps of the tasks that are not the lifespan's exit.                *)
LEMMA OthersLeaveShutdown ==
  ASSUME Ownership, [Next]_vars, ~ShutdownBegins, ~ShutdownResumes, ~ShutdownStops, ~LifespanExits
  PROVE  pc'[Shutdown] = pc[Shutdown] /\ closing' = closing
<1> DEFINE Kept == pc'[Shutdown] = pc[Shutdown] /\ closing' = closing
<1>0. /\ \A t \in Request \cup SwitchTask : t # Shutdown
      /\ \A t, l : t # Shutdown /\ Goto(t, l) => pc'[Shutdown] = pc[Shutdown]
  BY TaskSets DEF Ownership, LockInv, LockTypes, Goto
<1>1. ASSUME NEW t \in Request \cup SwitchTask, StartStep(t) PROVE Kept
  <2>1. CASE Unwind(t)
    BY <1>0, <2>1 DEF Unwind, Refuse, EndSwitch
  <2>2. CASE StartStep(t) /\ ~Unwind(t) /\ ~EngineReady(t)
    BY <1>0, <2>2 DEF StartStep, Popen, EngineStarted, StartRaises, EngineNotReady, CancelStart,
                AbortStart, AbortFails, runtimeVars, taskVars
  <2>3. CASE EngineReady(t)
    BY <1>0, <2>3 DEF EngineReady, EndSwitch
  <2> QED BY <1>1, <2>1, <2>2, <2>3
<1>2. ASSUME NEW r \in Request, AcquireStep(r) PROVE Kept
  <2>1. CASE \E st : Refuse(r, st)
    BY <1>0, <2>1 DEF Refuse
  <2>2. CASE AcquireStep(r) /\ ~\E st : Refuse(r, st)
    BY <1>0, <2>2 DEF AcquireStep, TakeLock, LeaveQueue, Recheck, FoundDisconnected, Reload, Grant,
                BeginStart, runtimeVars
  <2> QED BY <1>2, <2>1, <2>2
<1>3. ASSUME NEW r \in Request, LeaseStep(r) PROVE Kept
  <2>1. CASE \E reset : CloseLease(r, reset)
    BY <1>0, <2>1 DEF CloseLease, ReleaseLease, runtimeVars
  <2>2. CASE LeaseStep(r) /\ ~\E reset : CloseLease(r, reset)
    BY <1>0, <2>2 DEF LeaseStep, Forward, Estimate, ForwardFails, Answered, StreamOpens, StreamEnds, StreamErrs,
                StreamAbandoned, Quiesced, NotQuiesced, ResetEngine, ReleaseLease, runtimeVars
  <2> QED BY <1>3, <2>1, <2>2
<1>4. ASSUME NEW s \in Switcher, SwitchStep(s) \/ \E m \in Model : SwitchBegins(s, m) PROVE Kept
  <2>1. ASSUME NEW m, NEW sw, SwitchLocked(s, m, sw) PROVE Kept
    BY <1>0, <2>1, TaskSets DEF SwitchLocked, EndSwitch, BeginStart
  <2>2. CASE OldStopped(s) \/ StopFails(s)
    BY <1>0, <2>2, TaskSets DEF OldStopped, StopFails, Unwind, Refuse, EndSwitch, BeginStart
  <2> QED BY <1>0, <1>4, <2>1, <2>2, TaskSets DEF SwitchStep, SwitchResumes, SwitchBegins
<1>5. CASE WarmupResumes \/ WarmupEnds \/ WarmupCancelled
  BY <1>0, <1>5, TaskSets DEF WarmupResumes, WarmupEnds, WarmupCancelled, runtimeVars
<1>6. CASE UNCHANGED vars
  BY <1>6 DEF vars, runtimeVars, taskVars
<1> QED BY <1>0, <1>1, <1>2, <1>3, <1>4, <1>5, <1>6
        DEF Next, LifespanStep, Environment, Status, Arrive, Exits, WorkFinishes, runtimeVars, taskVars

(* A closed gateway: nobody but a waiter takes the lock, to be refused.    *)
LEMMA ClosedStep ==
  ASSUME Ownership, [Next]_vars, pc[Shutdown] = "done", closing, AfterShutdown
  PROVE  /\ \A t \in Task : pc'[t] \in Holding => pc'[t] = "admitted"
         /\ engine' # NoProc => state' = "failed"
<1> DEFINE Quiet == /\ \A t \in Task : pc'[t] \in Holding => pc'[t] = "admitted"
                    /\ engine' # NoProc => state' = "failed"
<1> USE DEF Holding, Starting, Leasing, Relaying
<1>0. /\ pc \in [Task -> PCs]
      /\ \A t \in Task : pc[t] \in Holding => pc[t] = "admitted"
      /\ engine # NoProc => state = "failed"
  BY DEF Ownership, LockInv, LockTypes, AfterShutdown
<1>1. ASSUME NEW t \in Request \cup SwitchTask, StartStep(t) PROVE FALSE
  <2>1. pc[t] \notin Starting
    BY <1>0, TaskSets
  <2> QED BY <1>1, <2>1 DEF StartStep, Popen, EngineStarted, StartRaises, EngineReady, EngineNotReady,
              CancelStart, AbortStart, AbortFails
<1>2. ASSUME NEW r \in Request, AcquireStep(r) PROVE Quiet
  <2>0. r \in Task /\ pc[r] \notin {"probing", "loaded"}
    BY <1>0, TaskSets
  <2>1. CASE TakeLock(r)
    BY <1>0, <2>0, <2>1 DEF TakeLock, Goto, runtimeVars
  <2>2. CASE LeaveQueue(r) \/ Recheck(r)
    BY <1>0, <2>0, <2>2 DEF LeaveQueue, Recheck, Selectable, Refuse, Goto
  <2> QED BY <1>2, <2>0, <2>1, <2>2 DEF AcquireStep, FoundDisconnected, Reload, Grant
<1>3. ASSUME NEW r \in Request, LeaseStep(r) PROVE FALSE
  <2>1. pc[r] \notin Leasing
    BY <1>0, TaskSets
  <2> QED BY <1>3, <2>1 DEF LeaseStep, Forward, Estimate, ForwardFails, Answered, StreamOpens, StreamEnds,
              StreamErrs, StreamAbandoned, Quiesced, NotQuiesced, ResetEngine
<1>4. ASSUME NEW s \in Switcher, SwitchStep(s) \/ \E m \in Model : SwitchBegins(s, m) PROVE Quiet
  <2>1. s \in Task /\ s # Startup /\ pc[s] # "stopping"
    BY <1>0, TaskSets
  <2>2. SwitchLocked(s, target[s], switching)
    BY <1>4, <2>1 DEF SwitchStep, SwitchResumes, OldStopped, StopFails, SwitchBegins
  <2>3. EndSwitch(s, state, switching) /\ UNCHANGED engine
    BY <2>2 DEF SwitchLocked
  <2> QED BY <1>0, <2>1, <2>3 DEF EndSwitch, Goto
<1>5. CASE LifespanStep
  <2>1. Startup \in Task /\ pc[Startup] # "warming"
    BY <1>0, TaskSets
  <2> QED BY <1>0, <1>5, <2>1 DEF LifespanStep, WarmupResumes, WarmupEnds, WarmupCancelled,
              ShutdownBegins, ShutdownResumes, ShutdownStops, Goto, runtimeVars
<1>6. CASE Status \/ LifespanExits
  BY <1>0, <1>6 DEF Status, Refreshed, LifespanExits, taskVars
<1>7. CASE UNCHANGED vars \/ \E p \in Proc : Exits(p) \/ \E w \in Work : WorkFinishes(p, w)
  BY <1>0, <1>7 DEF vars, Exits, WorkFinishes, runtimeVars, taskVars
<1> QED BY <1>1, <1>2, <1>3, <1>4, <1>5, <1>6, <1>7 DEF Next, Environment, Arrive, Selectable

LEMMA AfterShutdownStep == Ownership /\ AfterShutdown /\ [Next]_vars => AfterShutdown'
<1> SUFFICES ASSUME Ownership, AfterShutdown, [Next]_vars PROVE AfterShutdown'
  OBVIOUS
<1>1. CASE pc[Shutdown] = "done"
  <2>1. ~ShutdownBegins /\ ~ShutdownResumes /\ ~ShutdownStops /\ ~LifespanExits /\ closing
    BY <1>1 DEF ShutdownBegins, ShutdownResumes, ShutdownStops, LifespanExits, AfterShutdown
  <2> QED BY <1>1, <2>1, OthersLeaveShutdown, ClosedStep DEF AfterShutdown
<1>2. CASE pc[Shutdown] # "done" /\ ~ShutdownBegins /\ ~ShutdownResumes /\ ~ShutdownStops /\ ~LifespanExits
  BY <1>2, OthersLeaveShutdown DEF AfterShutdown
<1>3. CASE LifespanExits
  BY <1>3, TaskSets DEF LifespanExits, Goto, AfterShutdown, Ownership, LockInv, LockTypes
<1>4. CASE ShutdownBegins \/ ShutdownResumes
  <2>1. closing' = closing /\ closing /\ Shutdown \in Task /\ pc \in [Task -> PCs]
    BY <1>4, TaskSets DEF ShutdownBegins, ShutdownResumes, AfterShutdown, Ownership, LockInv, LockTypes
  <2>2. CASE ShutdownLocked /\ holder = NoTask
    <3>1. \A t \in Task : pc[t] \notin Holding
      BY <2>2, NobodyRuns
    <3>2. UNCHANGED engine /\ "done" \notin Holding
      BY <1>4 DEF ShutdownBegins, ShutdownResumes, Holding, Starting, Leasing, Relaying
    <3>3. CASE Goto(Shutdown, "stopping")
      BY <2>1, <3>3 DEF Goto, AfterShutdown
    <3>4. CASE engine = NoProc /\ Goto(Shutdown, "done")
      BY <2>1, <3>1, <3>2, <3>4 DEF Goto, AfterShutdown
    <3> QED BY <2>2, <3>3, <3>4 DEF ShutdownLocked
  <2>3. CASE Goto(Shutdown, "queued")
    BY <1>4, <2>1, <2>3 DEF Goto, AfterShutdown
  <2> QED BY <1>4, <2>2, <2>3 DEF ShutdownBegins, ShutdownResumes, LockIsFree, IsNext, Locked
<1>5. CASE ShutdownStops
  <2>1. /\ closing /\ Shutdown \in Task /\ pc \in [Task -> PCs]
        /\ \A t \in Task : t # Shutdown => pc[t] \notin Holding
    BY <1>5, TaskSets, Alone DEF ShutdownStops, AfterShutdown, Ownership, LockInv, LockTypes, Holding
  <2>2. "done" \notin Holding
    BY DEF Holding, Starting, Leasing, Relaying
  <2> QED BY <1>5, <2>1, <2>2 DEF ShutdownStops, Goto, AfterShutdown
<1> QED BY <1>1, <1>2, <1>3, <1>4, <1>5

(* Once shutdown() has returned nothing loads, nothing is served, and only *)
(* an engine whose stop failed can be alive.                               *)
THEOREM ShutdownSafe == Spec => []NothingAfterShutdown
<1>1. Init => Ownership /\ AfterShutdown
  BY LockInit, OwnershipInit, TaskSets DEF Ownership, Init, AfterShutdown
<1>2. Ownership /\ AfterShutdown /\ [Next]_vars => Ownership' /\ AfterShutdown'
  BY OwnershipStep, AfterShutdownStep
<1>3. Ownership /\ AfterShutdown => NothingAfterShutdown
  BY TaskSets DEF Ownership, Coherent, StartsCoherent, AfterShutdown, NothingAfterShutdown,
         Holding, Starting, Leasing, Relaying
<1> QED BY <1>1, <1>2, <1>3, PTL DEF Spec

----------------------------------------------------------------------------
(* The counters.  Each step moves one task, and changes each counter by    *)
(* what that task counts for after the step less what it did before.       *)

Switches(t, l) ==
  IF (t \in Switcher /\ l # "idle") \/ (t = Startup /\ l \in Starting) THEN 1 ELSE 0
Queues(t, l) == IF t \in Request /\ l \in Admitting THEN 1 ELSE 0

Moves(t, l) ==
  /\ pc' = [pc EXCEPT ![t] = l]
  /\ switching' = switching + Switches(t, l) - Switches(t, pc[t])
  /\ queueDepth' = queueDepth + Queues(t, l) - Queues(t, pc[t])
  /\ queueDepth' <= queueDepth \/ queueDepth' <= MaxQueueSize + 1

OneMoves == \/ \E t \in Task, l \in PCs : Moves(t, l)
            \/ UNCHANGED <<pc, switching, queueDepth>>

LEMMA RefuseMoves ==
  ASSUME Ownership, NEW r \in Request, NEW st, Refuse(r, st), pc[r] \in Admitting
  PROVE  OneMoves
<1>1. r \in Task /\ r \notin Switcher /\ r # Startup /\ "idle" \in PCs /\ "idle" \notin Admitting
      /\ queueDepth \in Int /\ switching \in Int
  BY TaskSets DEF PCs, Admitting, Starting, Ownership, Types
<1>2. Switches(r, "idle") = 0 /\ Switches(r, pc[r]) = 0 /\ Queues(r, "idle") = 0 /\ Queues(r, pc[r]) = 1
  BY <1>1 DEF Switches, Queues
<1>3. Moves(r, "idle")
  BY <1>1, <1>2 DEF Moves, Refuse, Goto
<1> QED BY <1>1, <1>3 DEF OneMoves

(* A request that moves within its admission, or outside it.               *)
LEMMA RequestMoves ==
  ASSUME Ownership, NEW r \in Request, NEW l \in PCs, Goto(r, l),
         pc[r] \in Admitting <=> l \in Admitting, UNCHANGED <<switching, queueDepth>>
  PROVE  OneMoves
<1>1. r \in Task /\ r \notin Switcher /\ r # Startup /\ queueDepth \in Int /\ switching \in Int
  BY TaskSets DEF Ownership, Types
<1>2. Switches(r, l) = 0 /\ Switches(r, pc[r]) = 0 /\ Queues(r, l) = Queues(r, pc[r]) /\ Queues(r, l) \in Int
  BY <1>1 DEF Switches, Queues
<1>3. Moves(r, l)
  BY <1>1, <1>2 DEF Moves, Goto
<1> QED BY <1>1, <1>3 DEF OneMoves

(* A task of the lifespan, or a switch, that moves within its switch.      *)
LEMMA OtherMoves ==
  ASSUME Ownership, NEW t \in SwitchTask \cup {Shutdown}, NEW l \in PCs, Goto(t, l),
         switching' = switching + Switches(t, l) - Switches(t, pc[t]), UNCHANGED queueDepth
  PROVE  OneMoves
<1>1. t \in Task /\ t \notin Request /\ queueDepth \in Int
  BY TaskSets DEF Ownership, Types
<1>2. Queues(t, l) = 0 /\ Queues(t, pc[t]) = 0
  BY <1>1 DEF Queues
<1>3. Moves(t, l)
  BY <1>1, <1>2 DEF Moves, Goto
<1> QED BY <1>1, <1>3 DEF OneMoves

(* A switch that ends under sw, which counts it or will have counted it.   *)
LEMMA EndSwitchMoves ==
  ASSUME Ownership, NEW s \in SwitchTask, NEW st, NEW sw \in Int, EndSwitch(s, st, sw),
         sw = switching + 1 - Switches(s, pc[s]), UNCHANGED queueDepth
  PROVE  OneMoves
<1> DEFINE l == IF s = Startup THEN "done" ELSE "idle"
<1>1. Switches(s, l) = 0 /\ l \in PCs
  BY TaskSets DEF Switches, Starting, PCs
<1>2. Goto(s, l) /\ switching' = sw - 1 /\ switching \in Int /\ Switches(s, pc[s]) \in Int
  BY DEF EndSwitch, Ownership, Types, Switches
<1> HIDE DEF l
<1>3. switching' = switching + Switches(s, l) - Switches(s, pc[s])
  BY <1>1, <1>2
<1> QED BY <1>1, <1>2, <1>3, OtherMoves

LEMMA StepMoves ==
  ASSUME Ownership, [Next]_vars
  PROVE  OneMoves
<1> USE DEF PCs, Holding, Starting, Leasing, Relaying, Queueing
<1>0. /\ pc \in [Task -> PCs] /\ switching \in Int /\ queueDepth \in Int
      /\ Starting \subseteq Admitting
      /\ {"reserved", "queued", "admitted", "probing", "loaded"} \subseteq Admitting
      /\ Admitting \cap (Leasing \cup {"idle", "stopping"}) = {}
  BY DEF Ownership, LockInv, LockTypes, Types, Admitting
<1>1. ASSUME NEW t \in Request \cup SwitchTask, StartStep(t) PROVE OneMoves
  <2>1. ASSUME Unwind(t), pc[t] \in Starting PROVE OneMoves
    <3>1. CASE t \in Request
      BY <1>0, <2>1, <3>1, RefuseMoves, TaskSets DEF Unwind
    <3>2. CASE t \in SwitchTask
      BY <1>0, <2>1, <3>2, EndSwitchMoves, TaskSets DEF Unwind, Switches, SwitchTask
    <3> QED BY <3>1, <3>2
  <2>2. CASE StartRaises(t) \/ AbortStart(t) \/ AbortFails(t)
    BY <2>1, <2>2 DEF StartRaises, AbortStart, AbortFails
  <2>3. CASE Popen(t)
    BY <2>3 DEF Popen, runtimeVars, taskVars, OneMoves
  <2>4. ASSUME NEW l \in Starting, Goto(t, l), pc[t] \in Starting, UNCHANGED <<switching, queueDepth>>
        PROVE  OneMoves
    <3>1. CASE t \in Request
      BY <1>0, <2>4, <3>1, RequestMoves
    <3>2. CASE t \in SwitchTask
      BY <1>0, <2>4, <3>2, OtherMoves, TaskSets DEF Switches, SwitchTask
    <3> QED BY <3>1, <3>2
  <2>5. CASE EngineStarted(t) \/ EngineNotReady(t) \/ CancelStart(t)
    BY <2>4, <2>5 DEF EngineStarted, EngineNotReady, CancelStart, runtimeVars
  <2>6. CASE EngineReady(t)
    <3>1. CASE t \in Request
      BY <1>0, <2>6, <3>1, RequestMoves, TaskSets DEF EngineReady
    <3>2. CASE t \in Switcher
      BY <1>0, <2>6, <3>2, EndSwitchMoves, TaskSets DEF EngineReady, Switches
    <3>3. CASE t = Startup
      <4>1. PICK l \in {"queued", "warming", "done"} : Goto(t, l)
        BY <2>6, <3>3, TaskSets DEF EngineReady
      <4>2. Switches(t, l) = 0 /\ Switches(t, pc[t]) = 1
        BY <2>6, <3>3, TaskSets DEF EngineReady, Switches
      <4> QED BY <1>0, <2>6, <3>3, <4>1, <4>2, OtherMoves, TaskSets DEF EngineReady
    <3> QED BY <3>1, <3>2, <3>3 DEF SwitchTask
  <2> QED BY <1>1, <2>2, <2>3, <2>5, <2>6 DEF StartStep
<1>2. ASSUME NEW r \in Request, AcquireStep(r) PROVE OneMoves
  <2>1. CASE TakeLock(r) \/ Reload(r)
    BY <1>0, <2>1, RequestMoves DEF TakeLock, Reload, BeginStart, runtimeVars
  <2>2. CASE LeaveQueue(r) \/ FoundDisconnected(r)
    BY <1>0, <2>2, RefuseMoves DEF LeaveQueue, FoundDisconnected
  <2>3. CASE Recheck(r)
    BY <1>0, <2>3, RefuseMoves, RequestMoves DEF Recheck, runtimeVars
  <2>4. CASE Grant(r)
    <3>1. CASE Refuse(r, Refreshed(state))
      BY <1>0, <2>4, <3>1, RefuseMoves DEF Grant
    <3>2. CASE Goto(r, "leased") /\ queueDepth' = queueDepth - 1 /\ switching' = switching
      <4>1. /\ Switches(r, "leased") = 0 /\ Switches(r, pc[r]) = 0
            /\ Queues(r, "leased") = 0 /\ Queues(r, pc[r]) = 1
        BY <1>0, <2>4, TaskSets DEF Grant, Switches, Queues
      <4>2. Moves(r, "leased")
        BY <1>0, <3>2, <4>1 DEF Moves, Goto
      <4> QED BY <4>2, TaskSets DEF OneMoves
    <3> QED BY <2>4, <3>1, <3>2 DEF Grant
  <2> QED BY <1>2, <2>1, <2>2, <2>3, <2>4 DEF AcquireStep
<1>3. ASSUME NEW r \in Request, LeaseStep(r) PROVE OneMoves
  <2>1. ASSUME NEW reset, CloseLease(r, reset), pc[r] \in Leasing PROVE OneMoves
    BY <1>0, <2>1, RequestMoves DEF CloseLease, ReleaseLease, runtimeVars
  <2>2. CASE Estimate(r) \/ ForwardFails(r) \/ Answered(r) \/ StreamEnds(r) \/ StreamErrs(r) \/ StreamAbandoned(r)
    BY <2>1, <2>2 DEF Estimate, ForwardFails, Answered, StreamEnds, StreamErrs, StreamAbandoned
  <2>3. CASE Forward(r) \/ StreamOpens(r) \/ Quiesced(r) \/ NotQuiesced(r) \/ ResetEngine(r)
    BY <1>0, <2>3, RequestMoves
       DEF Forward, StreamOpens, Quiesced, NotQuiesced, ResetEngine, ReleaseLease, runtimeVars
  <2> QED BY <1>3, <2>2, <2>3 DEF LeaseStep
<1>4. ASSUME NEW s \in Switcher, SwitchStep(s) \/ \E m \in Model : SwitchBegins(s, m) PROVE OneMoves
  <2>0. /\ s \in SwitchTask /\ s # Startup /\ s \notin Request
        /\ \A l : Switches(s, l) = IF l # "idle" THEN 1 ELSE 0
    <3>1. s \in SwitchTask /\ s # Startup /\ s \notin Request
      BY TaskSets
    <3>2. \A l : Switches(s, l) = IF l # "idle" THEN 1 ELSE 0
      BY <3>1 DEF Switches
    <3> QED BY <3>1, <3>2
  <2>1. ASSUME NEW m, SwitchLocked(s, m, switching + 1 - Switches(s, pc[s])) PROVE OneMoves
    <3>1. CASE \E st : EndSwitch(s, st, switching + 1 - Switches(s, pc[s]))
      BY <1>0, <2>0, <2>1, <3>1, EndSwitchMoves DEF SwitchLocked
    <3>2. ASSUME NEW l \in {"stopping", "spawning"}, Goto(s, l), switching' = switching + 1 - Switches(s, pc[s])
          PROVE  OneMoves
      BY <1>0, <2>0, <2>1, <3>2, OtherMoves DEF SwitchLocked
    <3> QED BY <2>1, <3>1, <3>2 DEF SwitchLocked, BeginStart
  <2>2. CASE SwitchResumes(s)
    BY <1>0, <2>0, <2>1, <2>2 DEF SwitchResumes
  <2>3. ASSUME NEW m \in Model, SwitchBegins(s, m) PROVE OneMoves
    <3>1. CASE SwitchLocked(s, m, switching + 1)
      BY <1>0, <2>0, <2>1, <2>3, <3>1 DEF SwitchBegins
    <3>2. CASE Goto(s, "queued") /\ switching' = switching + 1 /\ UNCHANGED queueDepth
      BY <1>0, <2>0, <2>3, <3>2, OtherMoves DEF SwitchBegins
    <3> QED BY <2>3, <3>1, <3>2 DEF SwitchBegins
  <2>4. CASE OldStopped(s)
    BY <1>0, <2>0, <2>4, OtherMoves DEF OldStopped, BeginStart
  <2>5. CASE StopFails(s)
    BY <1>0, <2>0, <2>5, EndSwitchMoves DEF StopFails, Unwind
  <2> QED BY <1>4, <2>2, <2>3, <2>4, <2>5 DEF SwitchStep
<1>5. CASE LifespanStep \/ LifespanExits
  <2>0. /\ Startup \in SwitchTask
        /\ \A l : Switches(Shutdown, l) = 0
        /\ \A l : l \notin Starting => Switches(Startup, l) = 0
    BY TaskSets DEF Switches
  <2>1. CASE WarmupResumes \/ WarmupEnds \/ WarmupCancelled
    BY <1>0, <2>0, <2>1, OtherMoves DEF WarmupResumes, WarmupEnds, WarmupCancelled, runtimeVars
  <2>2. CASE ShutdownBegins \/ ShutdownResumes \/ ShutdownStops \/ LifespanExits
    BY <1>0, <2>0, <2>2, OtherMoves DEF ShutdownBegins, ShutdownResumes, ShutdownStops, ShutdownLocked, LifespanExits
  <2> QED BY <1>5, <2>1, <2>2 DEF LifespanStep
<1>6. ASSUME NEW r \in Request, NEW m \in Model, Arrive(r, m) PROVE OneMoves
  <2>1. /\ Switches(r, "reserved") = 0 /\ Switches(r, pc[r]) = 0
        /\ Queues(r, "reserved") = 1 /\ Queues(r, pc[r]) = 0
    BY <1>0, <1>6, TaskSets DEF Arrive, Switches, Queues
  <2>2. queueDepth + 1 <= MaxQueueSize + 1
    BY <1>0, <1>6, Limits DEF Arrive
  <2>3. Moves(r, "reserved")
    BY <1>0, <1>6, <2>1, <2>2 DEF Moves, Arrive, Goto
  <2> QED BY <2>3, TaskSets DEF OneMoves
<1>7. CASE UNCHANGED vars \/ Status \/ \E p \in Proc : Exits(p) \/ \E w \in Work : WorkFinishes(p, w)
  BY <1>7 DEF vars, Status, Exits, WorkFinishes, runtimeVars, taskVars, OneMoves
<1> QED BY <1>1, <1>2, <1>3, <1>4, <1>5, <1>6, <1>7 DEF Next, Environment

Switched == {s \in Switcher : pc[s] # "idle"}
Admitted == {r \in Request : pc[r] \in Admitting}

(* Both counters are exact, and queue_depth keeps within its bound.        *)
CountInv ==
  /\ switching = Cardinality(Switched) + Switches(Startup, pc[Startup])
  /\ queueDepth = Cardinality(Admitted)
  /\ queueDepth <= MaxQueueSize + 1

(* The cardinality of a set that may gain or lose one element.             *)
LEMMA OneElement ==
  ASSUME NEW S, IsFiniteSet(S), NEW T, NEW x,
         T = S \/ (x \notin S /\ T = S \cup {x}) \/ (x \in S /\ T = S \ {x})
  PROVE  Cardinality(T) = Cardinality(S) + (IF x \in T THEN 1 ELSE 0) - (IF x \in S THEN 1 ELSE 0)
<1>1. Cardinality(S) \in Nat
  BY FS_CardinalityType
<1>2. CASE T = S
  BY <1>1, <1>2
<1>3. CASE x \notin S /\ T = S \cup {x}
  BY <1>1, <1>3, FS_AddElement
<1>4. CASE x \in S /\ T = S \ {x}
  BY <1>1, <1>4, FS_RemoveElement
<1> QED BY <1>2, <1>3, <1>4

LEMMA CountStep ==
  ASSUME Ownership, CountInv, OneMoves
  PROVE  CountInv'
<1>1. CASE UNCHANGED <<pc, switching, queueDepth>>
  BY <1>1 DEF CountInv, Switched, Admitted
<1>2. ASSUME NEW t \in Task, NEW l \in PCs, Moves(t, l) PROVE CountInv'
  <2>1. /\ pc \in [Task -> PCs] /\ pc' = [pc EXCEPT ![t] = l]
        /\ IsFiniteSet(Switched) /\ IsFiniteSet(Admitted)
        /\ Cardinality(Switched) \in Nat /\ Cardinality(Admitted) \in Nat
    BY <1>2, FiniteTasks, FS_Subset, FS_CardinalityType
       DEF Moves, Ownership, LockInv, LockTypes, Switched, Admitted
  <2>2. /\ \A s \in Switcher : s \in Task /\ s # Startup
        /\ \A r \in Request : r \in Task
        /\ Startup \in Task
    BY TaskSets
  <2>3. Cardinality(Switched') = Cardinality(Switched) + (IF t \in Switched' THEN 1 ELSE 0) - (IF t \in Switched THEN 1 ELSE 0)
    <3>1. Switched' = Switched \/ (t \notin Switched /\ Switched' = Switched \cup {t})
          \/ (t \in Switched /\ Switched' = Switched \ {t})
      BY <2>1, <2>2 DEF Switched
    <3> QED BY <2>1, <3>1, OneElement
  <2>4. Cardinality(Admitted') = Cardinality(Admitted) + (IF t \in Admitted' THEN 1 ELSE 0) - (IF t \in Admitted THEN 1 ELSE 0)
    <3>1. Admitted' = Admitted \/ (t \notin Admitted /\ Admitted' = Admitted \cup {t})
          \/ (t \in Admitted /\ Admitted' = Admitted \ {t})
      BY <2>1, <2>2 DEF Admitted
    <3> QED BY <2>1, <3>1, OneElement
  <2>5. (Cardinality(Switched))' = Cardinality(Switched') /\ (Cardinality(Admitted))' = Cardinality(Admitted')
    OBVIOUS
  <2>6. /\ queueDepth' = Cardinality(Admitted')
        /\ queueDepth' <= MaxQueueSize + 1
    <3>1. /\ Queues(t, l) = IF t \in Admitted' THEN 1 ELSE 0
          /\ Queues(t, pc[t]) = IF t \in Admitted THEN 1 ELSE 0
      BY <2>1 DEF Queues, Admitted
    <3> QED BY <1>2, <2>1, <2>4, <3>1, Limits DEF Moves, CountInv
  <2>7. switching' = Cardinality(Switched') + Switches(Startup, pc'[Startup])
    <3>1. CASE t = Startup
      <4>1. t \notin Switched /\ t \notin Switched' /\ pc'[Startup] = l
        BY <2>1, <2>2, <3>1 DEF Switched
      <4>2. Switches(Startup, l) \in Int /\ Switches(Startup, pc[Startup]) \in Int
        BY DEF Switches
      <4> QED BY <1>2, <2>1, <2>3, <3>1, <4>1, <4>2 DEF Moves, CountInv
    <3>2. CASE t # Startup
      <4>1. pc'[Startup] = pc[Startup] /\ Switches(Startup, pc[Startup]) \in Int
        BY <2>1, <2>2, <3>2 DEF Switches
      <4>2. /\ Switches(t, l) = IF t \in Switched' THEN 1 ELSE 0
            /\ Switches(t, pc[t]) = IF t \in Switched THEN 1 ELSE 0
        BY <2>1, <3>2 DEF Switches, Switched
      <4> QED BY <1>2, <2>1, <2>3, <4>1, <4>2 DEF Moves, CountInv
    <3> QED BY <3>1, <3>2
  <2> QED BY <2>5, <2>6, <2>7 DEF CountInv
<1> QED BY <1>1, <1>2 DEF OneMoves

LEMMA CountInit == Init => CountInv
<1> SUFFICES ASSUME Init PROVE CountInv
  OBVIOUS
<1>1. /\ pc[Startup] = "spawning"
      /\ \A t \in Request \cup Switcher : pc[t] = "idle"
  BY TasksDiffer, TaskSets DEF Init
<1>2. Switched = {} /\ Admitted = {} /\ Switches(Startup, pc[Startup]) = 1
  BY <1>1 DEF Switched, Admitted, Switches, Starting, Admitting
<1> QED BY <1>2, FS_EmptySet, Limits DEF CountInv, Init

CountsSafe == Ownership /\ CountInv

LEMMA CountsInductive ==
  /\ Init => CountsSafe
  /\ CountsSafe /\ [Next]_vars => CountsSafe'
BY LockInit, OwnershipInit, OwnershipStep, StepMoves, CountInit, CountStep DEF CountsSafe, Ownership

(* queue_depth is the number of admissions neither granted nor given up,   *)
(* and never exceeds the configured bound by more than the one that needs  *)
(* no waiting.                                                             *)
THEOREM QueueSafe == Spec => []QueueDepthIsExact
<1>1. CountsSafe => QueueDepthIsExact
  BY DEF CountsSafe, CountInv, Admitted, QueueDepthIsExact
<1> QED BY <1>1, CountsInductive, PTL DEF Spec

(* switching is the number of switches under way: no early exit leaks one  *)
(* and makes the gateway refuse every later request.                       *)
THEOREM SwitchingSafe == Spec => []SwitchingIsExact
<1>1. CountsSafe => SwitchingIsExact
  BY TaskSets DEF CountsSafe, CountInv, Switched, Switches, SwitchingIsExact
<1> QED BY <1>1, CountsInductive, PTL DEF Spec

(* Type correctness, with both counters natural numbers.                   *)
THEOREM TypeSafe == Spec => []TypeOK
<1>1. CountsSafe => TypeOK
  <2> SUFFICES ASSUME CountsSafe PROVE TypeOK
    OBVIOUS
  <2>1. Cardinality(Switched) \in Nat /\ Cardinality(Admitted) \in Nat
    BY FiniteTasks, FS_Subset, FS_CardinalityType DEF Switched, Admitted
  <2>2. switching \in Nat /\ queueDepth \in Nat
    BY <2>1 DEF CountsSafe, CountInv, Switches
  <2> QED BY <2>2 DEF CountsSafe, Ownership, LockInv, LockTypes, Types, TypeOK
<1> QED BY <1>1, CountsInductive, PTL DEF Spec

----------------------------------------------------------------------------
(* The published state.                                                    *)

DrainsForASwitch == state = "draining" => switching > 0

LEMMA DrainStep ==
  ASSUME CountsSafe, DrainsForASwitch, [Next]_vars
  PROVE  DrainsForASwitch'
<1>0. /\ switching \in Nat
      /\ state = "draining" => engine # NoProc
      /\ \A t \in Task : pc[t] \in Starting => state = "loading"
  <2>1. switching \in Nat
    BY FiniteTasks, FS_Subset, FS_CardinalityType DEF CountsSafe, CountInv, Switches, Switched
  <2> QED BY <2>1, TaskSets DEF CountsSafe, Ownership, Coherent, StateCoherent, StartsCoherent, Starting
<1> DEFINE Plain == state' # "draining" \/ (state' = state /\ switching' = switching)
<1>1. CASE Plain
  BY <1>1 DEF DrainsForASwitch
<1>2. ASSUME NEW t \in Request \cup SwitchTask, StartStep(t) PROVE Plain
  <2>1. CASE Unwind(t)
    BY <2>1 DEF Unwind, Refuse, EndSwitch
  <2>2. CASE EngineReady(t)
    <3>1. state' = "ready"
      BY <2>2 DEF EngineReady, EndSwitch
    <3> QED BY <3>1
  <2>3. CASE Popen(t) \/ EngineStarted(t) \/ EngineNotReady(t) \/ CancelStart(t)
    BY <2>3 DEF Popen, EngineStarted, EngineNotReady, CancelStart, runtimeVars
  <2> QED BY <1>2, <2>1, <2>2, <2>3 DEF StartStep, StartRaises, AbortStart, AbortFails
<1>3. ASSUME NEW r \in Request, AcquireStep(r) PROVE Plain
  <2>1. ASSUME NEW st \in {state, Refreshed(state)}, Refuse(r, st) PROVE Plain
    BY <2>1 DEF Refuse, Refreshed
  <2>2. CASE LeaveQueue(r) \/ Recheck(r) \/ FoundDisconnected(r) \/ Grant(r)
    BY <2>1, <2>2 DEF LeaveQueue, Recheck, FoundDisconnected, Grant, runtimeVars
  <2>3. CASE TakeLock(r) \/ Reload(r)
    BY <2>3 DEF TakeLock, Reload, BeginStart, runtimeVars
  <2> QED BY <1>3, <2>2, <2>3 DEF AcquireStep
<1>4. ASSUME NEW r \in Request, LeaseStep(r) PROVE Plain
  <2>1. ASSUME NEW reset, CloseLease(r, reset) PROVE Plain
    BY <2>1 DEF CloseLease, runtimeVars
  <2>2. CASE Estimate(r) \/ ForwardFails(r) \/ Answered(r) \/ StreamEnds(r) \/ StreamErrs(r) \/ StreamAbandoned(r)
    BY <2>1, <2>2 DEF Estimate, ForwardFails, Answered, StreamEnds, StreamErrs, StreamAbandoned
  <2>3. CASE Forward(r) \/ StreamOpens(r) \/ Quiesced(r) \/ NotQuiesced(r) \/ ResetEngine(r)
    BY <2>3 DEF Forward, StreamOpens, Quiesced, NotQuiesced, ResetEngine, runtimeVars
  <2> QED BY <1>4, <2>2, <2>3 DEF LeaseStep
<1>5. ASSUME NEW s \in Switcher, SwitchStep(s) \/ \E m \in Model : SwitchBegins(s, m)
      PROVE  DrainsForASwitch'
  <2>1. ASSUME NEW m, NEW sw \in Nat, SwitchLocked(s, m, sw), sw \in {switching, switching + 1}
        PROVE  DrainsForASwitch'
    <3>1. CASE EndSwitch(s, state, sw)
      <4>1. switching' = sw - 1 /\ UNCHANGED engine
        BY <2>1, <3>1 DEF EndSwitch, SwitchLocked
      <4>2. state' = "draining" => state = "draining" /\ sw # 1
        BY <1>0, <3>1 DEF EndSwitch
      <4> QED BY <1>0, <2>1, <4>1, <4>2 DEF DrainsForASwitch
    <3>2. CASE EndSwitch(s, "ready", sw)
      BY <1>1, <3>2 DEF EndSwitch
    <3>3. CASE switching' = sw /\ state' = state
      BY <1>0, <2>1, <3>3 DEF DrainsForASwitch
    <3>4. CASE state' = "loading"
      BY <1>1, <3>4
    <3> QED BY <2>1, <3>1, <3>2, <3>3, <3>4 DEF SwitchLocked, BeginStart
  <2>2. CASE OldStopped(s) \/ StopFails(s)
    BY <1>1, <2>2 DEF OldStopped, StopFails, Unwind, Refuse, EndSwitch, BeginStart
  <2>3. CASE SwitchResumes(s)
    BY <1>0, <2>1, <2>3 DEF SwitchResumes
  <2>4. ASSUME NEW m \in Model, SwitchBegins(s, m) PROVE DrainsForASwitch'
    <3>1. CASE SwitchLocked(s, m, switching + 1)
      BY <1>0, <2>1, <3>1
    <3>2. CASE switching' = switching + 1
      BY <1>0, <3>2 DEF DrainsForASwitch
    <3> QED BY <2>4, <3>1, <3>2 DEF SwitchBegins
  <2> QED BY <1>5, <2>2, <2>3, <2>4 DEF SwitchStep
<1>6. CASE LifespanStep \/ LifespanExits \/ Status
  <2>1. CASE WarmupResumes \/ WarmupEnds \/ WarmupCancelled \/ LifespanExits
    BY <1>1, <2>1 DEF WarmupResumes, WarmupEnds, WarmupCancelled, LifespanExits, runtimeVars
  <2>2. CASE ShutdownBegins \/ ShutdownResumes \/ ShutdownStops
    BY <1>1, <2>2 DEF ShutdownBegins, ShutdownResumes, ShutdownStops, ShutdownLocked
  <2>3. CASE Status
    BY <1>1, <2>3 DEF Status, Refreshed
  <2> QED BY <1>6, <2>1, <2>2, <2>3 DEF LifespanStep
<1>7. CASE UNCHANGED vars \/ \E r \in Request, m \in Model : Arrive(r, m)
  BY <1>1, <1>7 DEF vars, Arrive, runtimeVars
<1>8. CASE \E p \in Proc : Exits(p) \/ \E w \in Work : WorkFinishes(p, w)
  BY <1>1, <1>8 DEF Exits, WorkFinishes, runtimeVars
<1> QED BY <1>1, <1>2, <1>3, <1>4, <1>5, <1>6, <1>7, <1>8 DEF Next, Environment

(* The state the gateway publishes agrees with the handle it owns, with    *)
(* the load under way, and draining lasts no longer than the switches.     *)
THEOREM StateSafe == Spec => []StateTellsTruth
<1>1. Init => CountsSafe /\ DrainsForASwitch
  BY CountsInductive DEF Init, DrainsForASwitch
<1>2. CountsSafe /\ DrainsForASwitch /\ [Next]_vars => CountsSafe' /\ DrainsForASwitch'
  BY CountsInductive, DrainStep
<1>3. CountsSafe /\ DrainsForASwitch => StateTellsTruth
  BY TaskSets DEF CountsSafe, Ownership, Coherent, StateCoherent, StartsCoherent, DrainsForASwitch,
         StateTellsTruth, Starting
<1> QED BY <1>1, <1>2, <1>3, PTL DEF Spec

----------------------------------------------------------------------------
(* Work in an engine.  Whether or not anybody looks, the ready engine does *)
(* nothing but what its mode tolerates, unless a request is being answered *)
(* or has ended and not yet given the lock back.                           *)

Ending == {"quiescing", "resetting"}
Allowed ==
  Tolerated(Mode(engine))
    \cup (IF \E r \in Request : pc[r] \in Relaying THEN {"active"} ELSE {})
    \cup (IF \E r \in Request : pc[r] \in Ending THEN Work ELSE {})

QuietInv ==
  /\ \A p \in Proc : p \notin live => native[p] = {}
  /\ spawned # NoProc => native[spawned] = {}
  /\ \A t \in Request \cup SwitchTask : pc[t] = "readying" => native[engine] = {}
  /\ \A r \in Request : pc[r] = "chat" => Mode(lease[r]) = "stream-disconnect"
  /\ state \in {"ready", "draining"} => native[engine] \subseteq Allowed

LEMMA WorkModes ==
  /\ \A p \in Proc : Mode(p) \in {"prefill-chunked", "restart", "stream-disconnect"}
  /\ \A mode \in {"prefill-chunked", "restart", "stream-disconnect"} : Tolerated(mode) \subseteq Work
BY ModelsAndProcs DEF Mode, Tolerated, Work

(* A step that adds no work, makes no engine ready and moves nobody out of *)
(* a lease.                                                                *)
LEMMA CalmKeeps ==
  ASSUME Ownership, QuietInv, UNCHANGED <<engine, spawned>>,
         \A p \in Proc : native'[p] \subseteq native[p] /\ (p \in live => p \in live' \/ native'[p] = {}),
         state' \in {"ready", "draining"} => state \in {"ready", "draining"},
         \A t \in Task : pc'[t] = pc[t] \/ (pc[t] \notin Relaying \cup Ending /\ pc'[t] \notin {"readying", "chat"}),
         \A r \in Request : pc'[r] = "chat" => lease'[r] = lease[r]
  PROVE  QuietInv'
<1>1. /\ \A p \in Proc : p \notin live' => native'[p] = {}
      /\ spawned' # NoProc => native'[spawned'] = {}
  BY DEF QuietInv, Ownership, Types
<1>2. \A t \in Request \cup SwitchTask : pc'[t] = "readying" => native'[engine] = {}
  <2> SUFFICES ASSUME NEW t \in Request \cup SwitchTask, pc[t] = "readying" PROVE native'[engine] = {}
    BY TaskSets
  <2>1. engine \in Proc /\ native[engine] = {}
    BY TaskSets DEF QuietInv, Ownership, Types, Coherent, StartsCoherent, Starting
  <2> QED  BY <2>1
<1>3. \A r \in Request : pc'[r] = "chat" => Mode(lease'[r]) = "stream-disconnect"
  BY TaskSets DEF QuietInv
<1>4. state' \in {"ready", "draining"} => engine \in Proc /\ native[engine] \subseteq Allowed
  BY DEF QuietInv, Ownership, Types, Coherent, StateCoherent
<1>5. Allowed \subseteq Allowed'
  <2>1. \A r \in Request : (pc[r] \in Relaying => pc'[r] \in Relaying) /\ (pc[r] \in Ending => pc'[r] \in Ending)
    BY TaskSets
  <2> QED  BY <2>1 DEF Allowed, Mode
<1> QED  BY <1>1, <1>2, <1>3, <1>4, <1>5 DEF QuietInv

(* A step of the task that runs under the lock.                            *)
LEMMA HolderKeeps ==
  ASSUME Ownership, QuietInv, NEW t \in Task, pc[t] \in Holding,
         \A u \in Task \ {t} : pc'[u] = pc[u],
         \A p \in Proc : p \notin live' => native'[p] = {},
         spawned' # NoProc => native'[spawned'] = {},
         t \in Request \cup SwitchTask /\ pc'[t] = "readying" => native'[engine'] = {},
         t \in Request /\ pc'[t] = "chat" => Mode(lease'[t]) = "stream-disconnect",
         state' \in {"ready", "draining"} =>
           native'[engine'] \subseteq
             Tolerated(Mode(engine')) \cup (IF t \in Request /\ pc'[t] \in Relaying THEN {"active"} ELSE {})
               \cup (IF t \in Request /\ pc'[t] \in Ending THEN Work ELSE {})
  PROVE  QuietInv'
<1>1. \A u \in Task \ {t} : pc'[u] \notin Holding
  BY Alone DEF Ownership
<1>2. \A u \in Request \cup SwitchTask : pc'[u] = "readying" => u = t
  BY <1>1, TaskSets DEF Holding, Starting
<1>3. \A r \in Request : pc'[r] = "chat" => r = t
  BY <1>1, TaskSets DEF Holding, Leasing, Relaying
<1>4. state' \in {"ready", "draining"} => native'[engine'] \subseteq Allowed'
  BY DEF Allowed
<1> QED  BY <1>2, <1>3, <1>4 DEF QuietInv

LEMMA KillEmpties ==
  ASSUME Ownership, QuietInv, NEW p \in Proc, Kill(p)
  PROVE  /\ \A q \in Proc : q \notin live' => native'[q] = {}
         /\ \A q \in Proc : native'[q] \subseteq native[q]
BY DEF QuietInv, Kill, Ownership, Types

(* A start or a stop under the lock that ends with the engine unusable.    *)
LEMMA UnwindKeeps ==
  ASSUME Ownership, QuietInv, NEW t \in Request \cup SwitchTask, Unwind(t), pc[t] \in Holding,
         spawned' = NoProc, \A p \in Proc : p \notin live' => native'[p] = {}
  PROVE  QuietInv'
<1>1. /\ t \in Task /\ state' = "failed" /\ pc'[t] \in {"idle", "done"}
      /\ \A u \in Task \ {t} : pc'[u] = pc[u]
  BY TaskSets DEF Unwind, Refuse, EndSwitch, Goto, Ownership, LockInv, LockTypes
<1> QED  BY <1>1, HolderKeeps

LEMMA StartStepQuiet ==
  ASSUME Ownership, QuietInv, NEW t \in Request \cup SwitchTask, StartStep(t)
  PROVE  QuietInv'
<1> USE TaskSets DEF Starting, Holding
<1>1. /\ t \in Task /\ pc \in [Task -> PCs] /\ pc[t] \in Starting /\ pc[t] \in Holding /\ state = "loading"
      /\ engine \in Proc \cup {NoProc} /\ spawned \in Proc \cup {NoProc} /\ native \in [Proc -> SUBSET Work]
      /\ \A p \in Proc : p \notin live => native[p] = {}
  BY DEF StartStep, Popen, EngineStarted, StartRaises, EngineReady, EngineNotReady, CancelStart,
         AbortStart, AbortFails, Ownership, LockInv, LockTypes, Types, Coherent, StartsCoherent, QuietInv
<1>2. CASE Popen(t)
  <2>1. /\ UNCHANGED <<pc, native, state>> /\ spawned' \in Proc /\ spawned' \notin live
        /\ live \subseteq live' /\ pc[t] # "readying" /\ pc[t] # "chat"
    BY <1>2 DEF Popen, runtimeVars, taskVars
  <2> QED  BY <1>1, <2>1, HolderKeeps
<1>3. CASE EngineStarted(t)
  <2>1. /\ UNCHANGED <<native, live, state>> /\ spawned' = NoProc /\ engine' = spawned /\ native[spawned] = {}
        /\ pc'[t] \in {"readying", "reaping"} /\ \A u \in Task \ {t} : pc'[u] = pc[u]
    BY <1>1, <1>3 DEF EngineStarted, Goto, QuietInv
  <2> QED  BY <1>1, <2>1, HolderKeeps
<1>4. CASE StartRaises(t)
  <2>1. \A p \in Proc : p \notin live' => native'[p] = {}
    BY <1>1, <1>4, KillEmpties DEF StartRaises
  <2> QED  BY <1>1, <1>4, <2>1, UnwindKeeps DEF StartRaises
<1>5. CASE EngineReady(t)
  <2>1. pc[t] = "readying" /\ engine \in live /\ engine \in Proc /\ native[engine] = {} /\ spawned = NoProc
    BY <1>1, <1>5, NoThread DEF EngineReady, Running, QuietInv, Ownership, Coherent, StartsCoherent
  <2>2. UNCHANGED <<engine, live, spawned>> /\ pc'[t] \notin {"readying", "chat"}
    BY <1>1, <1>5 DEF EngineReady, Goto, EndSwitch, SwitchTask
  <2>3. \A u \in Task \ {t} : pc'[u] = pc[u]
    BY <1>1, <1>5 DEF EngineReady, Goto, EndSwitch, SwitchTask
  <2>4. \/ native' = native
        \/ native' = [native EXCEPT ![engine] = @ \cup {"warmup"}] /\ Mode(engine) = "stream-disconnect"
    BY <1>1, <1>5 DEF EngineReady, SwitchTask
  <2>5. native'[engine] \subseteq Tolerated(Mode(engine)) /\ \A p \in Proc : p \notin live => native'[p] = {}
    BY <1>1, <2>1, <2>4 DEF Tolerated
  <2> QED  BY <1>1, <2>1, <2>2, <2>3, <2>5, HolderKeeps
<1>6. CASE EngineNotReady(t) \/ CancelStart(t)
  <2>1. /\ UNCHANGED <<engine, spawned, live, native, state, lease>>
        /\ pc'[t] \notin {"readying", "chat"} /\ \A u \in Task \ {t} : pc'[u] = pc[u]
    BY <1>1, <1>6 DEF EngineNotReady, CancelStart, Goto, runtimeVars, procVars
  <2>2. pc[t] \notin Relaying \cup Ending
    BY <1>1 DEF Relaying, Ending
  <2> QED  BY <1>1, <2>1, <2>2, CalmKeeps
<1>7. CASE AbortStart(t) \/ AbortFails(t)
  <2>1. spawned = NoProc /\ engine \in Proc
    BY <1>1, <1>7, NoThread DEF AbortStart, AbortFails, Ownership, Coherent, StartsCoherent
  <2>2. \A p \in Proc : p \notin live' => native'[p] = {}
    BY <1>1, <1>7, <2>1, KillEmpties DEF AbortStart, AbortFails, procVars
  <2> QED  BY <1>1, <1>7, <2>1, <2>2, UnwindKeeps DEF AbortStart, AbortFails, procVars
<1> QED  BY <1>2, <1>3, <1>4, <1>5, <1>6, <1>7 DEF StartStep

LEMMA AcquireStepQuiet ==
  ASSUME Ownership, QuietInv, NEW r \in Request, AcquireStep(r) \/ \E m \in Model : Arrive(r, m)
  PROVE  QuietInv'
<1>1. /\ r \in Task /\ pc \in [Task -> PCs]
      /\ pc[r] \in {"idle", "reserved", "queued", "admitted", "probing", "loaded"}
      /\ UNCHANGED <<engine, live, native, spawned>>
  BY TaskSets DEF AcquireStep, TakeLock, LeaveQueue, Recheck, FoundDisconnected, Reload, Grant, Arrive,
       Ownership, LockInv, LockTypes, runtimeVars, procVars
<1>2. /\ pc'[r] \notin {"readying", "chat"} /\ \A u \in Task \ {r} : pc'[u] = pc[u]
      /\ state' \in {state, "failed", "loading"}
      /\ \A q \in Request \ {r} : lease'[q] = lease[q]
  <2>1. ASSUME NEW st \in {state, Refreshed(state)}, Refuse(r, st)
        PROVE  /\ pc'[r] = "idle" /\ \A u \in Task \ {r} : pc'[u] = pc[u]
               /\ state' \in {state, "failed"} /\ lease' = lease
    BY <1>1, <2>1 DEF Refuse, Refreshed, Goto
  <2>2. CASE LeaveQueue(r) \/ FoundDisconnected(r)
    BY <2>1, <2>2 DEF LeaveQueue, FoundDisconnected
  <2>3. CASE Recheck(r)
    BY <1>1, <2>1, <2>3 DEF Recheck, Goto, runtimeVars
  <2>4. CASE Grant(r)
    <3>1. CASE Refuse(r, Refreshed(state))
      BY <2>1, <3>1
    <3>2. CASE Goto(r, "leased") /\ UNCHANGED state /\ lease' = [lease EXCEPT ![r] = engine]
      BY <1>1, <3>2 DEF Goto, Ownership, Types
    <3> QED  BY <2>4, <3>1, <3>2 DEF Grant
  <2>5. CASE TakeLock(r) \/ Reload(r) \/ \E m \in Model : Arrive(r, m)
    BY <1>1, <2>5 DEF TakeLock, Reload, Arrive, BeginStart, Goto, runtimeVars
  <2> QED  BY <2>2, <2>3, <2>4, <2>5 DEF AcquireStep
<1> QED  BY <1>1, <1>2, CalmKeeps DEF Relaying, Ending

(* What the holder of a lease finds.                                       *)
LEMMA LeaseFinds ==
  ASSUME Ownership, QuietInv, NEW r \in Request, pc[r] \in Leasing
  PROVE  /\ r \in Task /\ pc \in [Task -> PCs] /\ pc[r] \in Holding
         /\ spawned = NoProc /\ engine = lease[r] /\ engine \in Proc
         /\ native \in [Proc -> SUBSET Work]
         /\ \A p \in Proc : p \notin live => native[p] = {}
         /\ state \in {"ready", "draining"} /\ pc[r] \notin Ending =>
              native[engine] \subseteq
                Tolerated(Mode(engine)) \cup (IF pc[r] \in Relaying THEN {"active"} ELSE {})
<1>1. /\ r \in Task /\ pc \in [Task -> PCs] /\ pc[r] \in Holding /\ pc[r] \notin Starting
      /\ lease[r] # NoProc /\ engine = lease[r] /\ lease[r] \in Proc \cup {NoProc}
      /\ native \in [Proc -> SUBSET Work]
  BY TaskSets DEF Ownership, LockInv, LockTypes, Types, Coherent, LeasesCoherent, Holding, Leasing, Relaying, Starting
<1>2. spawned = NoProc
  BY <1>1, NoThread DEF Starting
<1>3. \A q \in Request : q # r => pc[q] \notin Relaying \cup Ending
  BY <1>1, Alone, TaskSets DEF Ownership, Holding, Leasing, Ending
<1>4. state \in {"ready", "draining"} /\ pc[r] \notin Ending =>
        native[engine] \subseteq
          Tolerated(Mode(engine)) \cup (IF pc[r] \in Relaying THEN {"active"} ELSE {})
  BY <1>3 DEF QuietInv, Allowed
<1> QED  BY <1>1, <1>2, <1>4 DEF QuietInv

(* Lease.close, with the work of the call in the engine or out of it.      *)
LEMMA CloseKeeps ==
  ASSUME Ownership, QuietInv, NEW r \in Request, NEW reset, CloseLease(r, reset),
         pc[r] \in Leasing \ Ending,
         native' \in [Proc -> SUBSET Work],
         \A p \in Proc : p \notin live => native'[p] = {},
         state \in {"ready", "draining"} /\ Mode(engine) # "prefill-chunked" /\ ~reset
           => native'[engine] \subseteq Tolerated(Mode(engine))
  PROVE  QuietInv'
<1>1. /\ r \in Task /\ pc \in [Task -> PCs] /\ pc[r] \in Holding /\ r \notin SwitchTask
      /\ spawned = NoProc /\ engine = lease[r] /\ engine \in Proc
  BY LeaseFinds, TaskSets
<1>2. UNCHANGED <<engine, state, live, spawned>>
  BY DEF CloseLease, runtimeVars
<1>3. \/ pc' = [pc EXCEPT ![r] = "quiescing"]
      \/ pc' = [pc EXCEPT ![r] = "resetting"]
      \/ pc' = [pc EXCEPT ![r] = "idle"] /\ Mode(engine) # "prefill-chunked" /\ ~reset
  BY <1>1 DEF CloseLease, ReleaseLease, Goto
<1>4. CASE pc'[r] \in Ending
  BY <1>1, <1>2, <1>3, <1>4, HolderKeeps DEF Ending, Relaying
<1>5. CASE pc'[r] = "idle"
  BY <1>1, <1>2, <1>3, <1>5, HolderKeeps DEF Ending, Relaying
<1> QED  BY <1>1, <1>3, <1>4, <1>5 DEF Ending

(* What WorkBecomes leaves in the engine.                                  *)
LEMMA WorkLeft ==
  ASSUME native \in [Proc -> SUBSET Work], NEW p \in Proc, NEW tags \in SUBSET Work,
         WorkBecomes(p, tags)
  PROVE  /\ native' \in [Proc -> SUBSET Work]
         /\ \A q \in Proc : native[q] = {} => native'[q] = {}
         /\ native'[p] \subseteq (native[p] \ {"active"}) \cup tags
<1>1. \A q \in Proc : native'[q] = IF q = p /\ "active" \in native[q]
                                     THEN (native[q] \ {"active"}) \cup tags ELSE native[q]
  BY DEF WorkBecomes
<1> QED  BY <1>1 DEF WorkBecomes

LEMMA LeaseStepQuiet ==
  ASSUME Ownership, QuietInv, NEW r \in Request, LeaseStep(r)
  PROVE  QuietInv'
<1>0. /\ r \in Task /\ pc \in [Task -> PCs] /\ pc[r] \in Holding /\ pc[r] \in Leasing /\ r \notin SwitchTask
      /\ spawned = NoProc /\ engine = lease[r] /\ engine \in Proc
      /\ native \in [Proc -> SUBSET Work]
      /\ \A p \in Proc : p \notin live => native[p] = {}
      /\ state \in {"ready", "draining"} /\ pc[r] \notin Ending =>
           native[engine] \subseteq
             Tolerated(Mode(engine)) \cup (IF pc[r] \in Relaying THEN {"active"} ELSE {})
  <2>1. pc[r] \in Leasing
    BY DEF LeaseStep, Forward, Estimate, ForwardFails, Answered, StreamOpens, StreamEnds, StreamErrs,
           StreamAbandoned, Quiesced, NotQuiesced, ResetEngine, Leasing, Relaying
  <2> QED  BY <2>1, LeaseFinds, TaskSets
<1>1. CASE Forward(r)
  <2>1. /\ UNCHANGED <<engine, state, live, spawned>> /\ pc' = [pc EXCEPT ![r] = "forwarding"]
        /\ native' = [native EXCEPT ![engine] = @ \cup {"active"}] /\ engine \in live
        /\ pc[r] \notin Ending \cup Relaying
    BY <1>1 DEF Forward, Goto, Running, runtimeVars, Ending, Relaying
  <2>2. /\ \A p \in Proc : p \notin live => native'[p] = {}
        /\ state \in {"ready", "draining"} => native'[engine] \subseteq Tolerated(Mode(engine)) \cup {"active"}
    BY <1>0, <2>1
  <2> QED  BY <1>0, <2>1, <2>2, HolderKeeps DEF Relaying
<1>2. CASE Estimate(r)
  <2>1. CloseLease(r, FALSE) /\ UNCHANGED native /\ pc[r] = "leased"
    BY <1>2 DEF Estimate
  <2>2. pc[r] \notin Ending \cup Relaying
    BY <2>1 DEF Ending, Relaying
  <2> QED  BY <1>0, <2>1, <2>2, CloseKeeps
<1>3. CASE ForwardFails(r)
  <2>1. CloseLease(r, TRUE) /\ UNCHANGED native /\ pc[r] \notin Ending
    BY <1>3 DEF ForwardFails, Ending
  <2> QED  BY <1>0, <2>1, CloseKeeps
<1>4. CASE Answered(r) \/ StreamEnds(r)
  <2>1. WorkBecomes(engine, {}) /\ CloseLease(r, FALSE) /\ pc[r] \notin Ending
    BY <1>0, <1>4 DEF Answered, StreamEnds, Ending
  <2>2. /\ native' \in [Proc -> SUBSET Work]
        /\ \A q \in Proc : native[q] = {} => native'[q] = {}
        /\ native'[engine] \subseteq native[engine] \ {"active"}
    BY <1>0, <2>1, WorkLeft
  <2> QED  BY <1>0, <2>1, <2>2, CloseKeeps
<1>5. CASE StreamErrs(r)
  <2>1. WorkBecomes(engine, {"severed"}) /\ CloseLease(r, FALSE) /\ pc[r] \notin Ending /\ {"severed"} \in SUBSET Work
    BY <1>0, <1>5 DEF StreamErrs, Ending, Work
  <2>2. /\ native' \in [Proc -> SUBSET Work]
        /\ \A q \in Proc : native[q] = {} => native'[q] = {}
        /\ native'[engine] \subseteq (native[engine] \ {"active"}) \cup {"severed"}
    BY <1>0, <2>1, WorkLeft
  <2>3. Mode(engine) # "prefill-chunked" => "severed" \in Tolerated(Mode(engine))
    BY <1>0, WorkModes DEF Tolerated
  <2> QED  BY <1>0, <2>1, <2>2, <2>3, CloseKeeps
<1>6. CASE StreamAbandoned(r)
  <2>1. CloseLease(r, pc[r] = "streaming") /\ pc[r] \notin Ending
    BY <1>6 DEF StreamAbandoned, Ending
  <2>2. CASE pc[r] = "chat"
    <3>1. WorkBecomes(engine, {"left"}) /\ {"left"} \in SUBSET Work /\ Mode(engine) = "stream-disconnect"
      BY <1>0, <1>6, <2>2 DEF StreamAbandoned, Work, QuietInv
    <3>2. /\ native' \in [Proc -> SUBSET Work]
          /\ \A q \in Proc : native[q] = {} => native'[q] = {}
          /\ native'[engine] \subseteq (native[engine] \ {"active"}) \cup {"left"}
      BY <1>0, <3>1, WorkLeft
    <3>3. "left" \in Tolerated(Mode(engine))
      BY <3>1 DEF Tolerated
    <3> QED  BY <1>0, <2>1, <3>2, <3>3, CloseKeeps
  <2>3. CASE pc[r] = "streaming"
    <3>1. UNCHANGED native
      BY <1>6, <2>3 DEF StreamAbandoned
    <3> QED  BY <1>0, <2>1, <2>3, <3>1, CloseKeeps
  <2> QED  BY <1>6, <2>2, <2>3 DEF StreamAbandoned
<1>7. CASE StreamOpens(r)
  <2>1. /\ UNCHANGED <<engine, state, live, native, spawned, lease>> /\ pc[r] = "forwarding"
        /\ \/ pc' = [pc EXCEPT ![r] = "streaming"]
           \/ pc' = [pc EXCEPT ![r] = "chat"] /\ Mode(lease[r]) = "stream-disconnect"
    BY <1>7 DEF StreamOpens, Goto, runtimeVars, procVars
  <2>2. pc'[r] \in {"streaming", "chat"} /\ \A u \in Task \ {r} : pc'[u] = pc[u]
    BY <1>0, <2>1
  <2> QED  BY <1>0, <2>1, <2>2, HolderKeeps DEF Relaying, Ending
<1>8. CASE Quiesced(r)
  <2>1. /\ UNCHANGED <<engine, state, live, native, spawned>> /\ pc' = [pc EXCEPT ![r] = "idle"]
        /\ native[engine] = {}
    BY <1>0, <1>8 DEF Quiesced, ReleaseLease, Goto, runtimeVars, procVars
  <2>2. pc'[r] = "idle" /\ \A u \in Task \ {r} : pc'[u] = pc[u]
    BY <1>0, <2>1
  <2> QED  BY <1>0, <2>1, <2>2, HolderKeeps
<1>9. CASE NotQuiesced(r)
  <2>1. /\ UNCHANGED <<engine, state, live, native, spawned>> /\ pc' = [pc EXCEPT ![r] = "resetting"]
    BY <1>9 DEF NotQuiesced, Goto, runtimeVars, procVars
  <2>2. pc'[r] = "resetting" /\ \A u \in Task \ {r} : pc'[u] = pc[u]
    BY <1>0, <2>1
  <2>3. pc'[r] \in Ending /\ native[engine] \subseteq Work
    BY <1>0, <2>2 DEF Ending
  <2> QED  BY <1>0, <2>1, <2>2, <2>3, HolderKeeps
<1>10. CASE ResetEngine(r)
  <2>1. /\ state' \notin {"ready", "draining"} /\ UNCHANGED spawned /\ pc' = [pc EXCEPT ![r] = "idle"]
    BY <1>10 DEF ResetEngine, ReleaseLease, Goto
  <2>2. pc'[r] = "idle" /\ \A u \in Task \ {r} : pc'[u] = pc[u]
    BY <1>0, <2>1
  <2>3. \A p \in Proc : p \notin live' => native'[p] = {}
    BY <1>0, <1>10, KillEmpties DEF ResetEngine
  <2> QED  BY <1>0, <2>1, <2>2, <2>3, HolderKeeps
<1> QED  BY <1>1, <1>2, <1>3, <1>4, <1>5, <1>6, <1>7, <1>8, <1>9, <1>10 DEF LeaseStep

LEMMA SwitchLockedQuiet ==
  ASSUME Ownership, QuietInv, NEW s \in Switcher, pc[s] \in {"idle", "queued"},
         NEW m, NEW sw, SwitchLocked(s, m, sw)
  PROVE  QuietInv'
<1>1. s \in Task /\ s # Startup /\ pc \in [Task -> PCs] /\ pc[s] \notin Relaying \cup Ending
  BY TaskSets DEF Ownership, LockInv, LockTypes, Relaying, Ending
<1>2. UNCHANGED <<engine, lease, live, native, spawned>>
  BY DEF SwitchLocked, procVars
<1>3. /\ state' \in {"ready", "draining"} => state \in {"ready", "draining"}
      /\ \E l \in {"idle", "stopping", "spawning"} : pc' = [pc EXCEPT ![s] = l]
  <2>1. CASE EndSwitch(s, state, sw) \/ (state \in {"ready", "draining"} /\ EndSwitch(s, "ready", sw))
    BY <1>1, <2>1 DEF EndSwitch, Goto
  <2>2. CASE \/ Goto(s, "stopping") /\ UNCHANGED state
             \/ BeginStart(s, m)
    BY <2>2 DEF Goto, BeginStart
  <2> QED  BY <2>1, <2>2 DEF SwitchLocked
<1>4. pc'[s] \in {"idle", "stopping", "spawning"} /\ \A u \in Task \ {s} : pc'[u] = pc[u]
  BY <1>1, <1>3
<1> QED  BY <1>1, <1>2, <1>3, <1>4, CalmKeeps

LEMMA SwitchStepQuiet ==
  ASSUME Ownership, QuietInv, NEW s \in Switcher, SwitchStep(s) \/ \E m \in Model : SwitchBegins(s, m)
  PROVE  QuietInv'
<1>0. /\ s \in Task /\ s \in SwitchTask /\ s \notin Request /\ s # Startup /\ pc \in [Task -> PCs]
  BY TaskSets DEF Ownership, LockInv, LockTypes
<1>1. CASE SwitchResumes(s)
  BY <1>1, SwitchLockedQuiet DEF SwitchResumes
<1>2. ASSUME NEW m \in Model, SwitchBegins(s, m) PROVE QuietInv'
  <2>1. CASE SwitchLocked(s, m, switching + 1)
    BY <1>2, <2>1, SwitchLockedQuiet DEF SwitchBegins
  <2>2. CASE Goto(s, "queued") /\ state' = (IF Locked /\ state = "ready" THEN "draining" ELSE state)
             /\ UNCHANGED <<engine, lease, procVars>>
    <3>1. /\ UNCHANGED <<engine, lease, live, native, spawned>> /\ pc[s] = "idle"
          /\ state' \in {"ready", "draining"} => state \in {"ready", "draining"}
      BY <1>2, <2>2 DEF procVars, SwitchBegins
    <3>2. pc'[s] = "queued" /\ \A u \in Task \ {s} : pc'[u] = pc[u]
      BY <1>0, <2>2 DEF Goto
    <3>3. pc[s] \notin Relaying \cup Ending
      BY <3>1 DEF Relaying, Ending
    <3> QED  BY <1>0, <3>1, <3>2, <3>3, CalmKeeps
  <2> QED  BY <1>2, <2>1, <2>2 DEF SwitchBegins
<1>3. CASE OldStopped(s) \/ StopFails(s)
  <2>1. pc[s] \in Holding /\ spawned = NoProc /\ engine \in Proc /\ \A p \in Proc : p \notin live => native[p] = {}
    <3>1. pc[s] = "stopping"
      BY <1>3 DEF OldStopped, StopFails
    <3>2. engine \in Proc
      BY <1>0, <3>1 DEF Ownership, Types, Coherent, StateCoherent
    <3>3. spawned = NoProc /\ pc[s] \in Holding
      BY <1>0, <3>1, NoThread DEF Holding
    <3> QED  BY <3>2, <3>3 DEF QuietInv
  <2>2. CASE OldStopped(s)
    <3>1. /\ state' = "loading" /\ UNCHANGED spawned
          /\ pc'[s] = "spawning" /\ \A u \in Task \ {s} : pc'[u] = pc[u]
      BY <1>0, <2>2 DEF OldStopped, BeginStart, Goto
    <3>2. \A p \in Proc : p \notin live' => native'[p] = {}
      BY <2>1, <2>2, KillEmpties DEF OldStopped
    <3> QED  BY <1>0, <2>1, <3>1, <3>2, HolderKeeps
  <2>3. CASE StopFails(s)
    BY <1>0, <2>1, <2>3, UnwindKeeps DEF StopFails, procVars
  <2> QED  BY <1>3, <2>2, <2>3
<1> QED  BY <1>1, <1>2, <1>3 DEF SwitchStep

LEMMA LifespanStepQuiet ==
  ASSUME Ownership, QuietInv, LifespanStep \/ LifespanExits
  PROVE  QuietInv'
<1>0. /\ Startup \in Task /\ Shutdown \in Task /\ Startup # Shutdown /\ pc \in [Task -> PCs]
      /\ Startup \notin Request /\ Shutdown \notin Request \cup SwitchTask
      /\ native \in [Proc -> SUBSET Work]
  BY TaskSets DEF Ownership, LockInv, LockTypes, Types
<1>1. CASE WarmupResumes
  <2>1. /\ UNCHANGED <<engine, state, selected, live, spawned, lease>> /\ pc[Startup] = "queued"
        /\ pc'[Startup] \in {"warming", "done"} /\ \A u \in Task \ {Startup} : pc'[u] = pc[u]
    BY <1>0, <1>1 DEF WarmupResumes, Goto, runtimeVars
  <2>2. pc[Startup] \notin Relaying \cup Ending
    BY <2>1 DEF Relaying, Ending
  <2>3. CASE UNCHANGED native
    BY <1>0, <2>1, <2>2, <2>3, CalmKeeps
  <2>4. CASE /\ native' = [native EXCEPT ![engine] = @ \cup {"warmup"}] /\ Running
             /\ state = "ready" /\ Cancellation[selected] = "stream-disconnect" /\ holder = NoTask
    <3>1. engine \in live /\ engine \in Proc /\ Mode(engine) = "stream-disconnect" /\ "warmup" \in Tolerated(Mode(engine))
      BY <2>4 DEF Ownership, Types, Coherent, StateCoherent, Running, Mode, Tolerated
    <3>2. /\ \A t \in Task : pc[t] \notin Holding
          /\ spawned = NoProc
      BY <2>4, NobodyRuns
    <3>3. /\ \A p \in Proc : p \notin live' => native'[p] = {}
          /\ spawned' = NoProc
      BY <1>0, <2>1, <2>4, <3>1, <3>2 DEF QuietInv
    <3>4. /\ \A t \in Request \cup SwitchTask : pc'[t] # "readying"
          /\ \A r \in Request : pc'[r] # "chat"
      BY <2>1, <3>2, TaskSets DEF Holding, Starting, Leasing, Relaying
    <3>5. native[engine] \subseteq Allowed /\ native'[engine] \subseteq native[engine] \cup {"warmup"}
      BY <1>0, <2>4, <3>1 DEF QuietInv
    <3>6. Allowed \subseteq Allowed' /\ Tolerated(Mode(engine)) \subseteq Allowed'
      BY <1>0, <2>1, TaskSets DEF Allowed, Mode
    <3> QED  BY <2>1, <3>1, <3>3, <3>4, <3>5, <3>6 DEF QuietInv
  <2> QED  BY <1>1, <2>3, <2>4 DEF WarmupResumes, IsNext, Locked
<1>2. CASE WarmupEnds \/ WarmupCancelled
  <2>1. /\ UNCHANGED <<engine, state, live, spawned, lease>> /\ pc[Startup] \in {"warming", "queued"}
        /\ pc'[Startup] = "done" /\ \A u \in Task \ {Startup} : pc'[u] = pc[u]
        /\ \A p \in Proc : native'[p] \subseteq native[p]
    BY <1>0, <1>2 DEF WarmupEnds, WarmupCancelled, Goto, runtimeVars, procVars
  <2>2. pc[Startup] \notin Relaying \cup Ending
    BY <2>1 DEF Relaying, Ending
  <2> QED  BY <1>0, <2>1, <2>2, CalmKeeps
<1>3. CASE ShutdownBegins \/ ShutdownResumes \/ LifespanExits
  <2>1. /\ UNCHANGED <<engine, live, native, spawned, lease>> /\ pc[Shutdown] \in {"joining", "queued", "serving"}
        /\ pc'[Shutdown] \in {"stopping", "done", "queued", "joining"} /\ \A u \in Task \ {Shutdown} : pc'[u] = pc[u]
        /\ state' \in {state, "stopped"}
    BY <1>0, <1>3 DEF ShutdownBegins, ShutdownResumes, ShutdownLocked, LifespanExits, Goto, procVars
  <2>2. pc[Shutdown] \notin Relaying \cup Ending
    BY <2>1 DEF Relaying, Ending
  <2> QED  BY <1>0, <2>1, <2>2, CalmKeeps
<1>4. CASE ShutdownStops
  <2>1. pc[Shutdown] \in Holding /\ pc[Shutdown] \notin {"spawning", "recovering"} /\ pc[Shutdown] = "stopping"
    BY <1>4 DEF ShutdownStops, Holding
  <2>2. spawned = NoProc /\ engine \in Proc
    BY <1>0, <2>1, NoThread DEF Ownership, Types, Coherent, StateCoherent
  <2>3. /\ state' \notin {"ready", "draining"} /\ UNCHANGED spawned
        /\ pc'[Shutdown] = "done" /\ \A u \in Task \ {Shutdown} : pc'[u] = pc[u]
    BY <1>0, <1>4 DEF ShutdownStops, Goto
  <2>4. \A p \in Proc : p \notin live' => native'[p] = {}
    BY <1>4, <2>2, KillEmpties DEF ShutdownStops, QuietInv
  <2> QED  BY <1>0, <2>1, <2>2, <2>3, <2>4, HolderKeeps
<1> QED  BY <1>1, <1>2, <1>3, <1>4 DEF LifespanStep

LEMMA WorldStepQuiet ==
  ASSUME Ownership, QuietInv,
         \/ Status
         \/ UNCHANGED vars
         \/ \E p \in Proc : Exits(p) \/ \E w \in Work : WorkFinishes(p, w)
  PROVE  QuietInv'
<1>0. native \in [Proc -> SUBSET Work]
  BY DEF Ownership, Types
<1>1. CASE Status \/ UNCHANGED vars
  BY <1>1, CalmKeeps DEF Status, vars, Refreshed, runtimeVars, taskVars, procVars
<1>2. ASSUME NEW p \in Proc, Exits(p) PROVE QuietInv'
  <2>1. /\ \A q \in Proc : q \notin live' => native'[q] = {}
        /\ \A q \in Proc : native'[q] \subseteq native[q]
    BY <1>2, KillEmpties DEF Exits
  <2>2. UNCHANGED <<engine, state, pc, lease, spawned>>
    BY <1>2 DEF Exits, runtimeVars, taskVars
  <2> QED  BY <2>1, <2>2, CalmKeeps
<1>3. ASSUME NEW p \in Proc, NEW w \in Work, WorkFinishes(p, w) PROVE QuietInv'
  <2>1. /\ \A q \in Proc : native'[q] \subseteq native[q]
        /\ UNCHANGED <<engine, state, pc, lease, spawned, live>>
    BY <1>0, <1>3 DEF WorkFinishes, runtimeVars, taskVars
  <2> QED  BY <2>1, CalmKeeps
<1> QED  BY <1>1, <1>2, <1>3

LEMMA QuietStep == Ownership /\ QuietInv /\ [Next]_vars => QuietInv'
BY StartStepQuiet, AcquireStepQuiet, LeaseStepQuiet, SwitchStepQuiet, LifespanStepQuiet, WorldStepQuiet
   DEF Next, Environment

(* A client that leaves never has its generation overlap with the next     *)
(* one's: when the lock is free and the engine can be granted, it runs     *)
(* nothing beyond what its cancellation mode tolerates, whatever the       *)
(* number of requests, switches, models and processes.                     *)
THEOREM EngineQuietSafe == Spec => []ReadyEngineIsQuiet
<1>1. Init => QuietInv
  BY TaskSets DEF Init, QuietInv
<1>2. Ownership /\ QuietInv => ReadyEngineIsQuiet
  <2> SUFFICES ASSUME Ownership, QuietInv, holder = NoTask, state \in {"ready", "draining"}
               PROVE  native[engine] \subseteq Tolerated(Mode(engine))
    BY DEF ReadyEngineIsQuiet
  <2>1. \A r \in Request : pc[r] \notin Relaying \cup Ending
    BY NobodyRuns, TaskSets DEF Holding, Leasing, Ending
  <2> QED  BY <2>1 DEF QuietInv, Allowed
<1> QED  BY <1>1, <1>2, OwnershipSafe, QuietStep, PTL DEF Spec

----------------------------------------------------------------------------
(* The promise to the callers, in the terms of ResidentService.            *)

ServiceInv == Ownership /\ ProcessesOwned /\ AfterShutdown

(* The steps of ResidentService, in the terms of this mapping.             *)
LEMMA ServiceSteps ==
  /\ UNCHANGED <<Resident, Client, Wish, Closed>> => UNCHANGED Service!vars
  /\ \A p \in Proc : (/\ ~Closed /\ Client = NoTask /\ Resident = NoProc
                      /\ Resident' = p /\ UNCHANGED <<Client, Wish, Closed>>) => Service!Next
  /\ \A r \in Request, m \in Model :
       (/\ ~Closed /\ Client = NoTask /\ Resident # NoProc /\ ModelOf[Resident] = m
        /\ Client' = r /\ Wish' = m /\ UNCHANGED <<Resident, Closed>>) => Service!Next
  /\ (/\ Client # NoTask /\ Client' = NoTask /\ Wish' = NoProc
      /\ Resident' \in {Resident, NoProc} /\ UNCHANGED Closed) => Service!Next
  /\ Resident' = NoProc /\ UNCHANGED <<Client, Wish, Closed>> => Service!Next
  /\ (/\ Client = NoTask /\ Closed' = TRUE
      /\ Resident' \in {Resident, NoProc} /\ UNCHANGED <<Client, Wish>>) => Service!Next
BY DEF Service!Next, Service!vars, Service!Load, Service!Serve, Service!EndService, Service!Exit,
       Service!Close, Resident, Client, Wish, Closed

LEMMA ResidentIs ==
  ASSUME Ownership, ProcessesOwned
  PROVE  \/ live = {} /\ Resident = NoProc
         \/ \E p \in Proc : live = {p} /\ Resident = p
<1>1. \A p, q \in live : p = q
  BY OneOf, ModelsAndProcs DEF Ownership, Types, ProcessesOwned
<1>2. live \subseteq Proc
  BY DEF Ownership, Types
<1> QED  BY <1>1, <1>2 DEF Resident

(* A process may be lost by a step, and none is gained.                    *)
LEMMA ResidentExits ==
  ASSUME Ownership, ProcessesOwned, live' \subseteq live
  PROVE  Resident' \in {Resident, NoProc}
BY ResidentIs DEF Resident

LEMMA ClientIs ==
  ASSUME Ownership
  PROVE  /\ \A r \in Request : lease[r] # NoProc => Client = r
         /\ (\A r \in Request : lease[r] = NoProc) => Client = NoTask
<1>1. \A q, r \in Request : lease[q] # NoProc /\ lease[r] # NoProc => q = r
  BY TaskSets DEF Ownership, LockInv, LockMatchesTasks, Coherent, LeasesCoherent, Holding
<1> QED  BY <1>1 DEF Client

LEMMA CurrentLeases == Ownership => LeaseIsCurrent
BY TaskSets DEF Ownership, LockInv, LockMatchesTasks, Coherent, LeasesCoherent, LeaseIsCurrent, Holding

(* Whoever is served asked for the model of the engine it has.             *)
Granted ==
  /\ \A r \in Request : lease[r] # NoProc => Client = r /\ Wish = ModelOf[lease[r]]
  /\ (\A r \in Request : lease[r] = NoProc) => Client = NoTask /\ Wish = NoProc

LEMMA WishIs == Ownership => Granted
BY ClientIs, CurrentLeases, TaskSets, TasksDiffer DEF Granted, Wish, LeaseIsCurrent

(* The wish changes with the leases only.                                  *)
LEMMA WishKept ==
  ASSUME Ownership, Ownership', lease' = lease
  PROVE  Wish' = Wish
<1>1. Granted /\ Granted'
  BY WishIs, PTL
<1> QED  BY <1>1 DEF Granted

(* A step that neither starts a process nor opens or closes a lease nor    *)
(* ends the shutdown is an exit or nothing.                                *)
LEMMA ExitOrNothing ==
  ASSUME Ownership, Ownership', ProcessesOwned, live' \subseteq live, lease' = lease, UNCHANGED Closed
  PROVE  Service!Next \/ UNCHANGED Service!vars
<1>1. Client' = Client
  BY DEF Client
<1> QED  BY <1>1, WishKept, ResidentExits, ServiceSteps

(* A lease ends; its process may be stopped.                               *)
LEMMA LeaseCloses ==
  ASSUME Ownership, ProcessesOwned, NEW r \in Request, lease[r] # NoProc,
         lease' = [lease EXCEPT ![r] = NoProc], live' \subseteq live, UNCHANGED Closed
  PROVE  Service!Next
<1>1. r # NoTask /\ lease \in [Request -> Proc \cup {NoProc}]
  BY TasksDiffer, TaskSets DEF Ownership, Types
<1>2. Client = r
  BY ClientIs
<1>3. \A q \in Request : lease'[q] = NoProc
  BY <1>1, <1>2, ClientIs
<1>4. Client' = NoTask /\ Wish' = NoProc
  BY <1>3 DEF Client, Wish
<1> QED  BY <1>1, <1>2, <1>4, ResidentExits, ServiceSteps

LEMMA PopenLoads ==
  ASSUME ServiceInv, NEW t \in Request \cup SwitchTask, Popen(t)
  PROVE  Service!Next
<1>1. /\ t \in Task /\ pc[t] \in {"spawning", "recovering"} /\ spawned = NoProc
      /\ pc[t] \in Holding /\ UNCHANGED <<pc, lease>>
  BY TaskSets DEF Popen, taskVars, Holding, Starting
<1>2. engine = NoProc
  BY <1>1 DEF ServiceInv, Ownership, Coherent, StartsCoherent, Starting
<1>3. live = {}
  BY <1>1, <1>2, ModelsAndProcs DEF ServiceInv, ProcessesOwned, Ownership, Types
<1>4. PICK p \in Proc : live' = {p}
  BY <1>3 DEF Popen
<1>5. Resident = NoProc /\ Resident' = p
  BY <1>3, <1>4 DEF Resident
<1>6. ~Closed
  BY <1>1 DEF ServiceInv, AfterShutdown, Closed
<1>7. \A r \in Request : lease[r] = NoProc
  BY <1>1, Alone, TaskSets DEF ServiceInv, Ownership, Coherent, LeasesCoherent, Holding, Leasing, Relaying
<1>8. Client = NoTask /\ UNCHANGED <<Client, Wish, Closed>>
  BY <1>1, <1>7 DEF Client, Wish, Closed
<1> QED  BY <1>5, <1>6, <1>8, ServiceSteps

LEMMA GrantServes ==
  ASSUME ServiceInv, ServiceInv', NEW r \in Request, Grant(r), lease' # lease
  PROVE  Service!Next
<1>1. /\ r \in Task /\ pc \in [Task -> PCs] /\ pc[r] \in {"probing", "loaded"} /\ pc[r] \in Holding
      /\ lease' = [lease EXCEPT ![r] = engine] /\ Refreshed(state) = "ready"
      /\ pc' = [pc EXCEPT ![r] = "leased"] /\ UNCHANGED live
  BY TaskSets DEF Grant, Refuse, Goto, procVars, Holding, ServiceInv, Ownership, LockInv, LockTypes
<1>2. engine \in live /\ engine \in Proc /\ ModelOf[engine] \in Model /\ engine # NoProc
  BY <1>1, ModelsAndProcs DEF Refreshed, Running, ServiceInv, Ownership, Types
<1>3. Resident = engine /\ UNCHANGED Resident
  BY <1>1, <1>2, ResidentIs DEF ServiceInv, Resident
<1>4. \A q \in Request : lease[q] = NoProc
  BY <1>1, Alone, TaskSets DEF ServiceInv, Ownership, Coherent, LeasesCoherent, Holding, Leasing, Relaying
<1>5. /\ lease'[r] = engine /\ \A q \in Request : q # r => lease'[q] = NoProc
  BY <1>1, <1>4 DEF ServiceInv, Ownership, Types
<1>6. Client = NoTask /\ Client' = r
  BY <1>2, <1>4, <1>5 DEF Client
<1>7. ~Closed /\ UNCHANGED Closed
  BY <1>1, TaskSets DEF ServiceInv, AfterShutdown, Closed
<1>8. Wish' = ModelOf[engine]
  <2>1. Ownership'
    BY DEF ServiceInv
  <2>2. Granted'
    BY <2>1, WishIs, PTL
  <2> QED  BY <1>2, <1>5, <2>2 DEF Granted
<1> QED  BY <1>2, <1>3, <1>6, <1>7, <1>8, ServiceSteps

LEMMA LeaseStepServes ==
  ASSUME ServiceInv, ServiceInv', NEW r \in Request, LeaseStep(r), UNCHANGED Closed
  PROVE  Service!Next \/ UNCHANGED Service!vars
<1>1. lease[r] # NoProc
  BY DEF LeaseStep, Forward, Estimate, ForwardFails, Answered, StreamOpens, StreamEnds, StreamErrs,
         StreamAbandoned, Quiesced, NotQuiesced, ResetEngine, Leasing, Relaying, ServiceInv,
         Ownership, Coherent, LeasesCoherent
<1>2. live' \subseteq live
  BY DEF LeaseStep, Forward, Estimate, ForwardFails, Answered, StreamOpens, StreamEnds, StreamErrs,
         StreamAbandoned, Quiesced, NotQuiesced, ResetEngine, CloseLease, Kill, procVars
<1>3. lease' = lease \/ lease' = [lease EXCEPT ![r] = NoProc]
  BY DEF LeaseStep, Forward, Estimate, ForwardFails, Answered, StreamOpens, StreamEnds, StreamErrs,
         StreamAbandoned, Quiesced, NotQuiesced, ResetEngine, CloseLease, ReleaseLease
<1> QED  BY <1>1, <1>2, <1>3, ExitOrNothing, LeaseCloses DEF ServiceInv

(* The gateway closes when nothing holds the lock but its exit path.       *)
LEMMA ShutdownCloses ==
  ASSUME ServiceInv, ServiceInv', ShutdownBegins \/ ShutdownResumes \/ ShutdownStops
  PROVE  Service!Next \/ UNCHANGED Service!vars
<1>1. lease' = lease /\ live' \subseteq live
  BY DEF ShutdownBegins, ShutdownResumes, ShutdownStops, Kill, procVars
<1>2. CASE UNCHANGED Closed
  BY <1>1, <1>2, ExitOrNothing DEF ServiceInv
<1>3. CASE ~UNCHANGED Closed
  <2>1. ~Closed /\ Closed'
    <3>1. ~Closed
      BY DEF Closed, ShutdownBegins, ShutdownResumes, ShutdownStops
    <3> QED  BY <3>1, <1>3 DEF Closed
  <2>2. \A r \in Request : lease[r] = NoProc
    <3>1. CASE holder = NoTask
      BY <3>1, NobodyRuns DEF ServiceInv
    <3>2. CASE ShutdownStops
      <4>1. pc[Shutdown] \in Holding /\ Shutdown \in Task
        BY <3>2, TaskSets DEF ShutdownStops, Holding
      <4> QED  BY <4>1, Alone, TaskSets DEF ServiceInv, Ownership, Coherent, LeasesCoherent, Holding
    <3>3. CASE ShutdownBegins /\ ~LockIsFree
      <4>1. Goto(Shutdown, "queued")
        BY <3>3 DEF ShutdownBegins
      <4>2. pc'[Shutdown] = "queued"
        BY <4>1, TaskSets DEF Goto, ServiceInv, Ownership, LockInv, LockTypes
      <4> QED  BY <4>2, <2>1 DEF Closed
    <3> QED  BY <3>1, <3>2, <3>3 DEF ShutdownBegins, ShutdownResumes, LockIsFree, IsNext, Locked
  <2>3. Client = NoTask /\ UNCHANGED <<Client, Wish>>
    BY <1>1, <2>2 DEF Client, Wish
  <2>4. Closed' = TRUE
    BY <2>1 DEF Closed
  <2> QED  BY <1>1, <2>3, <2>4, ResidentExits, ServiceSteps DEF ServiceInv
<1> QED  BY <1>2, <1>3

LEMMA ServiceStep ==
  ASSUME ServiceInv, ServiceInv', [Next]_vars
  PROVE  Service!Next \/ UNCHANGED Service!vars
<1>1. ~ShutdownBegins /\ ~ShutdownResumes /\ ~ShutdownStops /\ ~LifespanExits => UNCHANGED Closed
  BY OthersLeaveShutdown DEF Closed, ServiceInv
<1>2. CASE ShutdownBegins \/ ShutdownResumes \/ ShutdownStops
  BY <1>2, ShutdownCloses
<1>3. CASE LifespanExits
  <2>1. UNCHANGED Closed
    BY <1>3, TaskSets DEF LifespanExits, Goto, Closed, ServiceInv, Ownership, LockInv, LockTypes
  <2> QED  BY <1>3, <2>1, ExitOrNothing DEF LifespanExits, procVars, ServiceInv
<1>4. ASSUME UNCHANGED Closed, NEW t \in Request \cup SwitchTask, StartStep(t)
      PROVE  Service!Next \/ UNCHANGED Service!vars
  <2>1. CASE Popen(t)
    BY <2>1, PopenLoads
  <2>2. CASE ~Popen(t)
    <3>1. lease' = lease
      BY <1>4, <2>2 DEF StartStep, EngineStarted, StartRaises, EngineReady, EngineNotReady, CancelStart,
                        AbortStart, AbortFails, Unwind, Refuse, EndSwitch
    <3>2. live' \subseteq live
      BY <1>4, <2>2 DEF StartStep, EngineStarted, StartRaises, EngineReady, EngineNotReady, CancelStart,
                        AbortStart, AbortFails, Kill, procVars
    <3> QED  BY <1>4, <3>1, <3>2, ExitOrNothing DEF ServiceInv
  <2> QED  BY <2>1, <2>2
<1>5. ASSUME UNCHANGED Closed, NEW r \in Request, AcquireStep(r)
      PROVE  Service!Next \/ UNCHANGED Service!vars
  <2>1. CASE Grant(r) /\ lease' # lease
    BY <2>1, GrantServes
  <2>2. CASE lease' = lease
    <3>1. live' \subseteq live
      BY <1>5 DEF AcquireStep, TakeLock, LeaveQueue, Recheck, FoundDisconnected, Reload, Grant, procVars
    <3> QED  BY <1>5, <2>2, <3>1, ExitOrNothing DEF ServiceInv
  <2>3. ASSUME ~Grant(r) PROVE lease' = lease
    BY <1>5, <2>3 DEF AcquireStep, TakeLock, LeaveQueue, Recheck, FoundDisconnected, Reload, Refuse
  <2> QED  BY <2>1, <2>2, <2>3
<1>6. ASSUME UNCHANGED Closed, NEW r \in Request, LeaseStep(r)
      PROVE  Service!Next \/ UNCHANGED Service!vars
  BY <1>6, LeaseStepServes
<1>7. ASSUME UNCHANGED Closed, NEW s \in Switcher, SwitchStep(s) \/ \E m \in Model : SwitchBegins(s, m)
      PROVE  Service!Next \/ UNCHANGED Service!vars
  <2>1. lease' = lease
    BY <1>7, TasksDiffer, TaskSets DEF SwitchStep, SwitchResumes, SwitchBegins, SwitchLocked, OldStopped, StopFails, Unwind, Refuse
  <2>2. live' \subseteq live
    BY <1>7 DEF SwitchStep, SwitchResumes, SwitchBegins, SwitchLocked, OldStopped, StopFails, Kill, procVars
  <2> QED  BY <1>7, <2>1, <2>2, ExitOrNothing DEF ServiceInv
<1>8. ASSUME UNCHANGED Closed,
             \/ WarmupResumes \/ WarmupEnds \/ WarmupCancelled \/ Status
             \/ \E r \in Request, m \in Model : Arrive(r, m)
             \/ \E p \in Proc : Exits(p) \/ \E w \in Work : WorkFinishes(p, w)
             \/ UNCHANGED vars
      PROVE  Service!Next \/ UNCHANGED Service!vars
  <2>1. lease' = lease /\ live' \subseteq live
    BY <1>8 DEF WarmupResumes, WarmupEnds, WarmupCancelled, Status, Arrive, Exits, WorkFinishes, Kill,
                vars, taskVars, procVars
  <2> QED  BY <1>8, <2>1, ExitOrNothing DEF ServiceInv
<1> QED  BY <1>1, <1>2, <1>3, <1>4, <1>5, <1>6, <1>7, <1>8 DEF Next, Environment, LifespanStep

(* If a failed start can always be cleaned up, what the lock, the queue,   *)
(* the threads and the tasks do amounts to the service promised to the     *)
(* callers: every step is one of its steps, or nothing they could notice.  *)
THEOREM ServiceImplemented == ASSUME CleanupCanFail = FALSE PROVE Spec => ImplementsService
<1>1. Init => ServiceInv
  BY LockInit, OwnershipInit, TaskSets DEF ServiceInv, Ownership, Init, ProcessesOwned, AfterShutdown
<1>2. ServiceInv /\ [Next]_vars => ServiceInv'
  BY OwnershipStep, ProcessStep, AfterShutdownStep DEF ServiceInv
<1>3. Init => Service!Init
  <2> SUFFICES ASSUME Init PROVE Resident = NoProc /\ Client = NoTask /\ Wish = NoProc /\ Closed = FALSE
    BY DEF Service!Init, Resident, Client, Wish, Closed
  <2>1. Resident = NoProc
    BY DEF Init, Resident
  <2>2. \A r \in Request : lease[r] = NoProc
    BY DEF Init
  <2>3. pc[Shutdown] = "serving"
    BY TaskSets, TasksDiffer DEF Init
  <2> QED  BY <2>1, <2>2, <2>3 DEF Client, Wish, Closed
<1>4. ServiceInv /\ [Next]_vars => [Service!Next]_Service!vars
  BY <1>2, ServiceStep
<1> QED  BY <1>1, <1>2, <1>3, <1>4, PTL DEF Spec, ImplementsService, Service!Spec

==============================================================================
